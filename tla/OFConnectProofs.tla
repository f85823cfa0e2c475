-------------------------- MODULE OFConnectProofs ---------------------------
(***************************************************************************)
(* Proofs about OFConnect for any number of connections and messages.      *)
(***************************************************************************)
EXTENDS OFConnect, TLAPS

USE OFConnectAssumption DEF Conns, ToSwitch, FromSwitch, Answered

\* Appending to the second of two sequences appends to their concatenation.
LEMMA ConcatAppend ==
    ASSUME NEW S, NEW s \in Seq(S), NEW t \in Seq(S), NEW x \in S
    PROVE  s \o Append(t, x) = Append(s \o t, x)
OBVIOUS

\* Moving the head of the second to the end of the first leaves their concatenation alone.
LEMMA ConcatMoveHead ==
    ASSUME NEW S, NEW s \in Seq(S), NEW t \in Seq(S), t # <<>>
    PROVE  Append(s, Head(t)) \o Tail(t) = s \o t
OBVIOUS

\* What is left of a queue after its head is taken.
LEMMA TailOK ==
    ASSUME NEW S, NEW s \in Seq(S), s # <<>>
    PROVE  Head(s) \in S /\ Tail(s) \in Seq(S)
OBVIOUS

\* A queue with one more element.
LEMMA AppendOK ==
    ASSUME NEW S, NEW s \in Seq(S), NEW x \in S
    PROVE  Append(s, x) \in Seq(S) /\ Append(s, x) # <<>>
OBVIOUS

\* A part of a well-typed socket is well typed.
LEMMA RestOK ==
    ASSUME NEW S, NEW s \in Seq(S), NEW k \in 1..Len(s)
    PROVE  SubSeq(s, k + 1, Len(s)) \in Seq(S)
OBVIOUS

\* So is what a read that ends inside a message leaves of it.
LEMMA CutOK ==
    ASSUME NEW S, NEW s \in Seq(S), NEW x \in S
    PROVE  <<x>> \o s \in Seq(S)
OBVIOUS

-----------------------------------------------------------------------------
\* The initial state is well typed.
LEMMA TypeInit == Init => TypeOK
<1> SUFFICES ASSUME Init PROVE TypeOK
  OBVIOUS
<1>1. /\ queue \in Seq(ToSwitch) /\ sent \in Seq(ToSwitch) /\ written \in Seq(ToSwitch)
      /\ conn \in 0..MaxConns /\ accepted \in 0..MaxConns /\ datapathID \in 0..MaxConns
  BY DEF Init
<1>2. closed \in [Conns -> BOOLEAN]
  BY DEF Init
<1>3. /\ toCtl \in [Conns -> Seq(FromSwitch \cup {"rest"})]
      /\ heard \in [Answered -> Nat]
      /\ toSwitch \in [Conns -> Seq(ToSwitch)] /\ got \in [Conns -> ToSwitch \cup {None}]
  BY DEF Init
<1>4. QED
  BY <1>1, <1>2, <1>3 DEF Init, TypeOK

\* What the switch says is a message.
LEMMA SayOK ==
    ASSUME TypeOK, NEW c \in Conns, NEW m \in FromSwitch, Say(c, m)
    PROVE  toCtl' \in [Conns -> Seq(FromSwitch \cup {"rest"})]
<1>1. toCtl \in [Conns -> Seq(FromSwitch \cup {"rest"})] /\ toCtl[c] \in Seq(FromSwitch \cup {"rest"})
  BY DEF TypeOK
<1>2. Append(toCtl[c], m) \in Seq(FromSwitch \cup {"rest"})
  BY <1>1, AppendOK
<1>3. QED
  BY <1>1, <1>2 DEF Say

\* What the switch does keeps every type.
LEMMA TypeSwitch == ASSUME TypeOK, NEW c \in Conns, Switch(c) PROVE TypeOK'
<1> USE DEF TypeOK, queueVars, connVars, srvVars, hdlVars, runVars
<1>1. CASE Dial(c)
  <2>1. toCtl' \in [Conns -> Seq(FromSwitch \cup {"rest"})]
    BY <1>1, SayOK DEF Dial
  <2>2. QED
    BY <1>1, <2>1 DEF Dial
<1>2. CASE Unasked(c)
  <2>1. toCtl' \in [Conns -> Seq(FromSwitch \cup {"rest"})]
    BY <1>2, SayOK DEF Unasked
  <2>2. /\ unasked' \in Nat
        /\ UNCHANGED <<queueVars, connVars, pq, srvVars, hdlVars, runVars, peer, toSwitch, cuts, got,
                       sent, written>>
    BY <1>2 DEF Unasked
  <2>3. QED
    BY <2>1, <2>2
<1>3. CASE SwitchRead(c)
  <2>1. got[c] \in ToSwitch \cup {None} /\ toSwitch[c] \in Seq(ToSwitch) /\ toSwitch[c] # <<>>
    BY <1>3 DEF SwitchRead
  <2>2. Head(toSwitch[c]) \in ToSwitch /\ Tail(toSwitch[c]) \in Seq(ToSwitch)
    BY <2>1, TailOK
  <2>3. toSwitch' \in [Conns -> Seq(ToSwitch)]
    BY <1>3, <2>2 DEF SwitchRead
  <2>4. got' \in [Conns -> ToSwitch \cup {None}]
    BY <1>3, <2>1, <2>2 DEF SwitchRead
  <2>5. toCtl' \in [Conns -> Seq(FromSwitch \cup {"rest"})]
    <3>1. CASE Say(c, "featuresReply")
      BY <3>1, SayOK
    <3>2. CASE toCtl' = toCtl
      BY <3>2
    <3>3. QED
      BY <1>3, <3>1, <3>2 DEF SwitchRead
  <2>6. QED
    BY <1>3, <2>3, <2>4, <2>5 DEF SwitchRead
<1>4. CASE HangUp(c)
  <2>1. peer' \in [Conns -> {"none", "up", "down"}]
    BY <1>4 DEF HangUp
  <2>2. toSwitch' \in [Conns -> Seq(ToSwitch)]
    BY <1>4 DEF HangUp
  <2>3. UNCHANGED <<queueVars, connVars, pq, srvVars, hdlVars, runVars, toCtl, unasked, cuts, got,
                    sent, written>>
    BY <1>4 DEF HangUp
  <2>4. QED
    BY <2>1, <2>2, <2>3
<1>5. QED
  BY <1>1, <1>2, <1>3, <1>4 DEF Switch

\* What a read leaves in the socket.
LEMMA ReadAheadOK ==
    ASSUME TypeOK, NEW c \in Conns, ReadAhead(c)
    PROVE  toCtl' \in [Conns -> Seq(FromSwitch \cup {"rest"})] /\ cuts' \in Nat
<1>1. /\ toCtl \in [Conns -> Seq(FromSwitch \cup {"rest"})] /\ cuts \in Nat
      /\ toCtl[c] \in Seq(FromSwitch \cup {"rest"})
  BY DEF TypeOK
<1>2. PICK k \in 1..Len(toCtl[c]) :
        \/ /\ toCtl' = [toCtl EXCEPT ![c] = SubSeq(toCtl[c], k + 1, Len(toCtl[c]))]
           /\ cuts' = cuts
        \/ /\ toCtl' = [toCtl EXCEPT ![c] = <<"rest">> \o SubSeq(toCtl[c], k + 1, Len(toCtl[c]))]
           /\ cuts' = cuts + 1
  BY DEF ReadAhead
<1> DEFINE left == SubSeq(toCtl[c], k + 1, Len(toCtl[c]))
           cut == <<"rest">> \o left
<1>3. left \in Seq(FromSwitch \cup {"rest"})
  BY <1>1, RestOK
<1>4. \/ toCtl' = [toCtl EXCEPT ![c] = left] /\ cuts' = cuts
      \/ toCtl' = [toCtl EXCEPT ![c] = cut] /\ cuts' = cuts + 1
  BY <1>2
<1> HIDE DEF left
<1>5. cut \in Seq(FromSwitch \cup {"rest"})
  BY <1>3, CutOK
<1> HIDE DEF cut
<1>6. toCtl' \in [Conns -> Seq(FromSwitch \cup {"rest"})]
  BY <1>1, <1>3, <1>4, <1>5
<1>7. QED
  BY <1>1, <1>4, <1>6

\* Serve, handleConn and Run keep every type.
LEMMA TypeGoroutines ==
    ASSUME TypeOK,
           Accept \/ SetConnection \/ Send \/ (\E c \in Conns : handleConn(c) \/ Receive(c))
    PROVE  TypeOK'
<1> USE DEF TypeOK
<1>1. CASE Accept
  <2>1. accepted + 1 \in Conns
    BY <1>1 DEF Accept
  <2>2. /\ accepted' \in 0..MaxConns /\ srv' = "set" /\ accepted' \in Conns
        /\ UNCHANGED <<queueVars, connVars, pq, hdlVars, runVars, netVars, sent, written>>
    BY <1>1, <2>1 DEF Accept
  <2>3. QED
    BY <2>2 DEF queueVars, connVars, hdlVars, runVars, netVars
<1>2. CASE SetConnection
  BY <1>2 DEF SetConnection, WakeConn, queueVars, runVars, netVars
<1>3. CASE Send
  <2>1. queue' \in Seq(ToSwitch) /\ sent' \in Seq(ToSwitch)
    BY <1>3, AppendOK DEF Send
  <2>2. QED
    BY <1>3, <2>1 DEF Send, connVars, srvVars, hdlVars, netVars
<1>4. ASSUME NEW c \in Conns, ReadMessage(c) PROVE TypeOK'
  <2>1. PICK m \in IF Framed(c) THEN {Head(toCtl[c])} ELSE FromSwitch :
          /\ msg' = [msg EXCEPT ![c] = m]
          /\ heard' = [n \in Answered |-> heard[n] + IF n = m THEN 1 ELSE 0]
    BY <1>4 DEF ReadMessage
  <2>2. toCtl[c] \in Seq(FromSwitch \cup {"rest"}) /\ toCtl[c] # <<>>
    BY <1>4 DEF ReadMessage
  <2>3. m \in FromSwitch
    <3>1. Head(toCtl[c]) \in FromSwitch \cup {"rest"}
      BY <2>2, TailOK
    <3>2. QED
      BY <2>1, <3>1 DEF Framed
  <2>4. toCtl' \in [Conns -> Seq(FromSwitch \cup {"rest"})] /\ cuts' \in Nat
    BY <1>4, ReadAheadOK DEF ReadMessage
  <2>5. msg' \in [Conns -> FromSwitch \cup {None}]
    BY <2>1, <2>3
  <2>6. heard' \in [Answered -> Nat]
    BY <2>1
  <2>7. /\ handler' \in [Conns -> {"none", "read", "deliver", "done"}]
        /\ UNCHANGED <<queueVars, connVars, pq, srvVars, closed, runVars, peer, toSwitch, unasked,
                       got, sent, written>>
    BY <1>4 DEF ReadMessage
  <2>8. QED
    BY <2>4, <2>5, <2>6, <2>7 DEF queueVars, connVars, srvVars, runVars
<1>5. ASSUME NEW c \in Conns, ReadError(c) PROVE TypeOK'
  <2>1. closed' \in [Conns -> BOOLEAN]
    BY <1>5 DEF ReadError
  <2>2. QED
    BY <1>5, <2>1 DEF ReadError, queueVars, connVars, srvVars, runVars, netVars
<1>6. ASSUME NEW c \in Conns, Receive(c) PROVE TypeOK'
  <2>1. handler' \in [Conns -> {"none", "read", "deliver", "done"}]
    BY <1>6 DEF Receive
  <2>2. msg' \in [Conns -> FromSwitch \cup {None}]
    BY <1>6 DEF Receive
  <2>3. /\ run' \in {"receive", "send"} /\ reply' \in ToSwitch \cup {None}
        /\ run' = "send" => reply' # None
        /\ datapathID' \in 0..MaxConns
    <3>1. CASE msg[c] = "echoRequest" \/ msg[c] = "hello"
      <4>1. /\ run' = "send" /\ reply' \in {"echoReply", "featuresRequest"}
            /\ datapathID' = datapathID
        BY <1>6, <3>1 DEF Receive
      <4>2. QED
        BY <4>1
    <3>2. CASE msg[c] = "featuresReply"
      <4>1. datapathID' = c /\ run' = run /\ reply' = reply
        BY <1>6, <3>2 DEF Receive
      <4>2. QED
        BY <4>1
    <3>3. CASE msg[c] = "other"
      <4>1. datapathID' = datapathID /\ run' = run /\ reply' = reply
        BY <1>6, <3>3 DEF Receive
      <4>2. QED
        BY <4>1
    <3>4. QED
      BY <1>6, <3>1, <3>2, <3>3 DEF Receive
  <2>4. UNCHANGED <<queueVars, connVars, pq, srvVars, closed, heard, netVars, sent, written>>
    BY <1>6 DEF Receive
  <2>5. QED
    BY <2>1, <2>2, <2>3, <2>4 DEF queueVars, connVars, srvVars, netVars
<1>7. QED
  BY <1>1, <1>2, <1>3, <1>4, <1>5, <1>6 DEF handleConn

\* ProcessQueue keeps every type, given that it never takes the head of an empty queue.
LEMMA TypeProcessQueue == ASSUME TypeOK, HeadExists, ProcessQueue PROVE TypeOK'
<1> USE DEF TypeOK, srvVars, hdlVars, runVars
<1>1. CASE CheckConn \/ ConnWoken \/ LockQueue \/ QueueWoken \/ WriteBegin
  BY <1>1 DEF CheckConn, ConnWoken, LockQueue, QueueWoken, WriteBegin, queueVars, connVars, netVars
<1>2. CASE WriteOk
  <2>1. queue # <<>> /\ queue \in Seq(ToSwitch) /\ written \in Seq(ToSwitch)
    BY <1>2 DEF WriteOk, HeadExists
  <2>2. Head(queue) \in ToSwitch /\ Tail(queue) \in Seq(ToSwitch)
    BY <2>1, TailOK
  <2>3. queue' \in Seq(ToSwitch) /\ written' \in Seq(ToSwitch)
    BY <1>2, <2>1, <2>2, AppendOK DEF WriteOk
  <2>4. conn \in Conns /\ toSwitch[conn] \in Seq(ToSwitch)
    BY <1>2 DEF WriteOk
  <2>5. Append(toSwitch[conn], Head(queue)) \in Seq(ToSwitch)
    BY <2>2, <2>4, AppendOK
  <2>6. toSwitch' \in [Conns -> Seq(ToSwitch)]
    BY <1>2, <2>4, <2>5 DEF WriteOk
  <2>7. QED
    BY <1>2, <2>3, <2>6 DEF WriteOk, WriteEnd
<1>3. CASE WriteError
  BY <1>3 DEF WriteError, WriteEnd
<1>4. QED
  BY <1>1, <1>2, <1>3 DEF ProcessQueue

-----------------------------------------------------------------------------
\* The inductive invariant: types, and what ProcessQueue relies on without testing it.
IInv == TypeOK /\ HeadExists /\ ConnSet /\ NoLostWakeup /\ QueueFIFO

\* It holds initially: the hello is queued, nothing is written.
LEMMA IInvInit == Init => IInv
<1> SUFFICES ASSUME Init PROVE IInv
  OBVIOUS
<1>1. QueueFIFO
  BY DEF Init, QueueFIFO
<1>2. QED
  BY <1>1, TypeInit DEF Init, IInv, HeadExists, ConnSet, NoLostWakeup

\* A new connection wakes ProcessQueue and is never nil.
LEMMA SetConnectionStep == ASSUME IInv, SetConnection PROVE IInv'
<1>1. TypeOK'
  BY TypeGoroutines DEF IInv
<1>2. accepted # 0 /\ conn' = accepted /\ UNCHANGED <<queue, written, sent>>
  BY DEF IInv, TypeOK, SetConnection, queueVars
<1>3. HeadExists' /\ ConnSet' /\ NoLostWakeup'
  BY <1>2 DEF IInv, HeadExists, ConnSet, NoLostWakeup, SetConnection, WakeConn
<1>4. QueueFIFO'
  BY <1>2 DEF IInv, QueueFIFO
<1>5. QED
  BY <1>1, <1>3, <1>4 DEF IInv

\* A new message wakes ProcessQueue and goes to the end.
LEMMA SendStep == ASSUME IInv, Send PROVE IInv'
<1>1. TypeOK'
  BY TypeGoroutines DEF IInv
<1>2. reply \in ToSwitch
  BY DEF IInv, TypeOK, Send
<1>3. queue' # <<>>
  BY <1>2, AppendOK DEF IInv, TypeOK, Send
<1>4. HeadExists' /\ ConnSet' /\ NoLostWakeup'
  BY <1>3 DEF IInv, HeadExists, ConnSet, NoLostWakeup, Send, connVars
<1>5. QueueFIFO'
  <2>0. written \in Seq(ToSwitch) /\ queue \in Seq(ToSwitch)
    BY DEF IInv, TypeOK
  <2>1. written \o Append(queue, reply) = Append(written \o queue, reply)
    BY <1>2, <2>0, ConcatAppend
  <2>2. QED
    BY <2>1 DEF IInv, QueueFIFO, Send
<1>6. QED
  BY <1>1, <1>4, <1>5 DEF IInv

\* ProcessQueue moves the head of the queue to the connection, or leaves it in place.
LEMMA ProcessQueueStep == ASSUME IInv, ProcessQueue PROVE IInv'
<1>1. TypeOK'
  BY TypeProcessQueue DEF IInv
<1>2. CASE CheckConn \/ ConnWoken \/ LockQueue \/ QueueWoken \/ WriteBegin
  <2>1. UNCHANGED <<queue, written, sent, conn>>
    BY <1>2 DEF CheckConn, ConnWoken, LockQueue, QueueWoken, WriteBegin, queueVars, connVars
  <2>2. HeadExists' /\ ConnSet' /\ NoLostWakeup'
    BY <1>2, <2>1 DEF IInv, HeadExists, ConnSet, NoLostWakeup, CheckConn, ConnWoken, LockQueue,
       QueueWoken, WriteBegin
  <2>3. QED
    BY <1>1, <2>1, <2>2 DEF IInv, QueueFIFO
<1>3. CASE WriteOk
  <2>1. queue # <<>> /\ queue \in Seq(ToSwitch) /\ written \in Seq(ToSwitch)
    BY <1>3 DEF IInv, TypeOK, HeadExists, WriteOk
  <2>2. Append(written, Head(queue)) \o Tail(queue) = written \o queue
    BY <2>1, ConcatMoveHead
  <2>3. QueueFIFO'
    BY <1>3, <2>2 DEF IInv, QueueFIFO, WriteOk, WriteEnd
  <2>4. HeadExists' /\ ConnSet' /\ NoLostWakeup'
    BY <1>3 DEF HeadExists, ConnSet, NoLostWakeup, WriteOk, WriteEnd
  <2>5. QED
    BY <1>1, <2>3, <2>4 DEF IInv
<1>4. CASE WriteError
  <2>1. UNCHANGED <<queue, written, sent>> /\ pq' = "checkConn"
    BY <1>4 DEF WriteError, WriteEnd
  <2>2. QED
    BY <1>1, <2>1 DEF IInv, QueueFIFO, HeadExists, ConnSet, NoLostWakeup
<1>5. QED
  BY <1>2, <1>3, <1>4 DEF ProcessQueue

\* Every other step leaves the queue and ProcessQueue alone.
LEMMA OtherStep ==
    ASSUME IInv, TypeOK', UNCHANGED <<queue, pq, conn, sent, written>>
    PROVE  IInv'
BY DEF IInv, HeadExists, ConnSet, NoLostWakeup, QueueFIFO

\* The invariant is inductive.
LEMMA IInvNext == IInv /\ [Next]_vars => IInv'
<1> SUFFICES ASSUME IInv, [Next]_vars PROVE IInv'
  OBVIOUS
<1>1. CASE Accept
  <2>1. TypeOK'
    BY <1>1, TypeGoroutines DEF IInv
  <2>2. QED
    BY <1>1, <2>1, OtherStep DEF Accept, queueVars, connVars
<1>2. ASSUME NEW c \in Conns, handleConn(c) \/ Receive(c) PROVE IInv'
  <2>1. TypeOK'
    BY <1>2, TypeGoroutines DEF IInv
  <2>2. QED
    BY <1>2, <2>1, OtherStep DEF handleConn, ReadMessage, ReadError, Receive, queueVars, connVars
<1>3. ASSUME NEW c \in Conns, Switch(c) PROVE IInv'
  <2>1. TypeOK'
    BY <1>3, TypeSwitch DEF IInv
  <2>2. QED
    BY <1>3, <2>1, OtherStep DEF Switch, Dial, Unasked, SwitchRead, HangUp, queueVars, connVars
<1>4. CASE UNCHANGED vars
  <2>1. TypeOK'
    BY <1>4 DEF IInv, TypeOK, vars, queueVars, connVars, srvVars, hdlVars, runVars, netVars
  <2>2. QED
    BY <1>4, <2>1, OtherStep DEF vars, queueVars, connVars
<1>5. QED
  BY <1>1, <1>2, <1>3, <1>4, SetConnectionStep, SendStep, ProcessQueueStep DEF Next

\* The connection manager keeps its types and locks (connection.go:84-139).
THEOREM TypeCorrect == Spec => []TypeOK
<1>1. IInv => TypeOK
  BY DEF IInv
<1>2. QED
  BY <1>1, IInvInit, IInvNext, PTL DEF Spec

\* The inductive invariant holds in every state of every behaviour.
LEMMA Invariant == Spec => []IInv
BY IInvInit, IInvNext, PTL DEF Spec

\* of.queue[0] never panics although ProcessQueue tests with if what it waits for
\* (connection.go:112-139).
THEOREM HeadCorrect == Spec => []HeadExists
BY Invariant, PTL DEF IInv

\* A nil connection is never written to, although it is tested before the queue is waited
\* for (connection.go:98-139).
THEOREM ConnCorrect == Spec => []ConnSet
BY Invariant, PTL DEF IInv

\* ProcessQueue never sleeps with work to do (connection.go:84-139).
THEOREM WakeupCorrect == Spec => []NoLostWakeup
BY Invariant, PTL DEF IInv

\* The queue loses, duplicates and reorders nothing (connection.go:84-139).
THEOREM QueueCorrect == Spec => []QueueFIFO
<1>1. IInv => QueueFIFO
  BY DEF IInv
<1>2. QED
  BY <1>1, IInvInit, IInvNext, PTL DEF Spec

\* A step of the connection manager is a step of the channel or does not show.
LEMMA ChannelStep == IInv /\ [Next]_vars => [Chan!Next]_(Chan!vars)
<1> SUFFICES ASSUME IInv, [Next]_vars PROVE Chan!Next \/ UNCHANGED <<queue, written>>
  BY DEF Chan!vars
<1>1. CASE Send
  <2>1. reply \in ToSwitch
    BY <1>1 DEF IInv, TypeOK, Send
  <2>2. Chan!Put(reply)
    BY <1>1 DEF Send, Chan!Put
  <2>3. QED
    BY <2>1, <2>2 DEF Chan!Next
<1>2. CASE WriteOk
  <2>1. queue # <<>>
    BY <1>2 DEF IInv, HeadExists, WriteOk
  <2>2. Chan!Take
    BY <1>2, <2>1 DEF WriteOk, Chan!Take
  <2>3. QED
    BY <2>2 DEF Chan!Next
<1>3. CASE CheckConn \/ ConnWoken \/ LockQueue \/ QueueWoken \/ WriteBegin \/ WriteError
  BY <1>3 DEF CheckConn, ConnWoken, LockQueue, QueueWoken, WriteBegin, WriteError, queueVars
<1>4. CASE Accept \/ SetConnection
  BY <1>4 DEF Accept, SetConnection, queueVars
<1>5. ASSUME NEW c \in Conns, handleConn(c) \/ Receive(c) \/ Switch(c)
      PROVE  UNCHANGED <<queue, written>>
  BY <1>5 DEF handleConn, ReadMessage, ReadError, Receive, Switch, Dial, Unasked, SwitchRead,
     HangUp, queueVars
<1>6. CASE UNCHANGED vars
  BY <1>6 DEF vars, queueVars
<1>7. QED
  BY <1>1, <1>2, <1>3, <1>4, <1>5, <1>6 DEF Next, ProcessQueue

\* The connection manager implements the channel, as far as safety goes: every Send is a Put,
\* every successful Write a Take of the head, and no other step of any goroutine touches
\* what is pending or delivered (connection.go:84-139).
THEOREM ImplementsChannel == Spec => Chan!Spec
<1>1. Init => Chan!Init
  BY DEF Init, Chan!Init, ToSwitch
<1>2. QED
  BY <1>1, IInvInit, IInvNext, ChannelStep, PTL DEF Spec, Chan!Spec
=============================================================================
