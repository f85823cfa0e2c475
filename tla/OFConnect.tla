----------------------------- MODULE OFConnect ------------------------------
(***************************************************************************)
(* The OpenFlow connection manager of k-vswitchd (package connection) and  *)
(* the message loop of the controller that uses it (controllers/openflow). *)
(*                                                                         *)
(* Goroutines: ProcessQueue writes queued messages to the current          *)
(* connection; Serve accepts connections; one handleConn per connection    *)
(* reads messages and hands them over an unbuffered channel; Run receives  *)
(* them and queues the answers.  queueMu and connMu are Go mutexes,        *)
(* queueCond and connCond their condition variables.                       *)
(*                                                                         *)
(* The switch and TCP are external.  TCP is a stream of bytes: what a read *)
(* returns may hold several messages and may end inside one.               *)
(***************************************************************************)
EXTENDS Naturals, Sequences, FiniteSets

CONSTANTS
    None,        \* a free mutex, no message
    MaxConns,    \* bound: connections the switch ever opens
    MaxUnasked,  \* bound: messages the switch ever sends of its own accord
    MaxCuts,     \* bound: reads that end inside a message
    SockBuf      \* messages the socket to the switch holds before Write blocks

ToSwitch == {"hello", "featuresRequest", "echoReply"}
FromSwitch == {"hello", "featuresReply", "echoRequest", "other"}   \* other: what Run ignores
Answered == {"hello", "echoRequest"}

ASSUME OFConnectAssumption ==
    /\ MaxConns \in Nat \ {0} /\ MaxUnasked \in Nat /\ MaxCuts \in Nat /\ SockBuf \in Nat \ {0}
    /\ None \notin ToSwitch \cup FromSwitch \cup {"ProcessQueue"}

Conns == 1..MaxConns

VARIABLES
    queue, queueMu,        \* of.queue and who holds its mutex
    conn, connMu,          \* of.conn (0: nil) and who holds its mutex
    pq,                    \* where ProcessQueue is
    srv, accepted,         \* where Serve is, and how many connections it accepted
    handler, msg, closed,  \* per connection: where handleConn is, what it read, is the socket closed
    run, reply,            \* where Run is, and the answer it has to send
    datapathID,            \* the connection whose features reply set c.datapathID (0: none)
    peer,                  \* per connection: is the switch's side not dialled, up or down?
    toCtl, toSwitch,       \* per connection: what is in its socket, either way
    unasked, cuts,         \* how much of the two bounds is used
    sent, written,         \* history: messages given to Send, messages Write accepted
    got,                   \* history per connection: the first message the switch got
    heard                  \* history: how often handleConn parsed a message that is answered

queueVars == <<queue, queueMu>>
connVars  == <<conn, connMu>>
srvVars   == <<srv, accepted>>
hdlVars   == <<handler, msg, closed, heard>>
runVars   == <<run, reply, datapathID>>
netVars   == <<peer, toCtl, toSwitch, unasked, cuts, got>>
vars      == <<queueVars, connVars, pq, srvVars, hdlVars, runVars, netVars, sent, written>>

-----------------------------------------------------------------------------
\* NewOFConnect, Initialize's hello and the start of the goroutines.
Init ==
    /\ queue = <<"hello">> /\ queueMu = None
    /\ conn = 0 /\ connMu = None
    /\ pq = "checkConn"
    /\ srv = "accept" /\ accepted = 0
    /\ handler = [c \in Conns |-> "none"]
    /\ msg = [c \in Conns |-> None]
    /\ closed = [c \in Conns |-> FALSE]
    /\ run = "receive" /\ reply = None
    /\ datapathID = 0
    /\ peer = [c \in Conns |-> "none"]
    /\ toCtl = [c \in Conns |-> <<>>]
    /\ toSwitch = [c \in Conns |-> <<>>]
    /\ unasked = 0 /\ cuts = 0
    /\ sent = <<"hello">> /\ written = <<>>
    /\ got = [c \in Conns |-> None]
    /\ heard = [m \in Answered |-> 0]

-----------------------------------------------------------------------------
(* The switch: one connection at a time, opened again after it was lost.     *)

\* The switch says m on connection c.
Say(c, m) == toCtl' = [toCtl EXCEPT ![c] = Append(@, m)]

Dial(c) ==
    /\ peer[c] = "none"
    /\ \A d \in Conns : d < c => peer[d] = "down"
    /\ peer' = [peer EXCEPT ![c] = "up"]
    /\ Say(c, "hello")
    /\ UNCHANGED <<queueVars, connVars, pq, srvVars, hdlVars, runVars, toSwitch, unasked,
                   cuts, got, sent, written>>

\* An echo request, or a message no one asked for: a port status, an error.
Unasked(c) ==
    /\ peer[c] = "up"
    /\ unasked < MaxUnasked
    /\ unasked' = unasked + 1
    /\ \E m \in {"echoRequest", "other"} : Say(c, m)
    /\ UNCHANGED <<queueVars, connVars, pq, srvVars, hdlVars, runVars, peer, toSwitch, cuts, got,
                   sent, written>>

\* The switch takes the next message and answers a features request.
SwitchRead(c) ==
    /\ peer[c] = "up"
    /\ toSwitch[c] # <<>>
    /\ got' = [got EXCEPT ![c] = IF @ = None THEN Head(toSwitch[c]) ELSE @]
    /\ toSwitch' = [toSwitch EXCEPT ![c] = Tail(@)]
    /\ IF Head(toSwitch[c]) = "featuresRequest"
         THEN Say(c, "featuresReply") ELSE UNCHANGED toCtl
    /\ UNCHANGED <<queueVars, connVars, pq, srvVars, hdlVars, runVars, peer, unasked, cuts, sent,
                   written>>

\* The switch loses or closes the connection; the last one of the bound stays.
HangUp(c) ==
    /\ peer[c] = "up"
    /\ c < MaxConns
    /\ peer' = [peer EXCEPT ![c] = "down"]
    /\ toSwitch' = [toSwitch EXCEPT ![c] = <<>>]
    /\ UNCHANGED <<queueVars, connVars, pq, srvVars, hdlVars, runVars, toCtl, unasked, cuts, got,
                   sent, written>>

-----------------------------------------------------------------------------
(* Serve *)

\* AcceptTCP returns the next connection of the backlog.
Accept ==
    /\ srv = "accept"
    /\ accepted < MaxConns /\ peer[accepted + 1] # "none"
    /\ accepted' = accepted + 1
    /\ srv' = "set"
    /\ UNCHANGED <<queueVars, connVars, pq, hdlVars, runVars, netVars, sent, written>>

\* connCond.Broadcast(): only ProcessQueue ever waits.
WakeConn == pq' = IF pq = "connWait" THEN "connWoken" ELSE pq

\* Mutant: the waiting ProcessQueue is not told of the connection.
SetConnection_NoBroadcast ==
    /\ srv = "set" /\ connMu = None
    /\ conn' = accepted
    /\ handler' = [handler EXCEPT ![accepted] = "read"]
    /\ srv' = "accept"
    /\ UNCHANGED <<queueVars, connMu, pq, accepted, msg, closed, heard, runVars, netVars, sent,
                   written>>

\* SetConnection, then go handleConn.
SetConnection ==
    /\ srv = "set" /\ connMu = None
    /\ conn' = accepted
    /\ WakeConn
    /\ handler' = [handler EXCEPT ![accepted] = "read"]
    /\ srv' = "accept"
    /\ UNCHANGED <<queueVars, connMu, accepted, msg, closed, heard, runVars, netVars, sent, written>>

-----------------------------------------------------------------------------
(* handleConn *)

\* The new bufio.Reader takes the bytes the socket holds, a header's worth at least: some
\* messages, or what is left of one, and the last of them perhaps in part.  All it took is
\* dropped with the reader; of a message cut in two, the rest stays in the socket.
ReadAhead(c) ==
    \E k \in 1..Len(toCtl[c]) :
        \/ /\ toCtl' = [toCtl EXCEPT ![c] = SubSeq(@, k + 1, Len(@))]
           /\ UNCHANGED cuts
        \/ /\ cuts < MaxCuts
           /\ k = 1 => toCtl[c][1] # "echoRequest"      \* nothing but a header
           /\ toCtl' = [toCtl EXCEPT ![c] = <<"rest">> \o SubSeq(@, k + 1, Len(@))]
           /\ cuts' = cuts + 1

\* The framing holds: a header comes next on the connection.
Framed(c) == toCtl[c] # <<>> /\ Head(toCtl[c]) # "rest"

\* The first message is parsed, zeros standing for what of it was not read.  Where the rest
\* of a message comes first, its bytes are taken for a header and parse to anything.
ReadMessage(c) ==
    /\ handler[c] = "read"
    /\ toCtl[c] # <<>>
    /\ \E m \in IF Framed(c) THEN {Head(toCtl[c])} ELSE FromSwitch :
          /\ msg' = [msg EXCEPT ![c] = m]
          /\ heard' = [n \in Answered |-> heard[n] + IF n = m THEN 1 ELSE 0]
    /\ ReadAhead(c)
    /\ handler' = [handler EXCEPT ![c] = "deliver"]
    /\ UNCHANGED <<queueVars, connVars, pq, srvVars, closed, runVars, peer, toSwitch, unasked, got,
                   sent, written>>

\* Mutant: the end of the stream is taken for a timeout, and reading goes on.
ReadError_Continue(c) ==
    /\ handler[c] = "read"
    /\ peer[c] = "down"
    /\ UNCHANGED vars

\* Peek or Read fails, at the end of the stream or by a reset: return, closing the socket.
ReadError(c) ==
    /\ handler[c] = "read"
    /\ peer[c] = "down"
    /\ handler' = [handler EXCEPT ![c] = "done"]
    /\ closed' = [closed EXCEPT ![c] = TRUE]
    /\ UNCHANGED <<queueVars, connVars, pq, srvVars, msg, heard, runVars, netVars, sent, written>>

-----------------------------------------------------------------------------
(* Run *)

\* Mutant: the message stays with handleConn, which offers it again.
Receive_Again(c) ==
    /\ run = "receive"
    /\ handler[c] = "deliver"
    /\ \/ msg[c] = "echoRequest" /\ run' = "send" /\ reply' = "echoReply" /\ UNCHANGED datapathID
       \/ msg[c] = "hello" /\ run' = "send" /\ reply' = "featuresRequest" /\ UNCHANGED datapathID
       \/ msg[c] = "featuresReply" /\ datapathID' = c /\ UNCHANGED <<run, reply>>
       \/ msg[c] = "other" /\ UNCHANGED <<run, reply, datapathID>>
    /\ UNCHANGED <<queueVars, connVars, pq, srvVars, hdlVars, netVars, sent, written>>

\* Receive: some handleConn's message crosses receiveCh, and Run acts on its type.
Receive(c) ==
    /\ run = "receive"
    /\ handler[c] = "deliver"
    /\ handler' = [handler EXCEPT ![c] = "read"]
    /\ msg' = [msg EXCEPT ![c] = None]
    /\ \/ msg[c] = "echoRequest" /\ run' = "send" /\ reply' = "echoReply" /\ UNCHANGED datapathID
       \/ msg[c] = "hello" /\ run' = "send" /\ reply' = "featuresRequest" /\ UNCHANGED datapathID
       \/ msg[c] = "featuresReply" /\ datapathID' = c /\ UNCHANGED <<run, reply>>
       \/ msg[c] = "other" /\ UNCHANGED <<run, reply, datapathID>>
    /\ UNCHANGED <<queueVars, connVars, pq, srvVars, closed, heard, netVars, sent, written>>

\* Mutant: a waiting ProcessQueue is not told of the message.
Send_NoBroadcast ==
    /\ run = "send" /\ queueMu = None
    /\ queue' = Append(queue, reply)
    /\ sent' = Append(sent, reply)
    /\ run' = "receive" /\ reply' = None
    /\ UNCHANGED <<queueMu, connVars, pq, srvVars, hdlVars, datapathID, netVars, written>>

\* Mutant: an answer overtakes what is queued.
Send_First ==
    /\ run = "send" /\ queueMu = None
    /\ queue' = <<reply>> \o queue
    /\ pq' = IF pq = "queueWait" THEN "queueWoken" ELSE pq
    /\ sent' = Append(sent, reply)
    /\ run' = "receive" /\ reply' = None
    /\ UNCHANGED <<queueMu, connVars, srvVars, hdlVars, datapathID, netVars, written>>

\* Send: append and queueCond.Broadcast().
Send ==
    /\ run = "send" /\ queueMu = None
    /\ queue' = Append(queue, reply)
    /\ pq' = IF pq = "queueWait" THEN "queueWoken" ELSE pq
    /\ sent' = Append(sent, reply)
    /\ run' = "receive" /\ reply' = None
    /\ UNCHANGED <<queueMu, connVars, srvVars, hdlVars, datapathID, netVars, written>>

-----------------------------------------------------------------------------
(* ProcessQueue.  It tests each condition once, with if: what it finds after *)
(* a wait it does not test again.                                            *)

\* Mutant: ProcessQueue does not wait for a connection.
CheckConn_NoTest ==
    /\ pq = "checkConn" /\ connMu = None
    /\ pq' = "lockQueue"
    /\ UNCHANGED <<queueVars, connVars, srvVars, hdlVars, runVars, netVars, sent, written>>

\* connMu.Lock(); if of.conn == nil { Wait }; connMu.Unlock()
CheckConn ==
    /\ pq = "checkConn" /\ connMu = None
    /\ pq' = IF conn = 0 THEN "connWait" ELSE "lockQueue"
    /\ UNCHANGED <<queueVars, connVars, srvVars, hdlVars, runVars, netVars, sent, written>>

\* Wait has returned: it locks connMu again, and ProcessQueue goes on.
ConnWoken ==
    /\ pq = "connWoken" /\ connMu = None
    /\ pq' = "lockQueue"
    /\ UNCHANGED <<queueVars, connVars, srvVars, hdlVars, runVars, netVars, sent, written>>

\* Mutant: the queue is not tested before its head is taken.
LockQueue_NoTest ==
    /\ pq = "lockQueue" /\ queueMu = None
    /\ queueMu' = "ProcessQueue" /\ pq' = "write"
    /\ UNCHANGED <<queue, connVars, srvVars, hdlVars, runVars, netVars, sent, written>>

\* queueMu.Lock(); if len(of.queue) == 0 { Wait }
LockQueue ==
    /\ pq = "lockQueue" /\ queueMu = None
    /\ \/ queue = <<>> /\ pq' = "queueWait" /\ UNCHANGED queueMu
       \/ queue # <<>> /\ pq' = "write" /\ queueMu' = "ProcessQueue"
    /\ UNCHANGED <<queue, connVars, srvVars, hdlVars, runVars, netVars, sent, written>>

\* Wait has returned: it locks queueMu again.
QueueWoken ==
    /\ pq = "queueWoken" /\ queueMu = None
    /\ queueMu' = "ProcessQueue" /\ pq' = "write"
    /\ UNCHANGED <<queue, connVars, srvVars, hdlVars, runVars, netVars, sent, written>>

\* WriteConnection locks connMu and calls Write with both mutexes held.
WriteBegin ==
    /\ pq = "write" /\ connMu = None
    /\ connMu' = "ProcessQueue" /\ pq' = "writing"
    /\ UNCHANGED <<queueVars, conn, srvVars, hdlVars, runVars, netVars, sent, written>>

\* Mutant: connMu is not released on the way out.
WriteEnd_KeepConnMu ==
    /\ queueMu' = None /\ connMu' = connMu /\ pq' = "checkConn"
    /\ UNCHANGED <<conn, srvVars, hdlVars, runVars, peer, toCtl, unasked, cuts, got,
                   sent>>

\* Both mutexes are released and the loop starts over.
WriteEnd ==
    /\ queueMu' = None /\ connMu' = None /\ pq' = "checkConn"
    /\ UNCHANGED <<conn, srvVars, hdlVars, runVars, peer, toCtl, unasked, cuts, got,
                   sent>>

\* Write returns: the message is in the socket, or lost if the switch is gone and the
\* kernel does not know yet.
WriteOk ==
    /\ pq = "writing" /\ conn # 0 /\ ~closed[conn]
    /\ \/ /\ peer[conn] = "up"
          /\ Len(toSwitch[conn]) < SockBuf
          /\ toSwitch' = [toSwitch EXCEPT ![conn] = Append(@, Head(queue))]
       \/ peer[conn] = "down" /\ UNCHANGED toSwitch
    /\ queue' = Tail(queue)
    /\ written' = Append(written, Head(queue))
    /\ WriteEnd

\* Mutant: a message that could not be written is dropped.
WriteError_Drop ==
    /\ pq = "writing"
    /\ conn = 0 \/ closed[conn] \/ peer[conn] = "down"
    /\ queue' = Tail(queue)
    /\ WriteEnd
    /\ UNCHANGED <<toSwitch, written>>

\* There is no connection, it is closed, or the switch is gone: the message stays queued.
WriteError ==
    /\ pq = "writing"
    /\ conn = 0 \/ closed[conn] \/ peer[conn] = "down"
    /\ WriteEnd
    /\ UNCHANGED <<queue, toSwitch, written>>

-----------------------------------------------------------------------------
ProcessQueue == CheckConn \/ ConnWoken \/ LockQueue \/ QueueWoken \/ WriteBegin \/ WriteOk \/ WriteError

handleConn(c) == ReadMessage(c) \/ ReadError(c)

Switch(c) == Dial(c) \/ Unasked(c) \/ SwitchRead(c) \/ HangUp(c)

Next ==
    \/ ProcessQueue
    \/ Accept \/ SetConnection
    \/ Send
    \/ \E c \in Conns : handleConn(c) \/ Receive(c) \/ Switch(c)

Spec == Init /\ [][Next]_vars

\* Goroutines run on, the switch reads and dials again; Peek may wait for ever for the eighth
\* byte after the rest of a message.  ProcessQueue takes and releases
\* both mutexes while writes fail; Go's mutexes do not starve the other goroutines.
Fairness ==
    /\ WF_vars(ProcessQueue) /\ WF_vars(Accept)
    /\ SF_vars(SetConnection) /\ SF_vars(Send)
    /\ \A c \in Conns :
          /\ WF_vars((Framed(c) /\ ReadMessage(c)) \/ ReadError(c)) /\ SF_vars(Receive(c))
          /\ WF_vars(Dial(c)) /\ WF_vars(SwitchRead(c))

FairSpec == Spec /\ Fairness

-----------------------------------------------------------------------------
(* Properties *)

\* Every variable has its type, and the mutexes are held where ProcessQueue holds them.
TypeOK ==
    /\ queue \in Seq(ToSwitch) /\ sent \in Seq(ToSwitch) /\ written \in Seq(ToSwitch)
    /\ conn \in 0..MaxConns /\ accepted \in 0..MaxConns /\ datapathID \in 0..MaxConns
    /\ queueMu \in {None, "ProcessQueue"} /\ connMu \in {None, "ProcessQueue"}
    /\ pq \in {"checkConn", "connWait", "connWoken", "lockQueue", "queueWait", "queueWoken",
               "write", "writing"}
    /\ queueMu # None <=> pq \in {"write", "writing"}
    /\ connMu # None <=> pq = "writing"
    /\ srv \in {"accept", "set"} /\ (srv = "set" => accepted \in Conns)
    /\ handler \in [Conns -> {"none", "read", "deliver", "done"}]
    /\ msg \in [Conns -> FromSwitch \cup {None}]
    /\ closed \in [Conns -> BOOLEAN]
    /\ run \in {"receive", "send"}
    /\ reply \in ToSwitch \cup {None} /\ (run = "send" => reply # None)
    /\ peer \in [Conns -> {"none", "up", "down"}]
    /\ toCtl \in [Conns -> Seq(FromSwitch \cup {"rest"})]
    /\ heard \in [Answered -> Nat]
    /\ toSwitch \in [Conns -> Seq(ToSwitch)] /\ got \in [Conns -> ToSwitch \cup {None}]
    /\ unasked \in Nat /\ cuts \in Nat

\* ProcessQueue tests the queue only before it waits, yet the queue is never empty when
\* it takes its head: of.queue[0] does not panic (connection.go:122-129).
HeadExists == pq \in {"queueWoken", "write", "writing"} => queue # <<>>

\* A message is written only to a connection: past its one test of of.conn, ProcessQueue
\* never meets nil again, and WriteConnection's own test never fires (connection.go:104,118).
ConnSet == pq \notin {"checkConn", "connWait"} => conn # 0

\* No message given to Send is lost, duplicated or reordered by the queue, through every
\* failed write and reconnection: what was written followed by what is queued is what was
\* sent (connection.go:84-90, 112-139).
QueueFIFO == written \o queue = sent

\* No sleeping while there is work: ProcessQueue never waits for a connection that is set
\* or for a message that is queued (connection.go:89, 97, 118, 124).
NoLostWakeup ==
    /\ pq = "connWait" => conn = 0
    /\ pq = "queueWait" => queue = <<>>

\* Once the switch stays connected and stops asking, everything queued has been written
\* and every message read has been acted on: no goroutine blocks another for ever.
EventuallyDrained ==
    <>[](queue = <<>> /\ run = "receive" /\ \A c \in Conns : handler[c] # "deliver")

\* The first message the switch gets on a connection is the hello (controller.go:121-129).
HelloFirst == \A c \in Conns : got[c] \in {"hello", None}

\* A connection the switch has left does not linger: its handleConn, which may be waiting to
\* hand Run a message while Run waits for ProcessQueue, comes to its end and closes the
\* socket (connection.go:154-186).
LostConnsClose ==
    <>[](\A c \in Conns : peer[c] = "down" => handler[c] = "done" /\ closed[c])

\* How often r was given to Send.
Given(r) == Cardinality({i \in DOMAIN sent : sent[i] = r})

\* A message parsed and not yet answered: on its way over receiveCh, or Run is sending.
Unanswered(m, r) == Cardinality({c \in Conns : msg[c] = m}) + (IF reply = r THEN 1 ELSE 0)

\* Every hello and echo request that was parsed, be it from garbage, is answered exactly
\* once, whichever goroutines compete for receiveCh and whichever connection it came from; Run and
\* handleConn between them drop and repeat none (connection.go:184, controller.go:142-166).
AnsweredOnce ==
    /\ heard["echoRequest"] = Given("echoReply") + Unanswered("echoRequest", "echoReply")
    /\ heard["hello"] = Given("featuresRequest") + Unanswered("hello", "featuresRequest")

Chan == INSTANCE Channel WITH Msgs <- ToSwitch, pending <- queue, delivered <- written

\* The connection manager implements the abstract channel: Send puts, a successful Write
\* takes, nothing else shows, and what is queued is written in the end
\* (connection.go:84-139).
IsChannel == Chan!FairSpec
=============================================================================
