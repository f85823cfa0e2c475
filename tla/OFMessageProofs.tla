-------------------------- MODULE OFMessageProofs ---------------------------
(***************************************************************************)
(* Proofs about the messages of the OpenFlow connections: how often Run    *)
(* answers what handleConn parses, for any number of connections and       *)
(* messages, and wherever the reads end.                                   *)
(***************************************************************************)
EXTENDS OFConnectProofs, Integers, FiniteSetTheorems

-----------------------------------------------------------------------------
(* Exactly once *)

\* The handlers that still hold a message of kind m; the answers of kind r given to Send.
HeldAt(m)  == {c \in Conns : msg[c] = m}
GivenAt(r) == {i \in DOMAIN sent : sent[i] = r}

\* The messages of kind m are accounted for: every one parsed is answered by an r, or held,
\* or being answered.
Account(m, r) ==
    /\ IsFiniteSet(GivenAt(r))
    /\ heard[m] = Cardinality(GivenAt(r)) + Cardinality(HeldAt(m)) + (IF reply = r THEN 1 ELSE 0)

\* Only a handler that delivers holds a message, only a sending Run an answer, and a
\* connection that Serve has not handed over has no handler.
HandOver ==
    /\ \A c \in Conns : handler[c] # "deliver" => msg[c] = None
    /\ run = "receive" => reply = None
    /\ \A c \in Conns : c > accepted \/ (srv = "set" /\ c = accepted) => handler[c] = "none"

\* The two kinds of message that are answered, and their answers.
AccountInv ==
    HandOver /\ Account("echoRequest", "echoReply") /\ Account("hello", "featuresRequest")

LEMMA HeldFinite ==
    ASSUME NEW m PROVE IsFiniteSet(HeldAt(m)) /\ Cardinality(HeldAt(m)) \in Nat
<1>1. IsFiniteSet(1..MaxConns)
  BY FS_Interval, OFConnectAssumption
<1>2. HeldAt(m) \subseteq 1..MaxConns
  BY DEF HeldAt, Conns
<1>3. QED
  BY <1>1, <1>2, FS_Subset, FS_CardinalityType

\* One more of a finite set.
LEMMA OneMore ==
    ASSUME NEW A, NEW B, NEW x, IsFiniteSet(A), x \notin A, B = A \cup {x}
    PROVE  IsFiniteSet(B) /\ Cardinality(B) = Cardinality(A) + 1
BY FS_AddElement

LEMMA OneLess ==
    ASSUME NEW A, NEW B, NEW x, IsFiniteSet(A), x \in A, B = A \ {x}
    PROVE  IsFiniteSet(B) /\ Cardinality(B) = Cardinality(A) - 1
BY FS_RemoveElement

\* An element appended is the one more place of its kind.
LEMMA AppendPlaces ==
    ASSUME NEW S, NEW s \in Seq(S), NEW x \in S, NEW m
    PROVE  LET at(t) == {i \in DOMAIN t : t[i] = m}
           IN  /\ at(Append(s, x)) = IF x = m THEN at(s) \cup {Len(s) + 1} ELSE at(s)
               /\ Len(s) + 1 \notin at(s)
<1>1. /\ DOMAIN Append(s, x) = 1..(Len(s) + 1) /\ DOMAIN s = 1..Len(s) /\ Len(s) \in Nat
      /\ Append(s, x)[Len(s) + 1] = x
      /\ \A i \in 1..Len(s) : Append(s, x)[i] = s[i]
  OBVIOUS
<1> DEFINE s1 == Append(s, x)
<1> HIDE DEF s1
<1>2. /\ {i \in DOMAIN s1 : s1[i] = m} =
           IF x = m THEN {i \in DOMAIN s : s[i] = m} \cup {Len(s) + 1} ELSE {i \in DOMAIN s : s[i] = m}
      /\ Len(s) + 1 \notin {i \in DOMAIN s : s[i] = m}
  BY <1>1 DEF s1
<1>3. QED
  BY <1>2 DEF s1

LEMMA AccountInit == Init => AccountInv
<1> SUFFICES ASSUME Init PROVE AccountInv
  OBVIOUS
<1>1. HandOver
  BY DEF Init, HandOver
<1>2. ASSUME NEW m \in Answered, NEW r \in {"echoReply", "featuresRequest"} PROVE Account(m, r)
  <2>1. heard[m] = 0
    BY DEF Init
  <2>2. GivenAt(r) = {}
    BY DEF Init, GivenAt
  <2>3. HeldAt(m) = {}
    BY OFConnectAssumption DEF Init, HeldAt, FromSwitch, Answered
  <2>4. reply # r
    BY OFConnectAssumption DEF Init, ToSwitch
  <2>5. QED
    BY <2>1, <2>2, <2>3, <2>4, FS_EmptySet DEF Account
<1>3. QED
  BY <1>1, <1>2 DEF AccountInv, Answered

\* Steps that parse, deliver and answer nothing.
LEMMA AccountSame ==
    ASSUME NEW m, NEW r, Account(m, r), UNCHANGED <<heard, msg, sent, reply>> PROVE Account(m, r)'
BY DEF Account, HeldAt, GivenAt

\* A message is parsed, whatever bytes it was made of: its handler holds it.
LEMMA AccountRead ==
    ASSUME TypeOK, HandOver, NEW c \in Conns, ReadMessage(c), NEW m \in Answered, NEW r, Account(m, r)
    PROVE  Account(m, r)'
<1>1. msg[c] = None /\ None # m
  BY OFConnectAssumption DEF HandOver, ReadMessage, FromSwitch, Answered
<1>2. PICK x \in IF Framed(c) THEN {Head(toCtl[c])} ELSE FromSwitch :
        /\ msg' = [msg EXCEPT ![c] = x]
        /\ heard' = [n \in Answered |-> heard[n] + IF n = x THEN 1 ELSE 0]
  BY DEF ReadMessage
<1>3. sent' = sent /\ reply' = reply
  BY DEF ReadMessage, runVars
<1>4. msg \in [Conns -> FromSwitch \cup {None}] /\ heard[m] \in Nat
  BY DEF TypeOK
<1>5. GivenAt(r)' = GivenAt(r)
  BY <1>3 DEF GivenAt
<1>6. Cardinality(HeldAt(m)) \in Nat /\ Cardinality(GivenAt(r)) \in Nat
  BY HeldFinite, FS_CardinalityType DEF Account
<1>7. CASE x = m
  <2>1. HeldAt(m)' = HeldAt(m) \cup {c} /\ c \notin HeldAt(m)
    BY <1>1, <1>2, <1>4, <1>7 DEF HeldAt
  <2>2. Cardinality(HeldAt(m)') = Cardinality(HeldAt(m)) + 1
    BY <2>1, HeldFinite, OneMore
  <2>3. heard'[m] = heard[m] + 1
    BY <1>2, <1>7
  <2>4. QED
    BY <1>3, <1>4, <1>5, <1>6, <2>2, <2>3 DEF Account
<1>8. CASE x # m
  <2>1. HeldAt(m)' = HeldAt(m)
    BY <1>1, <1>2, <1>4, <1>8 DEF HeldAt
  <2>2. heard'[m] = heard[m]
    BY <1>2, <1>4, <1>8
  <2>3. QED
    BY <1>3, <1>5, <2>1, <2>2 DEF Account
<1>9. QED
  BY <1>7, <1>8

\* A message crosses the channel: Run has its answer to send, or none of this kind.
LEMMA AccountReceive ==
    ASSUME TypeOK, HandOver, NEW c \in Conns, Receive(c),
           NEW m \in Answered, NEW r \in ToSwitch, Account(m, r),
           <<m, r>> \in {<<"echoRequest", "echoReply">>, <<"hello", "featuresRequest">>}
    PROVE  Account(m, r)'
<1>1. /\ msg' = [msg EXCEPT ![c] = None] /\ heard' = heard /\ sent' = sent
      /\ msg \in [Conns -> FromSwitch \cup {None}]
  BY DEF Receive, TypeOK
<1>2. reply = None /\ None # r /\ None # m
  BY OFConnectAssumption DEF HandOver, Receive, FromSwitch, Answered
<1>3. heard'[m] = heard[m] /\ GivenAt(r)' = GivenAt(r)
  BY <1>1 DEF GivenAt
<1>4. /\ Cardinality(HeldAt(m)) \in Nat /\ Cardinality(GivenAt(r)) \in Nat
      /\ heard[m] \in Nat
  BY HeldFinite, FS_CardinalityType DEF Account, TypeOK
<1>5. CASE msg[c] = m
  <2>1. HeldAt(m)' = HeldAt(m) \ {c} /\ c \in HeldAt(m)
    BY <1>1, <1>2, <1>5 DEF HeldAt
  <2>2. Cardinality(HeldAt(m)') = Cardinality(HeldAt(m)) - 1
    BY <2>1, HeldFinite, OneLess
  <2>3. reply' = r
    BY <1>5 DEF Receive
  <2>4. QED
    BY <1>2, <1>3, <1>4, <2>2, <2>3 DEF Account
<1>6. CASE msg[c] # m
  <2>1. HeldAt(m)' = HeldAt(m)
    BY <1>1, <1>2, <1>6 DEF HeldAt
  <2>2. reply' # r
    BY <1>2, <1>6 DEF Receive
  <2>3. QED
    BY <1>2, <1>3, <2>1, <2>2 DEF Account
<1>7. QED
  BY <1>5, <1>6

\* An answer is given to Send.
LEMMA AccountSend ==
    ASSUME TypeOK, Send, NEW m \in Answered, NEW r \in ToSwitch, Account(m, r)
    PROVE  Account(m, r)'
<1>1. /\ sent \in Seq(ToSwitch) /\ reply \in ToSwitch /\ None # r
  BY OFConnectAssumption DEF TypeOK, Send
<1>2. sent' = Append(sent, reply) /\ reply' = None /\ heard' = heard /\ msg' = msg
  BY DEF Send, hdlVars
<1>3. heard'[m] = heard[m] /\ HeldAt(m)' = HeldAt(m)
  BY <1>2 DEF HeldAt
<1>4. /\ GivenAt(r)' = IF reply = r THEN GivenAt(r) \cup {Len(sent) + 1} ELSE GivenAt(r)
      /\ Len(sent) + 1 \notin GivenAt(r)
  BY <1>1, <1>2, AppendPlaces DEF GivenAt
<1>5. /\ Cardinality(HeldAt(m)) \in Nat /\ Cardinality(GivenAt(r)) \in Nat
      /\ heard[m] \in Nat
  BY HeldFinite, FS_CardinalityType DEF Account, TypeOK
<1>6. CASE reply = r
  <2>1. IsFiniteSet(GivenAt(r)') /\ Cardinality(GivenAt(r)') = Cardinality(GivenAt(r)) + 1
    BY <1>4, <1>6, OneMore DEF Account
  <2>2. QED
    BY <1>1, <1>2, <1>3, <1>5, <1>6, <2>1 DEF Account
<1>7. CASE reply # r
  BY <1>1, <1>2, <1>3, <1>4, <1>7 DEF Account
<1>8. QED
  BY <1>6, <1>7

\* The hand-over between the goroutines.
LEMMA HandOverNext ==
    ASSUME TypeOK, HandOver, [Next]_vars PROVE HandOver'
<1> USE DEF TypeOK, HandOver
<1>1. CASE UNCHANGED <<handler, msg, run, reply, srv, accepted>>
  BY <1>1
<1>2. CASE Accept
  <2>1. /\ accepted' = accepted + 1 /\ accepted \in 0..MaxConns
        /\ UNCHANGED <<handler, msg, run, reply>>
    BY <1>2 DEF Accept, hdlVars, runVars
  <2>2. ASSUME NEW d \in Conns, d > accepted' \/ d = accepted' PROVE handler[d] = "none"
    <3>1. d > accepted
      BY <2>1, <2>2, OFConnectAssumption DEF Conns
    <3>2. QED
      BY <3>1
  <2>3. QED
    BY <2>1, <2>2
<1>3. CASE SetConnection
  BY <1>3 DEF SetConnection, runVars
<1>4. CASE Send
  BY <1>4 DEF Send, hdlVars, srvVars
<1>5. ASSUME NEW c \in Conns, ReadMessage(c) PROVE HandOver'
  BY <1>5 DEF ReadMessage, runVars, srvVars
<1>6. ASSUME NEW c \in Conns, ReadError(c) PROVE HandOver'
  BY <1>6 DEF ReadError, runVars, srvVars
<1>7. ASSUME NEW c \in Conns, Receive(c) PROVE HandOver'
  BY <1>7 DEF Receive, srvVars
<1>8. CASE ProcessQueue \/ UNCHANGED vars
  BY <1>1, <1>8 DEF ProcessQueue, CheckConn, ConnWoken, LockQueue, QueueWoken, WriteBegin, WriteOk,
     WriteError, WriteEnd, hdlVars, runVars, srvVars, vars
<1>9. ASSUME NEW c \in Conns, Switch(c) PROVE HandOver'
  BY <1>1, <1>9 DEF Switch, Dial, Unasked, SwitchRead, HangUp, hdlVars, runVars, srvVars
<1>10. QED
  BY <1>2, <1>3, <1>4, <1>5, <1>6, <1>7, <1>8, <1>9 DEF Next, handleConn

LEMMA AccountNext == TypeOK /\ AccountInv /\ [Next]_vars => AccountInv'
<1> SUFFICES ASSUME TypeOK, AccountInv, [Next]_vars PROVE AccountInv'
  OBVIOUS
<1>1. HandOver'
  BY HandOverNext DEF AccountInv
<1>2. SUFFICES ASSUME NEW m \in Answered, NEW r \in ToSwitch, Account(m, r),
                      <<m, r>> \in {<<"echoRequest", "echoReply">>, <<"hello", "featuresRequest">>}
               PROVE  Account(m, r)'
  BY <1>1 DEF AccountInv, Answered, ToSwitch
<1>3. ASSUME NEW c \in Conns, ReadMessage(c) PROVE Account(m, r)'
  BY <1>2, <1>3, AccountRead DEF AccountInv
<1>4. ASSUME NEW c \in Conns, Receive(c) PROVE Account(m, r)'
  BY <1>2, <1>4, AccountReceive DEF AccountInv
<1>5. CASE Send
  BY <1>2, <1>5, AccountSend
<1>6. CASE UNCHANGED <<heard, msg, sent, reply>>
  BY <1>2, <1>6, AccountSame
<1>7. CASE ProcessQueue \/ Accept \/ SetConnection \/ UNCHANGED vars
  BY <1>6, <1>7 DEF ProcessQueue, CheckConn, ConnWoken, LockQueue, QueueWoken, WriteBegin, WriteOk,
     WriteError, WriteEnd, Accept, SetConnection, hdlVars, runVars, vars
<1>8. ASSUME NEW c \in Conns, Switch(c) \/ ReadError(c) PROVE Account(m, r)'
  BY <1>6, <1>8 DEF Switch, Dial, Unasked, SwitchRead, HangUp, ReadError, hdlVars, runVars
<1>9. QED
  BY <1>3, <1>4, <1>5, <1>7, <1>8 DEF Next, handleConn

LEMMA AccountAnswers ==
    ASSUME AccountInv PROVE AnsweredOnce
<1>1. ASSUME NEW m, NEW r, Account(m, r) PROVE heard[m] = Given(r) + Unanswered(m, r)
  <2>1. Given(r) = Cardinality(GivenAt(r))
    BY DEF Given, GivenAt
  <2>2. Unanswered(m, r) = Cardinality(HeldAt(m)) + (IF reply = r THEN 1 ELSE 0)
    BY DEF Unanswered, HeldAt
  <2>3. Cardinality(HeldAt(m)) \in Nat /\ Cardinality(GivenAt(r)) \in Nat
    BY <1>1, HeldFinite, FS_CardinalityType DEF Account
  <2>4. QED
    BY <1>1, <2>1, <2>2, <2>3 DEF Account
<1>2. QED
  BY <1>1 DEF AccountInv, AnsweredOnce

\* Every hello and echo request that is parsed, be it from garbage after a read that ended
\* inside a message, is answered exactly once, however many handlers compete for receiveCh (connection.go:184, controller.go:142-166).
THEOREM AnsweredCorrect == Spec => []AnsweredOnce
<1>1. IInv /\ AccountInv /\ [Next]_vars => AccountInv'
  BY AccountNext DEF IInv
<1>2. QED
  BY <1>1, AccountAnswers, AccountInit, Invariant, PTL DEF Spec
=============================================================================
