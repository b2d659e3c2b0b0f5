-------------------------- MODULE FtpUploadProofs --------------------------
(***************************************************************************)
(* Proofs about uploads over FTP, for any uploads of any number of parts,  *)
(* any waits and any number of faults.                                     *)
(***************************************************************************)
EXTENDS FtpUpload, FiniteSetTheorems, SequenceTheorems, WellFoundedInduction, TLAPS

-----------------------------------------------------------------------------
(* Numbers *)

LEMMA LeastNumber ==
  ASSUME NEW S \in SUBSET Nat, S # {}
  PROVE  \E m \in S : \A n \in S : m <= n
<1>1. PICK m \in S : \A n \in S : <<n, m>> \notin OpToRel(<, Nat)
  BY NatLessThanWellFounded, WFMin
<1>2. \A n \in S : ~(n < m)
  BY <1>1 DEF OpToRel
<1> QED
  BY <1>2

\* Max is what it is called, for a set that has a bound.
LEMMA MaxOfBounded ==
  ASSUME NEW S \in SUBSET Nat, S # {}, NEW b \in Nat, \A n \in S : n <= b
  PROVE  Max(S) \in S /\ \A n \in S : n <= Max(S)
<1> DEFINE bounds == {m \in Nat : \A n \in S : n <= m}
<1>1. PICK m \in bounds : \A n \in bounds : m <= n
  BY LeastNumber
<1>2. m \in S
  <2> SUFFICES ASSUME m \notin S PROVE FALSE
    OBVIOUS
  <2>1. m \in Nat /\ \A n \in S : n \in Nat /\ n < m
    BY <1>1
  <2>2. m - 1 \in Nat
    <3>1. PICK n \in S : TRUE
      OBVIOUS
    <3>2. n \in Nat /\ n < m /\ m \in Nat
      BY <2>1
    <3> QED
      BY <3>2
  <2>3. m - 1 \in bounds
    BY <2>1, <2>2
  <2> QED
    BY <1>1, <2>1, <2>2, <2>3
<1>3. \E x \in S : \A n \in S : x >= n
  BY <1>1, <1>2
<1> QED
  BY <1>3 DEF Max

\* No upload has more parts than Numbers has, whatever the uploads are.
LEMMA PartsAreNumbers ==
  /\ Max({0} \union Range(Parts)) \in Nat
  /\ 0 \in Numbers
  /\ \A u \in Uploads : Parts[u] \in Numbers /\ Parts[u] # 0
<1>1. Len(Parts) \in Nat /\ Uploads = 1 .. Len(Parts) /\ \A u \in Uploads : Parts[u] \in Nat \ {0}
  BY BoundAssumption DEF Uploads
<1> DEFINE Bounds(n) == {b \in Nat : \A u \in 1 .. n : Parts[u] <= b}
           unbounded == {n \in 0 .. Len(Parts) : Bounds(n) = {}}
<1>2. unbounded = {}
  <2> SUFFICES ASSUME unbounded # {} PROVE FALSE
    OBVIOUS
  <2>1. PICK n \in unbounded : \A m \in unbounded : n <= m
    <3> unbounded \in SUBSET Nat
      BY <1>1
    <3> HIDE DEF unbounded
    <3> QED
      BY LeastNumber
  <2>2. n \in 1 .. Len(Parts)
    <3>1. 0 \notin unbounded
      <4>1. 0 \in Bounds(0)
        OBVIOUS
      <4> QED
        BY <4>1
    <3>2. n \in 0 .. Len(Parts) /\ n # 0
      BY <2>1, <3>1
    <3> QED
      BY <1>1, <3>2
  <2>3. PICK b \in Nat : b \in Bounds(n - 1)
    <3>1. n \in Nat /\ n - 1 \in 0 .. Len(Parts) /\ ~(n <= n - 1)
      BY <1>1, <2>2
    <3>2. n - 1 \notin unbounded
      BY <2>1, <3>1
    <3> QED
      BY <3>1, <3>2
  <2>4. PICK c \in Nat : c >= b /\ c >= Parts[n]
    <3>1. Parts[n] \in Nat
      BY <1>1, <2>2
    <3>2. b >= Parts[n] \/ Parts[n] >= b
      BY <3>1
    <3> QED
      BY <3>1, <3>2
  <2>5. c \in Bounds(n)
    <3> SUFFICES ASSUME NEW u \in 1 .. n PROVE Parts[u] <= c
      OBVIOUS
    <3>1. Parts[u] \in Nat
      BY <1>1, <2>2
    <3>2. CASE u = n
      BY <2>4, <3>2
    <3>3. CASE u \in 1 .. n - 1
      BY <2>3, <2>4, <3>1, <3>3
    <3> QED
      BY <2>2, <3>2, <3>3
  <2> QED
    BY <2>1, <2>2, <2>5
<1>3. PICK b \in Nat : \A u \in 1 .. Len(Parts) : Parts[u] <= b
  <2>1. Bounds(Len(Parts)) # {}
    <3>1. Len(Parts) \in 0 .. Len(Parts)
      BY <1>1
    <3> QED
      BY <1>2, <3>1
  <2> QED
    BY <2>1
<1> DEFINE S == {0} \union Range(Parts)
<1>4. S \in SUBSET Nat /\ S # {} /\ 0 \in S /\ \A n \in S : n <= b
  BY <1>1, <1>3 DEF Range, Uploads
<1>5. \A u \in Uploads : Parts[u] \in S
  BY DEF Range, Uploads
<1> HIDE DEF S
<1>6. Max(S) \in S /\ \A n \in S : n <= Max(S)
  BY <1>4, MaxOfBounded
<1>7. Numbers = 0 .. Max(S)
  BY DEF Numbers, S
<1>8. Max(S) \in Nat /\ \A u \in Uploads : Parts[u] \in Nat \ {0} /\ Parts[u] <= Max(S)
  BY <1>1, <1>4, <1>5, <1>6
<1>9. 0 \in Numbers /\ \A u \in Uploads : Parts[u] \in Numbers /\ Parts[u] # 0
  BY <1>7, <1>8
<1> QED
  BY <1>8, <1>9 DEF S

-----------------------------------------------------------------------------
(* Types *)

Clients == [connected : BOOLEAN, sock : {"invalid", "open", "stale"}, pasv : Ports,
            inactivity : BOOLEAN, timer : BOOLEAN]
Queues == [items : BoundedSeq({"data", "keep"}, 2), port : Ports,
           pc : {"idle", "sending", "half", "noop"}, sock : {"none", "open", "closed"}]
Servers == [link : {"up", "down"}, cmds : Seq(Commands), replies : Seq(Replies),
            login : {"no", "user", "yes"}, listening : Ports]
Transfers == [pasv : Numbers, state : {"none", "wait", "open", "done"},
              data : {"none", "open", "ended"}, bytes : Seq(Contents)]

LEMMA Records ==
  TypeOK => /\ client \in Clients /\ wq \in Queues /\ srv \in Servers
            /\ transfer \in [Uploads -> Transfers]
BY DEF TypeOK, Clients, Queues, Servers, Transfers

LEMMA UploadNumbers ==
  /\ Len(Parts) \in Nat
  /\ Uploads = 1 .. Len(Parts)
  /\ Numbers \subseteq Nat
  /\ NoPort \in Ports
BY BoundAssumption, PartsAreNumbers DEF Uploads, Numbers, Ports

\* What the control connection's operators return.
LEMMA ClosedTypes ==
  ASSUME client \in Clients, wq \in Queues, NEW pasv \in Ports
  PROVE  ClientClosed(pasv) \in Clients /\ DataSockClosed \in Queues /\ NoServer \in Servers
<1>1. ClientClosed(pasv) \in Clients
  BY Zenon DEF Clients, ClientClosed
<1>2. DataSockClosed \in Queues
  BY DEF Queues, DataSockClosed
<1>3. NoServer \in Servers
  BY UploadNumbers, EmptySeq DEF Servers, NoServer
<1> QED
  BY <1>1, <1>2, <1>3

LEMMA SentTypes ==
  ASSUME client \in Clients, srv \in Servers, NEW c \in Commands
  PROVE  Sent(c) \in Clients /\ [srv EXCEPT !.cmds = Append(@, c)] \in Servers
<1> DEFINE pasv == IF c \in Formatted THEN NoPort ELSE client.pasv
<1>1. pasv \in Ports /\ Sent(c) = [client EXCEPT !.inactivity = FALSE, !.pasv = pasv]
  BY UploadNumbers DEF Clients, Sent
<1> HIDE DEF pasv
<1>2. Append(srv.cmds, c) \in Seq(Commands)
  BY AppendProperties DEF Servers
<1>3. [client EXCEPT !.inactivity = FALSE, !.pasv = pasv] \in Clients
  BY <1>1, Zenon DEF Clients
<1> QED
  BY <1>1, <1>2, <1>3 DEF Servers

LEMMA ReceivedTypes ==
  ASSUME client \in Clients, srv \in Servers, NEW n \in DOMAIN srv.replies
  PROVE  ClientAfter(n) \in Clients /\ ServerAfter(n) \in Servers
<1>1. srv.replies \in Seq(Replies) /\ Len(srv.replies) \in Nat /\ n \in 1 .. Len(srv.replies)
      /\ \A i \in 1 .. Len(srv.replies) : srv.replies[i] \in Replies
  BY ElementOfSeq, LenProperties DEF Servers
<1>2. SubSeq(srv.replies, n + 1, Len(srv.replies)) \in Seq(Replies)
  BY <1>1, SubSeqProperties
<1>3. ServerAfter(n) \in Servers
  BY <1>2 DEF Servers, ServerAfter
<1> DEFINE pasvs == {i \in 1 .. n : srv.replies[i].code = 227}
           port == IF pasvs = {} THEN NoPort ELSE srv.replies[Max(pasvs)].port
<1>4. port \in Ports
  <2>1. CASE pasvs = {}
    BY <2>1, UploadNumbers
  <2>2. CASE pasvs # {}
    <3>1. n \in Nat /\ pasvs \in SUBSET Nat /\ \A i \in pasvs : i <= n
      BY <1>1
    <3>2. Max(pasvs) \in pasvs
      <4> HIDE DEF pasvs
      <4> QED
        BY <2>2, <3>1, MaxOfBounded
    <3>3. srv.replies[Max(pasvs)] \in Replies
      <4>1. Max(pasvs) \in 1 .. n
        BY <3>2
      <4>2. Max(pasvs) \in 1 .. Len(srv.replies)
        <5> HIDE DEF pasvs
        <5> QED
          BY <1>1, <4>1
      <4> QED
        BY <1>1, <4>2
    <3>4. srv.replies[Max(pasvs)].port \in Ports
      BY <3>3 DEF Replies
    <3> QED
      BY <2>2, <3>4
  <2> QED
    BY <2>1, <2>2
<1>5. ClientAfter(n) = [client EXCEPT !.inactivity = FALSE, !.pasv = port]
  BY DEF ClientAfter
<1> HIDE DEF port
<1>6. ClientAfter(n) \in Clients
  BY <1>4, <1>5, Zenon DEF Clients
<1> QED
  BY <1>3, <1>6

LEMMA AnsweredTypes ==
  ASSUME srv \in Servers, srv.cmds # <<>>, NEW r \in Replies
  PROVE  /\ Head(srv.cmds) \in Commands
         /\ Answered(r) \in Servers /\ [srv EXCEPT !.cmds = Tail(@)] \in Servers
<1>1. Tail(srv.cmds) \in Seq(Commands) /\ Head(srv.cmds) \in Commands
  BY HeadTailProperties DEF Servers
<1>2. Append(srv.replies, r) \in Seq(Replies)
  BY AppendProperties DEF Servers
<1> QED
  BY <1>1, <1>2 DEF Answered, Servers

\* The work queue's two items are queued once each.
WorkItems == {items \in Seq({"data", "keep"}) : IsInjective(items)}

LEMMA WorkItemsTypes ==
  ASSUME NEW items \in WorkItems
  PROVE  /\ items \in BoundedSeq({"data", "keep"}, 2)
         /\ items # <<>> => Head(items) \in {"data", "keep"} /\ Tail(items) \in WorkItems
         /\ \A item \in {"data", "keep"} :
              item \notin Range(items) => Append(items, item) \in WorkItems
<1>1. /\ items \in Seq({"data", "keep"}) /\ Len(items) \in Nat
      /\ DOMAIN items = 1 .. Len(items) /\ items \in [1 .. Len(items) -> {"data", "keep"}]
      /\ \A i, j \in 1 .. Len(items) : items[i] = items[j] => i = j
  BY LenProperties DEF WorkItems, IsInjective
<1>2. Len(items) \in 0 .. 2
  <2> SUFFICES ASSUME Len(items) >= 3 PROVE FALSE
    BY <1>1
  <2>1. 1 \in 1 .. Len(items) /\ 2 \in 1 .. Len(items) /\ 3 \in 1 .. Len(items)
    BY <1>1
  <2>2. items[1] # items[2] /\ items[2] # items[3] /\ items[1] # items[3]
    BY <1>1, <2>1
  <2>3. items[1] \in {"data", "keep"} /\ items[2] \in {"data", "keep"} /\ items[3] \in {"data", "keep"}
    BY <1>1, <2>1
  <2> QED
    BY <2>2, <2>3
<1>3. items \in BoundedSeq({"data", "keep"}, 2)
  BY <1>1, <1>2 DEF BoundedSeq, SeqOf
<1>4. ASSUME items # <<>> PROVE Head(items) \in {"data", "keep"} /\ Tail(items) \in WorkItems
  <2>1. /\ Head(items) \in {"data", "keep"} /\ Tail(items) \in Seq({"data", "keep"})
        /\ Len(Tail(items)) = Len(items) - 1
        /\ \A i \in 1 .. Len(Tail(items)) : Tail(items)[i] = items[i + 1]
    BY <1>1, <1>4, HeadTailProperties
  <2>2. DOMAIN Tail(items) = 1 .. Len(items) - 1
    BY <2>1, LenProperties
  <2> QED
    BY <1>1, <2>1, <2>2 DEF WorkItems, IsInjective
<1>5. ASSUME NEW item \in {"data", "keep"}, item \notin Range(items)
      PROVE  Append(items, item) \in WorkItems
  <2>1. /\ Append(items, item) \in Seq({"data", "keep"})
        /\ Len(Append(items, item)) = Len(items) + 1
        /\ \A i \in 1 .. Len(items) : Append(items, item)[i] = items[i]
        /\ Append(items, item)[Len(items) + 1] = item
    BY <1>1, AppendProperties
  <2>2. DOMAIN Append(items, item) = 1 .. Len(items) + 1
    BY <2>1, LenProperties
  <2>3. \A i \in 1 .. Len(items) : items[i] # item
    BY <1>1, <1>5 DEF Range
  <2>4. ASSUME NEW i \in 1 .. Len(items) + 1, NEW j \in 1 .. Len(items) + 1,
               Append(items, item)[i] = Append(items, item)[j]
        PROVE  i = j
    <3>1. i \in 1 .. Len(items) \/ i = Len(items) + 1
      BY <1>1
    <3>2. j \in 1 .. Len(items) \/ j = Len(items) + 1
      BY <1>1
    <3> QED
      BY <1>1, <2>1, <2>3, <2>4, <3>1, <3>2
  <2> QED
    BY <2>1, <2>2, <2>4 DEF WorkItems, IsInjective
<1> QED
  BY <1>3, <1>4, <1>5

-----------------------------------------------------------------------------
(* The control connection *)

LEMMA StepCases ==
  ASSUME [Next]_vars
  PROVE  \/ Begin
         \/ OpenRefused \/ Connect \/ ConnectFails \/ SendCommand \/ SendCommandFails
         \/ ReplyExpected \/ ReplyOther \/ ReplyLate \/ ReplyHungUp
         \/ NextPart \/ ReadFails \/ SubmitData \/ PollReply \/ PollTimeout \/ PollHungUp
         \/ SendQuit \/ CloseUnconnected \/ QuitAnswered
         \/ keepalive_timeout \/ KeepaliveFirst \/ KeepaliveSends \/ KeepaliveAnswered
         \/ establish_data_channel \/ NoDataChannel
         \/ SendFirstHalf \/ SendSecondHalf \/ SendDataFails
         \/ Answer \/ AnswerPasv \/ AnswerStore \/ AnswerQuit \/ Refuse
         \/ OpenTransfer \/ EndTransfer \/ OtherReply \/ LinkFails
         \/ UNCHANGED vars
BY Zenon DEF Next, Worker, WorkQueue, StartItem, Server

Has(s, c) == \E i \in DOMAIN s : s[i] = c

LEMMA HasNone ==
  /\ \A c : ~Has(<<>>, c)
  /\ \A c, d : Has(<<d>>, c) <=> c = d
BY DEF Has

LEMMA HasAppended ==
  ASSUME NEW s \in Seq(Commands), NEW d \in Commands, NEW c
  PROVE  Has(Append(s, d), c) <=> Has(s, c) \/ c = d
<1>1. Len(s) \in Nat /\ DOMAIN s = 1 .. Len(s)
  BY LenProperties
<1>2. /\ DOMAIN Append(s, d) = 1 .. Len(s) + 1
      /\ \A i \in 1 .. Len(s) : Append(s, d)[i] = s[i]
      /\ Append(s, d)[Len(s) + 1] = d
  BY AppendProperties, LenProperties
<1>3. \A i \in 1 .. Len(s) + 1 : i \in 1 .. Len(s) \/ i = Len(s) + 1
  BY <1>1
<1>4. /\ \A i \in 1 .. Len(s) : i \in 1 .. Len(s) + 1
      /\ Len(s) + 1 \in 1 .. Len(s) + 1
  BY <1>1
<1> QED
  BY <1>1, <1>2, <1>3, <1>4, Zenon DEF Has

LEMMA HasTaken ==
  ASSUME NEW s \in Seq(Commands), s # <<>>
  PROVE  Has(s, Head(s)) /\ \A c : Has(Tail(s), c) => Has(s, c)
<1>1. Len(s) \in Nat /\ DOMAIN s = 1 .. Len(s) /\ Len(s) # 0
  BY LenProperties, EmptySeq
<1>2. Has(s, Head(s))
  BY <1>1 DEF Has
<1>3. ASSUME NEW c, Has(Tail(s), c) PROVE Has(s, c)
  <2>1. /\ Tail(s) \in Seq(Commands) /\ Len(Tail(s)) = Len(s) - 1
        /\ \A i \in 1 .. Len(Tail(s)) : Tail(s)[i] = s[i + 1]
    BY HeadTailProperties
  <2>2. PICK i \in 1 .. Len(s) - 1 : Tail(s)[i] = c
    BY <1>3, <2>1, LenProperties DEF Has
  <2>3. i + 1 \in 1 .. Len(s) /\ s[i + 1] = c
    BY <1>1, <2>1, <2>2
  <2> QED
    BY <1>1, <2>3 DEF Has
<1> QED
  BY <1>2, <1>3

\* The fields the operators of the control connection change.
LEMMA Fields ==
  ASSUME client \in Clients, wq \in Queues, srv \in Servers
  PROVE  /\ \A c : Sent(c).connected = client.connected /\ Sent(c).sock = client.sock
         /\ \A p : ~ClientClosed(p).connected /\ ClientClosed(p).sock = "invalid"
         /\ \A n : /\ ClientAfter(n).connected = client.connected
                   /\ ClientAfter(n).sock = client.sock
         /\ DataSockClosed.items = wq.items /\ DataSockClosed.pc = wq.pc
         /\ DataSockClosed.port = wq.port
         /\ DataSockClosed.sock = IF wq.sock = "open" THEN "closed" ELSE wq.sock
         /\ \A n : /\ ServerAfter(n).link = srv.link /\ ServerAfter(n).cmds = srv.cmds
                   /\ ServerAfter(n).login = srv.login
                   /\ ServerAfter(n).listening = srv.listening
         /\ \A r : /\ Answered(r).link = srv.link /\ Answered(r).cmds = Tail(srv.cmds)
                   /\ Answered(r).replies = Append(srv.replies, r)
                   /\ Answered(r).login = srv.login /\ Answered(r).listening = srv.listening
         /\ NoServer.link = "down" /\ NoServer.cmds = <<>> /\ NoServer.replies = <<>>
         /\ NoServer.listening = NoPort /\ NoServer.login = "no"
<1>1. /\ \A c : Sent(c).connected = client.connected /\ Sent(c).sock = client.sock
      /\ \A p : ~ClientClosed(p).connected /\ ClientClosed(p).sock = "invalid"
      /\ \A n : ClientAfter(n).connected = client.connected /\ ClientAfter(n).sock = client.sock
  BY DEF Clients, Sent, ClientClosed, ClientAfter
<1>2. /\ DataSockClosed.items = wq.items /\ DataSockClosed.pc = wq.pc
      /\ DataSockClosed.port = wq.port
      /\ DataSockClosed.sock = IF wq.sock = "open" THEN "closed" ELSE wq.sock
  BY DEF Queues, DataSockClosed
<1>3. \A n : /\ ServerAfter(n).link = srv.link /\ ServerAfter(n).cmds = srv.cmds
             /\ ServerAfter(n).login = srv.login /\ ServerAfter(n).listening = srv.listening
  BY DEF Servers, ServerAfter
<1>4. \A r : /\ Answered(r).link = srv.link /\ Answered(r).cmds = Tail(srv.cmds)
             /\ Answered(r).replies = Append(srv.replies, r)
             /\ Answered(r).login = srv.login /\ Answered(r).listening = srv.listening
  BY DEF Servers, Answered
<1>5. /\ NoServer.link = "down" /\ NoServer.cmds = <<>> /\ NoServer.replies = <<>>
      /\ NoServer.listening = NoPort /\ NoServer.login = "no"
  BY DEF NoServer
<1> QED
  BY <1>1, <1>2, <1>3, <1>4, <1>5

LEMMA CmdsHave ==
  ASSUME srv \in Servers
  PROVE  /\ \A d \in Commands : \A c : Has(Append(srv.cmds, d), c) <=> Has(srv.cmds, c) \/ c = d
         /\ srv.cmds # <<>> => /\ \A c : Has(Tail(srv.cmds), c) => Has(srv.cmds, c)
                               /\ Has(srv.cmds, Head(srv.cmds))
<1>1. srv.cmds \in Seq(Commands)
  BY DEF Servers
<1> QED
  BY <1>1, HasAppended, HasTaken

Quitting == pc = "recv" /\ cmd = "QUIT"

\* The work queue holds each of its two items at most once.
IWork == wq.items \in WorkItems

\* The worker's own commands, and the replies it waits for.
IWorker ==
  /\ pc = "send" => cmd \notin {"GREETING", "NOOP"}
  /\ pc = "recv" => cmd \notin {"STOR", "APPE", "NOOP"}
  /\ pc # "idle" => upload \in Uploads

BeforeLogin == {"GREETING", "OPTS", "USER", "PASS"}

\* The client takes the connection for open at least as long as there is one, and after
\* a login.
ISocket ==
  /\ client.connected => client.sock = "open" /\ ~(pc \in {"send", "recv"} /\ cmd \in BeforeLogin)
  /\ srv.link = "up" => client.sock = "open"

\* Between uploads there is no connection; nothing is sent on one after QUIT, and only
\* the server's end may still be there then.
IServer ==
  /\ srv.link = "down" => srv = NoServer \/ (Quitting /\ srv.listening = NoPort)
  /\ pc \in {"idle", "open"} => srv = NoServer
  /\ Has(srv.cmds, "QUIT") => Quitting

LEMMA WorkStep ==
  ASSUME TypeOK, IWork, [Next]_vars
  PROVE  IWork'
<1>0. wq \in Queues
  BY Records
<1> USE <1>0, WorkItemsTypes DEF IWork, Queues, Queued, Started, Start
<1>1. CASE \/ SubmitData \/ keepalive_timeout \/ KeepaliveFirst \/ KeepaliveAnswered
           \/ establish_data_channel \/ NoDataChannel
           \/ SendFirstHalf \/ SendSecondHalf \/ SendDataFails
  BY <1>1 DEF SubmitData, keepalive_timeout, KeepaliveFirst, KeepaliveAnswered, DataSockClosed,
              establish_data_channel, NoDataChannel, SendFirstHalf, SendSecondHalf,
              SendDataFails, DataEnds
<1>2. CASE KeepaliveSends
  BY <1>2 DEF KeepaliveSends, DataSockClosed
<1>3. CASE SendCommandFails \/ ReplyHungUp \/ PollHungUp \/ CloseUnconnected \/ QuitAnswered
  BY <1>3 DEF SendCommandFails, ReplyHungUp, PollHungUp, CloseUnconnected, Closed, QuitAnswered,
              close_connection, DataSockClosed
<1>4. CASE UNCHANGED wq
  BY <1>4
<1> QED
  BY <1>1, <1>2, <1>3, <1>4, StepCases, Zenon
  DEF Begin, OpenRefused, Connect, ConnectFails, SendCommand, ReplyExpected, ReplyOther,
      ReplyLate, NextPart, ReadFails, PollReply, PollTimeout, SendQuit, Answer, AnswerPasv,
      AnswerStore, AnswerQuit, Refuse, OpenTransfer, EndTransfer, OtherReply, LinkFails, vars

LEMMA WorkerStep ==
  ASSUME TypeOK, IWorker, [Next]_vars
  PROVE  IWorker'
<1>0. upload \in 0 .. Len(Parts) /\ Len(Parts) \in Nat /\ Uploads = 1 .. Len(Parts)
      /\ cmd \in Commands
  BY UploadNumbers DEF TypeOK
<1> USE DEF IWorker, Goto, Rest
<1>1. CASE Begin
  BY <1>0, <1>1 DEF Begin
<1>2. CASE \/ OpenRefused \/ Connect \/ ConnectFails \/ SendCommand \/ ReadFails \/ NextPart
           \/ SubmitData \/ PollReply \/ PollTimeout \/ PollHungUp
           \/ SendQuit \/ CloseUnconnected \/ QuitAnswered
  BY <1>2 DEF OpenRefused, Connect, ConnectFails, SendCommand, ReadFails, NextPart, SubmitData,
              PollReply, PollTimeout, PollHungUp, SendQuit, CloseUnconnected, QuitAnswered
<1>3. CASE SendCommandFails \/ ReplyOther
  BY <1>3 DEF SendCommandFails, ReplyOther
<1>4. CASE ReplyExpected
  <2>1. upload' = upload /\ pc = "recv"
    BY <1>4 DEF ReplyExpected
  <2>2. \/ pc' = "put"
        \/ pc' = "send" /\ cmd' = Store
        \/ pc' = "send" /\ cmd \in DOMAIN Following /\ cmd' = Following[cmd]
    BY <1>0, <1>4 DEF ReplyExpected, Commands, Following
  <2> QED
    BY <2>1, <2>2 DEF Store, Following
<1>5. CASE ReplyLate \/ ReplyHungUp
  <2>1. GiveUp /\ upload' = upload /\ pc = "recv"
    BY <1>5 DEF ReplyLate, ReplyHungUp
  <2> QED
    BY <2>1 DEF GiveUp, Following
<1>6. CASE UNCHANGED workerVars
  BY <1>6 DEF workerVars
<1> QED
  BY <1>1, <1>2, <1>3, <1>4, <1>5, <1>6, StepCases, Zenon
  DEF keepalive_timeout, KeepaliveFirst, KeepaliveSends, KeepaliveAnswered,
      establish_data_channel, NoDataChannel, SendFirstHalf, SendSecondHalf, SendDataFails,
      Answer, AnswerPasv, AnswerStore, AnswerQuit, Refuse, OpenTransfer, EndTransfer,
      OtherReply, LinkFails,
      vars

LEMMA SocketStep ==
  ASSUME TypeOK, IWorker, ISocket, IServer, [Next]_vars
  PROVE  ISocket'
<1>0. client \in Clients /\ wq \in Queues /\ srv \in Servers /\ cmd \in Commands
  BY Records DEF TypeOK
<1> USE <1>0, Fields DEF ISocket, BeforeLogin, Clients, Goto
<1>1. CASE Connect \/ ConnectFails
  <2>1. ~client.connected /\ client' \in {client, [client EXCEPT !.sock = "open"],
                                           [client EXCEPT !.sock = "stale"]}
    BY <1>1 DEF Connect, ConnectFails
  <2>2. ~client'.connected
    BY <2>1
  <2>3. srv'.link = "up" => client'.sock = "open"
    BY <1>1 DEF Connect, ConnectFails, NoServer, IServer
  <2> QED
    BY <2>2, <2>3
<1>2. CASE SendCommand
  BY <1>2 DEF SendCommand, Send, Servers
<1>3. CASE SendCommandFails
  <2>1. CASE /\ SendFails(cmd)
             /\ client' = [Sent(cmd) EXCEPT !.sock = IF cmd = "OPTS" THEN "stale" ELSE @]
    <3>1. Sent(cmd) \in Clients
      BY <1>0, SentTypes
    <3>2. /\ client'.connected = client.connected
          /\ cmd = "OPTS" \/ client'.sock = client.sock
      BY <2>1, <3>1
    <3>3. srv.link # "up" \/ client.sock # "open"
      BY <2>1 DEF SendFails, Broken
    <3>4. pc' = "send" => cmd' = "TYPE"
      BY <1>3 DEF SendCommandFails
    <3>5. pc = "send" /\ pc' # "recv"
      BY <1>3 DEF SendCommandFails
    <3> QED
      BY <2>1, <3>2, <3>3, <3>4, <3>5 DEF SendFails
  <2>2. CASE close_connection
    BY <1>3, <2>2 DEF close_connection
  <2> QED
    BY <1>3, <2>1, <2>2 DEF SendCommandFails, SendFails
<1>4. CASE ReplyExpected
  <2>1. pc = "recv" /\ client.sock = "open" /\ client'.sock = client.sock
    BY <1>4 DEF ReplyExpected, Received
  <2>2. client'.connected => client.connected \/ cmd = "PASS"
    BY <1>4 DEF ReplyExpected
  <2>3. \/ pc' = "put"
        \/ pc' = "send" /\ cmd' = Store
        \/ pc' = "send" /\ cmd \in DOMAIN Following /\ cmd' = Following[cmd]
    <3>1. cmd \in DOMAIN Following \/ cmd \in {"TYPE", "PASV"}
      BY <1>0, <1>4 DEF IWorker, ReplyExpected, Commands, Following
    <3> QED
      BY <1>4, <3>1 DEF ReplyExpected
  <2>4. pc' = "send" /\ cmd' \in BeforeLogin => cmd \in BeforeLogin \ {"PASS"}
    BY <2>3 DEF Following, Store
  <2> QED
    BY <2>1, <2>2, <2>3, <2>4
<1>5. CASE ReplyOther
  <2>1. PICK n \in DOMAIN srv.replies :
          \/ /\ client' = [ClientAfter(n) EXCEPT !.sock = "stale"]
             /\ srv' = NoServer /\ cmd = "GREETING"
          \/ client' = ClientAfter(n)
    BY <1>5 DEF ReplyOther
  <2>2. ClientAfter(n) \in Clients
    BY <1>0, ReceivedTypes
  <2>3. /\ client'.connected = client.connected
        /\ client'.sock = client.sock \/ (cmd = "GREETING" /\ srv' = NoServer)
    <3>1. [ClientAfter(n) EXCEPT !.sock = "stale"].connected = ClientAfter(n).connected
      BY <2>2
    <3>2. ClientAfter(n).connected = client.connected /\ ClientAfter(n).sock = client.sock
      BY <1>0, Fields
    <3> QED
      BY <2>1, <3>1, <3>2
  <2>4. /\ pc = "recv" /\ client.sock = "open" /\ pc' # "recv"
        /\ pc' = "send" /\ cmd' \in BeforeLogin => cmd = "GREETING"
    BY <1>5 DEF ReplyOther, Received
  <2> QED
    BY <2>3, <2>4
<1>6. CASE PollReply
  BY <1>6 DEF PollReply, Received
<1>7. CASE ReplyLate
  BY <1>7 DEF ReplyLate, GiveUp, Following
<1>8. CASE ReplyHungUp \/ PollHungUp \/ CloseUnconnected
  BY <1>8 DEF ReplyHungUp, PollHungUp, HangUp, CloseUnconnected, Closed, close_connection
<1>9. CASE QuitAnswered
  BY <1>9 DEF QuitAnswered, ClientClosed
<1>10. CASE keepalive_timeout \/ KeepaliveFirst
  BY <1>10 DEF keepalive_timeout, KeepaliveFirst, SameServer, workerVars
<1>11. CASE KeepaliveSends
  BY <1>11 DEF KeepaliveSends, Send, SendFails, Broken, Servers, workerVars
<1>12. CASE KeepaliveAnswered
  BY <1>12 DEF KeepaliveAnswered, HangUp, Received, workerVars
<1>13. CASE establish_data_channel \/ SendSecondHalf \/ SendDataFails
  BY <1>13 DEF establish_data_channel, SendSecondHalf, SendDataFails, DataEnds, Servers, workerVars
<1>14. CASE Answer \/ AnswerPasv \/ AnswerStore \/ AnswerQuit \/ Refuse
  <2>1. UNCHANGED <<client, pc, cmd>> /\ srv.link = "up"
    BY <1>14 DEF Answer, AnswerPasv, AnswerStore, AnswerQuit, Refuse, workerVars, Serving
  <2> QED
    BY <2>1
<1>15. CASE OpenTransfer \/ EndTransfer \/ OtherReply \/ LinkFails
  BY <1>15 DEF OpenTransfer, EndTransfer, OtherReply, LinkFails, Servers, workerVars
<1>16. CASE OpenRefused \/ NextPart \/ ReadFails \/ SubmitData \/ SendQuit \/ PollTimeout \/ Begin
  BY <1>16 DEF OpenRefused, NextPart, ReadFails, SubmitData, SendQuit, PollTimeout, Begin
<1>17. CASE UNCHANGED <<client, srv, pc, cmd>>
  BY <1>17
<1> QED
  BY <1>1, <1>2, <1>3, <1>4, <1>5, <1>6, <1>7, <1>8, <1>9, <1>10, <1>11, <1>12, <1>13, <1>14,
     <1>15, <1>16, <1>17, StepCases, Zenon
  DEF NoDataChannel, SendFirstHalf, SameServer, workerVars, vars

LEMMA ServerStep ==
  ASSUME TypeOK, IWorker, ISocket, IServer, [Next]_vars
  PROVE  IServer'
<1>0. client \in Clients /\ wq \in Queues /\ srv \in Servers /\ cmd \in Commands
  BY Records DEF TypeOK
<1> USE <1>0, Fields, CmdsHave, HasNone DEF IServer, Quitting, Goto, Servers
<1>1. CASE \/ ReplyHungUp \/ PollHungUp \/ CloseUnconnected \/ QuitAnswered \/ LinkFails
  <2>1. srv' = NoServer
    BY <1>1 DEF ReplyHungUp, PollHungUp, HangUp, CloseUnconnected, Closed, close_connection,
                QuitAnswered, OtherReply, LinkFails
  <2> QED
    BY <2>1
<1>2. CASE Connect
  <2>1. srv'.link = "up" /\ srv'.cmds = <<"GREETING">> /\ pc' = "recv"
    BY <1>2 DEF Connect, NoServer
  <2> QED
    BY <2>1
<1>3. CASE SendCommand
  <2>1. pc = "send" /\ Send(cmd) /\ pc' = (IF cmd \in {"STOR", "APPE"} THEN "submit" ELSE "recv")
        /\ cmd' = cmd
    BY <1>3 DEF SendCommand
  <2>2. CASE Broken
    BY <2>1, <2>2 DEF Send, Broken
  <2>3. CASE ~Broken
    <3>1. srv.link = "up" /\ srv'.link = "up" /\ srv'.cmds = Append(srv.cmds, cmd)
      BY <2>1, <2>3 DEF Send, Broken
    <3> QED
      BY <2>1, <3>1
  <2> QED
    BY <2>2, <2>3
<1>4. CASE SendCommandFails
  <2>1. CASE srv' = NoServer
    BY <2>1
  <2>2. CASE SendFails(cmd)
    <3>1. srv.link # "up" /\ srv' = srv /\ pc = "send"
      BY <1>4, <2>2 DEF SendCommandFails, SendFails, Broken, ISocket
    <3> QED
      BY <3>1
  <2> QED
    BY <1>4, <2>1, <2>2 DEF SendCommandFails, close_connection
<1>5. CASE ReplyExpected \/ PollReply
  <2>1. PICK n \in DOMAIN srv.replies : srv' = ServerAfter(n)
    BY <1>5 DEF ReplyExpected, PollReply
  <2>2. srv'.link = srv.link /\ srv'.cmds = srv.cmds
    BY <2>1
  <2>3. srv # NoServer
    BY <2>1
  <2>4. ~Quitting /\ pc' \notin {"idle", "open"}
    BY <1>5 DEF ReplyExpected, PollReply
  <2> QED
    BY <2>2, <2>3, <2>4
<1>6. CASE ReplyOther
  <2>1. PICK n \in DOMAIN srv.replies : srv' \in {NoServer, ServerAfter(n)}
    BY <1>6 DEF ReplyOther
  <2>2. srv # NoServer /\ ~Quitting /\ pc' \notin {"idle", "open"}
    BY <1>6 DEF ReplyOther, Expected
  <2>3. srv'.link = "up" \/ srv' = NoServer
    BY <2>1, <2>2
  <2> QED
    BY <2>1, <2>2, <2>3
<1>7. CASE ReplyLate
  <2>1. srv' \in {NoServer, srv} /\ ~Quitting /\ pc = "recv" /\ pc' \notin {"idle", "open"}
    BY <1>7 DEF ReplyLate, GiveUp
  <2> QED
    BY <2>1
<1>8. CASE KeepaliveSends
  <2>1. UNCHANGED <<pc, cmd>>
    BY <1>8 DEF KeepaliveSends, workerVars
  <2>2. CASE srv' \in {NoServer, srv}
    BY <2>1, <2>2
  <2>3. CASE Send("NOOP") /\ ~Broken
    <3>1. srv.link = "up" /\ srv'.link = "up" /\ srv'.cmds = Append(srv.cmds, "NOOP")
      BY <2>3 DEF Send, Broken
    <3> QED
      BY <2>1, <3>1 DEF Commands
  <2> QED
    BY <1>8, <2>2, <2>3 DEF KeepaliveSends, SendFails, Send
<1>9. CASE KeepaliveAnswered
  <2>1. UNCHANGED <<pc, cmd>>
    BY <1>9 DEF KeepaliveAnswered, workerVars
  <2>2. CASE srv' \in {NoServer, srv}
    BY <2>1, <2>2
  <2>3. CASE \E n \in DOMAIN srv.replies : srv' = ServerAfter(n)
    BY <2>1, <2>3
  <2> QED
    BY <1>9, <2>2, <2>3 DEF KeepaliveAnswered, HangUp
<1>10. CASE establish_data_channel
  <2>1. UNCHANGED <<pc, cmd>> /\ srv.listening # NoPort
    BY <1>10 DEF establish_data_channel, workerVars
  <2>2. srv'.link = srv.link /\ srv'.cmds = srv.cmds
    BY <1>10 DEF establish_data_channel
  <2> QED
    BY <2>1, <2>2
<1>11. CASE Answer \/ AnswerPasv \/ AnswerStore \/ AnswerQuit \/ Refuse
  <2>1. UNCHANGED <<pc, cmd>> /\ srv.link = "up" /\ srv.cmds # <<>>
    BY <1>11 DEF Answer, AnswerPasv, AnswerStore, AnswerQuit, Refuse, workerVars, Serving
  <2>2. srv'.cmds = Tail(srv.cmds)
    BY <1>11, ZenonT(40) DEF Answer, AnswerPasv, AnswerStore, AnswerQuit, Refuse, Answered
  <2>3. \/ srv'.link = "up"
        \/ srv'.link = "down" /\ srv'.listening = NoPort /\ Head(srv.cmds) = "QUIT"
    BY <1>11, <2>1, ZenonT(40)
    DEF Answer, AnswerPasv, AnswerStore, AnswerQuit, Refuse, Answered, NextCommand
  <2> QED
    BY <2>1, <2>2, <2>3
<1>12. CASE OpenTransfer \/ EndTransfer \/ OtherReply
  BY <1>12 DEF OpenTransfer, EndTransfer, OtherReply, workerVars
<1>13. CASE OpenRefused \/ ConnectFails \/ NextPart \/ ReadFails \/ SubmitData \/ PollTimeout
            \/ SendQuit \/ Begin
  BY <1>13 DEF OpenRefused, ConnectFails, NextPart, ReadFails, SubmitData, PollTimeout, SendQuit,
               Begin
<1>14. CASE UNCHANGED <<srv, pc, cmd>>
  BY <1>14
<1> QED
  BY <1>1, <1>2, <1>3, <1>4, <1>5, <1>6, <1>7, <1>8, <1>9, <1>10, <1>11, <1>12, <1>13, <1>14,
     StepCases, Zenon
  DEF keepalive_timeout, KeepaliveFirst, NoDataChannel, SendFirstHalf, SendSecondHalf,
      SendDataFails, SameServer, workerVars, vars

-----------------------------------------------------------------------------
(* The PASVs of an upload *)

Pasvs(s) == Cardinality({i \in DOMAIN s : s[i] = "PASV"})

LEMMA PasvsNone == Pasvs(<<>>) = 0 /\ Pasvs(<<"GREETING">>) = 0
<1>1. {i \in DOMAIN <<>> : <<>>[i] = "PASV"} = {}
  OBVIOUS
<1>2. {i \in DOMAIN <<"GREETING">> : <<"GREETING">>[i] = "PASV"} = {}
  OBVIOUS
<1> QED
  BY <1>1, <1>2, FS_EmptySet DEF Pasvs

LEMMA PasvsNat ==
  ASSUME NEW s \in Seq(Commands)
  PROVE  IsFiniteSet({i \in DOMAIN s : s[i] = "PASV"}) /\ Pasvs(s) \in Nat
<1>1. Len(s) \in Nat /\ DOMAIN s = 1 .. Len(s)
  BY LenProperties
<1>2. IsFiniteSet(1 .. Len(s))
  BY <1>1, FS_Interval
<1>3. IsFiniteSet({i \in DOMAIN s : s[i] = "PASV"})
  BY <1>1, <1>2, FS_Subset
<1> QED
  BY <1>3, FS_CardinalityType DEF Pasvs

LEMMA PasvsAppended ==
  ASSUME NEW s \in Seq(Commands), NEW d \in Commands
  PROVE  Pasvs(Append(s, d)) = IF d = "PASV" THEN Pasvs(s) + 1 ELSE Pasvs(s)
<1> DEFINE old == {i \in DOMAIN s : s[i] = "PASV"}
           new == {i \in DOMAIN Append(s, d) : Append(s, d)[i] = "PASV"}
<1>1. Len(s) \in Nat /\ DOMAIN s = 1 .. Len(s)
  BY LenProperties
<1>2. /\ DOMAIN Append(s, d) = 1 .. Len(s) + 1
      /\ \A i \in 1 .. Len(s) : Append(s, d)[i] = s[i]
      /\ Append(s, d)[Len(s) + 1] = d
  BY AppendProperties, LenProperties
<1>3. 1 .. Len(s) + 1 = (1 .. Len(s)) \union {Len(s) + 1} /\ Len(s) + 1 \notin 1 .. Len(s)
  BY <1>1
<1>4. new = IF d = "PASV" THEN old \union {Len(s) + 1} ELSE old
  BY <1>1, <1>2, <1>3
<1>5. IsFiniteSet(old) /\ Len(s) + 1 \notin old
  BY <1>1, <1>3, PasvsNat
<1> HIDE DEF old, new
<1>6. Cardinality(old \union {Len(s) + 1}) = Cardinality(old) + 1
  BY <1>5, FS_AddElement
<1> QED
  BY <1>4, <1>6 DEF Pasvs, old, new

LEMMA PasvsTaken ==
  ASSUME NEW s \in Seq(Commands), s # <<>>
  PROVE  Pasvs(s) = IF Head(s) = "PASV" THEN Pasvs(Tail(s)) + 1 ELSE Pasvs(Tail(s))
<1> DEFINE old == {i \in DOMAIN s : s[i] = "PASV"}
           new == {i \in DOMAIN Tail(s) : Tail(s)[i] = "PASV"}
           rest == old \ {1}
           f == [i \in new |-> i + 1]
<1>1. Len(s) \in Nat /\ DOMAIN s = 1 .. Len(s) /\ Len(s) # 0 /\ Head(s) = s[1]
  BY LenProperties, EmptySeq
<1>2. /\ Tail(s) \in Seq(Commands) /\ Len(Tail(s)) = Len(s) - 1
      /\ \A i \in 1 .. Len(Tail(s)) : Tail(s)[i] = s[i + 1]
  BY HeadTailProperties
<1>3. DOMAIN Tail(s) = 1 .. Len(s) - 1
  BY <1>2, LenProperties
<1>4. f \in Bijection(new, rest)
  <2>1. \A i \in new : i + 1 \in rest
    BY <1>1, <1>2, <1>3
  <2>2. \A j \in rest : j - 1 \in new /\ (j - 1) + 1 = j
    BY <1>1, <1>2, <1>3
  <2>3. \A i, j \in new : i + 1 = j + 1 => i = j
    BY <1>3
  <2> HIDE DEF new, rest
  <2>4. f \in Injection(new, rest)
    BY <2>1, <2>3 DEF Injection, IsInjective
  <2>5. f \in Surjection(new, rest)
    BY <2>1, <2>2 DEF Surjection
  <2> QED
    BY <2>4, <2>5 DEF Bijection
<1>5. IsFiniteSet(old) /\ IsFiniteSet(new)
  BY <1>2, PasvsNat
<1>6. 1 \in old <=> Head(s) = "PASV"
  BY <1>1
<1> HIDE DEF old, new, rest, f
<1>7. Cardinality(rest) = Cardinality(new)
  BY <1>4, <1>5, FS_Bijection DEF ExistsBijection
<1>8. Cardinality(old) \in Nat
      /\ Cardinality(rest) = IF 1 \in old THEN Cardinality(old) - 1 ELSE Cardinality(old)
  BY <1>5, FS_RemoveElement, FS_CardinalityType DEF rest
<1>9. Cardinality(old) = Pasvs(s) /\ Cardinality(new) = Pasvs(Tail(s))
  BY DEF Pasvs, old, new
<1>10. Cardinality(old) = IF 1 \in old THEN Cardinality(new) + 1 ELSE Cardinality(new)
  <2> DEFINE m == Cardinality(old)
             n == Cardinality(new)
  <2>1. m \in Nat /\ n = IF 1 \in old THEN m - 1 ELSE m
    BY <1>7, <1>8
  <2> HIDE DEF m, n
  <2>2. m = IF 1 \in old THEN n + 1 ELSE n
    BY <2>1
  <2> QED
    BY <2>2 DEF m, n
<1> QED
  BY <1>6, <1>9, <1>10, Zenon

-----------------------------------------------------------------------------
(* The data connection *)

T == transfer[upload]

\* What the work queue has open, if anything, is the data connection of the last PASV.
Current == wq.port = <<upload, T.pasv>>

\* Uploads to come are untouched, and the buffer is the one of the part at hand.
IFresh ==
  /\ \A u \in Uploads : u > upload => transfer[u] = NoTransfer /\ file[u] = <<>>
  /\ pc = "open" => T = NoTransfer
  /\ buffer = <<upload, part>>
  /\ part # 0 => upload \in Uploads /\ part <= Parts[upload]

\* The server listens for the last PASV only, until the work queue connects, which does
\* so for one port at a time.
IConn ==
  /\ srv.listening # NoPort =>
       /\ upload \in Uploads /\ srv.listening = <<upload, T.pasv>>
       /\ T.pasv > 0 /\ T.data = "none"
  /\ wq.pc \in {"sending", "half"} <=> wq.port # NoPort
  /\ wq.pc \in {"sending", "half"} <=> wq.sock # "none"
  /\ wq.port # NoPort => /\ wq.port \in Uploads \X Numbers
                         /\ wq.port[1] <= upload /\ wq.port[2] > 0
  /\ wq.port # NoPort /\ wq.port[1] = upload => wq.port[2] <= T.pasv

\* What the server has of the current transfer, by what the work queue has sent of it.
ITransfer ==
  upload > 0 =>
    /\ T.data = "open" <=> Current
    /\ T.data = "none" => T.bytes = <<>>
    /\ T.state = "done" => T.data = "ended" /\ T.bytes = <<>>
    /\ T.state # "none" => T.pasv > 0
    /\ T.state = "open" => T.data # "none"
    /\ Len(T.bytes) <= 2
    /\ Current /\ wq.pc = "sending" => T.bytes = <<>>
    /\ Current /\ wq.pc = "half" => Len(T.bytes) = 1

LEMMA Basics ==
  ASSUME TypeOK
  PROVE  /\ client \in Clients /\ wq \in Queues /\ srv \in Servers /\ cmd \in Commands
         /\ transfer \in [Uploads -> Transfers] /\ file \in [Uploads -> Seq(Contents)]
         /\ upload \in 0 .. Len(Parts) /\ part \in Nat /\ part \in Numbers
         /\ Len(Parts) \in Nat /\ Uploads = 1 .. Len(Parts) /\ Numbers \subseteq Nat
BY Records, UploadNumbers DEF TypeOK

\* Only these steps change a transfer, a file or the upload at hand.
LEMMA TransferSteps ==
  ASSUME [Next]_vars
  PROVE  \/ Begin \/ establish_data_channel \/ SendFirstHalf \/ SendSecondHalf \/ SendDataFails
         \/ AnswerPasv \/ AnswerStore \/ OpenTransfer \/ EndTransfer
         \/ UNCHANGED <<upload, transfer, file>>
BY StepCases, Zenon
DEF OpenRefused, Connect, ConnectFails, SendCommand, SendCommandFails, ReplyExpected, ReplyOther,
    ReplyLate, ReplyHungUp, NextPart, ReadFails, SubmitData, PollReply, PollTimeout, PollHungUp,
    SendQuit, CloseUnconnected, QuitAnswered, keepalive_timeout, KeepaliveFirst, KeepaliveSends,
    KeepaliveAnswered, NoDataChannel, Answer, AnswerQuit, Refuse,
    OtherReply, LinkFails, Rest, SameServer,
    workerVars, vars

\* Only these change the part or open an upload.
LEMMA PartSteps ==
  ASSUME [Next]_vars
  PROVE  \/ Begin \/ NextPart
         \/ /\ UNCHANGED <<upload, part, buffer>>
            /\ pc' = "open" => pc = "open"
<1> USE DEF Rest, Goto, GiveUp, workerVars
<1>1. CASE \/ OpenRefused \/ Connect \/ ConnectFails \/ SendCommand \/ SendCommandFails
           \/ ReplyExpected \/ ReplyOther
  BY <1>1 DEF OpenRefused, Connect, ConnectFails, SendCommand, SendCommandFails,
              ReplyExpected, ReplyOther
<1>2. CASE \/ ReplyLate \/ ReplyHungUp \/ ReadFails \/ SubmitData \/ PollReply \/ PollTimeout
           \/ PollHungUp \/ SendQuit \/ CloseUnconnected \/ QuitAnswered
  BY <1>2 DEF ReplyLate, ReplyHungUp, ReadFails, SubmitData, PollReply, PollTimeout, PollHungUp,
              SendQuit, CloseUnconnected, QuitAnswered
<1>3. CASE UNCHANGED workerVars
  BY <1>3
<1> QED
  BY <1>1, <1>2, <1>3, StepCases, ZenonT(40)
  DEF keepalive_timeout, KeepaliveFirst, KeepaliveSends, KeepaliveAnswered,
      establish_data_channel, NoDataChannel, SendFirstHalf, SendSecondHalf, SendDataFails,
      Answer, AnswerPasv, AnswerStore, AnswerQuit, Refuse, OpenTransfer, EndTransfer,
      OtherReply, LinkFails,
      vars

\* Bytes arrive at the transfer the data connection is for, if that is the current one.
LEMMA Arrivals ==
  ASSUME TypeOK, IConn, wq.port # NoPort, NEW data \in {"open", "ended"},
         NEW bytes \in Seq(Contents), DataArrives(data, bytes)
  PROVE  /\ transfer' = [transfer EXCEPT ![wq.port[1]] = transfer'[wq.port[1]]]
         /\ \A u \in Uploads : u # wq.port[1] => transfer'[u] = transfer[u]
         /\ LET t == transfer[wq.port[1]]
            IN  transfer'[wq.port[1]] = IF t.pasv # wq.port[2] THEN t
                                        ELSE [t EXCEPT !.data = data, !.bytes = t.bytes \o bytes]
         /\ transfer' \in [Uploads -> Transfers]
<1> DEFINE u == wq.port[1]
           t == transfer[u]
<1>1. u \in Uploads /\ t \in Transfers /\ transfer \in [Uploads -> Transfers]
  BY Basics DEF IConn
<1>2. t.bytes \o bytes \in Seq(Contents)
  BY <1>1, ConcatProperties DEF Transfers
<1>3. transfer' = IF t.pasv # wq.port[2] THEN transfer
                  ELSE [transfer EXCEPT ![u] = [t EXCEPT !.data = data, !.bytes = t.bytes \o bytes]]
  <2>1. CASE t.pasv # wq.port[2]
    BY <2>1 DEF DataArrives, DataUpload
  <2>2. CASE t.pasv = wq.port[2]
    <3>1. transfer' = [transfer EXCEPT ![u].data = data, ![u].bytes = @ \o bytes]
      BY <2>2 DEF DataArrives, DataUpload
    <3> QED
      BY <1>1, <2>2, <3>1 DEF Transfers
  <2> QED
    BY <2>1, <2>2
<1>4. [t EXCEPT !.data = data, !.bytes = t.bytes \o bytes] \in Transfers
  BY <1>1, <1>2 DEF Transfers
<1> HIDE DEF u, t
<1>5. transfer' \in [Uploads -> Transfers] /\ \A v \in Uploads : v # u => transfer'[v] = transfer[v]
  BY <1>1, <1>3, <1>4
<1>6. transfer'[u] = IF t.pasv # wq.port[2] THEN t
                     ELSE [t EXCEPT !.data = data, !.bytes = t.bytes \o bytes]
  BY <1>1, <1>3 DEF t
<1>7. transfer' = [transfer EXCEPT ![u] = transfer'[u]]
  BY <1>1, <1>5
<1> QED
  BY <1>5, <1>6, <1>7 DEF t, u

\* What the invariants so far say, and what a step may assume.
IBase == TypeOK /\ IWork /\ IWorker /\ ISocket /\ IServer /\ IFresh /\ IConn /\ ITransfer

LEMMA LinkIsOfUpload ==
  ASSUME IBase, srv.link = "up" \/ srv # NoServer
  PROVE  pc \notin {"idle", "open"} /\ upload \in Uploads /\ upload > 0
<1>1. pc \notin {"idle", "open"}
  BY DEF IBase, IServer, NoServer
<1> QED
  BY <1>1, Basics DEF IBase, IWorker

\* A data connection is of this upload or of an earlier one.
LEMMA DataIsOfUpload ==
  ASSUME IBase, wq.pc \in {"sending", "half"}
  PROVE  /\ wq.port # NoPort /\ wq.port \in Uploads \X Numbers /\ upload \in Uploads
         /\ wq.port[1] \in Uploads /\ wq.port[1] <= upload /\ buffer \in Contents
<1>1. wq.port # NoPort /\ wq.port \in Uploads \X Numbers /\ wq.port[1] <= upload
  BY DEF IBase, IConn
<1>2. upload \in Uploads
  BY <1>1, Basics DEF IBase
<1> QED
  BY <1>1, <1>2, Basics DEF IBase, IFresh, Contents

LEMMA SentData ==
  ASSUME IBase, NEW bytes \in {<<>>, <<buffer>>}, wq.pc \in {"sending", "half"}
  PROVE  bytes \in Seq(Contents)
<1>1. buffer \in Contents
  BY DataIsOfUpload
<1>2. <<>> \in Seq(Contents)
  BY EmptySeq
<1>3. <<buffer>> \in Seq(Contents)
  BY <1>1
<1> QED
  BY <1>2, <1>3

\* What the sending of data does, whichever of its steps it is.
LEMMA DataSteps ==
  ASSUME IBase, SendFirstHalf \/ SendSecondHalf \/ SendDataFails
  PROVE  \E bytes \in {<<>>, <<buffer>>}, data \in {"open", "ended"} :
           /\ wq.pc \in {"sending", "half"} /\ bytes \in Seq(Contents)
           /\ bytes = <<buffer>> => wq.sock = "open"
           /\ DataArrives(data, bytes)
           /\ UNCHANGED <<pc, cmd, upload, part, buffer, ret, srv, file>>
           /\ client' = [client EXCEPT !.inactivity = client'.inactivity]
           /\ \/ /\ data = "open" /\ wq.pc = "sending" /\ bytes = <<buffer>>
                 /\ wq' = [wq EXCEPT !.pc = "half"]
              \/ /\ data = "ended"
                 /\ bytes = <<buffer>> => wq.pc = "half"
                 /\ wq' = [wq EXCEPT !.pc = "idle", !.sock = "none", !.port = NoPort]
<1> USE DEF workerVars
<1>0. client \in Clients
  BY Basics DEF IBase
<1>1. CASE SendFirstHalf
  <2>1. /\ wq.pc = "sending" /\ wq.sock = "open" /\ wq' = [wq EXCEPT !.pc = "half"]
        /\ DataArrives("open", <<buffer>>) /\ client' = client
        /\ UNCHANGED <<pc, cmd, upload, part, buffer, ret, srv, file>>
    BY <1>1 DEF SendFirstHalf
  <2>2. client' = [client EXCEPT !.inactivity = client'.inactivity]
    BY <1>0, <2>1 DEF Clients
  <2> QED
    BY <2>1, <2>2, SentData
<1>2. CASE SendSecondHalf \/ SendDataFails
  <2>1. PICK bytes \in {<<>>, <<buffer>>} :
          /\ wq.pc \in {"sending", "half"} /\ DataEnds(bytes)
          /\ bytes = <<buffer>> => wq.pc = "half" /\ wq.sock = "open"
    BY <1>2 DEF SendSecondHalf, SendDataFails
  <2>2. UNCHANGED <<pc, cmd, upload, part, buffer, ret, srv, file>>
    BY <1>2 DEF SendSecondHalf, SendDataFails
  <2>3. client' = [client EXCEPT !.inactivity = FALSE] /\ DataArrives("ended", bytes)
        /\ wq' = [wq EXCEPT !.pc = "idle", !.sock = "none", !.port = NoPort]
    BY <2>1 DEF DataEnds
  <2>4. client' = [client EXCEPT !.inactivity = client'.inactivity]
    BY <1>0, <2>3 DEF Clients
  <2> QED
    BY <2>1, <2>2, <2>3, <2>4, SentData
<1> QED
  BY <1>1, <1>2

\* The server takes the data connection for the last PASV.
LEMMA Established ==
  ASSUME IBase, establish_data_channel
  PROVE  /\ client.pasv = <<upload, T.pasv>> /\ upload \in Uploads /\ srv # NoServer
         /\ transfer' = [transfer EXCEPT ![upload].data = "open"]
         /\ wq.pc = "idle" /\ T.data = "none" /\ T.pasv > 0
<1>1. client.pasv = srv.listening /\ srv.listening # NoPort /\ wq.pc = "idle"
  BY DEF establish_data_channel, Start
<1>2. srv.listening = <<upload, T.pasv>> /\ upload \in Uploads /\ T.data = "none" /\ T.pasv > 0
  BY <1>1 DEF IBase, IConn
<1>3. transfer' = [transfer EXCEPT ![upload].data = "open"]
  <2>1. client.pasv[1] = upload
    BY <1>1, <1>2
  <2> QED
    BY <2>1 DEF establish_data_channel
<1>4. srv # NoServer
  BY <1>1, Fields, Basics DEF IBase
<1> QED
  BY <1>1, <1>2, <1>3, <1>4

LEMMA FreshStep ==
  ASSUME IBase, [Next]_vars
  PROVE  IFresh'
<1>0. /\ transfer \in [Uploads -> Transfers] /\ file \in [Uploads -> Seq(Contents)]
      /\ upload \in 0 .. Len(Parts) /\ part \in Nat
      /\ Len(Parts) \in Nat /\ Uploads = 1 .. Len(Parts) /\ IFresh
  BY Basics DEF IBase
<1>1. CASE Begin
  <2>1. /\ pc' = "open" /\ upload' = upload + 1 /\ part' = 0 /\ buffer' = <<upload', 0>>
        /\ upload < Len(Parts)
    BY <1>1 DEF Begin
  <2>2. \A u \in Uploads : u # upload => transfer'[u] = transfer[u] /\ file'[u] = file[u]
    BY <1>0, <1>1 DEF Begin
  <2>3. \A u \in Uploads : u > upload => transfer'[u] = NoTransfer /\ file'[u] = <<>>
    <3>1. \A u \in Uploads : u > upload => u # upload
      BY <1>0
    <3> QED
      BY <1>0, <2>2, <3>1 DEF IFresh
  <2>4. upload' \in Uploads /\ upload' > upload
    BY <1>0, <2>1
  <2>5. \A u \in Uploads : u > upload' => u > upload
    BY <1>0, <2>1
  <2> QED
    BY <2>1, <2>3, <2>4, <2>5 DEF IFresh, T
<1>2. CASE AnswerPasv \/ AnswerStore \/ OpenTransfer \/ EndTransfer
  <2>1. srv.link = "up" /\ UNCHANGED <<pc, upload, part, buffer>>
    BY <1>2 DEF AnswerPasv, AnswerStore, OpenTransfer, EndTransfer, Serving, workerVars
  <2>2. \A u \in Uploads : u # upload => transfer'[u] = transfer[u] /\ file'[u] = file[u]
    BY <1>0, <1>2 DEF AnswerPasv, AnswerStore, OpenTransfer, EndTransfer
  <2>3. pc # "open"
    BY <2>1, LinkIsOfUpload
  <2>4. \A u \in Uploads : u > upload => u # upload
    BY <1>0
  <2> QED
    BY <1>0, <2>1, <2>2, <2>3, <2>4 DEF IFresh
<1>3. CASE establish_data_channel
  <2>1. UNCHANGED <<pc, upload, part, buffer, file>>
    BY <1>3 DEF establish_data_channel, workerVars
  <2>2. pc # "open" /\ \A u \in Uploads : u # upload => transfer'[u] = transfer[u]
    BY <1>0, <1>3, Established, LinkIsOfUpload
  <2>3. \A u \in Uploads : u > upload => u # upload
    BY <1>0
  <2> QED
    BY <1>0, <2>1, <2>2, <2>3 DEF IFresh
<1>4. CASE SendFirstHalf \/ SendSecondHalf \/ SendDataFails
  <2>1. PICK bytes \in {<<>>, <<buffer>>}, data \in {"open", "ended"} :
           /\ wq.pc \in {"sending", "half"} /\ bytes \in Seq(Contents)
           /\ DataArrives(data, bytes)
           /\ UNCHANGED <<pc, upload, part, buffer, file>>
    BY <1>4, DataSteps
  <2>2. wq.port # NoPort /\ wq.port[1] \in Uploads /\ wq.port[1] <= upload /\ wq.port[2] > 0
    BY <2>1, DataIsOfUpload DEF IBase, IConn
  <2>3. \A u \in Uploads : u # wq.port[1] => transfer'[u] = transfer[u]
    BY <2>1, <2>2, Arrivals DEF IBase
  <2>4. transfer[wq.port[1]] = NoTransfer => transfer'[wq.port[1]] = NoTransfer
    <3>1. NoTransfer.pasv # wq.port[2]
      BY <2>2 DEF NoTransfer
    <3> QED
      BY <2>1, <2>2, <3>1, Arrivals DEF IBase
  <2>5. \A u \in Uploads : transfer[u] = NoTransfer => transfer'[u] = NoTransfer
    BY <2>3, <2>4
  <2>6. pc = "open" => upload \in Uploads
    BY DEF IBase, IWorker
  <2> QED
    BY <1>0, <2>1, <2>5, <2>6 DEF IFresh, T
<1>5. CASE UNCHANGED <<upload, transfer, file>>
  <2>1. CASE NextPart
    <3>1. pc = "put" /\ pc' # "open" /\ upload \in Uploads
      BY <2>1 DEF NextPart, Goto, IBase, IWorker
    <3>2. \/ part < Parts[upload] /\ part' = part + 1 /\ buffer' = <<upload, part'>>
          \/ UNCHANGED <<part, buffer>>
      BY <2>1 DEF NextPart
    <3>3. part < Parts[upload] => part + 1 <= Parts[upload]
      BY <1>0, <3>1, BoundAssumption DEF Uploads
    <3> QED
      BY <1>0, <1>5, <3>1, <3>2, <3>3 DEF IFresh
  <2>2. CASE UNCHANGED <<part, buffer>> /\ (pc' = "open" => pc = "open")
    BY <1>0, <1>5, <2>2 DEF IFresh, T
  <2>3. \/ NextPart \/ Begin
        \/ /\ UNCHANGED <<part, buffer>>
           /\ pc' = "open" => pc = "open"
    BY PartSteps
  <2> QED
    BY <1>1, <2>1, <2>2, <2>3
<1> QED
  BY <1>1, <1>2, <1>3, <1>4, <1>5, TransferSteps

\* What else happens to the data connection: close_connection.
LEMMA QueueSteps ==
  ASSUME TypeOK, [Next]_vars
  PROVE  \/ establish_data_channel \/ SendFirstHalf \/ SendSecondHalf \/ SendDataFails
         \/ /\ wq'.port = wq.port
            /\ wq'.sock = wq.sock \/ (wq.sock = "open" /\ wq'.sock = "closed")
            /\ wq'.pc = wq.pc \/ {wq.pc, wq'.pc} \subseteq {"idle", "noop"}
<1>0. wq \in Queues /\ client \in Clients /\ srv \in Servers
  BY Records
<1> USE <1>0, Fields DEF Queues, Started, Start
<1>1. CASE SubmitData \/ keepalive_timeout \/ KeepaliveFirst \/ NoDataChannel
  BY <1>1 DEF SubmitData, keepalive_timeout, KeepaliveFirst, NoDataChannel
<1>2. CASE KeepaliveSends \/ KeepaliveAnswered
  <2>1. DataSockClosed \in Queues
    BY ClosedTypes, UploadNumbers
  <2> QED
    BY <1>2, <2>1 DEF KeepaliveSends, KeepaliveAnswered
<1>3. CASE SendCommandFails \/ ReplyHungUp \/ PollHungUp \/ CloseUnconnected \/ QuitAnswered
  <2>1. wq' \in {wq, DataSockClosed}
    BY <1>3 DEF SendCommandFails, ReplyHungUp, PollHungUp, CloseUnconnected, Closed, QuitAnswered,
                close_connection
  <2> QED
    BY <2>1
<1>4. CASE UNCHANGED wq
  BY <1>4
<1> QED
  BY <1>1, <1>2, <1>3, <1>4, StepCases, Zenon
  DEF Begin, OpenRefused, Connect, ConnectFails, SendCommand, ReplyExpected, ReplyOther,
      ReplyLate, NextPart, ReadFails, PollReply, PollTimeout, SendQuit, Answer, AnswerPasv,
      AnswerStore, AnswerQuit, Refuse, OpenTransfer, EndTransfer, OtherReply, LinkFails, vars

\* Only PASV makes the server listen.
LEMMA ListenSteps ==
  ASSUME TypeOK, [Next]_vars
  PROVE  AnswerPasv \/ srv'.listening \in {srv.listening, NoPort}
<1>0. wq \in Queues /\ client \in Clients /\ srv \in Servers
  BY Records
<1> USE <1>0, Fields DEF Servers
<1>1. CASE srv' = NoServer \/ UNCHANGED srv
  BY <1>1
<1>2. CASE \E n : srv' = ServerAfter(n)
  BY <1>2
<1>3. CASE Connect \/ establish_data_channel \/ OpenTransfer \/ EndTransfer
  BY <1>3 DEF Connect, NoServer, establish_data_channel, OpenTransfer, EndTransfer
<1>4. CASE SendCommand
  BY <1>4 DEF SendCommand, Send
<1>5. CASE KeepaliveSends
  BY <1>5 DEF KeepaliveSends, Send, SendFails
<1>6. CASE Answer \/ AnswerStore \/ AnswerQuit \/ Refuse
  BY <1>6 DEF Answer, AnswerStore, AnswerQuit, Refuse, Answered
<1> QED
  BY <1>1, <1>2, <1>3, <1>4, <1>5, <1>6, StepCases, Zenon
  DEF Begin, OpenRefused, ConnectFails, SendCommandFails, SendFails, close_connection,
      ReplyExpected, ReplyOther, ReplyLate, ReplyHungUp, HangUp, NextPart, ReadFails, SubmitData,
      PollReply, PollTimeout, PollHungUp, SendQuit, CloseUnconnected, Closed, QuitAnswered,
      keepalive_timeout, KeepaliveFirst, KeepaliveAnswered, NoDataChannel, SendFirstHalf,
      SendSecondHalf, SendDataFails, SameServer, OtherReply, LinkFails, vars

\* Nothing is heard of a data connection the server has given up.
LEMMA OtherData ==
  ASSUME IBase, upload \in Uploads, SendFirstHalf \/ SendSecondHalf \/ SendDataFails
  PROVE  /\ ~Current => transfer'[upload] = T
         /\ \A u \in Uploads : transfer'[u].pasv = transfer[u].pasv
                              /\ transfer'[u].state = transfer[u].state
         /\ \A u \in Uploads : u # wq.port[1] => transfer'[u] = transfer[u]
         /\ transfer' \in [Uploads -> Transfers] /\ UNCHANGED upload
<1>1. PICK bytes \in {<<>>, <<buffer>>}, data \in {"open", "ended"} :
        /\ wq.pc \in {"sending", "half"} /\ bytes \in Seq(Contents)
        /\ DataArrives(data, bytes) /\ UNCHANGED upload
  BY DataSteps
<1>2. wq.port # NoPort /\ wq.port \in Uploads \X Numbers /\ wq.port[1] \in Uploads
  BY <1>1, DataIsOfUpload
<1>3. /\ transfer' \in [Uploads -> Transfers]
      /\ \A u \in Uploads : u # wq.port[1] => transfer'[u] = transfer[u]
      /\ LET t == transfer[wq.port[1]]
         IN  transfer'[wq.port[1]] = IF t.pasv # wq.port[2] THEN t
                                     ELSE [t EXCEPT !.data = data, !.bytes = t.bytes \o bytes]
  BY <1>1, <1>2, Arrivals DEF IBase
<1>4. /\ transfer'[wq.port[1]].pasv = transfer[wq.port[1]].pasv
      /\ transfer'[wq.port[1]].state = transfer[wq.port[1]].state
  <2>1. transfer[wq.port[1]] \in Transfers
    BY <1>2, Basics DEF IBase
  <2> QED
    BY <1>3, <2>1 DEF Transfers
<1>5. ~Current => transfer'[upload] = T
  BY <1>2, <1>3 DEF Current, T
<1> QED
  BY <1>1, <1>3, <1>4, <1>5

LEMMA ConnStep ==
  ASSUME IBase, [Next]_vars
  PROVE  IConn'
<1>0. /\ transfer \in [Uploads -> Transfers] /\ wq \in Queues /\ srv \in Servers
      /\ upload \in 0 .. Len(Parts) /\ Len(Parts) \in Nat /\ Uploads = 1 .. Len(Parts)
      /\ Numbers \subseteq Nat /\ IConn /\ TypeOK
  BY Basics DEF IBase
<1>1. CASE Begin
  <2>1. pc = "idle" /\ UNCHANGED <<srv, wq>> /\ upload' = upload + 1
    BY <1>1 DEF Begin
  <2>2. srv'.listening = NoPort
    BY <2>1 DEF IBase, IServer, NoServer
  <2>3. wq.port # NoPort => wq.port[1] < upload' /\ wq.port[1] # upload'
    BY <1>0, <2>1 DEF IConn
  <2> QED
    BY <1>0, <2>1, <2>2, <2>3 DEF IConn
<1>2. CASE establish_data_channel
  <2>1. /\ client.pasv = <<upload, T.pasv>> /\ upload \in Uploads
        /\ transfer' = [transfer EXCEPT ![upload].data = "open"]
        /\ T.pasv > 0
    BY <1>2, Established
  <2>2. /\ wq'.port = <<upload, T.pasv>> /\ wq'.sock = "open" /\ wq'.pc = "sending"
        /\ srv'.listening = NoPort /\ upload' = upload
    BY <1>0, <1>2, <2>1 DEF establish_data_channel, Started, Queues, Servers, workerVars
  <2>3. T \in Transfers /\ T.pasv \in Numbers /\ T'.pasv = T.pasv
    BY <1>0, <2>1, <2>2 DEF T, Transfers
  <2>4. <<upload, T.pasv>> # NoPort
    BY <1>0, <2>1 DEF NoPort
  <2> QED
    BY <1>0, <2>1, <2>2, <2>3, <2>4 DEF IConn
<1>3. CASE SendFirstHalf \/ SendSecondHalf \/ SendDataFails
  <2>1. wq.pc \in {"sending", "half"} /\ UNCHANGED <<upload, srv>>
        /\ wq' \in {[wq EXCEPT !.pc = "half"],
                    [wq EXCEPT !.pc = "idle", !.sock = "none", !.port = NoPort]}
    BY <1>3, DataSteps
  <2>2. upload \in Uploads
    BY <2>1, DataIsOfUpload
  <2>3. /\ ~Current => T' = T
        /\ T'.pasv = T.pasv
    BY <1>3, <2>1, <2>2, OtherData DEF T
  <2>4. srv.listening # NoPort => ~Current
    BY <1>0, <2>2 DEF IBase, ITransfer, IConn
  <2> QED
    BY <1>0, <2>1, <2>2, <2>3, <2>4 DEF IConn, Queues
<1>4. CASE AnswerPasv
  <2>1. upload \in Uploads /\ UNCHANGED <<upload, wq>>
    BY <1>4, LinkIsOfUpload DEF AnswerPasv, Serving, workerVars
  <2>2. /\ srv'.listening = <<upload, T.pasv + 1>>
        /\ T' = [NoTransfer EXCEPT !.pasv = T.pasv + 1]
    BY <1>0, <1>4, <2>1 DEF AnswerPasv, T, Answered, Servers
  <2>3. T'.pasv = T.pasv + 1 /\ T'.data = "none"
    BY <2>2 DEF NoTransfer
  <2>4. T.pasv \in Nat
    BY <1>0, <2>1 DEF T, Transfers
  <2>5. wq.port # NoPort /\ wq.port[1] = upload => wq.port[2] <= T.pasv + 1
    <3>1. wq.port # NoPort => wq.port[2] \in Nat
      BY <1>0 DEF IConn
    <3> QED
      BY <1>0, <2>4, <3>1 DEF IConn
  <2> QED
    BY <1>0, <2>1, <2>2, <2>3, <2>4, <2>5 DEF IConn
<1>5. CASE AnswerStore \/ OpenTransfer \/ EndTransfer
  <2>1. upload \in Uploads /\ UNCHANGED <<upload, wq>> /\ srv'.listening = srv.listening
    BY <1>0, <1>5, LinkIsOfUpload
    DEF AnswerStore, Answered, OpenTransfer, EndTransfer, Serving, Servers, workerVars
  <2>2. T \in Transfers
    BY <1>0, <2>1 DEF T
  <2>3. T'.pasv = T.pasv /\ T'.data = T.data
    BY <1>0, <1>5, <2>1, <2>2 DEF AnswerStore, OpenTransfer, EndTransfer, T, Transfers
  <2> QED
    BY <1>0, <2>1, <2>3 DEF IConn
<1>6. CASE UNCHANGED <<upload, transfer, file>>
  <2>1. T' = T
    BY <1>6 DEF T
  <2>2. \/ establish_data_channel \/ SendFirstHalf \/ SendSecondHalf \/ SendDataFails
        \/ /\ wq'.port = wq.port
           /\ wq'.sock = wq.sock \/ (wq.sock = "open" /\ wq'.sock = "closed")
           /\ wq'.pc = wq.pc \/ {wq.pc, wq'.pc} \subseteq {"idle", "noop"}
    BY <1>0, QueueSteps
  <2>3. AnswerPasv \/ srv'.listening \in {srv.listening, NoPort}
    BY <1>0, ListenSteps
  <2>4. ASSUME /\ wq'.port = wq.port
               /\ wq'.sock = wq.sock \/ (wq.sock = "open" /\ wq'.sock = "closed")
               /\ wq'.pc = wq.pc \/ {wq.pc, wq'.pc} \subseteq {"idle", "noop"},
               srv'.listening \in {srv.listening, NoPort}
        PROVE  IConn'
    BY <1>0, <1>6, <2>1, <2>4 DEF IConn
  <2> QED
    BY <1>2, <1>3, <1>4, <2>2, <2>3, <2>4
<1> QED
  BY <1>1, <1>2, <1>3, <1>4, <1>5, <1>6, TransferSteps

LEMMA TransferStep ==
  ASSUME IBase, [Next]_vars
  PROVE  ITransfer'
<1>0. /\ transfer \in [Uploads -> Transfers] /\ wq \in Queues /\ srv \in Servers
      /\ upload \in 0 .. Len(Parts) /\ Len(Parts) \in Nat /\ Uploads = 1 .. Len(Parts)
      /\ Numbers \subseteq Nat /\ IConn /\ TypeOK /\ ITransfer
  BY Basics DEF IBase
<1>1. CASE Begin
  <2>1. upload' = upload + 1 /\ upload' \in Uploads /\ pc' = "open" /\ wq' = wq
    BY <1>0, <1>1 DEF Begin
  <2>2. T' = NoTransfer
    BY <2>1, FreshStep DEF IFresh
  <2>3. ~Current'
    <3>1. wq.port[1] # upload'
      BY <1>0, <2>1 DEF IConn, NoPort
    <3> QED
      BY <2>1, <3>1 DEF Current
  <2> QED
    BY <2>2, <2>3, EmptySeq DEF ITransfer, NoTransfer
<1>2. CASE establish_data_channel
  <2>1. /\ client.pasv = <<upload, T.pasv>> /\ upload \in Uploads /\ T.data = "none"
        /\ transfer' = [transfer EXCEPT ![upload].data = "open"]
        /\ T.pasv > 0
    BY <1>2, Established
  <2>2. wq'.port = <<upload, T.pasv>> /\ wq'.pc = "sending" /\ upload' = upload
    BY <1>0, <1>2, <2>1 DEF establish_data_channel, Started, Queues, workerVars
  <2>3. T \in Transfers /\ T' = [T EXCEPT !.data = "open"]
    BY <1>0, <2>1, <2>2 DEF T
  <2>4. T.bytes = <<>> /\ T.state # "done"
    BY <1>0, <2>1 DEF ITransfer
  <2>5. Current'
    BY <2>2, <2>3 DEF Current, Transfers
  <2> QED
    BY <1>0, <2>1, <2>2, <2>3, <2>4, <2>5, EmptySeq DEF ITransfer, Transfers
<1>3. CASE SendFirstHalf \/ SendSecondHalf \/ SendDataFails
  <2>1. PICK bytes \in {<<>>, <<buffer>>}, data \in {"open", "ended"} :
           /\ wq.pc \in {"sending", "half"} /\ bytes \in Seq(Contents)
           /\ DataArrives(data, bytes) /\ UNCHANGED upload
           /\ \/ /\ data = "open" /\ wq.pc = "sending" /\ bytes = <<buffer>>
                 /\ wq' = [wq EXCEPT !.pc = "half"]
              \/ /\ data = "ended"
                 /\ bytes = <<buffer>> => wq.pc = "half"
                 /\ wq' = [wq EXCEPT !.pc = "idle", !.sock = "none", !.port = NoPort]
    BY <1>3, DataSteps
  <2>2. upload \in Uploads /\ wq.port # NoPort /\ upload > 0
    BY <1>0, <2>1, DataIsOfUpload
  <2>3. CASE ~Current
    <3>1. T' = T
      BY <1>3, <2>1, <2>2, <2>3, OtherData DEF T
    <3>2. wq'.port \in {wq.port, NoPort}
      BY <1>0, <2>1 DEF Queues
    <3>3. NoPort # <<upload, T.pasv>>
      BY <2>2 DEF NoPort
    <3>4. ~Current'
      BY <2>1, <2>3, <3>1, <3>2, <3>3 DEF Current
    <3> QED
      BY <1>0, <2>1, <2>2, <2>3, <3>1, <3>4 DEF ITransfer
  <2>4. CASE Current
    <3>1. wq.port[1] = upload /\ wq.port[2] = T.pasv
      BY <2>4 DEF Current
    <3>2. transfer'[wq.port[1]] = [T EXCEPT !.data = data, !.bytes = T.bytes \o bytes]
      <4>1. transfer'[wq.port[1]] =
              LET t == transfer[wq.port[1]]
              IN  IF t.pasv # wq.port[2] THEN t
                  ELSE [t EXCEPT !.data = data, !.bytes = t.bytes \o bytes]
        BY <1>0, <2>1, <2>2, Arrivals, Zenon
      <4>2. transfer[wq.port[1]] = T /\ T.pasv = wq.port[2]
        BY <3>1 DEF T
      <4> QED
        BY <4>1, <4>2
    <3>3. T \in Transfers /\ T' = [T EXCEPT !.data = data, !.bytes = T.bytes \o bytes]
      BY <1>0, <2>1, <2>2, <3>1, <3>2 DEF T
    <3>4. /\ T'.data = data /\ T'.bytes = T.bytes \o bytes /\ T'.pasv = T.pasv
          /\ T'.state = T.state
      BY <3>3 DEF Transfers
    <3>5. T.data = "open" /\ T.state # "done" /\ (T.state # "none" => T.pasv > 0)
          /\ Len(T.bytes) <= 2
          /\ (wq.pc = "sending" => T.bytes = <<>>) /\ (wq.pc = "half" => Len(T.bytes) = 1)
      BY <1>0, <2>2, <2>4 DEF ITransfer
    <3>6. T.bytes \in Seq(Contents) /\ Len(T.bytes) \in Nat
      BY <3>3 DEF Transfers
    <3>7. Len(bytes) \in {0, 1} /\ Len(T.bytes \o bytes) = Len(T.bytes) + Len(bytes)
      BY <2>1, <3>6, ConcatProperties
    <3>8. CASE data = "open"
      <4>1. wq'.port = wq.port /\ wq'.pc = "half"
        BY <1>0, <2>1, <3>8 DEF Queues
      <4>2. Current'
        BY <2>1, <2>4, <3>4, <4>1 DEF Current
      <4>3. Len(T'.bytes) = 1
        <5>1. bytes = <<buffer>> /\ Len(bytes) = 1 /\ T.bytes = <<>> /\ Len(T.bytes) = 0
          BY <2>1, <3>5, <3>8, EmptySeq
        <5> QED
          BY <3>4, <3>7, <5>1
      <4> QED
        BY <2>1, <3>4, <3>5, <3>8, <4>1, <4>2, <4>3 DEF ITransfer
    <3>9. CASE data = "ended"
      <4>1. wq'.port = NoPort
        BY <1>0, <2>1, <3>9 DEF Queues
      <4>2. ~Current'
        BY <2>1, <2>2, <4>1 DEF Current, NoPort
      <4>3. Len(T'.bytes) <= 2
        BY <2>1, <3>4, <3>5, <3>6, <3>7, <3>9, EmptySeq
      <4> QED
        BY <2>1, <3>4, <3>5, <3>9, <4>2, <4>3 DEF ITransfer
    <3> QED
      BY <3>8, <3>9
  <2> QED
    BY <2>3, <2>4
<1>4. CASE AnswerPasv
  <2>1. upload \in Uploads /\ UNCHANGED <<upload, wq>>
    BY <1>4, LinkIsOfUpload DEF AnswerPasv, Serving, workerVars
  <2>2. T' = [NoTransfer EXCEPT !.pasv = T.pasv + 1] /\ T.pasv \in Nat
    BY <1>0, <1>4, <2>1 DEF AnswerPasv, T, Transfers
  <2>3. ~Current'
    <3>1. Current' => wq.port = <<upload, T.pasv + 1>>
      BY <2>1, <2>2 DEF Current, NoTransfer
    <3> QED
      BY <1>0, <2>1, <2>2, <3>1 DEF IConn, NoPort
  <2> QED
    BY <2>2, <2>3, EmptySeq DEF ITransfer, NoTransfer
<1>5. CASE AnswerStore \/ OpenTransfer \/ EndTransfer
  <2>1. upload \in Uploads /\ upload > 0 /\ UNCHANGED <<upload, wq>>
    BY <1>0, <1>5, LinkIsOfUpload DEF AnswerStore, OpenTransfer, EndTransfer, Serving, workerVars
  <2>2. T \in Transfers
    BY <1>0, <2>1 DEF T
  <2>3. \/ T' = T
        \/ T.pasv # 0 /\ T' = [T EXCEPT !.state = "wait"]
        \/ T.data # "none" /\ T.state = "wait" /\ T' = [T EXCEPT !.state = "open"]
        \/ T.state = "open" /\ T.data = "ended" /\ T' = [T EXCEPT !.state = "done", !.bytes = <<>>]
    BY <1>0, <1>5, <2>1, <2>2 DEF AnswerStore, OpenTransfer, EndTransfer, T
  <2>4. T'.pasv = T.pasv /\ T'.data = T.data
    BY <2>2, <2>3 DEF Transfers
  <2>5. Current' <=> Current
    BY <2>1, <2>4 DEF Current
  <2>6. T.pasv \in Nat
    BY <1>0, <2>2 DEF Transfers
  <2>7. \/ T'.bytes = T.bytes
        \/ T'.bytes = <<>> /\ T.state = "open" /\ T.data = "ended" /\ Len(T'.bytes) = 0
    BY <2>2, <2>3, EmptySeq DEF Transfers
  <2>8. \/ T'.state = T.state
        \/ T.pasv # 0 /\ T'.state = "wait" /\ T'.bytes = T.bytes
        \/ T.data # "none" /\ T.state = "wait" /\ T'.state = "open" /\ T'.bytes = T.bytes
        \/ T.data = "ended" /\ T.state = "open" /\ T'.state = "done" /\ T'.bytes = <<>>
    BY <2>2, <2>3 DEF Transfers
  <2>9. /\ T'.data = "open" <=> Current'
        /\ T'.data = "none" => T'.bytes = <<>>
        /\ T'.state = "done" => T'.data = "ended" /\ T'.bytes = <<>>
        /\ T'.state # "none" => T'.pasv > 0
        /\ T'.state = "open" => T'.data # "none"
    <3>1. /\ T.data = "open" <=> Current
          /\ T.data = "none" => T.bytes = <<>>
          /\ T.state = "done" => T.data = "ended" /\ T.bytes = <<>>
          /\ T.state # "none" => T.pasv > 0
          /\ T.state = "open" => T.data # "none"
      BY <1>0, <2>1 DEF ITransfer
    <3>2. T'.data = "open" <=> Current'
      BY <2>4, <2>5, <3>1
    <3>3. T'.data = "none" => T'.bytes = <<>>
      BY <2>4, <2>7, <3>1
    <3>4. T'.state = "done" => T'.data = "ended" /\ T'.bytes = <<>>
      BY <2>4, <2>7, <2>8, <3>1
    <3>5. T'.state # "none" => T'.pasv > 0
      BY <2>4, <2>6, <2>8, <3>1
    <3>6. T'.state = "open" => T'.data # "none"
      BY <2>4, <2>8, <3>1
    <3> QED
      BY <3>2, <3>3, <3>4, <3>5, <3>6
  <2>10. /\ Len(T'.bytes) <= 2
         /\ Current' /\ wq'.pc = "sending" => T'.bytes = <<>>
         /\ Current' /\ wq'.pc = "half" => Len(T'.bytes) = 1
    BY <1>0, <2>1, <2>4, <2>5, <2>7 DEF ITransfer
  <2> QED
    BY <2>9, <2>10 DEF ITransfer
<1>6. CASE UNCHANGED <<upload, transfer, file>>
  <2>1. T' = T
    BY <1>6 DEF T
  <2>2. \/ establish_data_channel \/ SendFirstHalf \/ SendSecondHalf \/ SendDataFails
        \/ /\ wq'.port = wq.port
           /\ wq'.pc = wq.pc \/ {wq.pc, wq'.pc} \subseteq {"idle", "noop"}
    BY <1>0, QueueSteps
  <2>3. ASSUME wq'.port = wq.port, wq'.pc = wq.pc \/ {wq.pc, wq'.pc} \subseteq {"idle", "noop"}
        PROVE  ITransfer'
    BY <1>0, <1>6, <2>1, <2>3 DEF ITransfer, Current
  <2> QED
    BY <1>2, <1>3, <2>2, <2>3
<1> QED
  BY <1>1, <1>2, <1>3, <1>4, <1>5, <1>6, TransferSteps

\* What can happen to the commands on their way to the server.
LEMMA CommandSteps ==
  ASSUME TypeOK, [Next]_vars
  PROVE  \/ UNCHANGED <<srv.cmds, srv.link>>
         \/ srv' = NoServer
         \/ Connect /\ srv'.cmds = <<"GREETING">> /\ srv'.link = "up" /\ srv'.replies = <<>>
         \/ SendCommand /\ ~Broken /\ srv' = [srv EXCEPT !.cmds = Append(@, cmd)]
         \/ KeepaliveSends /\ ~Broken /\ srv' = [srv EXCEPT !.cmds = Append(@, "NOOP")]
         \/ /\ Answer \/ AnswerPasv \/ AnswerStore \/ AnswerQuit \/ Refuse
            /\ Serving /\ srv'.cmds = Tail(srv.cmds)
<1>0. wq \in Queues /\ client \in Clients /\ srv \in Servers
  BY Records
<1> USE <1>0, Fields DEF Servers
<1>1. CASE srv' = NoServer \/ UNCHANGED srv
  BY <1>1
<1>2. CASE \E n : srv' = ServerAfter(n)
  BY <1>2
<1>3. CASE Connect \/ establish_data_channel \/ OpenTransfer \/ EndTransfer
  BY <1>3, ZenonT(40) DEF Connect, NoServer, establish_data_channel, OpenTransfer, EndTransfer
<1>4. CASE SendCommand
  BY <1>4 DEF SendCommand, Send
<1>5. CASE KeepaliveSends
  BY <1>5 DEF KeepaliveSends, Send, SendFails
<1>6. CASE Answer \/ AnswerPasv \/ AnswerStore \/ AnswerQuit \/ Refuse
  <2>1. srv'.cmds = Tail(srv.cmds) /\ Serving
    BY <1>6, ZenonT(40) DEF Answer, AnswerPasv, AnswerStore, AnswerQuit, Refuse, Answered
  <2> QED
    BY <1>6, <2>1
<1> QED
  BY <1>1, <1>2, <1>3, <1>4, <1>5, <1>6, StepCases, Zenon
  DEF Begin, OpenRefused, ConnectFails, SendCommandFails, SendFails, close_connection,
      ReplyExpected, ReplyOther, ReplyLate, ReplyHungUp, HangUp, NextPart, ReadFails, SubmitData,
      PollReply, PollTimeout, PollHungUp, SendQuit, CloseUnconnected, Closed, QuitAnswered,
      keepalive_timeout, KeepaliveFirst, KeepaliveAnswered, NoDataChannel, SendFirstHalf,
      SendSecondHalf, SendDataFails, SameServer, OtherReply, LinkFails, vars

\* The PASVs of an upload: those the server has seen, those on their way to it, and the
\* one to be sent.  There are no more of them than parts.
ToSend(c) == pc = "send" /\ cmd = c
IPasvs ==
  upload > 0 => T.pasv + Pasvs(srv.cmds) + (IF ToSend("PASV") THEN 1 ELSE 0) <= part

LEMMA ToSendSteps ==
  ASSUME TypeOK, IWorker, [Next]_vars
  PROVE  /\ ToSend("PASV")' => NextPart \/ ToSend("PASV")
         /\ SendCommand => ~ToSend("PASV")'
<1>0. cmd \in Commands
  BY DEF TypeOK
<1> USE DEF ToSend, Goto
<1>1. CASE Begin \/ OpenRefused \/ Connect \/ ConnectFails \/ SendCommandFails
  BY <1>1 DEF Begin, OpenRefused, Connect, ConnectFails, SendCommandFails
<1>2. CASE SendCommand
  BY <1>2 DEF SendCommand
<1>3. CASE ReplyExpected
  <2>1. cmd \in DOMAIN Following \/ cmd \in {"TYPE", "PASV"}
    BY <1>0, <1>3 DEF ReplyExpected, Following, Commands, IWorker
  <2> QED
    BY <1>3, <2>1 DEF ReplyExpected, Following, Store
<1>4. CASE ReplyOther \/ ReplyLate \/ ReplyHungUp
  BY <1>4 DEF ReplyOther, ReplyLate, ReplyHungUp, GiveUp, Following
<1>5. CASE \/ ReadFails \/ SubmitData \/ PollReply \/ PollTimeout \/ PollHungUp
           \/ SendQuit \/ CloseUnconnected \/ QuitAnswered
  BY <1>5 DEF ReadFails, SubmitData, PollReply, PollTimeout, PollHungUp, SendQuit,
              CloseUnconnected, QuitAnswered
<1>6. CASE UNCHANGED workerVars /\ ~SendCommand
  BY <1>6 DEF workerVars
<1>7. SendCommand => ~UNCHANGED workerVars
  BY DEF SendCommand, workerVars
<1> QED
  BY <1>1, <1>2, <1>3, <1>4, <1>5, <1>6, <1>7, StepCases, Zenon
  DEF keepalive_timeout, KeepaliveFirst, KeepaliveSends, KeepaliveAnswered,
      establish_data_channel, NoDataChannel, SendFirstHalf, SendSecondHalf, SendDataFails,
      Answer, AnswerPasv, AnswerStore, AnswerQuit, Refuse, OpenTransfer, EndTransfer,
      OtherReply, LinkFails,
      vars

LEMMA PasvCount ==
  ASSUME TypeOK, [Next]_vars
  PROVE  \/ /\ Pasvs(srv'.cmds) <= Pasvs(srv.cmds) /\ Pasvs(srv'.cmds) \in Nat
            /\ Pasvs(srv.cmds) \in Nat
            /\ AnswerPasv => Pasvs(srv'.cmds) = Pasvs(srv.cmds) - 1
         \/ SendCommand /\ cmd = "PASV" /\ Pasvs(srv'.cmds) = Pasvs(srv.cmds) + 1
<1>0. srv.cmds \in Seq(Commands) /\ Pasvs(srv.cmds) \in Nat /\ cmd \in Commands
      /\ srv \in Servers
  BY Basics, PasvsNat DEF Servers
<1>1. CASE srv'.cmds = srv.cmds /\ ~AnswerPasv
  BY <1>0, <1>1
<1>2. CASE (srv' = NoServer \/ Connect) /\ ~AnswerPasv
  <2>1. srv'.cmds \in {<<>>, <<"GREETING">>}
    <3>1. srv' = NoServer => srv'.cmds = <<>>
      BY DEF NoServer
    <3>2. Connect => srv'.cmds = <<"GREETING">>
      BY DEF NoServer, Connect
    <3> QED
      BY <1>2, <3>1, <3>2
  <2> QED
    BY <1>0, <1>2, <2>1, PasvsNone
<1>3. CASE SendCommand /\ srv' = [srv EXCEPT !.cmds = Append(@, cmd)] /\ ~AnswerPasv
  <2>1. srv'.cmds = Append(srv.cmds, cmd)
    BY <1>0, <1>3 DEF Servers
  <2> QED
    BY <1>0, <1>3, <2>1, PasvsAppended
<1>4. CASE srv' = [srv EXCEPT !.cmds = Append(@, "NOOP")] /\ ~AnswerPasv
  <2>1. srv'.cmds = Append(srv.cmds, "NOOP") /\ "NOOP" \in Commands
    BY <1>0, <1>4 DEF Servers, Commands
  <2> QED
    BY <1>0, <1>4, <2>1, PasvsAppended
<1>5. CASE Serving /\ srv'.cmds = Tail(srv.cmds)
  <2>1. srv.cmds # <<>> /\ Tail(srv.cmds) \in Seq(Commands)
    BY <1>0, <1>5, HeadTailProperties DEF Serving
  <2>2. Pasvs(Tail(srv.cmds)) \in Nat
    BY <2>1, PasvsNat
  <2>3. AnswerPasv => Head(srv.cmds) = "PASV"
    BY DEF AnswerPasv, NextCommand
  <2> QED
    BY <1>0, <1>5, <2>1, <2>2, <2>3, PasvsTaken
<1>6. AnswerPasv => Serving /\ srv'.cmds = Tail(srv.cmds)
  BY <1>0 DEF AnswerPasv, Answered, Servers
<1> QED
  BY <1>1, <1>2, <1>3, <1>4, <1>5, <1>6, CommandSteps

\* How the transfer at hand changes otherwise.
LEMMA PasvSteps ==
  ASSUME IBase, [Next]_vars, upload > 0
  PROVE  \/ Begin
         \/ /\ upload' = upload
            /\ T'.pasv = T.pasv \/ (AnswerPasv /\ T'.pasv = T.pasv + 1)
            /\ \/ T'.data = T.data
               \/ AnswerPasv /\ T'.data = "none"
               \/ establish_data_channel /\ client.pasv = <<upload, T.pasv>>
               \/ T.data = "open"
<1>0. transfer \in [Uploads -> Transfers] /\ upload \in Uploads /\ T \in Transfers
  <2>1. transfer \in [Uploads -> Transfers] /\ upload \in Uploads
    BY Basics DEF IBase
  <2> QED
    BY <2>1 DEF T
<1>1. upload' = upload \/ Begin
  BY PartSteps DEF NextPart
<1> SUFFICES ASSUME upload' = upload, ~Begin
             PROVE  /\ T'.pasv = T.pasv \/ (AnswerPasv /\ T'.pasv = T.pasv + 1)
                    /\ \/ T'.data = T.data
                       \/ AnswerPasv /\ T'.data = "none"
                       \/ establish_data_channel /\ client.pasv = <<upload, T.pasv>>
                       \/ T.data = "open"
  BY <1>1
<1>2. CASE AnswerPasv
  BY <1>0, <1>2 DEF AnswerPasv, NoTransfer, T
<1>3. CASE establish_data_channel
  BY <1>0, <1>3, Established DEF T, Transfers
<1>4. CASE SendFirstHalf \/ SendSecondHalf \/ SendDataFails
  <2>1. Current => T.data = "open"
    BY <1>0 DEF IBase, ITransfer
  <2> QED
    BY <1>0, <1>4, <2>1, OtherData DEF T
<1>5. CASE AnswerStore \/ OpenTransfer \/ EndTransfer
  BY <1>0, <1>5 DEF AnswerStore, OpenTransfer, EndTransfer, T, Transfers
<1>6. CASE UNCHANGED <<upload, transfer, file>>
  BY <1>6 DEF T
<1> QED
  BY <1>2, <1>3, <1>4, <1>5, <1>6, TransferSteps

LEMMA PasvStep ==
  ASSUME IBase, IPasvs, [Next]_vars
  PROVE  IPasvs'
<1>0. /\ transfer \in [Uploads -> Transfers] /\ srv \in Servers /\ TypeOK
      /\ upload \in 0 .. Len(Parts) /\ part \in Nat
      /\ Len(Parts) \in Nat /\ Uploads = 1 .. Len(Parts) /\ Numbers \subseteq Nat
  BY Basics DEF IBase
<1>1. CASE Begin
  <2>1. upload' = upload + 1 /\ upload' \in Uploads /\ pc' = "open" /\ srv' = srv /\ pc = "idle"
        /\ part' = 0
    BY <1>0, <1>1 DEF Begin
  <2>2. T' = NoTransfer
    BY <2>1, FreshStep DEF IFresh
  <2>3. Pasvs(srv'.cmds) = 0 /\ ~ToSend("PASV")'
    BY <2>1, PasvsNone DEF IBase, IServer, NoServer, ToSend
  <2> QED
    BY <2>1, <2>2, <2>3 DEF IPasvs, NoTransfer
<1>2. CASE ~Begin
  <2>1. upload' = upload
    BY <1>2, PartSteps DEF NextPart
  <2> SUFFICES ASSUME upload > 0
               PROVE  T'.pasv + Pasvs(srv'.cmds) + (IF ToSend("PASV")' THEN 1 ELSE 0) <= part'
    BY <2>1 DEF IPasvs
  <2>2. upload \in Uploads /\ T \in Transfers
    BY <1>0 DEF T
  <2>3. T.pasv \in Nat
    BY <1>0, <2>2 DEF Transfers
  <2>4. T'.pasv = T.pasv \/ (AnswerPasv /\ T'.pasv = T.pasv + 1)
    BY <1>2, PasvSteps
  <2>5. CASE NextPart
    <3>1. UNCHANGED <<srv, transfer>> /\ part' \in {part, part + 1} /\ pc = "put"
          /\ (part' = part => ~ToSend("PASV")')
      BY <1>0, <2>5 DEF NextPart, Goto, ToSend
    <3> QED
      <4>1. Pasvs(srv.cmds) \in Nat
        BY <1>0, PasvsNat DEF Servers
      <4>2. T' = T /\ srv'.cmds = srv.cmds
        BY <2>1, <3>1 DEF T
      <4>3. T.pasv + Pasvs(srv.cmds) <= part
        BY <3>1, <2>3, <4>1 DEF IPasvs, ToSend
      <4> QED
        BY <1>0, <2>3, <3>1, <4>1, <4>2, <4>3
  <2>6. CASE ~NextPart
    <3>1. part' = part /\ (ToSend("PASV")' => ToSend("PASV")) /\ (SendCommand => ~ToSend("PASV")')
      BY <1>0, <1>2, <2>6, PartSteps, ToSendSteps DEF IBase
    <3>2. SendCommand /\ cmd = "PASV" => ToSend("PASV")
      BY DEF SendCommand, ToSend
    <3>3. T.pasv + Pasvs(srv.cmds) + (IF ToSend("PASV") THEN 1 ELSE 0) <= part
      BY DEF IPasvs
    <3>4. Pasvs(srv.cmds) \in Nat /\ Pasvs(srv'.cmds) \in Int
      <4>1. Pasvs(srv.cmds) \in Nat
        BY <1>0, PasvsNat DEF Servers
      <4> QED
        BY <1>0, <4>1, PasvCount
    <3>5. AnswerPasv => ~(SendCommand /\ cmd = "PASV")
      BY DEF AnswerPasv, SendCommand, workerVars
    <3> QED
      BY <1>0, <2>3, <2>4, <3>1, <3>2, <3>3, <3>4, <3>5, PasvCount
  <2> QED
    BY <2>5, <2>6
<1> QED
  BY <1>1, <1>2

\* What a step may rest on, and keeps.
Ind == IBase /\ IPasvs

LEMMA PasvIsNumber ==
  ASSUME Ind, upload \in Uploads
  PROVE  T.pasv \in Nat /\ \A n \in Nat : n <= part => n \in Numbers
<1>1. part \in Nat /\ part \in Numbers /\ T \in Transfers /\ Numbers \subseteq Nat
  BY Basics DEF Ind, IBase, T
<1>2. Max({0} \union Range(Parts)) \in Nat
  BY PartsAreNumbers
<1> QED
  BY <1>1, <1>2 DEF Transfers, Numbers

LEMMA WorkerTypes ==
  ASSUME Ind, [Next]_vars
  PROVE  /\ pc' \in {"idle", "open", "send", "recv", "submit", "poll", "put", "close"}
         /\ cmd' \in Commands /\ ret' \in {-1, 0}
<1>0. pc \in {"idle", "open", "send", "recv", "submit", "poll", "put", "close"}
      /\ cmd \in Commands /\ ret \in {-1, 0} /\ IWorker
  BY DEF Ind, IBase, TypeOK
<1> USE <1>0 DEF Goto, Fail, Rest
<1>1. CASE \/ Begin \/ OpenRefused \/ Connect \/ ConnectFails \/ SendCommand \/ SendCommandFails
  BY <1>1 DEF Begin, OpenRefused, Connect, ConnectFails, SendCommand, SendCommandFails, Commands
<1>2. CASE ReplyExpected
  <2>1. cmd \in DOMAIN Following \/ cmd \in {"TYPE", "PASV"}
    BY <1>2 DEF ReplyExpected, Following, Commands, IWorker
  <2> QED
    BY <1>2, <2>1 DEF ReplyExpected, Following, Store, Commands
<1>3. CASE ReplyOther \/ ReplyLate \/ ReplyHungUp
  BY <1>3 DEF ReplyOther, ReplyLate, ReplyHungUp, GiveUp, Following, Commands
<1>4. CASE \/ NextPart \/ ReadFails \/ SubmitData \/ PollReply \/ PollTimeout \/ PollHungUp
           \/ SendQuit \/ CloseUnconnected \/ QuitAnswered
  BY <1>4 DEF NextPart, ReadFails, SubmitData, PollReply, PollTimeout, PollHungUp, SendQuit,
              CloseUnconnected, QuitAnswered, Commands
<1>5. CASE UNCHANGED workerVars
  BY <1>5 DEF workerVars
<1> QED
  BY <1>1, <1>2, <1>3, <1>4, <1>5, StepCases, Zenon
  DEF keepalive_timeout, KeepaliveFirst, KeepaliveSends, KeepaliveAnswered,
      establish_data_channel, NoDataChannel, SendFirstHalf, SendSecondHalf, SendDataFails,
      Answer, AnswerPasv, AnswerStore, AnswerQuit, Refuse, OpenTransfer, EndTransfer,
      OtherReply, LinkFails,
      vars

LEMMA PartTypes ==
  ASSUME Ind, [Next]_vars
  PROVE  /\ upload' \in 0 .. Len(Parts) /\ part' \in Numbers
         /\ buffer' \in Contents \union {NoPort}
<1>0. /\ upload \in 0 .. Len(Parts) /\ part \in Nat /\ part \in Numbers
      /\ Len(Parts) \in Nat /\ Uploads = 1 .. Len(Parts) /\ Numbers \subseteq Nat /\ 0 \in Numbers
      /\ \A u \in Uploads : Parts[u] \in Numbers
  BY Basics, PartsAreNumbers DEF Ind, IBase
<1>1. upload' \in 0 .. Len(Parts)
  BY <1>0, PartSteps DEF Begin, NextPart
<1>2. IFresh'
  BY FreshStep DEF Ind
<1>3. part' \in Nat
  BY <1>0, PartSteps DEF Begin, NextPart
<1>4. part' \in Numbers
  <2>1. CASE part' = 0
    BY <1>0, <2>1
  <2>2. CASE part' # 0
    <3>1. upload' \in Uploads /\ part' <= Parts[upload'] /\ Parts[upload'] \in Numbers
      BY <1>0, <1>2, <2>2 DEF IFresh
    <3>2. Max({0} \union Range(Parts)) \in Nat
      BY PartsAreNumbers
    <3> QED
      BY <1>3, <3>1, <3>2 DEF Numbers
  <2> QED
    BY <2>1, <2>2
<1>5. buffer' = <<upload', part'>>
  BY <1>2 DEF IFresh
<1>6. upload' \in Uploads \/ upload' = 0
  BY <1>0, <1>1
<1>7. upload' = 0 => part' = 0
  BY <1>0, <1>2 DEF IFresh
<1> QED
  BY <1>1, <1>4, <1>5, <1>6, <1>7 DEF Contents, NoPort

LEMMA MinOfTwo ==
  ASSUME NEW a \in Nat, NEW b \in Nat
  PROVE  Min({a, b}) \in Nat /\ Min({a, b}) <= b
<1>1. \E m \in {a, b} : \A n \in {a, b} : n >= m
  <2>1. a <= b \/ b <= a
    OBVIOUS
  <2> QED
    BY <2>1
<1>2. Min({a, b}) \in {a, b} /\ \A n \in {a, b} : n >= Min({a, b})
  BY <1>1 DEF Min
<1> QED
  BY <1>2

LEMMA CounterTypes ==
  ASSUME TypeOK, [Next]_vars
  PROVE  /\ waits' \in 0 .. DataWaits /\ faults' \in 0 .. MaxFaults
         /\ quiet' \in 0 .. KeepaliveWaits
         /\ luck' \in {"served", "noop", "fault", "lost"} /\ left' \in BOOLEAN
<1>0. /\ waits \in 0 .. DataWaits /\ faults \in 0 .. MaxFaults /\ quiet \in 0 .. KeepaliveWaits
      /\ DataWaits \in Nat /\ MaxFaults \in Nat /\ KeepaliveWaits \in Nat
  BY BoundAssumption, WaitsAssumption DEF TypeOK
<1>1. luck \in {"served", "noop", "fault", "lost"} /\ left \in BOOLEAN
  BY DEF TypeOK
<1>2. waits' \in 0 .. DataWaits
  <2>1. waits' \in {0, waits} \/ (TimeLeft /\ waits' = Counted)
    BY StepCases, Zenon
    DEF Begin, OpenRefused, Connect, ConnectFails, SendCommand, SendCommandFails, ReplyExpected,
        ReplyOther, ReplyLate, ReplyHungUp, NextPart, ReadFails, SubmitData, PollReply,
        PollTimeout, PollHungUp, SendQuit, CloseUnconnected, QuitAnswered, keepalive_timeout,
        KeepaliveFirst, KeepaliveSends, KeepaliveAnswered, establish_data_channel, NoDataChannel,
        SendFirstHalf, SendSecondHalf, SendDataFails, Answer, AnswerPasv, AnswerStore, AnswerQuit,
        Refuse, OpenTransfer, EndTransfer, OtherReply, LinkFails, workerVars, vars
  <2> QED
    BY <1>0, <2>1 DEF TimeLeft, Counted
<1>3. faults' \in 0 .. MaxFaults
  <2>1. UNCHANGED faults \/ OneMoreFault
    BY StepCases, Zenon
    DEF Begin, OpenRefused, Connect, ConnectFails, SendCommand, SendCommandFails, ReplyExpected,
        ReplyOther, ReplyLate, ReplyHungUp, NextPart, ReadFails, SubmitData, PollReply,
        PollTimeout, PollHungUp, SendQuit, CloseUnconnected, QuitAnswered, keepalive_timeout,
        KeepaliveFirst, KeepaliveSends, KeepaliveAnswered, establish_data_channel, NoDataChannel,
        SendFirstHalf, SendSecondHalf, SendDataFails, Answer, AnswerPasv, AnswerStore, AnswerQuit,
        Refuse, OpenTransfer, EndTransfer, OtherReply, LinkFails, SameFaults, Fault, Loss, vars
  <2> QED
    BY <1>0, <2>1 DEF OneMoreFault
<1>4. quiet' \in 0 .. KeepaliveWaits
  <2>1. quiet' \in {0, quiet, Min({quiet + 1, KeepaliveWaits})}
    BY StepCases, Zenon
    DEF Begin, OpenRefused, Connect, ConnectFails, SendCommand, SendCommandFails, ReplyExpected,
        ReplyOther, ReplyLate, ReplyHungUp, NextPart, ReadFails, SubmitData, PollReply,
        PollTimeout, PollHungUp, SendQuit, CloseUnconnected, QuitAnswered, keepalive_timeout,
        KeepaliveFirst, KeepaliveSends, KeepaliveAnswered, establish_data_channel, NoDataChannel,
        SendFirstHalf, SendSecondHalf, SendDataFails, Answer, AnswerPasv, AnswerStore, AnswerQuit,
        Refuse, OpenTransfer, EndTransfer,
        OtherReply, LinkFails, SameFaults, Fault, Loss, historyVars, vars
  <2> QED
    BY <1>0, <2>1, MinOfTwo
<1>5. luck' \in {"served", "noop", "fault", "lost"}
  <2>1. luck' \in {luck, Unlucky, "lost", "noop", "fault", "served"}
    BY StepCases, Zenon
    DEF Begin, OpenRefused, Connect, ConnectFails, SendCommand, SendCommandFails, ReplyExpected,
        ReplyOther, ReplyLate, ReplyHungUp, NextPart, ReadFails, SubmitData, PollReply,
        PollTimeout, PollHungUp, SendQuit, CloseUnconnected, QuitAnswered, keepalive_timeout,
        KeepaliveFirst, KeepaliveSends, KeepaliveAnswered, establish_data_channel, NoDataChannel,
        SendFirstHalf, SendSecondHalf, SendDataFails, Answer, AnswerPasv, AnswerStore, AnswerQuit,
        Refuse, OpenTransfer, EndTransfer,
        OtherReply, LinkFails, SameFaults, Fault, Loss, historyVars, vars
  <2> QED
    BY <1>1, <2>1 DEF Unlucky
<1>6. left' \in BOOLEAN
  <2>1. left' = left \/ left' = (left \/ cmd = "QUIT")
    BY StepCases, Zenon
    DEF Begin, OpenRefused, Connect, ConnectFails, SendCommand, SendCommandFails, ReplyExpected,
        ReplyOther, ReplyLate, ReplyHungUp, NextPart, ReadFails, SubmitData, PollReply,
        PollTimeout, PollHungUp, SendQuit, CloseUnconnected, QuitAnswered, keepalive_timeout,
        KeepaliveFirst, KeepaliveSends, KeepaliveAnswered, establish_data_channel, NoDataChannel,
        SendFirstHalf, SendSecondHalf, SendDataFails, Answer, AnswerPasv, AnswerStore, AnswerQuit,
        Refuse, OpenTransfer, EndTransfer,
        OtherReply, LinkFails, SameFaults, Fault, Loss, historyVars, vars
  <2> QED
    BY <1>1, <2>1
<1> QED
  BY <1>2, <1>3, <1>4, <1>5, <1>6

LEMMA ClientTypes ==
  ASSUME Ind, [Next]_vars
  PROVE  client' \in Clients
<1>0. client \in Clients /\ srv \in Servers /\ wq \in Queues /\ cmd \in Commands /\ NoPort \in Ports
  BY Basics, UploadNumbers DEF Ind, IBase
<1>1. \A c \in Commands : Sent(c) \in Clients
  BY <1>0, SentTypes
<1>2. \A n \in DOMAIN srv.replies : ClientAfter(n) \in Clients
  BY <1>0, ReceivedTypes
<1>3. ClientClosed(NoPort) \in Clients /\ ClientClosed(client.pasv) \in Clients
  <2>1. client.pasv \in Ports
    BY <1>0 DEF Clients
  <2> QED
    BY <1>0, <2>1, ClosedTypes
<1>4. CASE SendCommand \/ SendCommandFails
  <2>1. [Sent(cmd) EXCEPT !.sock = "stale"] \in Clients
        /\ [Sent(cmd) EXCEPT !.sock = Sent(cmd).sock] \in Clients
    BY <1>0, <1>1, Fields DEF Clients
  <2> QED
    BY <1>0, <1>1, <1>3, <1>4, <2>1
    DEF SendCommand, Send, SendCommandFails, close_connection, SendFails
<1>5. CASE ReplyExpected \/ ReplyOther \/ PollReply \/ KeepaliveAnswered
  <2>1. \A n \in DOMAIN srv.replies :
          /\ [ClientAfter(n) EXCEPT !.connected = TRUE, !.timer = TRUE] \in Clients
          /\ [ClientAfter(n) EXCEPT !.sock = "stale"] \in Clients
    BY <1>0, <1>2, Zenon DEF Clients
  <2> QED
    BY <1>0, <1>2, <1>3, <1>5, <2>1
    DEF ReplyExpected, ReplyOther, PollReply, KeepaliveAnswered, HangUp
<1>6. CASE QuitAnswered
  <2>1. \A n \in DOMAIN srv.replies :
          [ClientClosed(NoPort) EXCEPT !.pasv = ClientAfter(n).pasv, !.inactivity = FALSE] \in Clients
    BY <1>2, <1>3, Zenon DEF Clients
  <2> QED
    BY <1>3, <1>6, <2>1 DEF QuitAnswered
<1>7. CASE ReplyHungUp \/ PollHungUp \/ CloseUnconnected
  BY <1>3, <1>7 DEF ReplyHungUp, PollHungUp, HangUp, CloseUnconnected, Closed, close_connection
<1>8. CASE KeepaliveSends
  <2>1. "NOOP" \in Commands
    BY DEF Commands
  <2> QED
    BY <1>1, <1>3, <1>8, <2>1 DEF KeepaliveSends, Send
<1>9. CASE client' \in {client, [client EXCEPT !.sock = "open"], [client EXCEPT !.sock = "stale"],
                        [client EXCEPT !.pasv = NoPort], [client EXCEPT !.timer = FALSE],
                        [client EXCEPT !.inactivity = TRUE], [client EXCEPT !.inactivity = FALSE]}
  <2>1. /\ [client EXCEPT !.sock = "open"] \in Clients
        /\ [client EXCEPT !.sock = "stale"] \in Clients
        /\ [client EXCEPT !.pasv = NoPort] \in Clients
    BY <1>0 DEF Clients
  <2>2. /\ [client EXCEPT !.timer = FALSE] \in Clients
        /\ [client EXCEPT !.inactivity = TRUE] \in Clients
        /\ [client EXCEPT !.inactivity = FALSE] \in Clients
    BY <1>0, Zenon DEF Clients
  <2> QED
    BY <1>0, <1>9, <2>1, <2>2
<1>10. CASE Connect \/ ConnectFails \/ ReplyLate \/ PollTimeout \/ keepalive_timeout
  BY <1>9, <1>10 DEF Connect, ConnectFails, ReplyLate, PollTimeout, keepalive_timeout
<1>11. CASE KeepaliveFirst \/ SendSecondHalf \/ SendDataFails
  BY <1>9, <1>11 DEF KeepaliveFirst, SendSecondHalf, SendDataFails, DataEnds
<1> QED
  BY <1>0, <1>4, <1>5, <1>6, <1>7, <1>8, <1>10, <1>11, StepCases, Zenon
  DEF Begin, OpenRefused, NextPart, ReadFails, SubmitData, SendQuit, establish_data_channel,
      NoDataChannel, SendFirstHalf, Answer, AnswerPasv, AnswerStore, AnswerQuit, Refuse,
      OpenTransfer, EndTransfer, OtherReply, LinkFails, vars

\* No upload has more PASVs than parts, however many faults it meets.
LEMMA NextPort ==
  ASSUME Ind, AnswerPasv
  PROVE  /\ upload \in Uploads /\ T.pasv + 1 \in Numbers /\ <<upload, T.pasv + 1>> \in Ports
         /\ [code |-> 227, port |-> <<upload, T.pasv + 1>>] \in Replies
<1>1. upload \in Uploads /\ Serving /\ NextCommand = "PASV" /\ srv \in Servers
  BY LinkIsOfUpload, Basics DEF AnswerPasv, Serving, Ind, IBase
<1>2. srv.cmds \in Seq(Commands) /\ srv.cmds # <<>> /\ Tail(srv.cmds) \in Seq(Commands)
  BY <1>1, HeadTailProperties DEF Servers, Serving
<1>3. Pasvs(Tail(srv.cmds)) \in Nat /\ Pasvs(srv.cmds) = Pasvs(Tail(srv.cmds)) + 1
  BY <1>1, <1>2, PasvsNat, PasvsTaken DEF NextCommand
<1>4. upload > 0 /\ part \in Nat
  BY <1>1, Basics DEF Ind, IBase
<1>5. T.pasv + 1 \in Numbers
  BY <1>1, <1>3, <1>4, PasvIsNumber DEF Ind, IPasvs
<1> QED
  BY <1>1, <1>5 DEF Ports, Replies

LEMMA ServerTypes ==
  ASSUME Ind, [Next]_vars
  PROVE  srv' \in Servers
<1>0. client \in Clients /\ srv \in Servers /\ wq \in Queues /\ cmd \in Commands /\ NoPort \in Ports
      /\ NoServer \in Servers
  <2>1. client \in Clients /\ srv \in Servers /\ wq \in Queues /\ cmd \in Commands
        /\ NoPort \in Ports
    BY Basics, UploadNumbers DEF Ind, IBase
  <2> QED
    BY <2>1, ClosedTypes
<1>1. \A c \in Commands : [srv EXCEPT !.cmds = Append(@, c)] \in Servers
  BY <1>0, SentTypes
<1>2. \A n \in DOMAIN srv.replies : ServerAfter(n) \in Servers
  BY <1>0, ReceivedTypes
<1>3. \A c \in {150, 200, 220, 221, 226, 230, 257, 331, 530, 550} : Reply(c) \in Replies
  BY <1>0 DEF Reply, Replies
<1>4. \A r \in Replies : [srv EXCEPT !.replies = Append(@, r)] \in Servers
  BY <1>0, AppendProperties DEF Servers
<1>5. CASE Connect
  <2>1. <<"GREETING">> \in Seq(Commands)
    BY DEF Commands
  <2> QED
    BY <1>0, <1>5, <2>1 DEF Connect, Servers
<1>6. CASE SendCommand \/ KeepaliveSends \/ SendCommandFails
  <2>1. "NOOP" \in Commands
    BY DEF Commands
  <2> QED
    BY <1>0, <1>1, <1>6, <2>1
    DEF SendCommand, KeepaliveSends, SendCommandFails, Send, SendFails, close_connection
<1>7. CASE ReplyExpected \/ ReplyOther \/ PollReply \/ KeepaliveAnswered
  BY <1>0, <1>2, <1>7 DEF ReplyExpected, ReplyOther, PollReply, KeepaliveAnswered, HangUp
<1>8. CASE establish_data_channel
  BY <1>0, <1>8 DEF establish_data_channel, Servers
<1>9. CASE Answer
  <2>1. PICK c \in {150, 200, 220, 221, 226, 230, 257, 331, 530, 550} :
          SimpleReplies[NextCommand] = c
    BY <1>9 DEF Answer, SimpleReplies
  <2>2. Answered(Reply(c)) \in Servers
    BY <1>0, <1>3, <1>9, AnsweredTypes DEF Answer, Serving
  <2>3. PICK l \in {"user", "yes", Answered(Reply(c)).login} :
          srv' = [Answered(Reply(c)) EXCEPT !.login = l]
    BY <1>9, <2>1 DEF Answer
  <2> QED
    BY <2>2, <2>3 DEF Servers
<1>10. CASE AnswerPasv
  <2> DEFINE port == <<upload, T.pasv + 1>>
  <2>1. port \in Ports /\ [code |-> 227, port |-> port] \in Replies
    BY <1>10, NextPort
  <2>2. Answered([code |-> 227, port |-> port]) \in Servers
    BY <1>0, <1>10, <2>1, AnsweredTypes DEF AnswerPasv, Serving
  <2>3. srv' = [Answered([code |-> 227, port |-> port]) EXCEPT !.listening = port]
    BY <1>10 DEF AnswerPasv, T
  <2> QED
    BY <2>1, <2>2, <2>3, ZenonT(40) DEF Servers
<1>11. CASE AnswerStore \/ AnswerQuit \/ Refuse
  <2>1. srv.cmds # <<>>
    BY <1>11 DEF AnswerStore, AnswerQuit, Refuse, Serving
  <2>2. \A r \in Replies : Answered(r) \in Servers /\ [srv EXCEPT !.cmds = Tail(@)] \in Servers
    BY <1>0, <2>1, AnsweredTypes
  <2>3. /\ [srv EXCEPT !.cmds = Tail(@)] \in Servers
        /\ Answered(Reply(550)) \in Servers /\ Answered(Reply(530)) \in Servers
        /\ Answered(Reply(221)) \in Servers
    <3>1. Reply(550) \in Replies /\ Reply(530) \in Replies /\ Reply(221) \in Replies
      BY <1>3
    <3> QED
      BY <2>2, <3>1, ZenonT(40)
  <2>4. ASSUME NEW s \in Servers
        PROVE  [s EXCEPT !.link = "down", !.listening = NoPort] \in Servers
    BY <1>0 DEF Servers
  <2>5. AnswerStore => srv' \in Servers
    BY <2>3 DEF AnswerStore
  <2>6. AnswerQuit => srv' \in Servers
    BY <2>3, <2>4, ZenonT(40) DEF AnswerQuit
  <2>7. Refuse => srv' \in Servers
    BY <2>3 DEF Refuse
  <2> QED
    BY <1>11, <2>5, <2>6, <2>7
<1>12. CASE OpenTransfer \/ EndTransfer \/ OtherReply
  <2>1. ASSUME NEW c \in {150, 226, 200},
               srv' = [srv EXCEPT !.replies = Append(@, Reply(c))]
        PROVE  srv' \in Servers
    <3>1. PICK r \in Replies : r = Reply(c)
      BY <1>3
    <3>2. srv' = [srv EXCEPT !.replies = Append(@, r)]
      BY <2>1, <3>1
    <3> QED
      BY <1>4, <3>2
  <2>2. OpenTransfer => srv' \in Servers
    BY <2>1 DEF OpenTransfer
  <2>3. EndTransfer => srv' \in Servers
    BY <2>1 DEF EndTransfer
  <2>4. OtherReply => srv' \in Servers
    BY <2>1 DEF OtherReply
  <2> QED
    BY <1>12, <2>2, <2>3, <2>4
<1>13. CASE srv' \in {srv, NoServer}
  BY <1>0, <1>13
<1> QED
  BY <1>5, <1>6, <1>7, <1>8, <1>9, <1>10, <1>11, <1>12, <1>13, StepCases
  DEF Begin, OpenRefused, ConnectFails, ReplyLate, ReplyHungUp, HangUp, NextPart, ReadFails,
      SubmitData, PollTimeout, PollHungUp, SendQuit, CloseUnconnected, Closed, close_connection,
      QuitAnswered, keepalive_timeout, KeepaliveFirst, NoDataChannel, SameServer,
      SendFirstHalf, SendSecondHalf, SendDataFails, OtherReply, LinkFails, vars

LEMMA QueueTypes ==
  ASSUME Ind, [Next]_vars
  PROVE  wq' \in Queues
<1>0. client \in Clients /\ wq \in Queues /\ NoPort \in Ports /\ client.pasv \in Ports
      /\ wq.items \in WorkItems
  BY Basics, UploadNumbers DEF Ind, IBase, Clients, IWork
<1>1. Queued("data") \in BoundedSeq({"data", "keep"}, 2)
      /\ Queued("keep") \in BoundedSeq({"data", "keep"}, 2)
  BY <1>0, WorkItemsTypes DEF Queued
<1>2. wq.items # <<>> => Tail(wq.items) \in BoundedSeq({"data", "keep"}, 2)
  BY <1>0, WorkItemsTypes
<1>3. DataSockClosed \in Queues
  BY <1>0, ClosedTypes
<1> USE DEF Start, Started
<1>4. CASE SubmitData \/ keepalive_timeout
  BY <1>0, <1>1, <1>4 DEF SubmitData, keepalive_timeout, Queues
<1>5. CASE KeepaliveFirst \/ establish_data_channel \/ NoDataChannel
  BY <1>0, <1>2, <1>5 DEF KeepaliveFirst, establish_data_channel, NoDataChannel, Queues
<1>6. CASE KeepaliveSends \/ KeepaliveAnswered
  <2>1. wq.items # <<>> => [DataSockClosed EXCEPT !.items = Tail(@)] \in Queues
    BY <1>0, <1>2, <1>3, Fields, Basics DEF Queues, Ind, IBase
  <2>2. [DataSockClosed EXCEPT !.pc = "idle"] \in Queues
    BY <1>3 DEF Queues
  <2>3. [wq EXCEPT !.pc = "idle"] \in Queues
    BY <1>0 DEF Queues
  <2>4. wq.items # <<>> => Started("noop") \in Queues /\ Started("idle") \in Queues
    BY <1>0, <1>2 DEF Queues
  <2> QED
    BY <1>6, <2>1, <2>2, <2>3, <2>4 DEF KeepaliveSends, KeepaliveAnswered
<1>7. CASE SendFirstHalf \/ SendSecondHalf \/ SendDataFails
  BY <1>0, <1>7 DEF SendFirstHalf, SendSecondHalf, SendDataFails, DataEnds, Queues
<1>8. CASE wq' \in {wq, DataSockClosed}
  BY <1>0, <1>3, <1>8
<1> QED
  BY <1>4, <1>5, <1>6, <1>7, <1>8, StepCases
  DEF Begin, OpenRefused, Connect, ConnectFails, SendCommand, SendCommandFails, close_connection,
      ReplyExpected, ReplyOther, ReplyLate, ReplyHungUp, NextPart, ReadFails, PollReply,
      PollTimeout, PollHungUp, SendQuit, CloseUnconnected, Closed, QuitAnswered, Answer,
      AnswerPasv, AnswerStore, AnswerQuit, Refuse, OpenTransfer, EndTransfer,
      OtherReply, LinkFails, vars

LEMMA TransferTypes ==
  ASSUME Ind, [Next]_vars
  PROVE  transfer' \in [Uploads -> Transfers] /\ file' \in [Uploads -> Seq(Contents)]
<1>0. transfer \in [Uploads -> Transfers] /\ file \in [Uploads -> Seq(Contents)] /\ TypeOK
  BY Basics DEF Ind, IBase
<1>1. \A n \in Numbers : [NoTransfer EXCEPT !.pasv = n] \in Transfers
  BY EmptySeq DEF NoTransfer, Transfers
<1>2. NoTransfer \in Transfers
  BY PartsAreNumbers, EmptySeq DEF NoTransfer, Transfers
<1>3. CASE Begin
  <2>1. \A u \in Uploads : Arrived(u) \in Seq(Contents)
    BY <1>0, ConcatProperties DEF Arrived, Transfers
  <2> QED
    BY <1>0, <1>2, <1>3, <2>1 DEF Begin
<1>4. CASE establish_data_channel
  <2>1. transfer' = [transfer EXCEPT ![upload].data = "open"] /\ upload \in Uploads
        /\ file' = file
    BY <1>4, Established DEF Ind, establish_data_channel
  <2> QED
    BY <1>0, <2>1 DEF Transfers
<1>5. CASE SendFirstHalf \/ SendSecondHalf \/ SendDataFails
  <2>1. wq.pc \in {"sending", "half"} /\ file' = file
    BY <1>5 DEF SendFirstHalf, SendSecondHalf, SendDataFails
  <2>2. upload \in Uploads
    BY <2>1, DataIsOfUpload DEF Ind
  <2> QED
    BY <1>0, <1>5, <2>1, <2>2, OtherData DEF Ind
<1>6. CASE AnswerPasv
  <2>1. file' = file /\ transfer' = [transfer EXCEPT ![upload] = [NoTransfer EXCEPT !.pasv = T.pasv + 1]]
    BY <1>6 DEF AnswerPasv, T
  <2> QED
    BY <1>0, <1>1, <1>6, <2>1, NextPort
<1>7. CASE AnswerStore \/ OpenTransfer \/ EndTransfer
  <2>1. upload \in Uploads
    BY <1>7, LinkIsOfUpload DEF AnswerStore, OpenTransfer, EndTransfer, Serving, Ind
  <2>2. file[upload] \o T.bytes \in Seq(Contents) /\ <<>> \in Seq(Contents)
    BY <1>0, <2>1, ConcatProperties, EmptySeq DEF T, Transfers
  <2>3. transfer' \in {transfer, [transfer EXCEPT ![upload].state = "wait"],
                       [transfer EXCEPT ![upload].state = "open"],
                       [transfer EXCEPT ![upload].state = "done", ![upload].bytes = <<>>]}
    BY <1>7 DEF AnswerStore, OpenTransfer, EndTransfer
  <2>4. transfer' \in [Uploads -> Transfers]
    <3>1. /\ [transfer EXCEPT ![upload].state = "wait"] \in [Uploads -> Transfers]
          /\ [transfer EXCEPT ![upload].state = "open"] \in [Uploads -> Transfers]
      BY <1>0, <2>1 DEF Transfers
    <3>2. [transfer EXCEPT ![upload].state = "done", ![upload].bytes = <<>>] \in [Uploads -> Transfers]
      BY <1>0, <2>1, <2>2 DEF Transfers
    <3> QED
      BY <1>0, <2>3, <3>1, <3>2
  <2>5. file' \in {file, [file EXCEPT ![upload] = <<>>], [file EXCEPT ![upload] = @ \o T.bytes]}
    BY <1>7 DEF AnswerStore, OpenTransfer, EndTransfer, T
  <2> QED
    BY <1>0, <2>1, <2>2, <2>4, <2>5
<1> QED
  BY <1>0, <1>3, <1>4, <1>5, <1>6, <1>7, TransferSteps

LEMMA IndStep ==
  ASSUME Ind, [Next]_vars
  PROVE  Ind'
<1>1. IWork' /\ IWorker' /\ ISocket' /\ IServer'
  BY WorkStep, WorkerStep, SocketStep, ServerStep DEF Ind, IBase
<1>2. IFresh' /\ IConn' /\ ITransfer' /\ IPasvs'
  BY FreshStep, ConnStep, TransferStep, PasvStep DEF Ind
<1>3. TypeOK'
  BY WorkerTypes, PartTypes, CounterTypes, ClientTypes, ServerTypes, QueueTypes, TransferTypes
  DEF Ind, IBase, TypeOK, Clients, Servers, Queues, Transfers
<1> QED
  BY <1>1, <1>2, <1>3 DEF Ind, IBase

LEMMA IndInit == Init => Ind
<1> SUFFICES ASSUME Init PROVE Ind
  OBVIOUS
<1>0. /\ NoPort \in Ports /\ 0 \in Numbers /\ NoServer.cmds = <<>> /\ NoServer.link = "down"
      /\ NoServer.listening = NoPort
      /\ Len(Parts) \in Nat /\ Uploads = 1 .. Len(Parts) /\ NoPort = <<0, 0>>
  BY UploadNumbers, PartsAreNumbers DEF NoServer, NoPort
<1>1. <<>> \in WorkItems
  BY EmptySeq DEF WorkItems, IsInjective
<1>2. wq \in Queues /\ client \in Clients /\ srv \in Servers
  <2>1. <<>> \in BoundedSeq({"data", "keep"}, 2)
    BY <1>1, WorkItemsTypes
  <2>2. wq \in Queues
    BY <1>0, <2>1 DEF Init, Queues
  <2>3. client \in Clients
    BY <1>0, Zenon DEF Init, Clients
  <2> QED
    BY <2>2, <2>3, ClosedTypes, <1>0 DEF Init
<1>3. transfer \in [Uploads -> Transfers] /\ file \in [Uploads -> Seq(Contents)]
  BY <1>0, EmptySeq DEF Init, NoTransfer, Transfers
<1>4. TypeOK
  <2>1. pc = "idle" /\ cmd \in Commands /\ ret = 0 /\ waits = 0 /\ faults = 0 /\ quiet = 0
        /\ luck = "served" /\ left = FALSE /\ upload = 0 /\ part = 0 /\ buffer = NoPort
    BY DEF Init, Commands
  <2>2. 0 \in 0 .. DataWaits /\ 0 \in 0 .. MaxFaults /\ 0 \in 0 .. KeepaliveWaits
    BY BoundAssumption, WaitsAssumption
  <2> QED
    <3>1. pc \in {"idle", "open", "send", "recv", "submit", "poll", "put", "close"}
          /\ luck \in {"served", "noop", "fault", "lost"} /\ left \in BOOLEAN
      BY <2>1
    <3>2. upload \in 0 .. Len(Parts) /\ part \in Numbers /\ ret \in {-1, 0}
          /\ waits \in 0 .. DataWaits /\ faults \in 0 .. MaxFaults /\ quiet \in 0 .. KeepaliveWaits
      BY <1>0, <2>1, <2>2
    <3> QED
      BY <1>2, <1>3, <2>1, <3>1, <3>2, Zenon DEF TypeOK, Clients, Servers, Queues, Transfers
<1>5. IWork /\ IWorker /\ ISocket /\ IServer
  BY <1>0, <1>1, HasNone DEF Init, IWork, IWorker, ISocket, IServer, Quitting
<1>6. IFresh /\ IConn /\ ITransfer /\ IPasvs
  BY <1>0 DEF Init, IFresh, IConn, ITransfer, IPasvs
<1> QED
  BY <1>4, <1>5, <1>6 DEF Ind, IBase

LEMMA Inductive == Spec => []Ind
<1>1. Ind /\ UNCHANGED vars => Ind'
  BY IndStep
<1>2. Ind /\ [Next]_vars => Ind'
  BY IndStep
<1> QED
  BY IndInit, <1>2, PTL DEF Spec

\* All variables keep their types, over any number of uploads, parts, waits and faults.
THEOREM TypeCorrect == Spec => []TypeOK
<1>1. Ind => TypeOK
  BY DEF Ind, IBase
<1> QED
  BY <1>1, Inductive, PTL

-----------------------------------------------------------------------------
(* The end of an upload *)

\* After an upload, however it went, the client is closed and the next one can connect,
\* unless QUIT could not be sent.
THEOREM UploadCloses == Spec => []ClosedAfterUpload
<1>1. Init => ClosedAfterUpload
  BY DEF Init, ClosedAfterUpload
<1>2. ASSUME Ind, ClosedAfterUpload, [Next]_vars
      PROVE  ClosedAfterUpload'
  <2>0. client \in Clients /\ srv \in Servers /\ wq \in Queues /\ cmd \in Commands
    BY <1>2, Basics DEF Ind, IBase
  <2>1. \A p : ~ClientClosed(p).connected /\ ClientClosed(p).sock = "invalid"
    BY <2>0, Fields
  <2>2. CASE pc' = "idle" /\ pc # "idle"
    <3>1. CASE SendCommandFails
      BY <2>1, <2>2, <3>1 DEF SendCommandFails, close_connection, Goto, ClosedAfterUpload
    <3>2. CASE CloseUnconnected
      BY <2>1, <3>2 DEF CloseUnconnected, Closed, close_connection, ClosedAfterUpload
    <3>3. CASE QuitAnswered
      <4>1. ~client'.connected /\ client'.sock = "invalid"
        <5>1. PICK p, f, i : client' \in {[ClientClosed(p) EXCEPT !.pasv = f, !.inactivity = i],
                                         ClientClosed(p)}
          BY <3>3 DEF QuitAnswered
        <5>2. [ClientClosed(p) EXCEPT !.pasv = f, !.inactivity = i].sock = ClientClosed(p).sock
              /\ [ClientClosed(p) EXCEPT !.pasv = f, !.inactivity = i].connected
                   = ClientClosed(p).connected
          BY <2>0 DEF ClientClosed, Clients
        <5> QED
          BY <2>1, <5>1, <5>2
      <4> QED
        BY <4>1 DEF ClosedAfterUpload
    <3>4. CASE pc' # "idle" \/ UNCHANGED pc
      BY <2>2, <3>4
    <3>5. CASE \/ OpenRefused \/ Connect \/ ConnectFails \/ SendCommand \/ ReplyExpected \/ ReplyOther
               \/ NextPart \/ ReadFails \/ SubmitData \/ PollReply \/ PollTimeout \/ PollHungUp
               \/ SendQuit \/ Begin \/ ReplyLate \/ ReplyHungUp
      <4>1. pc' # "idle"
        BY <3>5 DEF OpenRefused, Connect, ConnectFails, SendCommand, ReplyExpected, ReplyOther,
            NextPart, ReadFails, SubmitData, PollReply, PollTimeout, PollHungUp, SendQuit, Begin,
            ReplyLate, ReplyHungUp, GiveUp, Goto
      <4> QED
        BY <3>4, <4>1
    <3> QED
      BY <1>2, <3>1, <3>2, <3>3, <3>4, <3>5, StepCases, Zenon
      DEF keepalive_timeout, KeepaliveFirst, KeepaliveSends, KeepaliveAnswered,
          establish_data_channel, NoDataChannel, SendFirstHalf, SendSecondHalf, SendDataFails,
          Answer, AnswerPasv, AnswerStore, AnswerQuit, Refuse, OpenTransfer, EndTransfer,
          OtherReply, LinkFails, workerVars, vars
  <2>3. CASE pc' = "idle" /\ pc = "idle"
    <3>1. UNCHANGED left
      BY <1>2, <2>3, StepCases, Zenon
      DEF Begin, OpenRefused, Connect, ConnectFails, SendCommand, SendCommandFails, ReplyExpected,
          ReplyOther, ReplyLate, ReplyHungUp, NextPart, ReadFails, SubmitData, PollReply,
          PollTimeout, PollHungUp, SendQuit, CloseUnconnected, QuitAnswered, keepalive_timeout,
          KeepaliveFirst, KeepaliveSends, KeepaliveAnswered, establish_data_channel,
          NoDataChannel, SendFirstHalf, SendSecondHalf, SendDataFails, Answer, AnswerPasv,
          AnswerStore, AnswerQuit, Refuse, OpenTransfer, EndTransfer,
          OtherReply, LinkFails, SameFaults,
          Fault, Loss, historyVars, vars
    <3>2. \/ client'.sock = client.sock /\ client'.connected = client.connected
          \/ client'.sock = "invalid" /\ ~client'.connected
      <4>1. CASE keepalive_timeout \/ KeepaliveFirst \/ SendSecondHalf \/ SendDataFails
        BY <2>0, <4>1 DEF keepalive_timeout, KeepaliveFirst, SendSecondHalf, SendDataFails,
                          DataEnds, Clients
      <4>2. CASE KeepaliveSends
        BY <2>0, <2>1, <4>2, Fields DEF KeepaliveSends, Send
      <4>3. CASE KeepaliveAnswered
        BY <2>0, <2>1, <4>3, Fields DEF KeepaliveAnswered, HangUp
      <4>4. CASE UNCHANGED client
        BY <4>4
      <4> QED
        BY <1>2, <2>3, <4>1, <4>2, <4>3, <4>4, StepCases
        DEF Begin, OpenRefused, Connect, ConnectFails, SendCommand, SendCommandFails,
            ReplyExpected, ReplyOther, ReplyLate, ReplyHungUp, NextPart, ReadFails, SubmitData,
            PollReply, PollTimeout, PollHungUp, SendQuit, CloseUnconnected, QuitAnswered,
            establish_data_channel, NoDataChannel, SendFirstHalf, Answer, AnswerPasv, AnswerStore,
            AnswerQuit, Refuse, OpenTransfer, EndTransfer, OtherReply, LinkFails, vars
    <3> QED
      BY <1>2, <2>3, <3>1, <3>2 DEF ClosedAfterUpload
  <2> QED
    BY <2>2, <2>3 DEF ClosedAfterUpload
<1> QED
  BY <1>1, <1>2, Inductive, PTL DEF Spec

-----------------------------------------------------------------------------
(* The order of commands and replies *)

Stores == {"STOR", "APPE"}
TransferCommands == {"PASV", "STOR", "APPE"}
Storing == pc \in {"submit", "poll"}
Leaving == pc \in {"idle", "close"} \/ (pc \in {"send", "recv"} /\ cmd = "QUIT")
NonePending == \A c \in TransferCommands : ~Has(srv.cmds, c)
NoneLater(s) == \A i \in DOMAIN s : s[i] \in Stores =>
                  \A j \in DOMAIN s : i < j => s[j] \notin TransferCommands
Coded(r, c) == \E i \in DOMAIN r : r[i].code = c
Once(r, c) == \A i, j \in DOMAIN r : r[i].code = c /\ r[j].code = c => i = j

\* While the server waits for data, or has commands to store them, the worker waits for
\* their end or has given up, and nothing about another transfer is on its way.
IOrder ==
  /\ upload > 0 /\ T.state \in {"wait", "open"} =>
       (Storing \/ Leaving) /\ NonePending /\ ~Coded(srv.replies, 226)
  /\ (\E c \in Stores : Has(srv.cmds, c)) => Storing \/ Leaving
  /\ NoneLater(srv.cmds)
  /\ Coded(srv.replies, 226) => (Storing \/ Leaving) /\ T.state = "done" /\ NonePending
  /\ Once(srv.replies, 226)

LEMMA NoneLaterAppended ==
  ASSUME NEW s \in Seq(Commands), NEW d \in Commands, NoneLater(s),
         d \in TransferCommands => \A c \in Stores : ~Has(s, c)
  PROVE  NoneLater(Append(s, d))
<1>1. Len(s) \in Nat /\ DOMAIN s = 1 .. Len(s)
  BY LenProperties
<1>2. /\ DOMAIN Append(s, d) = 1 .. Len(s) + 1
      /\ \A i \in 1 .. Len(s) : Append(s, d)[i] = s[i]
      /\ Append(s, d)[Len(s) + 1] = d
  BY AppendProperties, LenProperties
<1> SUFFICES ASSUME NEW i \in DOMAIN Append(s, d), Append(s, d)[i] \in Stores,
                    NEW j \in DOMAIN Append(s, d), i < j
             PROVE  Append(s, d)[j] \notin TransferCommands
  BY DEF NoneLater
<1>3. i \in 1 .. Len(s) /\ s[i] \in Stores
  BY <1>1, <1>2
<1>4. CASE j \in 1 .. Len(s)
  BY <1>1, <1>2, <1>3, <1>4 DEF NoneLater
<1>5. CASE j = Len(s) + 1
  BY <1>1, <1>2, <1>3, <1>5 DEF Has
<1> QED
  BY <1>1, <1>2, <1>4, <1>5

LEMMA NoneLaterTaken ==
  ASSUME NEW s \in Seq(Commands), s # <<>>, NoneLater(s)
  PROVE  /\ NoneLater(Tail(s))
         /\ Head(s) \in Stores => \A c \in TransferCommands : ~Has(Tail(s), c)
<1>1. Len(s) \in Nat /\ DOMAIN s = 1 .. Len(s) /\ Len(s) # 0 /\ Head(s) = s[1]
  BY LenProperties, EmptySeq
<1>2. /\ Tail(s) \in Seq(Commands) /\ Len(Tail(s)) = Len(s) - 1
      /\ \A i \in 1 .. Len(Tail(s)) : Tail(s)[i] = s[i + 1]
  BY HeadTailProperties
<1>3. DOMAIN Tail(s) = 1 .. Len(s) - 1
  BY <1>2, LenProperties
<1>4. \A i \in DOMAIN Tail(s) : i + 1 \in DOMAIN s /\ Tail(s)[i] = s[i + 1] /\ 1 < i + 1 /\ 1 \in DOMAIN s
  BY <1>1, <1>2, <1>3
<1>5. NoneLater(Tail(s))
  <2> SUFFICES ASSUME NEW i \in DOMAIN Tail(s), Tail(s)[i] \in Stores,
                      NEW j \in DOMAIN Tail(s), i < j
               PROVE  Tail(s)[j] \notin TransferCommands
    BY DEF NoneLater
  <2>1. i + 1 < j + 1
    BY <1>1, <1>3
  <2> QED
    BY <1>4, <2>1 DEF NoneLater
<1>6. Head(s) \in Stores => \A c \in TransferCommands : ~Has(Tail(s), c)
  BY <1>1, <1>4 DEF NoneLater, Has
<1> QED
  BY <1>5, <1>6

LEMMA RepliesAppended ==
  ASSUME NEW r \in Seq(Replies), NEW x \in Replies, NEW c
  PROVE  /\ Coded(Append(r, x), c) <=> Coded(r, c) \/ x.code = c
         /\ Once(r, c) /\ (~Coded(r, c) \/ x.code # c) => Once(Append(r, x), c)
<1>1. Len(r) \in Nat /\ DOMAIN r = 1 .. Len(r)
  BY LenProperties
<1>2. /\ DOMAIN Append(r, x) = 1 .. Len(r) + 1
      /\ \A i \in 1 .. Len(r) : Append(r, x)[i] = r[i]
      /\ Append(r, x)[Len(r) + 1] = x
  BY AppendProperties, LenProperties
<1>3. \A i \in 1 .. Len(r) + 1 : i \in 1 .. Len(r) \/ i = Len(r) + 1
  BY <1>1
<1>4. /\ \A i \in 1 .. Len(r) : i \in 1 .. Len(r) + 1
      /\ Len(r) + 1 \in 1 .. Len(r) + 1
  BY <1>1
<1>5. Coded(Append(r, x), c) <=> Coded(r, c) \/ x.code = c
  BY <1>1, <1>2, <1>3, <1>4, Zenon DEF Coded
<1>6. ASSUME Once(r, c), ~Coded(r, c) \/ x.code # c
      PROVE  Once(Append(r, x), c)
  <2> SUFFICES ASSUME NEW i \in DOMAIN Append(r, x), NEW j \in DOMAIN Append(r, x),
                      Append(r, x)[i].code = c, Append(r, x)[j].code = c
               PROVE  i = j
    BY DEF Once
  <2>1. i \in 1 .. Len(r) => r[i].code = c
    BY <1>2
  <2>2. j \in 1 .. Len(r) => r[j].code = c
    BY <1>2
  <2>3. i = Len(r) + 1 \/ j = Len(r) + 1 => x.code = c
    BY <1>2
  <2> QED
    BY <1>1, <1>2, <1>3, <1>6, <2>1, <2>2, <2>3, Zenon DEF Once, Coded
<1> QED
  BY <1>5, <1>6

LEMMA RestOfReplies ==
  ASSUME NEW r \in Seq(Replies), NEW n \in DOMAIN r
  PROVE  LET rest == SubSeq(r, n + 1, Len(r))
         IN  /\ DOMAIN rest = 1 .. Len(r) - n
             /\ \A i \in 1 .. Len(r) - n : rest[i] = r[n + i]
<1> DEFINE rest == SubSeq(r, n + 1, Len(r))
<1>1. Len(r) \in Nat /\ DOMAIN r = 1 .. Len(r) /\ n \in 1 .. Len(r)
  BY LenProperties
<1>2. /\ rest \in Seq(Replies)
      /\ Len(rest) = IF n + 1 <= Len(r) THEN Len(r) - (n + 1) + 1 ELSE 0
      /\ \A i \in 1 .. Len(rest) : rest[i] = r[n + 1 + i - 1]
  BY <1>1, SubSeqProperties
<1>3. DOMAIN rest = 1 .. Len(rest)
  BY <1>2, LenProperties
<1>4. Len(rest) = Len(r) - n
  BY <1>1, <1>2
<1>5. \A i \in 1 .. Len(r) - n : n + 1 + i - 1 = n + i
  BY <1>1
<1> QED
  BY <1>2, <1>3, <1>4, <1>5

LEMMA RepliesTaken ==
  ASSUME NEW r \in Seq(Replies), NEW n \in DOMAIN r, NEW c, Once(r, c)
  PROVE  LET rest == SubSeq(r, n + 1, Len(r))
         IN  /\ Coded(rest, c) => Coded(r, c)
             /\ Once(rest, c)
             /\ (\E i \in 1 .. n : r[i].code = c) => ~Coded(rest, c)
<1> DEFINE rest == SubSeq(r, n + 1, Len(r))
<1>1. Len(r) \in Nat /\ DOMAIN r = 1 .. Len(r) /\ n \in 1 .. Len(r)
  BY LenProperties
<1>3. DOMAIN rest = 1 .. Len(r) - n /\ \A i \in 1 .. Len(r) - n : rest[i] = r[n + i]
  BY RestOfReplies
<1> HIDE DEF rest
<1>4. \A i \in DOMAIN rest : n + i \in DOMAIN r /\ n + i > n /\ rest[i] = r[n + i]
  BY <1>1, <1>3
<1>5. Coded(rest, c) => Coded(r, c)
  BY <1>4 DEF Coded
<1>6. Once(rest, c)
  <2> SUFFICES ASSUME NEW i \in DOMAIN rest, NEW j \in DOMAIN rest,
                      rest[i].code = c, rest[j].code = c
               PROVE  i = j
    BY DEF Once
  <2>1. n + i = n + j
    BY <1>4 DEF Once
  <2> QED
    BY <1>1, <1>3, <2>1
<1>7. (\E i \in 1 .. n : r[i].code = c) => ~Coded(rest, c)
  <2> SUFFICES ASSUME NEW i \in 1 .. n, r[i].code = c, NEW j \in DOMAIN rest, rest[j].code = c
               PROVE  FALSE
    BY DEF Coded
  <2>1. i \in DOMAIN r /\ n + j \in DOMAIN r /\ r[n + j].code = c /\ i # n + j
    BY <1>1, <1>4
  <2> QED
    BY <2>1 DEF Once
<1> QED
  BY <1>5, <1>6, <1>7 DEF rest

\* What can happen to the replies on their way to the client.
LEMMA ReplySteps ==
  ASSUME Ind, [Next]_vars
  PROVE  \/ srv'.replies = srv.replies \/ srv'.replies = <<>>
         \/ \E n \in DOMAIN srv.replies :
              /\ srv' = ServerAfter(n)
              /\ srv'.replies = SubSeq(srv.replies, n + 1, Len(srv.replies))
              /\ ReplyExpected \/ ReplyOther \/ PollReply \/ KeepaliveAnswered
         \/ \E r \in Replies : /\ r.code \notin {226, 150} /\ srv'.replies = Append(srv.replies, r)
                               /\ r.code = 227 => AnswerPasv /\ r.port = <<upload, T.pasv + 1>>
         \/ OpenTransfer /\ srv'.replies = Append(srv.replies, Reply(150)) /\ Reply(150) \in Replies
         \/ EndTransfer /\ srv'.replies = Append(srv.replies, Reply(226)) /\ Reply(226) \in Replies
<1>0. wq \in Queues /\ client \in Clients /\ srv \in Servers /\ NoPort \in Ports
  BY Basics, UploadNumbers DEF Ind, IBase
<1>1. \A c \in {150, 200, 220, 221, 226, 230, 257, 331, 530, 550} :
        Reply(c) \in Replies /\ Reply(c).code = c
  BY <1>0 DEF Reply, Replies
<1>2. CASE srv' = NoServer \/ UNCHANGED srv \/ Connect
  <2>1. srv' = NoServer => srv'.replies = <<>>
    BY DEF NoServer
  <2>2. Connect => srv'.replies = <<>>
    BY DEF NoServer, Connect
  <2> QED
    BY <1>2, <2>1, <2>2
<1>3. CASE ReplyExpected \/ ReplyOther \/ PollReply \/ KeepaliveAnswered
  <2>1. \/ \E n \in DOMAIN srv.replies : srv' = ServerAfter(n)
        \/ srv' \in {NoServer, srv}
    BY <1>3 DEF ReplyExpected, ReplyOther, PollReply, KeepaliveAnswered, HangUp
  <2>2. \A n : ServerAfter(n).replies = SubSeq(srv.replies, n + 1, Len(srv.replies))
    BY <1>0 DEF Servers, ServerAfter
  <2> QED
    BY <1>2, <1>3, <2>1, <2>2, SMTT(40)
<1>4. CASE SendCommand \/ KeepaliveSends \/ establish_data_channel
  BY <1>0, <1>2, <1>4 DEF SendCommand, KeepaliveSends, Send, SendFails, establish_data_channel, Servers
<1>5. CASE Answer \/ AnswerPasv \/ AnswerStore \/ AnswerQuit \/ Refuse
  <2>2. \A r \in Replies :
          /\ Answered(r).replies = Append(srv.replies, r)
          /\ \A l : [Answered(r) EXCEPT !.login = l].replies = Append(srv.replies, r)
          /\ \A l : [Answered(r) EXCEPT !.listening = l].replies = Append(srv.replies, r)
          /\ \A l, m : [Answered(r) EXCEPT !.link = m, !.listening = l].replies
                         = Append(srv.replies, r)
    BY <1>0 DEF Servers, Answered
  <2>3. CASE Answer
    <3>1. PICK c \in {200, 220, 230, 257, 331} : SimpleReplies[NextCommand] = c
      BY <2>3 DEF Answer, SimpleReplies
    <3>2. srv'.replies = Append(srv.replies, Reply(c))
      BY <1>0, <2>3, <3>1 DEF Answer, Answered, Servers
    <3>3. Reply(c) \in Replies /\ Reply(c).code = c
      BY <1>1
    <3> QED
      BY <3>2, <3>3
  <2>4. CASE AnswerPasv
    <3> DEFINE r == [code |-> 227, port |-> <<upload, T.pasv + 1>>]
    <3>1. srv' = [Answered(r) EXCEPT !.listening = <<upload, T.pasv + 1>>]
      BY <2>4 DEF AnswerPasv, T
    <3>2. srv'.replies = Append(srv.replies, r)
      BY <1>0, <3>1 DEF Servers, Answered
    <3>3. r \in Replies /\ r.code = 227 /\ r.port = <<upload, T.pasv + 1>>
      BY <2>4, NextPort
    <3> HIDE DEF r
    <3> QED
      BY <2>4, <3>2, <3>3
  <2>5. CASE AnswerStore
    <3>1. srv' = Answered(Reply(550)) \/ srv' = [srv EXCEPT !.cmds = Tail(@)]
      BY <2>5 DEF AnswerStore
    <3>2. Reply(550) \in Replies /\ Reply(550).code = 550
      BY <1>1
    <3> QED
      BY <1>0, <2>2, <3>1, <3>2 DEF Servers
  <2>6. CASE AnswerQuit
    <3>1. Reply(221) \in Replies /\ Reply(221).code = 221
      BY <1>1
    <3> QED
      BY <2>2, <2>6, <3>1 DEF AnswerQuit
  <2>7. CASE Refuse
    <3>1. Reply(530) \in Replies /\ Reply(530).code = 530
      BY <1>1
    <3> QED
      BY <2>2, <2>7, <3>1 DEF Refuse
  <2> QED
    BY <1>5, <2>3, <2>4, <2>5, <2>6, <2>7
<1>6. CASE OpenTransfer
  <2>1. srv' = [srv EXCEPT !.replies = Append(@, Reply(150))] /\ Reply(150) \in Replies
    BY <1>1, <1>6 DEF OpenTransfer
  <2> QED
    BY <1>0, <1>6, <2>1 DEF Servers
<1>7. CASE EndTransfer
  <2>1. srv' = [srv EXCEPT !.replies = Append(@, Reply(226))] /\ Reply(226) \in Replies
    BY <1>1, <1>7 DEF EndTransfer
  <2> QED
    BY <1>0, <1>7, <2>1 DEF Servers
<1>8. CASE OtherReply
  <2>1. srv' = [srv EXCEPT !.replies = Append(@, Reply(200))]
    BY <1>8 DEF OtherReply
  <2>2. Reply(200) \in Replies /\ Reply(200).code = 200
    BY <1>1
  <2> QED
    BY <1>0, <2>1, <2>2 DEF Servers
<1> QED
  BY <1>2, <1>3, <1>4, <1>5, <1>6, <1>7, <1>8, StepCases, Zenon
  DEF Begin, OpenRefused, ConnectFails, SendCommandFails, SendFails, close_connection,
      ReplyLate, ReplyHungUp, HangUp, NextPart, ReadFails, SubmitData, PollTimeout, PollHungUp,
      SendQuit, CloseUnconnected, Closed, QuitAnswered, keepalive_timeout, KeepaliveFirst,
      NoDataChannel, SendFirstHalf, SendSecondHalf, SendDataFails, SameServer,
      OtherReply, LinkFails, vars

\* How the state of the transfer at hand changes.
LEMMA StateSteps ==
  ASSUME IBase, [Next]_vars, upload > 0
  PROVE  \/ Begin
         \/ /\ upload' = upload
            /\ \/ T'.state = T.state
               \/ AnswerPasv /\ T'.state = "none"
               \/ AnswerStore /\ T'.state = "wait"
               \/ OpenTransfer /\ T.state = "wait" /\ T'.state = "open"
               \/ EndTransfer /\ T.state = "open" /\ T'.state = "done"
<1>0. transfer \in [Uploads -> Transfers] /\ upload \in Uploads /\ T \in Transfers
  <2>1. transfer \in [Uploads -> Transfers] /\ upload \in Uploads
    BY Basics DEF IBase
  <2> QED
    BY <2>1 DEF T
<1>1. upload' = upload \/ Begin
  BY PartSteps DEF NextPart
<1> SUFFICES ASSUME upload' = upload
             PROVE  \/ T'.state = T.state
                    \/ AnswerPasv /\ T'.state = "none"
                    \/ AnswerStore /\ T'.state = "wait"
                    \/ OpenTransfer /\ T.state = "wait" /\ T'.state = "open"
                    \/ EndTransfer /\ T.state = "open" /\ T'.state = "done"
  BY <1>1
<1>2. CASE Begin
  BY <1>0, <1>2 DEF Begin, IBase
<1>3. CASE AnswerPasv
  BY <1>0, <1>3 DEF AnswerPasv, NoTransfer, T
<1>4. CASE establish_data_channel
  BY <1>0, <1>4, Established DEF T, Transfers
<1>5. CASE SendFirstHalf \/ SendSecondHalf \/ SendDataFails
  BY <1>0, <1>5, OtherData DEF T
<1>6. CASE AnswerStore
  BY <1>0, <1>6 DEF AnswerStore, T, Transfers
<1>7. CASE OpenTransfer
  BY <1>0, <1>7 DEF OpenTransfer, T, Transfers
<1>8. CASE EndTransfer
  BY <1>0, <1>8 DEF EndTransfer, T, Transfers
<1>9. CASE UNCHANGED <<upload, transfer, file>>
  BY <1>9 DEF T
<1> QED
  BY <1>2, <1>3, <1>4, <1>5, <1>6, <1>7, <1>8, <1>9, TransferSteps

\* The worker stays where it is until 226 has come or the next upload begins.
LEMMA StayingSteps ==
  ASSUME TypeOK, [Next]_vars, Storing \/ Leaving
  PROVE  \/ (Storing \/ Leaving)'
         \/ Begin
         \/ /\ PollReply /\ pc' = "put"
            /\ \E n \in DOMAIN srv.replies : srv' = ServerAfter(n) /\ 226 \in CodesIn(n)
<1> USE DEF Storing, Leaving, Goto
<1>1. CASE SendCommand \/ SendCommandFails
  BY <1>1 DEF SendCommand, SendCommandFails
<1>2. CASE \/ SubmitData \/ PollTimeout \/ PollHungUp \/ SendQuit \/ CloseUnconnected \/ QuitAnswered
  BY <1>2 DEF SubmitData, PollTimeout, PollHungUp, SendQuit, CloseUnconnected, QuitAnswered
<1>3. CASE PollReply
  BY <1>3 DEF PollReply
<1>4. CASE ReplyExpected \/ ReplyOther \/ ReplyLate \/ ReplyHungUp
  BY <1>4 DEF ReplyExpected, ReplyOther, ReplyLate, ReplyHungUp, Expected
<1>5. CASE OpenRefused \/ Connect \/ ConnectFails \/ NextPart \/ ReadFails
  BY <1>5 DEF OpenRefused, Connect, ConnectFails, NextPart, ReadFails
<1>6. CASE UNCHANGED workerVars
  BY <1>6 DEF workerVars
<1> QED
  BY <1>1, <1>2, <1>3, <1>4, <1>5, <1>6, StepCases, Zenon
  DEF keepalive_timeout, KeepaliveFirst, KeepaliveSends, KeepaliveAnswered,
      establish_data_channel, NoDataChannel, SendFirstHalf, SendSecondHalf, SendDataFails,
      Answer, AnswerPasv, AnswerStore, AnswerQuit, Refuse, OpenTransfer, EndTransfer,
      OtherReply, LinkFails,
      vars

\* Commands about a transfer are sent by the worker only.
LEMMA PendingSteps ==
  ASSUME TypeOK, [Next]_vars, NEW c \in TransferCommands, Has(srv'.cmds, c)
  PROVE  Has(srv.cmds, c) \/ (SendCommand /\ cmd = c /\ ~Broken)
<1>0. srv \in Servers /\ cmd \in Commands /\ c \notin {"GREETING", "NOOP"}
  BY Records DEF TypeOK, TransferCommands
<1> USE <1>0, HasNone, CmdsHave
<1>1. CASE srv'.cmds = srv.cmds
  BY <1>1
<1>2. CASE srv' = NoServer
  BY <1>2 DEF NoServer
<1>3. CASE srv'.cmds = <<"GREETING">>
  BY <1>3
<1>4. CASE SendCommand /\ ~Broken /\ srv' = [srv EXCEPT !.cmds = Append(@, cmd)]
  <2>1. srv'.cmds = Append(srv.cmds, cmd)
    BY <1>4 DEF Servers
  <2> QED
    BY <1>4, <2>1
<1>5. CASE srv' = [srv EXCEPT !.cmds = Append(@, "NOOP")]
  <2>1. srv'.cmds = Append(srv.cmds, "NOOP") /\ "NOOP" \in Commands
    BY <1>5 DEF Servers, Commands
  <2> QED
    BY <2>1
<1>6. CASE Serving /\ srv'.cmds = Tail(srv.cmds)
  BY <1>6 DEF Serving
<1> QED
  BY <1>1, <1>2, <1>3, <1>4, <1>5, <1>6, CommandSteps

LEMMA OrderStep ==
  ASSUME Ind, IOrder, [Next]_vars
  PROVE  IOrder'
<1>0. /\ srv \in Servers /\ cmd \in Commands /\ TypeOK /\ IBase
      /\ upload \in 0 .. Len(Parts) /\ Len(Parts) \in Nat
      /\ srv.cmds \in Seq(Commands) /\ srv.replies \in Seq(Replies)
  BY Basics DEF Ind, IBase, Servers
<1>1. CASE Begin
  <2>1. pc' = "open" /\ upload' \in Uploads /\ srv' = NoServer
    BY <1>0, <1>1 DEF Begin, IBase, IServer, Uploads
  <2>2. T' = NoTransfer
    BY <2>1, FreshStep, <1>0 DEF IFresh
  <2>3. srv'.cmds = <<>> /\ srv'.replies = <<>> /\ T'.state = "none"
    BY <2>1, <2>2 DEF NoServer, NoTransfer
  <2> QED
    BY <2>3, HasNone DEF IOrder, NoneLater, Coded, Once
<1>2. CASE ~Begin
  <2>1. upload' = upload
    BY <1>2, PartSteps DEF NextPart
  <2>2. \A c \in TransferCommands :
          Has(srv'.cmds, c) => Has(srv.cmds, c) \/ (SendCommand /\ cmd = c)
    BY <1>0, PendingSteps
  <2>3. EndTransfer => /\ T.state = "open" /\ T'.state = "done" /\ upload > 0 /\ srv'.cmds = srv.cmds
                       /\ UNCHANGED <<pc, cmd>>
    <3> SUFFICES ASSUME EndTransfer
                 PROVE  /\ T.state = "open" /\ T'.state = "done" /\ upload > 0 /\ srv'.cmds = srv.cmds
                        /\ UNCHANGED <<pc, cmd>>
      OBVIOUS
    <3>1. upload \in Uploads /\ upload > 0
      BY <1>0, LinkIsOfUpload DEF EndTransfer
    <3>2. transfer \in [Uploads -> Transfers]
      BY <1>0, Basics
    <3> QED
      BY <1>0, <2>1, <3>1, <3>2 DEF EndTransfer, T, Transfers, Servers, workerVars
  <2>4. /\ Coded(srv'.replies, 226) => Coded(srv.replies, 226) \/ EndTransfer
        /\ Once(srv'.replies, 226)
    <3>1. CASE srv'.replies = srv.replies
      BY <3>1 DEF IOrder
    <3>2. CASE srv'.replies = <<>>
      BY <3>2 DEF Coded, Once
    <3>3. CASE \E n \in DOMAIN srv.replies :
                 srv'.replies = SubSeq(srv.replies, n + 1, Len(srv.replies))
      BY <1>0, <3>3, RepliesTaken DEF IOrder
    <3>4. CASE \E r \in Replies : r.code # 226 /\ srv'.replies = Append(srv.replies, r)
      BY <1>0, <3>4, RepliesAppended DEF IOrder
    <3>5. CASE srv'.replies = Append(srv.replies, Reply(150)) /\ Reply(150) \in Replies
      <4>1. Reply(150).code = 150
        BY DEF Reply
      <4> QED
        BY <1>0, <3>5, <4>1, RepliesAppended DEF IOrder
    <3>6. CASE EndTransfer /\ srv'.replies = Append(srv.replies, Reply(226)) /\ Reply(226) \in Replies
      <4>1. ~Coded(srv.replies, 226)
        BY <2>3, <3>6 DEF IOrder
      <4> QED
        BY <1>0, <3>6, <4>1, RepliesAppended DEF IOrder
    <3> QED
      BY <3>1, <3>2, <3>3, <3>4, <3>5, <3>6, ReplySteps
  <2>5. Storing \/ Leaving => \/ (Storing \/ Leaving)'
                              \/ Coded(srv.replies, 226) /\ ~Coded(srv'.replies, 226)
    <3> SUFFICES ASSUME NEW n \in DOMAIN srv.replies, srv' = ServerAfter(n), 226 \in CodesIn(n)
                 PROVE  Coded(srv.replies, 226) /\ ~Coded(srv'.replies, 226)
      BY <1>0, <1>2, StayingSteps
    <3>1. PICK i \in 1 .. n : srv.replies[i].code = 226
      BY DEF CodesIn, Read
    <3>2. srv'.replies = SubSeq(srv.replies, n + 1, Len(srv.replies))
      BY <1>0 DEF Servers, ServerAfter
    <3>3. ~Coded(srv'.replies, 226)
      BY <1>0, <3>1, <3>2, RepliesTaken DEF IOrder
    <3>4. i \in DOMAIN srv.replies
      BY <1>0, LenProperties
    <3> QED
      BY <3>1, <3>3, <3>4 DEF Coded
  <2>6. SendCommand /\ (Storing \/ Leaving) => cmd \notin TransferCommands
    BY DEF SendCommand, Storing, Leaving, TransferCommands
  <2>7. NoneLater(srv'.cmds)
    <3>1. CASE srv'.cmds = srv.cmds
      BY <3>1 DEF IOrder
    <3>2. CASE srv' = NoServer
      BY <3>2 DEF NoServer, NoneLater
    <3>3. CASE srv'.cmds = <<"GREETING">>
      BY <3>3 DEF NoneLater, Stores
    <3>4. CASE SendCommand /\ srv' = [srv EXCEPT !.cmds = Append(@, cmd)]
      <4>1. srv'.cmds = Append(srv.cmds, cmd)
        BY <1>0, <3>4 DEF Servers
      <4>2. cmd \in TransferCommands => \A c \in Stores : ~Has(srv.cmds, c)
        BY <2>6, <3>4 DEF IOrder
      <4> QED
        BY <1>0, <4>1, <4>2, NoneLaterAppended DEF IOrder
    <3>5. CASE srv' = [srv EXCEPT !.cmds = Append(@, "NOOP")]
      <4>1. srv'.cmds = Append(srv.cmds, "NOOP") /\ "NOOP" \in Commands \ TransferCommands
        BY <1>0, <3>5 DEF Servers, Commands, TransferCommands
      <4> QED
        BY <1>0, <4>1, NoneLaterAppended DEF IOrder
    <3>6. CASE Serving /\ srv'.cmds = Tail(srv.cmds)
      BY <1>0, <3>6, NoneLaterTaken DEF IOrder, Serving
    <3> QED
      BY <1>0, <3>1, <3>2, <3>3, <3>4, <3>5, <3>6, CommandSteps
  <2>8. AnswerStore => /\ UNCHANGED <<pc, cmd>> /\ \E c \in Stores : Has(srv.cmds, c)
                       /\ srv'.cmds = Tail(srv.cmds) /\ NonePending'
    <3> SUFFICES ASSUME AnswerStore
                 PROVE  /\ UNCHANGED <<pc, cmd>> /\ \E c \in Stores : Has(srv.cmds, c)
                        /\ srv'.cmds = Tail(srv.cmds) /\ NonePending'
      OBVIOUS
    <3>1. srv.cmds # <<>> /\ Head(srv.cmds) \in Stores /\ UNCHANGED <<pc, cmd>>
      BY DEF AnswerStore, Serving, NextCommand, Stores, workerVars
    <3>2. srv'.cmds = Tail(srv.cmds)
      BY <1>0 DEF AnswerStore, Answered, Servers
    <3>3. Has(srv.cmds, Head(srv.cmds))
      BY <1>0, <3>1, HasTaken
    <3>4. NonePending'
      BY <1>0, <3>1, <3>2, NoneLaterTaken DEF IOrder, NonePending
    <3> QED
      BY <3>1, <3>2, <3>3, <3>4
  <2>9. NonePending /\ (Storing \/ Leaving) => NonePending'
    BY <2>2, <2>6 DEF NonePending
  <2>10. upload > 0 =>
           \/ T'.state = T.state
           \/ AnswerPasv /\ T'.state = "none"
           \/ AnswerStore /\ T'.state = "wait"
           \/ OpenTransfer /\ T.state = "wait" /\ T'.state = "open"
           \/ EndTransfer /\ T.state = "open" /\ T'.state = "done"
    BY <1>0, <1>2, StateSteps
  <2>11. ASSUME upload > 0, T'.state \in {"wait", "open"}
         PROVE  (Storing \/ Leaving)' /\ NonePending' /\ ~Coded(srv'.replies, 226)
    <3>1. CASE T.state \in {"wait", "open"}
      <4>1. (Storing \/ Leaving) /\ NonePending /\ ~Coded(srv.replies, 226)
        BY <2>11, <3>1 DEF IOrder
      <4> QED
        BY <2>3, <2>4, <2>5, <2>9, <2>11, <4>1
    <3>2. CASE AnswerStore
      <4>1. (Storing \/ Leaving) /\ ~Coded(srv.replies, 226)
        BY <2>8, <3>2 DEF IOrder, NonePending, Stores, TransferCommands
      <4> QED
        BY <2>3, <2>4, <2>5, <2>8, <2>11, <3>2, <4>1
    <3> QED
      BY <2>10, <2>11, <3>1, <3>2
  <2>12. ASSUME NEW c \in Stores, Has(srv'.cmds, c)
         PROVE  (Storing \/ Leaving)'
    <3>1. CASE Has(srv.cmds, c)
      <4>1. (Storing \/ Leaving) /\ ~Coded(srv.replies, 226)
        BY <3>1 DEF IOrder, NonePending, Stores, TransferCommands
      <4> QED
        BY <2>5, <4>1
    <3>2. CASE SendCommand /\ cmd = c
      BY <3>2 DEF SendCommand, Stores, Storing
    <3> QED
      BY <2>2, <2>12, <3>1, <3>2 DEF Stores, TransferCommands
  <2>13. ASSUME Coded(srv'.replies, 226)
         PROVE  (Storing \/ Leaving)' /\ T'.state = "done" /\ NonePending'
    <3>1. CASE EndTransfer
      <4>1. (Storing \/ Leaving) /\ NonePending
        BY <2>3, <3>1 DEF IOrder
      <4> QED
        BY <2>3, <2>9, <3>1, <4>1 DEF Storing, Leaving
    <3>2. CASE Coded(srv.replies, 226)
      <4>1. (Storing \/ Leaving) /\ NonePending /\ T.state = "done"
        BY <3>2 DEF IOrder
      <4>2. srv # NoServer
        BY <3>2 DEF Coded, NoServer
      <4>3. upload > 0
        BY <1>0, <4>2, LinkIsOfUpload
      <4>4. ~AnswerPasv /\ ~AnswerStore
        <5>1. AnswerPasv => Has(srv.cmds, "PASV")
          BY <1>0, HasTaken DEF AnswerPasv, Serving, NextCommand
        <5> QED
          BY <2>8, <4>1, <5>1 DEF NonePending, TransferCommands, Stores
      <4> QED
        BY <2>5, <2>9, <2>10, <2>13, <4>1, <4>3, <4>4
    <3> QED
      BY <2>4, <2>13, <3>1, <3>2
  <2> QED
    BY <2>1, <2>4, <2>7, <2>11, <2>12, <2>13 DEF IOrder
<1> QED
  BY <1>1, <1>2

-----------------------------------------------------------------------------
(* The ports the server has named *)

\* A reply to PASV that is still to come names a port later than the one the client has
\* read, and nothing connects to that before it is read.
IPorts ==
  /\ client.pasv[1] <= upload
  /\ upload > 0 /\ client.pasv[1] = upload => client.pasv[2] <= T.pasv
  /\ \A i \in DOMAIN srv.replies : srv.replies[i].code = 227 =>
       /\ srv.replies[i].port[1] = upload /\ srv.replies[i].port[2] <= T.pasv
       /\ client.pasv[1] = upload => client.pasv[2] < srv.replies[i].port[2]
       /\ T.data = "none"
       /\ \A j \in DOMAIN srv.replies : srv.replies[j].code = 227 /\ j < i =>
            srv.replies[j].port[2] < srv.replies[i].port[2]

\* The client's port is what it was, none, or the last of those it has received.
LEMMA PortSteps ==
  ASSUME Ind, [Next]_vars
  PROVE  \/ client'.pasv = client.pasv \/ client'.pasv = NoPort
         \/ \E n \in DOMAIN srv.replies :
              /\ srv'.replies = SubSeq(srv.replies, n + 1, Len(srv.replies)) \/ srv'.replies = <<>>
              /\ \E i \in 1 .. n : /\ srv.replies[i].code = 227
                                   /\ client'.pasv = srv.replies[i].port
                                   /\ \A j \in 1 .. n : srv.replies[j].code = 227 => j <= i
<1>0. client \in Clients /\ srv \in Servers /\ wq \in Queues /\ cmd \in Commands
  BY Basics DEF Ind, IBase
<1>1. ASSUME NEW n \in DOMAIN srv.replies
      PROVE  \/ ClientAfter(n).pasv = NoPort
             \/ \E i \in 1 .. n : /\ srv.replies[i].code = 227
                                  /\ ClientAfter(n).pasv = srv.replies[i].port
                                  /\ \A j \in 1 .. n : srv.replies[j].code = 227 => j <= i
  <2> DEFINE pasvs == {i \in 1 .. n : srv.replies[i].code = 227}
  <2>1. ClientAfter(n).pasv = IF pasvs = {} THEN NoPort ELSE srv.replies[Max(pasvs)].port
    BY <1>0 DEF ClientAfter, Clients
  <2>2. n \in Nat
    BY <1>0, LenProperties DEF Servers
  <2>3. pasvs # {} => Max(pasvs) \in pasvs /\ \A j \in pasvs : j <= Max(pasvs)
    <3>1. pasvs \in SUBSET Nat /\ \A j \in pasvs : j <= n
      BY <2>2
    <3> HIDE DEF pasvs
    <3> QED
      BY <2>2, <3>1, MaxOfBounded
  <2>4. CASE pasvs = {}
    BY <2>1, <2>4
  <2>5. CASE pasvs # {}
    <3>1. Max(pasvs) \in 1 .. n /\ srv.replies[Max(pasvs)].code = 227
          /\ \A j \in 1 .. n : srv.replies[j].code = 227 => j <= Max(pasvs)
      BY <2>3, <2>5
    <3> HIDE DEF pasvs
    <3> QED
      BY <2>1, <2>5, <3>1
  <2> QED
    BY <2>4, <2>5
<1>2. \A n \in DOMAIN srv.replies :
        ServerAfter(n).replies = SubSeq(srv.replies, n + 1, Len(srv.replies))
  BY <1>0 DEF Servers, ServerAfter
<1>3. NoServer.replies = <<>>
  BY DEF NoServer
<1>4. \A p : ClientClosed(p).pasv = p
  BY <1>0 DEF Clients, ClientClosed
<1>5. \A c : Sent(c).pasv \in {client.pasv, NoPort}
  BY <1>0 DEF Clients, Sent
<1>6. CASE \E n \in DOMAIN srv.replies : /\ client'.pasv = ClientAfter(n).pasv
                                         /\ srv' = ServerAfter(n) \/ srv' = NoServer
  BY <1>1, <1>2, <1>3, <1>6
<1>7. CASE ReplyExpected \/ ReplyOther \/ PollReply
  <2>1. PICK n \in DOMAIN srv.replies :
          /\ client' \in {ClientAfter(n), [ClientAfter(n) EXCEPT !.connected = TRUE, !.timer = TRUE],
                          [ClientAfter(n) EXCEPT !.sock = "stale"]}
          /\ srv' = ServerAfter(n) \/ srv' = NoServer
    BY <1>7 DEF ReplyExpected, ReplyOther, PollReply
  <2>2. client'.pasv = ClientAfter(n).pasv
    <3>1. ClientAfter(n) \in Clients
      BY <1>0, ReceivedTypes
    <3> QED
      BY <2>1, <3>1 DEF Clients
  <2> QED
    BY <1>6, <2>1, <2>2
<1>8. CASE KeepaliveAnswered
  BY <1>4, <1>6, <1>8 DEF KeepaliveAnswered, HangUp
<1>9. CASE QuitAnswered
  <2>1. CASE \E n \in DOMAIN srv.replies :
               client' = [ClientClosed(NoPort) EXCEPT !.pasv = ClientAfter(n).pasv,
                                                      !.inactivity = FALSE]
    <3>1. PICK n \in DOMAIN srv.replies :
               client' = [ClientClosed(NoPort) EXCEPT !.pasv = ClientAfter(n).pasv,
                                                      !.inactivity = FALSE]
      BY <2>1
    <3>2. client'.pasv = ClientAfter(n).pasv
      BY <1>0, <3>1 DEF ClientClosed, Clients
    <3> QED
      BY <1>6, <1>9, <3>2 DEF QuitAnswered
  <2>2. CASE client' = ClientClosed(client.pasv) \/ client' = ClientClosed(NoPort)
    BY <1>4, <2>2
  <2> QED
    BY <1>9, <2>1, <2>2 DEF QuitAnswered
<1>10. CASE SendCommand \/ SendCommandFails
  <2>1. \/ client' = Sent(cmd) \/ client' = ClientClosed(client.pasv)
        \/ \E s : client' = [Sent(cmd) EXCEPT !.sock = s]
    BY <1>10 DEF SendCommand, Send, SendCommandFails, close_connection
  <2>2. \A s : [Sent(cmd) EXCEPT !.sock = s].pasv = Sent(cmd).pasv
    BY <1>0 DEF Sent, Clients
  <2>3. client' = ClientClosed(client.pasv) => client'.pasv = client.pasv
    BY <1>4
  <2>4. client' # ClientClosed(client.pasv) => client'.pasv = Sent(cmd).pasv
    BY <2>1, <2>2
  <2> QED
    BY <1>5, <2>3, <2>4
<1>11. CASE ReplyHungUp \/ PollHungUp \/ CloseUnconnected
  BY <1>4, <1>11 DEF ReplyHungUp, PollHungUp, HangUp, CloseUnconnected, Closed, close_connection
<1>12. CASE KeepaliveSends
  BY <1>4, <1>5, <1>12 DEF KeepaliveSends, Send
<1>13. CASE \/ Connect \/ ConnectFails \/ ReplyLate \/ PollTimeout \/ keepalive_timeout
            \/ KeepaliveFirst \/ SendSecondHalf \/ SendDataFails
  BY <1>0, <1>13 DEF Connect, ConnectFails, ReplyLate, PollTimeout, keepalive_timeout,
                     KeepaliveFirst, SendSecondHalf, SendDataFails, DataEnds, Clients
<1>14. CASE UNCHANGED client
  BY <1>14
<1> QED
  BY <1>7, <1>8, <1>9, <1>10, <1>11, <1>12, <1>13, <1>14, StepCases, Zenon
  DEF Begin, OpenRefused, NextPart, ReadFails, SubmitData, SendQuit, establish_data_channel,
      NoDataChannel, SendFirstHalf, Answer, AnswerPasv, AnswerStore, AnswerQuit, Refuse,
      OpenTransfer, EndTransfer, OtherReply, LinkFails, vars

LEMMA PortStep ==
  ASSUME Ind, IPorts, [Next]_vars
  PROVE  IPorts'
<1>0. /\ srv \in Servers /\ client \in Clients /\ TypeOK /\ IBase
      /\ upload \in 0 .. Len(Parts) /\ Len(Parts) \in Nat /\ Uploads = 1 .. Len(Parts)
      /\ srv.replies \in Seq(Replies) /\ client.pasv \in Ports /\ Numbers \subseteq Nat
      /\ NoPort \in Ports
  BY Basics, UploadNumbers DEF Ind, IBase, Servers, Clients
<1>1. \A p \in Ports : p[1] \in Nat /\ p[2] \in Nat
  <2>1. NoPort[1] \in Nat /\ NoPort[2] \in Nat
    BY DEF NoPort
  <2>2. \A p \in Uploads \X Numbers : p[1] \in Nat /\ p[2] \in Nat
    <3>1. \A u \in Uploads : u \in Nat
      BY <1>0
    <3>2. \A n \in Numbers : n \in Nat
      BY <1>0
    <3> QED
      BY <3>1, <3>2
  <2> QED
    BY <2>1, <2>2 DEF Ports
<1>2. CASE Begin
  <2>1. srv' = NoServer /\ upload' = upload + 1 /\ client' = client
    BY <1>2, <1>0 DEF Begin, IBase, IServer
  <2>2. srv'.replies = <<>>
    BY <2>1 DEF NoServer
  <2>3. client.pasv[1] <= upload' /\ client.pasv[1] # upload'
    BY <1>0, <1>1, <2>1 DEF IPorts
  <2> QED
    BY <2>1, <2>2, <2>3 DEF IPorts
<1>3. CASE ~Begin
  <2>1. upload' = upload
    BY <1>3, PartSteps DEF NextPart
  <2>2. upload > 0 => /\ T'.pasv = T.pasv \/ (AnswerPasv /\ T'.pasv = T.pasv + 1)
                      /\ T.pasv \in Nat /\ T'.pasv \in Nat /\ T'.pasv >= T.pasv
    <3>1. upload > 0 => T.pasv \in Nat
      BY <1>0, PasvIsNumber
    <3> QED
      BY <1>0, <1>3, <3>1, PasvSteps
  <2>3. ASSUME NEW i \in DOMAIN srv.replies, srv.replies[i].code = 227
        PROVE  upload > 0 /\ T'.data = "none" /\ T.data = "none" /\ srv.replies[i].port \in Ports
    <3>1. srv # NoServer
      BY DEF NoServer
    <3>2. upload > 0
      BY <1>0, <3>1, LinkIsOfUpload
    <3>3. T.data = "none"
      BY <2>3 DEF IPorts
    <3>4. client.pasv # <<upload, T.pasv>>
      <4>1. srv.replies[i] \in Replies
        BY <1>0, LenProperties, ElementOfSeq
      <4>2. srv.replies[i].port[2] \in Nat
        BY <1>1, <4>1 DEF Replies
      <4>3. client.pasv[1] = upload => client.pasv[2] < srv.replies[i].port[2]
            /\ srv.replies[i].port[2] <= T.pasv
        BY <2>3 DEF IPorts
      <4> QED
        BY <1>0, <1>1, <2>2, <3>2, <4>2, <4>3
    <3>5. srv.replies[i].port \in Ports
      <4>1. srv.replies[i] \in Replies
        BY <1>0, LenProperties, ElementOfSeq
      <4> QED
        BY <4>1 DEF Replies
    <3> QED
      BY <1>0, <1>3, <3>2, <3>3, <3>4, <3>5, PasvSteps
  <2>4. client'.pasv[1] <= upload
        /\ (upload > 0 /\ client'.pasv[1] = upload => client'.pasv[2] <= T'.pasv)
    <3>1. CASE client'.pasv = client.pasv
      BY <1>0, <1>1, <2>2, <3>1 DEF IPorts
    <3>2. CASE client'.pasv = NoPort
      BY <1>0, <2>2, <3>2 DEF NoPort
    <3>3. ASSUME NEW i \in DOMAIN srv.replies, srv.replies[i].code = 227,
                 client'.pasv = srv.replies[i].port
          PROVE  client'.pasv[1] <= upload
                 /\ (upload > 0 /\ client'.pasv[1] = upload => client'.pasv[2] <= T'.pasv)
      <4>1. srv.replies[i].port[1] = upload /\ srv.replies[i].port[2] <= T.pasv
        BY <3>3 DEF IPorts
      <4>2. srv.replies[i].port[2] \in Nat /\ upload > 0
        BY <1>1, <2>3, <3>3
      <4> QED
        BY <1>0, <2>2, <3>3, <4>1, <4>2
    <3>4. \A n \in DOMAIN srv.replies : \A i \in 1 .. n : i \in DOMAIN srv.replies
      BY <1>0, LenProperties
    <3> QED
      BY <3>1, <3>2, <3>3, <3>4, PortSteps
  <2>5. ASSUME srv'.replies = srv.replies \/ \E r \in Replies :
                 /\ srv'.replies = Append(srv.replies, r)
                 /\ r.code = 227 => AnswerPasv /\ r.port = <<upload, T.pasv + 1>>,
               client'.pasv = client.pasv \/ client'.pasv = NoPort
        PROVE  IPorts'
    <3> DEFINE r == srv'.replies
               old(i) == i \in DOMAIN srv.replies /\ r[i] = srv.replies[i]
               new(i) == /\ AnswerPasv /\ r[i].port = <<upload, T.pasv + 1>>
                         /\ DOMAIN srv.replies = 1 .. Len(srv.replies) /\ i = Len(srv.replies) + 1
    <3>1. /\ \A i \in DOMAIN r : r[i].code = 227 => old(i) \/ new(i)
          /\ DOMAIN srv.replies = 1 .. Len(srv.replies) /\ Len(srv.replies) \in Nat
          /\ DOMAIN r \subseteq Nat
      <4>1. DOMAIN srv.replies = 1 .. Len(srv.replies) /\ Len(srv.replies) \in Nat
        BY <1>0, LenProperties
      <4>2. CASE srv'.replies = srv.replies
        BY <4>1, <4>2
      <4>3. ASSUME NEW x \in Replies, srv'.replies = Append(srv.replies, x),
                   x.code = 227 => AnswerPasv /\ x.port = <<upload, T.pasv + 1>>
            PROVE  (\A i \in DOMAIN r : r[i].code = 227 => old(i) \/ new(i)) /\ DOMAIN r \subseteq Nat
        <5>1. /\ DOMAIN r = 1 .. Len(srv.replies) + 1
              /\ \A i \in 1 .. Len(srv.replies) : r[i] = srv.replies[i]
              /\ r[Len(srv.replies) + 1] = x
          BY <1>0, <4>3, AppendProperties, LenProperties
        <5>2. \A i \in 1 .. Len(srv.replies) + 1 : i \in 1 .. Len(srv.replies) \/ i = Len(srv.replies) + 1
          BY <4>1
        <5> QED
          BY <4>1, <4>3, <5>1, <5>2
      <4> QED
        BY <2>5, <4>1, <4>2, <4>3
    <3>2. AnswerPasv => T'.pasv = T.pasv + 1 /\ T'.data = "none" /\ upload > 0
      <4> SUFFICES ASSUME AnswerPasv PROVE T'.pasv = T.pasv + 1 /\ T'.data = "none" /\ upload > 0
        OBVIOUS
      <4>1. upload \in Uploads /\ upload > 0 /\ transfer \in [Uploads -> Transfers]
        BY <1>0, NextPort, Basics
      <4> QED
        BY <2>1, <4>1 DEF AnswerPasv, NoTransfer, T
    <3>3. upload > 0 /\ client'.pasv[1] = upload => client'.pasv = client.pasv /\ client.pasv[2] <= T.pasv
      BY <2>5 DEF IPorts, NoPort
    <3> SUFFICES ASSUME NEW i \in DOMAIN r, r[i].code = 227
                 PROVE  /\ r[i].port[1] = upload /\ r[i].port[2] <= T'.pasv
                        /\ client'.pasv[1] = upload => client'.pasv[2] < r[i].port[2]
                        /\ T'.data = "none"
                        /\ \A j \in DOMAIN r : r[j].code = 227 /\ j < i =>
                             r[j].port[2] < r[i].port[2]
      BY <2>1, <2>4 DEF IPorts
    <3>4. CASE old(i)
      <4>1. upload > 0 /\ T'.data = "none" /\ r[i].port[1] = upload /\ r[i].port[2] <= T.pasv
            /\ r[i].port[2] \in Nat
            /\ (client.pasv[1] = upload => client.pasv[2] < r[i].port[2])
        BY <1>1, <2>3, <3>4 DEF IPorts
      <4>2. r[i].port[2] <= T'.pasv
        BY <2>2, <4>1
      <4>3. \A j \in DOMAIN r : r[j].code = 227 /\ j < i => old(j)
        BY <3>1, <3>4
      <4>4. \A j \in DOMAIN r : r[j].code = 227 /\ j < i => r[j].port[2] < r[i].port[2]
        BY <3>4, <4>3 DEF IPorts
      <4> QED
        BY <3>3, <4>1, <4>2, <4>4
    <3>5. CASE new(i)
      <4>1. AnswerPasv /\ r[i].port[1] = upload /\ r[i].port[2] = T.pasv + 1
        BY <3>5
      <4>2. upload > 0 /\ T'.pasv = T.pasv + 1 /\ T'.data = "none" /\ T.pasv \in Nat
        BY <2>2, <3>2, <4>1
      <4>3. client'.pasv[1] = upload => client'.pasv[2] < T.pasv + 1
        BY <1>0, <1>1, <3>3, <4>2
      <4>4. ASSUME NEW j \in DOMAIN r, r[j].code = 227, j < i
            PROVE  r[j].port[2] < T.pasv + 1
        <5>1. old(j)
          BY <3>1, <3>5, <4>4
        <5>2. r[j].port[2] <= T.pasv /\ r[j].port[2] \in Nat
          BY <1>1, <2>3, <4>4, <5>1 DEF IPorts
        <5> QED
          BY <4>2, <5>2
      <4> QED
        BY <4>1, <4>2, <4>3, <4>4
    <3> QED
      BY <3>1, <3>4, <3>5
  <2>6. ASSUME NEW n \in DOMAIN srv.replies,
               srv'.replies = SubSeq(srv.replies, n + 1, Len(srv.replies)),
               \/ client'.pasv = client.pasv \/ client'.pasv = NoPort
               \/ \E i \in 1 .. n : /\ srv.replies[i].code = 227
                                    /\ client'.pasv = srv.replies[i].port
        PROVE  IPorts'
    <3> DEFINE r == srv'.replies
    <3>1. /\ Len(srv.replies) \in Nat /\ DOMAIN srv.replies = 1 .. Len(srv.replies)
          /\ n \in 1 .. Len(srv.replies)
      BY <1>0, LenProperties
    <3>2. /\ DOMAIN r = 1 .. Len(srv.replies) - n
          /\ \A i \in 1 .. Len(srv.replies) - n : r[i] = srv.replies[n + i]
      BY <1>0, <2>6, RestOfReplies, SMTT(40)
    <3>3. \A i \in DOMAIN r : i \in Nat /\ n + i \in DOMAIN srv.replies /\ n + i > n /\ r[i] = srv.replies[n + i]
      BY <3>1, <3>2
    <3> SUFFICES ASSUME NEW i \in DOMAIN r, r[i].code = 227
                 PROVE  /\ r[i].port[1] = upload /\ r[i].port[2] <= T'.pasv
                        /\ client'.pasv[1] = upload => client'.pasv[2] < r[i].port[2]
                        /\ T'.data = "none"
                        /\ \A j \in DOMAIN r : r[j].code = 227 /\ j < i =>
                             r[j].port[2] < r[i].port[2]
      BY <2>1, <2>4 DEF IPorts
    <3>4. n + i \in DOMAIN srv.replies /\ srv.replies[n + i].code = 227 /\ r[i] = srv.replies[n + i]
      BY <3>3
    <3>5. /\ upload > 0 /\ T'.data = "none" /\ r[i].port[1] = upload /\ r[i].port[2] <= T.pasv
          /\ r[i].port[2] \in Nat
          /\ client.pasv[1] = upload => client.pasv[2] < r[i].port[2]
      BY <1>1, <2>3, <3>4 DEF IPorts
    <3>6. r[i].port[2] <= T'.pasv
      BY <2>2, <3>5
    <3>7. client'.pasv[1] = upload => client'.pasv[2] < r[i].port[2]
      <4>1. CASE client'.pasv = client.pasv
        BY <3>5, <4>1
      <4>2. CASE client'.pasv = NoPort
        BY <3>5, <4>2 DEF NoPort
      <4>3. ASSUME NEW k \in 1 .. n, srv.replies[k].code = 227, client'.pasv = srv.replies[k].port
            PROVE  client'.pasv[2] < r[i].port[2]
        <5>1. k \in DOMAIN srv.replies /\ k < n + i
          BY <3>1, <3>3
        <5> QED
          BY <3>4, <4>3, <5>1 DEF IPorts
      <4> QED
        BY <2>6, <4>1, <4>2, <4>3
    <3>8. ASSUME NEW j \in DOMAIN r, r[j].code = 227, j < i
          PROVE  r[j].port[2] < r[i].port[2]
      <4>1. n + j \in DOMAIN srv.replies /\ srv.replies[n + j] = r[j] /\ n + j < n + i
        BY <3>1, <3>3, <3>8
      <4> QED
        BY <3>4, <3>8, <4>1 DEF IPorts
    <3> QED
      BY <3>5, <3>6, <3>7, <3>8
  <2>7. CASE srv'.replies = <<>>
    BY <2>1, <2>4, <2>7 DEF IPorts
  <2>8. \/ \E n \in DOMAIN srv.replies :
             srv'.replies = SubSeq(srv.replies, n + 1, Len(srv.replies))
        \/ srv'.replies = <<>> 
        \/ srv'.replies = srv.replies
        \/ \E r \in Replies : /\ srv'.replies = Append(srv.replies, r)
                              /\ r.code = 227 => AnswerPasv /\ r.port = <<upload, T.pasv + 1>>
    <3>1. Reply(150).code = 150 /\ Reply(226).code = 226
      BY DEF Reply
    <3> QED
      BY <3>1, ReplySteps
  <2> QED
    BY <2>5, <2>6, <2>7, <2>8, PortSteps
<1> QED
  BY <1>2, <1>3

-----------------------------------------------------------------------------
(* The files at the server *)

\* What NoForeignData says of one upload's halves of buffers.
Halves(u, s) ==
  \A i \in DOMAIN s :
    /\ s[i][1] = u /\ s[i][2] > 0
    /\ \A j \in 1 .. i - 1 : s[j][2] <= s[i][2]
    /\ Cardinality({j \in DOMAIN s : s[j] = s[i]}) <= 2
Below(s, k) == \A i \in DOMAIN s : s[i][2] < k
Of(s, half) == \A i \in DOMAIN s : s[i] = half

\* Two more halves of a later part do no harm.
LEMMA HalvesAppended ==
  ASSUME NEW u \in Nat, NEW p \in Nat, NEW f \in Seq(Contents), NEW b \in Seq(Contents),
         Halves(u, f), Below(f, p), Of(b, <<u, p>>), Len(b) <= 2, p > 0
  PROVE  Halves(u, f \o b) /\ Below(f \o b, p + 1)
<1> DEFINE s == f \o b
<1>1. /\ Len(f) \in Nat /\ DOMAIN f = 1 .. Len(f) /\ Len(b) \in Nat /\ DOMAIN b = 1 .. Len(b)
      /\ \A i \in 1 .. Len(f) : f[i] \in Contents
      /\ Numbers \subseteq Nat
  BY LenProperties, UploadNumbers
<1>2. /\ s \in Seq(Contents) /\ Len(s) = Len(f) + Len(b)
      /\ \A i \in 1 .. Len(s) : s[i] = IF i <= Len(f) THEN f[i] ELSE b[i - Len(f)]
  BY ConcatProperties
<1>3. DOMAIN s = 1 .. Len(f) + Len(b)
  BY <1>2, LenProperties
<1>4. \A i \in 1 .. Len(f) : /\ i \in DOMAIN s /\ s[i] = f[i] /\ s[i][2] < p
                             /\ s[i] # <<u, p>> /\ s[i][2] \in Nat
  <2> SUFFICES ASSUME NEW i \in 1 .. Len(f)
               PROVE  /\ i \in DOMAIN s /\ s[i] = f[i] /\ s[i][2] < p
                      /\ s[i] # <<u, p>> /\ s[i][2] \in Nat
    OBVIOUS
  <2>1. i \in DOMAIN s /\ s[i] = f[i]
    BY <1>1, <1>2, <1>3
  <2>2. f[i][2] < p /\ f[i] \in Contents
    BY <1>1 DEF Below
  <2>3. f[i][2] \in Nat
    BY <1>1, <2>2 DEF Contents
  <2> QED
    BY <2>1, <2>2, <2>3
<1>5. \A i \in DOMAIN s : i > Len(f) => s[i] = <<u, p>>
  <2> SUFFICES ASSUME NEW i \in DOMAIN s, i > Len(f) PROVE s[i] = <<u, p>>
    OBVIOUS
  <2>1. i \in 1 .. Len(s) /\ i - Len(f) \in 1 .. Len(b)
    BY <1>1, <1>2, <1>3
  <2>2. s[i] = b[i - Len(f)]
    BY <1>1, <1>2, <2>1
  <2> QED
    BY <1>1, <2>1, <2>2 DEF Of
<1>6. \A i \in DOMAIN s : i \in Nat /\ (i \in 1 .. Len(f) \/ i > Len(f))
  BY <1>1, <1>3
<1> HIDE DEF s
<1>7. Below(s, p + 1)
  <2> SUFFICES ASSUME NEW i \in DOMAIN s PROVE s[i][2] < p + 1
    BY DEF Below
  <2>1. CASE i \in 1 .. Len(f)
    BY <1>4, <2>1
  <2>2. CASE i > Len(f)
    BY <1>5, <2>2
  <2> QED
    BY <1>6, <2>1, <2>2
<1>8. ASSUME NEW i \in DOMAIN s
      PROVE  /\ s[i][1] = u /\ s[i][2] > 0
             /\ \A j \in 1 .. i - 1 : s[j][2] <= s[i][2]
             /\ Cardinality({j \in DOMAIN s : s[j] = s[i]}) <= 2
  <2>1. CASE i \in 1 .. Len(f)
    <3>1. {j \in DOMAIN s : s[j] = s[i]} = {j \in DOMAIN f : f[j] = f[i]}
      <4>1. \A j \in DOMAIN s : j > Len(f) => s[j] # s[i]
        BY <1>4, <1>5, <2>1
      <4>2. \A j \in DOMAIN s : s[j] = s[i] => j \in DOMAIN f /\ f[j] = f[i]
        BY <1>1, <1>4, <1>6, <2>1, <4>1
      <4>3. \A j \in DOMAIN f : f[j] = f[i] => j \in DOMAIN s /\ s[j] = s[i]
        BY <1>1, <1>4, <2>1
      <4> QED
        BY <4>2, <4>3
    <3>2. /\ f[i][1] = u /\ f[i][2] > 0 /\ \A j \in 1 .. i - 1 : f[j][2] <= f[i][2]
          /\ Cardinality({j \in DOMAIN f : f[j] = f[i]}) <= 2
      BY <1>1, <2>1 DEF Halves
    <3>3. \A j \in 1 .. i - 1 : j \in 1 .. Len(f)
      BY <1>1, <2>1
    <3> QED
      BY <1>4, <2>1, <3>1, <3>2, <3>3
  <2>2. CASE i > Len(f)
    <3>1. s[i] = <<u, p>>
      BY <1>5, <2>2
    <3>2. s[i][1] = u /\ s[i][2] = p
      BY <3>1
    <3>3. ASSUME NEW j \in 1 .. i - 1 PROVE s[j][2] <= p
      <4>1. j \in DOMAIN s
        BY <1>1, <1>3, <1>6
      <4>2. CASE j \in 1 .. Len(f)
        BY <1>4, <4>2
      <4>3. CASE j > Len(f)
        <5>1. s[j][2] = p
          BY <1>5, <4>1, <4>3
        <5> QED
          BY <5>1
      <4> QED
        BY <1>6, <4>1, <4>2, <4>3
    <3>4. {j \in DOMAIN s : s[j] = s[i]} = Len(f) + 1 .. Len(f) + Len(b)
      <4>1. \A j \in DOMAIN s : s[j] = s[i] => j \in Len(f) + 1 .. Len(f) + Len(b)
        BY <1>1, <1>3, <1>4, <1>6, <3>1
      <4>2. \A j \in Len(f) + 1 .. Len(f) + Len(b) : j \in DOMAIN s /\ s[j] = s[i]
        BY <1>1, <1>3, <1>5, <3>1
      <4> QED
        BY <4>1, <4>2
    <3>5. Cardinality(Len(f) + 1 .. Len(f) + Len(b)) = Len(b)
      <4>1. \A k, l \in Int : Cardinality(k .. l) = IF k > l THEN 0 ELSE l - k + 1
        BY FS_Interval
      <4>2. PICK k \in Int, l \in Int : k = Len(f) + 1 /\ l = Len(f) + Len(b)
        BY <1>1
      <4>3. Cardinality(k .. l) = IF k > l THEN 0 ELSE l - k + 1
        BY <4>1
      <4> QED
        BY <1>1, <4>2, <4>3
    <3> QED
      BY <3>2, <3>3, <3>4, <3>5
  <2> QED
    BY <1>6, <2>1, <2>2
<1>9. Halves(u, s)
  BY <1>8 DEF Halves
<1> QED
  BY <1>7, <1>9 DEF s

\* A command about a transfer is on its way, or its reply, or the next is to be sent.
Pending == \/ \E c \in TransferCommands : Has(srv.cmds, c)
           \/ pc \in {"send", "recv"} /\ cmd \in TransferCommands

\* The server has no use for data, and will not have before the next PASV.
Between == /\ ~Storing /\ ~(pc = "send" /\ cmd \in Stores)
           /\ \A c \in Stores : ~Has(srv.cmds, c)
           /\ T.state = "none"

\* The file has the parts before this one, and this one when its transfer is done; what
\* comes is this part, or will not be stored.
IFile ==
  upload > 0 =>
    /\ Halves(upload, file[upload]) /\ Below(file[upload], part + 1)
    /\ T.state # "done" \/ Pending => Below(file[upload], part)
    /\ Of(T.bytes, <<upload, part>>) \/ Between

LEMMA PendingsStep ==
  ASSUME TypeOK, IWorker, [Next]_vars, Pending'
  PROVE  Pending \/ NextPart
<1>0. cmd \in Commands
  BY DEF TypeOK
<1>1. CASE \E c \in TransferCommands : Has(srv'.cmds, c)
  <2>1. PICK c \in TransferCommands : Has(srv.cmds, c) \/ (SendCommand /\ cmd = c)
    BY <1>1, PendingSteps
  <2> QED
    BY <2>1 DEF Pending, SendCommand
<1>2. CASE pc' \in {"send", "recv"} /\ cmd' \in TransferCommands
  <2> USE DEF TransferCommands, Goto, Pending
  <2>1. CASE Begin \/ OpenRefused \/ Connect \/ ConnectFails \/ SendCommandFails
    BY <1>2, <2>1 DEF Begin, OpenRefused, Connect, ConnectFails, SendCommandFails
  <2>2. CASE SendCommand
    BY <1>2, <2>2 DEF SendCommand
  <2>3. CASE ReplyExpected
    <3>1. pc = "recv" /\ cmd \in {"GREETING", "OPTS", "USER", "PASS", "MKD", "TYPE", "PASV"}
      BY <1>0, <2>3 DEF ReplyExpected, Commands, IWorker
    <3>2. CASE cmd = "PASV"
      BY <3>1, <3>2
    <3>3. CASE cmd = "TYPE"
      BY <1>2, <2>3, <3>3 DEF ReplyExpected
    <3>4. CASE cmd \in DOMAIN Following
      BY <1>2, <2>3, <3>4 DEF ReplyExpected, Following
    <3> QED
      BY <3>1, <3>2, <3>3, <3>4 DEF Following
  <2>4. CASE ReplyOther \/ ReplyLate \/ ReplyHungUp
    BY <1>2, <2>4 DEF ReplyOther, ReplyLate, ReplyHungUp, GiveUp, Following
  <2>5. CASE \/ ReadFails \/ SubmitData \/ PollReply \/ PollTimeout \/ PollHungUp
             \/ SendQuit \/ CloseUnconnected \/ QuitAnswered
    BY <1>2, <2>5 DEF ReadFails, SubmitData, PollReply, PollTimeout, PollHungUp, SendQuit,
                      CloseUnconnected, QuitAnswered
  <2>6. CASE UNCHANGED workerVars
    BY <1>2, <2>6 DEF workerVars
  <2> QED
    BY <2>1, <2>2, <2>3, <2>4, <2>5, <2>6, StepCases, Zenon
    DEF keepalive_timeout, KeepaliveFirst, KeepaliveSends, KeepaliveAnswered,
        establish_data_channel, NoDataChannel, SendFirstHalf, SendSecondHalf, SendDataFails,
        Answer, AnswerPasv, AnswerStore, AnswerQuit, Refuse, OpenTransfer, EndTransfer,
        OtherReply, LinkFails,
        vars
<1> QED
  BY <1>1, <1>2 DEF Pending

\* How files and transfers change.
LEMMA FileSteps ==
  ASSUME Ind, [Next]_vars, upload \in Uploads, ~Begin
  PROVE  /\ upload' = upload
         /\ \A u \in Uploads : u # upload =>
              /\ file'[u] = file[u]
              /\ transfer'[u] = transfer[u] \/ SendFirstHalf \/ SendSecondHalf \/ SendDataFails
         /\ \/ file'[upload] = file[upload]
            \/ AnswerStore /\ file'[upload] = <<>>
            \/ EndTransfer /\ T.state = "open" /\ file'[upload] = file[upload] \o T.bytes
         /\ \/ T'.bytes = T.bytes \/ T'.bytes = <<>>
            \/ T'.bytes = T.bytes \o <<buffer>> /\ part' = part /\ buffer \in Contents
<1>0. transfer \in [Uploads -> Transfers] /\ file \in [Uploads -> Seq(Contents)] /\ TypeOK
      /\ T \in Transfers /\ IBase
  BY Basics DEF Ind, IBase, T
<1>1. upload' = upload
  BY PartSteps DEF NextPart
<1>2. CASE AnswerPasv
  BY <1>0, <1>1, <1>2 DEF AnswerPasv, NoTransfer, T
<1>3. CASE establish_data_channel
  <2>1. file' = file
    BY <1>3 DEF establish_data_channel
  <2> QED
    BY <1>0, <1>1, <1>3, <2>1, Established DEF T, Transfers
<1>4. CASE SendFirstHalf \/ SendSecondHalf \/ SendDataFails
  <2>1. PICK bytes \in {<<>>, <<buffer>>}, data \in {"open", "ended"} :
          /\ wq.pc \in {"sending", "half"} /\ bytes \in Seq(Contents)
          /\ DataArrives(data, bytes) /\ UNCHANGED <<file, part>>
    BY <1>0, <1>4, DataSteps
  <2>2. wq.port # NoPort /\ wq.port[1] \in Uploads /\ buffer \in Contents
    BY <1>0, <2>1, DataIsOfUpload
  <2>3. CASE ~Current
    <3>1. T' = T
      BY <1>0, <1>1, <1>4, <2>3, OtherData DEF T
    <3> QED
      BY <1>1, <1>4, <2>1, <3>1
  <2>4. CASE Current
    <3>1. wq.port[1] = upload /\ wq.port[2] = T.pasv
      BY <2>4 DEF Current
    <3>2. T' = [T EXCEPT !.data = data, !.bytes = T.bytes \o bytes]
      BY <1>0, <1>1, <2>1, <2>2, <3>1, Arrivals DEF T, IBase
    <3>3. T'.bytes = T.bytes \o bytes
      BY <1>0, <3>2 DEF Transfers
    <3>4. T.bytes \o <<>> = T.bytes
      BY <1>0, ConcatEmptySeq DEF Transfers
    <3> QED
      BY <1>1, <1>4, <2>1, <2>2, <3>3, <3>4
  <2> QED
    BY <2>3, <2>4
<1>5. CASE AnswerStore
  BY <1>0, <1>1, <1>5 DEF AnswerStore, T, Transfers
<1>6. CASE OpenTransfer
  BY <1>0, <1>1, <1>6 DEF OpenTransfer, T, Transfers
<1>7. CASE EndTransfer
  BY <1>0, <1>1, <1>7 DEF EndTransfer, T, Transfers
<1>8. CASE UNCHANGED <<upload, transfer, file>>
  BY <1>1, <1>8 DEF T
<1> QED
  BY <1>2, <1>3, <1>4, <1>5, <1>6, <1>7, <1>8, TransferSteps

\* Data that will not be stored stay so until the server has none of them: the next
\* transfer begins with a reply to PASV.
LEMMA BetweenStep ==
  ASSUME Ind, IPorts, [Next]_vars, ~Begin, upload > 0, Between
  PROVE  Between' \/ T'.bytes = <<>>
<1>0. /\ TypeOK /\ IBase /\ IWorker /\ srv \in Servers /\ cmd \in Commands
      /\ srv.replies \in Seq(Replies) /\ upload' = upload
  BY Basics, PartSteps DEF Ind, IBase, Servers, NextPart
<1>1. T'.state = "none"
  <2>1. ~AnswerStore
    <3>1. AnswerStore => srv.cmds # <<>> /\ Head(srv.cmds) \in Stores
      BY DEF AnswerStore, Serving, NextCommand, Stores
    <3> QED
      BY <1>0, <3>1, HasTaken DEF Between, Servers
  <2> QED
    BY <1>0, <2>1, StateSteps DEF Between
<1>2. \A c \in Stores : ~Has(srv'.cmds, c)
  <2>1. \A c \in Stores : Has(srv'.cmds, c) => Has(srv.cmds, c) \/ (SendCommand /\ cmd = c)
    BY <1>0, PendingSteps DEF Stores, TransferCommands
  <2> QED
    BY <2>1 DEF Between, SendCommand
<1>3. \/ ReplyExpected /\ cmd = "PASV"
      \/ ~Storing' /\ ~(pc' = "send" /\ cmd' \in Stores)
  <2> USE DEF Between, Storing, Stores, Goto
  <2>1. CASE OpenRefused \/ Connect \/ ConnectFails \/ SendCommandFails \/ SendQuit
             \/ CloseUnconnected \/ QuitAnswered \/ NextPart \/ ReadFails
    BY <2>1 DEF OpenRefused, Connect, ConnectFails, SendCommandFails, SendQuit,
                CloseUnconnected, QuitAnswered, NextPart, ReadFails
  <2>2. CASE SendCommand
    BY <2>2 DEF SendCommand
  <2>3. CASE ReplyExpected
    <3>1. pc = "recv" /\ cmd \in {"GREETING", "OPTS", "USER", "PASS", "MKD", "TYPE", "PASV"}
      BY <1>0, <2>3 DEF ReplyExpected, Commands, IWorker
    <3>2. CASE cmd = "TYPE"
      BY <2>3, <3>2 DEF ReplyExpected
    <3>3. CASE cmd \in DOMAIN Following
      <4>1. cmd \notin {"TYPE", "PASV"} /\ Following[cmd] \notin Stores
        BY <3>3 DEF Following
      <4> QED
        BY <2>3, <4>1 DEF ReplyExpected
    <3> QED
      BY <2>3, <3>1, <3>2, <3>3 DEF Following
  <2>4. CASE ReplyOther \/ ReplyLate \/ ReplyHungUp
    BY <2>4 DEF ReplyOther, ReplyLate, ReplyHungUp, GiveUp, Following
  <2>5. CASE SubmitData \/ PollReply \/ PollTimeout \/ PollHungUp
    BY <2>5 DEF SubmitData, PollReply, PollTimeout, PollHungUp
  <2>6. CASE UNCHANGED workerVars
    BY <2>6 DEF workerVars
  <2> QED
    BY <2>1, <2>2, <2>3, <2>4, <2>5, <2>6, StepCases, Zenon
    DEF keepalive_timeout, KeepaliveFirst, KeepaliveSends, KeepaliveAnswered,
        establish_data_channel, NoDataChannel, SendFirstHalf, SendSecondHalf, SendDataFails,
        Answer, AnswerPasv, AnswerStore, AnswerQuit, Refuse, OpenTransfer, EndTransfer,
        OtherReply, LinkFails,
        vars
<1>4. ASSUME ReplyExpected, cmd = "PASV"
      PROVE  T'.bytes = <<>>
  <2>1. PICK n \in DOMAIN srv.replies : 227 \in CodesIn(n)
    BY <1>4 DEF ReplyExpected, Expected
  <2>2. PICK i \in 1 .. n : srv.replies[i].code = 227
    BY <2>1 DEF CodesIn, Read
  <2>3. i \in DOMAIN srv.replies
    BY <1>0, LenProperties
  <2>4. T.bytes = <<>>
    BY <1>0, <2>2, <2>3 DEF IPorts, IBase, ITransfer
  <2> QED
    BY <1>0, <1>4, <2>4 DEF ReplyExpected, Rest, T
<1> QED
  BY <1>1, <1>2, <1>3, <1>4 DEF Between

\* What is below a part is below the next ones.
LEMMA BelowMore ==
  ASSUME NEW s \in Seq(Contents), NEW k \in Nat, NEW l \in Nat, k <= l, Below(s, k)
  PROVE  Below(s, l)
<1> SUFFICES ASSUME NEW i \in DOMAIN s PROVE s[i][2] < l
  BY DEF Below
<1>1. s[i] \in Contents /\ Numbers \subseteq Nat
  BY LenProperties, UploadNumbers
<1>2. s[i][2] \in Nat
  BY <1>1 DEF Contents
<1> QED
  BY <1>2 DEF Below

\* The transfer commands on their way after a step were so before it, or the next part
\* has begun.
LEMMA PendingOrNext ==
  ASSUME TypeOK, IWorker, [Next]_vars, Pending', ~(NextPart /\ part' = part + 1)
  PROVE  Pending
<1>1. CASE NextPart
  <2>1. part \in Nat
    BY Basics
  <2>2. pc' = "close" /\ srv' = srv
    BY <1>1, <2>1 DEF NextPart
  <2> QED
    BY <2>2 DEF Pending
<1> QED
  BY <1>1, PendingsStep

\* One more half of the same part.
LEMMA OfAppended ==
  ASSUME NEW s \in Seq(Contents), NEW half \in Contents, Of(s, half)
  PROVE  Of(s \o <<half>>, half)
<1>1. /\ Len(s) \in Nat /\ DOMAIN s = 1 .. Len(s)
      /\ <<half>> \in Seq(Contents) /\ Len(<<half>>) = 1 /\ <<half>>[1] = half
  BY LenProperties
<1>2. /\ DOMAIN (s \o <<half>>) = 1 .. Len(s) + 1
      /\ \A i \in 1 .. Len(s) + 1 :
           (s \o <<half>>)[i] = IF i <= Len(s) THEN s[i] ELSE <<half>>[i - Len(s)]
  BY <1>1, ConcatProperties, LenProperties
<1>3. ASSUME NEW i \in DOMAIN (s \o <<half>>) PROVE (s \o <<half>>)[i] = half
  <2>1. CASE i \in 1 .. Len(s)
    BY <1>1, <1>2, <2>1 DEF Of
  <2>2. CASE i = Len(s) + 1
    <3>1. i - Len(s) = 1 /\ ~(i <= Len(s)) /\ i \in 1 .. Len(s) + 1
      BY <1>1, <2>2
    <3> QED
      BY <1>1, <1>2, <3>1
  <2> QED
    BY <1>1, <1>2, <2>1, <2>2
<1> QED
  BY <1>3 DEF Of

LEMMA FileStep ==
  ASSUME Ind, IOrder, IPorts, IFile, [Next]_vars
  PROVE  IFile'
<1>0. /\ TypeOK /\ IBase /\ IWorker /\ srv \in Servers /\ IFresh /\ ITransfer
      /\ file \in [Uploads -> Seq(Contents)] /\ transfer \in [Uploads -> Transfers]
      /\ upload \in 0 .. Len(Parts) /\ part \in Nat /\ Len(Parts) \in Nat /\ Uploads = 1 .. Len(Parts)
      /\ srv.cmds \in Seq(Commands)
  BY Basics DEF Ind, IBase, Servers
<1>1. CASE Begin
  <2>1. upload' = upload + 1 /\ upload' \in Uploads /\ pc' = "open" /\ upload \in Nat
    BY <1>0, <1>1 DEF Begin
  <2>2. file'[upload'] = file[upload']
    <3>1. file' = file \/ file' = [file EXCEPT ![upload] = Arrived(upload)]
      BY <1>1 DEF Begin
    <3> QED
      BY <1>0, <2>1, <3>1
  <2>3. file[upload'] = <<>>
    BY <1>0, <2>1 DEF IFresh
  <2>4. T'.bytes = <<>>
    BY <1>0, <2>1, FreshStep DEF IFresh, NoTransfer
  <2> QED
    BY <2>2, <2>3, <2>4 DEF IFile, Halves, Below, Of
<1>2. CASE ~Begin /\ upload > 0
  <2>0. /\ upload \in Uploads /\ upload \in Nat /\ T \in Transfers /\ T.bytes \in Seq(Contents)
        /\ file[upload] \in Seq(Contents)
    BY <1>0, <1>2 DEF T, Transfers
  <2>1. upload' = upload /\ (part' = part \/ (NextPart /\ part' = part + 1))
    BY <1>2, PartSteps DEF NextPart
  <2>2. part' \in Nat /\ part <= part'
    BY <1>0, <2>1
  <2> DEFINE f == file[upload]
             g == file'[upload]
  <2>3. Halves(upload, f) /\ Below(f, part + 1) /\ (T.state # "done" \/ Pending => Below(f, part))
    BY <1>2 DEF IFile
  <2>4. \/ g = f \/ (AnswerStore /\ g = <<>>)
        \/ EndTransfer /\ T.state = "open" /\ g = f \o T.bytes
    BY <1>2, <2>0, FileSteps
  <2>5. ASSUME EndTransfer, T.state = "open", g = f \o T.bytes
        PROVE  part' = part /\ Halves(upload, g) /\ Below(g, part + 1) /\ ~Pending /\ T'.state = "done"
    <3>1. part' = part
      BY <2>5 DEF EndTransfer, workerVars
    <3>2. Of(T.bytes, <<upload, part>>)
      BY <1>2, <2>5 DEF IFile, Between
    <3>3. part > 0
      <4>1. T.pasv > 0 /\ T.pasv \in Nat
        BY <1>0, <1>2, <2>0, <2>5, Basics DEF ITransfer, Transfers
      <4>2. Pasvs(srv.cmds) \in Nat
        BY <1>0, PasvsNat
      <4>3. T.pasv + Pasvs(srv.cmds) + (IF ToSend("PASV") THEN 1 ELSE 0) <= part
        BY <1>2 DEF Ind, IPasvs
      <4> QED
        BY <1>0, <4>1, <4>2, <4>3
    <3>4. Len(T.bytes) <= 2 /\ Below(f, part)
      BY <1>0, <1>2, <2>3, <2>5 DEF ITransfer
    <3>5. Halves(upload, g) /\ Below(g, part + 1)
      BY <1>0, <2>0, <2>3, <2>5, <3>2, <3>3, <3>4, HalvesAppended
    <3>6. (Storing \/ Leaving) /\ NonePending
      BY <1>2, <2>5 DEF IOrder
    <3>7. ~Pending
      BY <3>6 DEF Pending, NonePending, Storing, Leaving, TransferCommands
    <3>8. T'.state = "done"
      BY <1>0, <2>0, <2>1, <2>5 DEF EndTransfer, T, Transfers
    <3> QED
      BY <3>1, <3>5, <3>7, <3>8
  <2> HIDE DEF f, g
  <2>6. f \in Seq(Contents)
    BY <2>0 DEF f
  <2>7. Halves(upload, g) /\ Below(g, part' + 1)
    <3>1. Below(f, part' + 1)
      BY <1>0, <2>2, <2>3, <2>6, BelowMore
    <3>2. Halves(upload, <<>>) /\ Below(<<>>, part' + 1)
      BY DEF Halves, Below
    <3> QED
      BY <2>3, <2>4, <2>5, <3>1, <3>2
  <2>8. ASSUME T'.state # "done" \/ Pending'
        PROVE  Below(g, part')
    <3>1. CASE g = <<>>
      BY <3>1 DEF Below
    <3>2. CASE NextPart /\ part' = part + 1
      <4>1. file' = file
        BY <3>2 DEF NextPart
      <4> QED
        BY <2>3, <3>2, <4>1 DEF f, g
    <3>3. CASE ~(NextPart /\ part' = part + 1) /\ g = f
      <4>1. Pending' => Pending
        BY <1>0, <3>3, PendingOrNext
      <4>2. AnswerPasv => Has(srv.cmds, "PASV")
        BY <1>0, HasTaken DEF AnswerPasv, Serving, NextCommand
      <4>3. AnswerStore => \E c \in Stores : Has(srv.cmds, c)
        BY <1>0, HasTaken DEF AnswerStore, Serving, NextCommand, Stores
      <4>4. AnswerPasv \/ AnswerStore => Pending
        BY <4>2, <4>3 DEF Pending, Stores, TransferCommands
      <4>5. T.state # "done" \/ Pending
        BY <1>0, <1>2, <2>8, <4>1, <4>4, StateSteps
      <4> QED
        BY <2>1, <2>3, <3>3, <4>5
    <3>4. CASE ~(NextPart /\ part' = part + 1) /\ EndTransfer
      BY <1>0, <2>4, <2>5, <2>8, <3>1, <3>3, <3>4, PendingOrNext
    <3> QED
      BY <2>4, <3>1, <3>2, <3>3, <3>4
  <2>9. Of(T'.bytes, <<upload, part'>>) \/ Between'
    <3>1. CASE T'.bytes = <<>>
      BY <3>1 DEF Of
    <3>2. CASE Between
      BY <1>2, <3>1, <3>2, BetweenStep
    <3>3. CASE Of(T.bytes, <<upload, part>>) /\ NextPart /\ part' = part + 1
      <4>1. pc = "put" /\ pc' = "send" /\ cmd' = "PASV" /\ srv' = srv /\ transfer' = transfer
        BY <1>0, <3>3 DEF NextPart, Goto
      <4>2. T' = T
        BY <2>1, <4>1 DEF T
      <4>3. T.state \notin {"wait", "open"} /\ \A c \in Stores : ~Has(srv.cmds, c)
        BY <1>2, <4>1 DEF IOrder, Storing, Leaving
      <4>4. CASE T.state = "done"
        BY <1>0, <1>2, <3>1, <4>2, <4>4 DEF ITransfer
      <4>5. CASE T.state = "none"
        BY <4>1, <4>2, <4>3, <4>5 DEF Between, Storing, Stores
      <4> QED
        BY <2>0, <4>3, <4>4, <4>5 DEF Transfers
    <3>4. CASE Of(T.bytes, <<upload, part>>) /\ part' = part
      <4>1. CASE T'.bytes = T.bytes
        BY <3>4, <4>1
      <4>2. CASE T'.bytes = T.bytes \o <<buffer>> /\ buffer \in Contents
        <5>1. buffer = <<upload, part>>
          BY <1>0 DEF IFresh
        <5> QED
          BY <2>0, <3>4, <4>2, <5>1, OfAppended
      <4> QED
        BY <1>2, <2>0, <3>1, <4>1, <4>2, FileSteps
    <3> QED
      BY <1>2, <2>1, <3>2, <3>3, <3>4 DEF IFile
  <2> QED
    BY <2>1, <2>7, <2>8, <2>9 DEF IFile, g
<1>3. CASE ~Begin /\ upload = 0
  BY <1>3, PartSteps DEF NextPart, IFile
<1> QED
  BY <1>0, <1>1, <1>2, <1>3

-----------------------------------------------------------------------------
(* The files of earlier uploads *)

\* A data task that outlives its upload finds its socket closed, and what the server has
\* of earlier uploads is in order, unless QUIT could not be sent.
IOld ==
  ~left =>
    /\ wq.sock = "open" => wq.port[1] = upload /\ pc # "idle"
    /\ \A u \in Uploads : u < upload => Halves(u, Arrived(u))

\* What the server will have of the upload at hand is in order.
LEMMA CurrentArrived ==
  ASSUME Ind, IFile, upload \in Uploads
  PROVE  Halves(upload, Arrived(upload)) /\ Arrived(upload) \in Seq(Contents)
<1>0. /\ transfer \in [Uploads -> Transfers] /\ file \in [Uploads -> Seq(Contents)] /\ TypeOK
      /\ upload > 0 /\ upload \in Nat /\ part \in Nat /\ ITransfer
      /\ srv.cmds \in Seq(Commands)
  BY Basics DEF Ind, IBase, Servers
<1>1. T \in Transfers /\ file[upload] \in Seq(Contents) /\ T.bytes \in Seq(Contents)
  BY <1>0 DEF T, Transfers
<1>2. Halves(upload, file[upload])
  BY <1>0 DEF IFile
<1>3. CASE T.state = "none"
  BY <1>1, <1>2, <1>3 DEF Arrived, T
<1>4. CASE T.state = "done"
  <2>1. file[upload] \o <<>> = file[upload]
    BY <1>1, ConcatEmptySeq
  <2> QED
    BY <1>0, <1>1, <1>2, <1>4, <2>1 DEF Arrived, T, ITransfer
<1>5. CASE T.state \in {"wait", "open"}
  <2>1. Of(T.bytes, <<upload, part>>) /\ Below(file[upload], part) /\ Len(T.bytes) <= 2
    BY <1>0, <1>5 DEF IFile, Between, ITransfer
  <2>2. part > 0
    <3>1. T.pasv > 0 /\ T.pasv \in Nat
      BY <1>0, <1>1, <1>5, Basics DEF ITransfer, Transfers
    <3>2. Pasvs(srv.cmds) \in Nat
      BY <1>0, PasvsNat
    <3>3. T.pasv + Pasvs(srv.cmds) + (IF ToSend("PASV") THEN 1 ELSE 0) <= part
      BY <1>0 DEF Ind, IPasvs
    <3> QED
      BY <1>0, <3>1, <3>2, <3>3
  <2>3. Halves(upload, file[upload] \o T.bytes)
    BY <1>0, <1>1, <1>2, <2>1, <2>2, HalvesAppended
  <2> QED
    BY <1>1, <1>5, <2>3, ConcatProperties DEF Arrived, T
<1> QED
  BY <1>1, <1>3, <1>4, <1>5 DEF Transfers

\* However an upload ends, its data socket is closed, unless QUIT could not be sent.
LEMMA IdleSteps ==
  ASSUME TypeOK, [Next]_vars, pc' = "idle", pc # "idle"
  PROVE  wq'.sock # "open" \/ left'
<1>0. wq \in Queues
  BY Records
<1>1. DataSockClosed.sock # "open"
  BY <1>0 DEF DataSockClosed, Queues
<1>2. CASE SendCommandFails
  <2>1. cmd = "QUIT"
    BY <1>2 DEF SendCommandFails, Goto
  <2>2. wq' = DataSockClosed \/ left' = (left \/ cmd = "QUIT")
    BY <1>2 DEF SendCommandFails, close_connection
  <2> QED
    BY <1>1, <2>1, <2>2
<1>3. CASE CloseUnconnected \/ QuitAnswered
  BY <1>1, <1>3 DEF CloseUnconnected, QuitAnswered, Closed, close_connection
<1>4. CASE \/ OpenRefused \/ Connect \/ ConnectFails \/ SendCommand \/ ReplyExpected \/ ReplyOther
           \/ NextPart \/ ReadFails \/ SubmitData \/ PollReply \/ PollTimeout \/ PollHungUp
           \/ SendQuit \/ Begin \/ ReplyLate \/ ReplyHungUp
  BY <1>4 DEF OpenRefused, Connect, ConnectFails, SendCommand, ReplyExpected, ReplyOther,
      NextPart, ReadFails, SubmitData, PollReply, PollTimeout, PollHungUp, SendQuit, Begin,
      ReplyLate, ReplyHungUp, GiveUp, Goto
<1>5. CASE UNCHANGED pc
  BY <1>5
<1> QED
  BY <1>2, <1>3, <1>4, <1>5, StepCases, Zenon
  DEF keepalive_timeout, KeepaliveFirst, KeepaliveSends, KeepaliveAnswered,
      establish_data_channel, NoDataChannel, SendFirstHalf, SendSecondHalf, SendDataFails,
      Answer, AnswerPasv, AnswerStore, AnswerQuit, Refuse, OpenTransfer, EndTransfer,
      OtherReply, LinkFails,
      workerVars, vars

\* Once QUIT could not be sent, that stays known.
LEMMA LeftSteps ==
  ASSUME [Next]_vars, left
  PROVE  left'
<1>1. CASE SendCommandFails
  <2>1. left' = left \/ left' = (left \/ cmd = "QUIT")
    BY <1>1 DEF SendCommandFails
  <2> QED
    BY <2>1
<1>2. CASE UNCHANGED left
  BY <1>2
<1> QED
  BY <1>1, <1>2, StepCases, Zenon
  DEF Begin, OpenRefused, Connect, ConnectFails, SendCommand, ReplyExpected, ReplyOther, ReplyLate,
      ReplyHungUp, NextPart, ReadFails, SubmitData, PollReply, PollTimeout, PollHungUp, SendQuit,
      CloseUnconnected, QuitAnswered, keepalive_timeout, KeepaliveFirst, KeepaliveSends,
      KeepaliveAnswered, establish_data_channel, NoDataChannel, SendFirstHalf, SendSecondHalf,
      SendDataFails, Answer, AnswerPasv, AnswerStore, AnswerQuit, Refuse, OpenTransfer, EndTransfer,
      OtherReply, LinkFails, SameFaults, Fault, Loss, historyVars, vars

\* The open data socket is that of the upload at hand.
LEMMA SockStep ==
  ASSUME Ind, IOld, [Next]_vars, ~left', wq'.sock = "open"
  PROVE  wq'.port[1] = upload' /\ pc' # "idle"
<1>0. TypeOK /\ IBase /\ wq \in Queues /\ ~left
  BY Basics, LeftSteps DEF Ind, IBase
<1>1. CASE establish_data_channel
  <2>1. /\ client.pasv = <<upload, T.pasv>> /\ srv # NoServer
        /\ wq' = [Started("sending") EXCEPT !.sock = "open", !.port = client.pasv]
        /\ UNCHANGED workerVars
    BY <1>0, <1>1, Established DEF establish_data_channel
  <2>2. wq'.port = <<upload, T.pasv>>
    BY <1>0, <2>1 DEF Queues, Started
  <2>3. pc # "idle"
    BY <1>0, <2>1, LinkIsOfUpload
  <2> QED
    BY <2>1, <2>2, <2>3 DEF workerVars
<1>2. ASSUME wq.sock = "open", wq'.port = wq.port, ~Begin
      PROVE  wq'.port[1] = upload' /\ pc' # "idle"
  <2>1. wq.port[1] = upload /\ pc # "idle"
    BY <1>0, <1>2 DEF IOld
  <2>2. upload' = upload
    BY <1>2, PartSteps DEF NextPart
  <2> QED
    BY <1>0, <1>2, <2>1, <2>2, IdleSteps
<1>3. CASE Begin
  BY <1>0, <1>3 DEF Begin, IOld
<1>4. CASE SendFirstHalf \/ SendSecondHalf \/ SendDataFails
  <2>1. \/ wq' = [wq EXCEPT !.pc = "half"]
        \/ wq' = [wq EXCEPT !.pc = "idle", !.sock = "none", !.port = NoPort]
    BY <1>0, <1>4, DataSteps
  <2>2. wq'.sock = wq.sock /\ wq'.port = wq.port
    BY <1>0, <2>1 DEF Queues
  <2> QED
    BY <1>2, <1>3, <2>2
<1> QED
  BY <1>0, <1>1, <1>2, <1>3, <1>4, QueueSteps

LEMMA OldStep ==
  ASSUME Ind, IFile, IOld, [Next]_vars
  PROVE  IOld'
<1> SUFFICES ASSUME ~left', NEW u \in Uploads, u < upload'
             PROVE  Halves(u, Arrived(u)')
  BY SockStep DEF IOld
<1>0. /\ TypeOK /\ IBase /\ wq \in Queues /\ ~left /\ file \in [Uploads -> Seq(Contents)]
      /\ transfer \in [Uploads -> Transfers] /\ upload \in 0 .. Len(Parts) /\ Len(Parts) \in Nat
      /\ Uploads = 1 .. Len(Parts)
  BY Basics, LeftSteps DEF Ind, IBase
<1>1. u < upload => Halves(u, Arrived(u))
  BY <1>0 DEF IOld
<1>2. CASE file'[u] = file[u] /\ transfer'[u] = transfer[u] /\ u < upload
  BY <1>1, <1>2 DEF Arrived
<1>3. CASE Begin
  <2>1. upload' = upload + 1 /\ (u < upload \/ u = upload)
    BY <1>0, <1>3 DEF Begin
  <2>2. CASE u < upload
    <3>1. \/ UNCHANGED <<transfer, file>>
          \/ /\ file' = [file EXCEPT ![upload] = Arrived(upload)]
             /\ transfer' = [transfer EXCEPT ![upload] = NoTransfer]
      BY <1>3 DEF Begin
    <3> QED
      BY <1>0, <1>2, <2>2, <3>1
  <2>3. CASE u = upload
    <3>1. Halves(upload, Arrived(upload)) /\ Arrived(upload) \in Seq(Contents)
      BY <2>3, CurrentArrived
    <3>2. CASE UNCHANGED <<transfer, file>>
      BY <2>3, <3>1, <3>2 DEF Arrived
    <3>3. CASE /\ file' = [file EXCEPT ![upload] = Arrived(upload)]
               /\ transfer' = [transfer EXCEPT ![upload] = NoTransfer]
      <4>1. file'[upload] = Arrived(upload) /\ transfer'[upload].state = "none"
        BY <1>0, <2>3, <3>3 DEF NoTransfer
      <4>2. Arrived(u)' = Arrived(upload)
        BY <2>3, <4>1 DEF Arrived
      <4> QED
        BY <2>3, <3>1, <4>2
    <3> QED
      BY <1>3, <3>2, <3>3 DEF Begin
  <2> QED
    BY <2>1, <2>2, <2>3
<1>4. CASE ~Begin
  <2>1. upload' = upload
    BY <1>4, PartSteps DEF NextPart
  <2>2. upload \in Uploads /\ u # upload /\ u < upload
    BY <1>0, <2>1
  <2>3. /\ file'[u] = file[u]
        /\ transfer'[u] = transfer[u] \/ SendFirstHalf \/ SendSecondHalf \/ SendDataFails
    BY <1>4, <2>2, FileSteps
  <2>4. CASE SendFirstHalf \/ SendSecondHalf \/ SendDataFails
    <3>1. PICK bytes \in {<<>>, <<buffer>>}, data \in {"open", "ended"} :
            /\ wq.pc \in {"sending", "half"} /\ bytes \in Seq(Contents)
            /\ bytes = <<buffer>> => wq.sock = "open"
            /\ DataArrives(data, bytes)
      BY <1>0, <2>4, DataSteps
    <3>2. wq.port # NoPort /\ wq.port[1] \in Uploads
      BY <1>0, <3>1, DataIsOfUpload
    <3>3. /\ \A v \in Uploads : v # wq.port[1] => transfer'[v] = transfer[v]
          /\ LET t == transfer[wq.port[1]]
             IN  transfer'[wq.port[1]] = IF t.pasv # wq.port[2] THEN t
                                         ELSE [t EXCEPT !.data = data, !.bytes = t.bytes \o bytes]
      BY <1>0, <3>1, <3>2, Arrivals DEF IBase
    <3>4. CASE u # wq.port[1]
      BY <1>2, <2>2, <2>3, <3>3, <3>4
    <3>5. CASE u = wq.port[1]
      <4>1. bytes = <<>>
        BY <1>0, <2>2, <3>1, <3>5 DEF IOld
      <4>2. transfer[u] \in Transfers /\ transfer[u].bytes \in Seq(Contents)
        BY <1>0 DEF Transfers
      <4>3. transfer[u].bytes \o <<>> = transfer[u].bytes
        BY <4>2, ConcatEmptySeq
      <4>4. transfer'[u].state = transfer[u].state /\ transfer'[u].bytes = transfer[u].bytes
        BY <3>3, <3>5, <4>1, <4>2, <4>3 DEF Transfers
      <4> QED
        BY <1>1, <2>2, <2>3, <4>4 DEF Arrived
    <3> QED
      BY <3>4, <3>5
  <2> QED
    BY <1>2, <2>2, <2>3, <2>4
<1> QED
  BY <1>3, <1>4

\* Whatever is late, refused or broken, and though a data task may outlive its upload:
\* the server's file of an upload only ever holds buffers of that upload, in their order
\* and none twice, unless QUIT could not be sent.
THEOREM DataStayWithTheirUpload == Spec => []NoForeignData
<1> DEFINE IData == Ind /\ IOrder /\ IPorts /\ IFile /\ IOld
<1>1. Init => IData
  <2> SUFFICES ASSUME Init PROVE IData
    OBVIOUS
  <2>1. srv.cmds = <<>> /\ srv.replies = <<>> /\ client.pasv = NoPort /\ upload = 0 /\ wq.sock = "none"
        /\ Uploads \subseteq Nat
    BY UploadNumbers DEF Init, NoServer
  <2>2. IOrder
    BY <2>1, HasNone DEF IOrder, NoneLater, Coded, Once
  <2>3. IPorts
    BY <2>1 DEF IPorts, NoPort
  <2>4. IFile /\ IOld
    BY <2>1 DEF IFile, IOld, Uploads
  <2> QED
    BY <2>2, <2>3, <2>4, IndInit
<1>2. IData /\ [Next]_vars => IData'
  BY IndStep, OrderStep, PortStep, FileStep, OldStep
<1>3. IData => NoForeignData
  <2> SUFFICES ASSUME IData, ~left, NEW u \in Uploads
               PROVE  Halves(u, Arrived(u))
    BY DEF NoForeignData, Halves
  <2>0. upload \in 0 .. Len(Parts) /\ Len(Parts) \in Nat /\ Uploads = 1 .. Len(Parts)
    BY Basics DEF Ind, IBase
  <2>1. CASE u < upload
    BY <2>1 DEF IOld
  <2>2. CASE u = upload
    BY <2>2, CurrentArrived
  <2>3. CASE u > upload
    <3>1. transfer[u] = NoTransfer /\ file[u] = <<>>
      BY <2>3 DEF Ind, IBase, IFresh
    <3>2. Arrived(u) = <<>>
      BY <3>1 DEF Arrived, NoTransfer
    <3> QED
      BY <3>2 DEF Halves
  <2> QED
    BY <2>0, <2>1, <2>2, <2>3
<1> QED
  BY <1>1, <1>2, <1>3, PTL DEF Spec

-----------------------------------------------------------------------------
(* An upload that is served goes on in lock step *)

Early == {"GREETING", "OPTS", "USER", "PASS", "MKD", "TYPE"}
ReplyTo(c) == IF c = "PASV" THEN 227 ELSE SimpleReplies[c]

\* What the server knows of the login when it reads a command, and once it has answered.
LoginFor(c) == CASE c \in {"GREETING", "OPTS", "USER"} -> "no"
                 [] c = "PASS" -> "user"
                 [] OTHER -> "yes"
LoginBy(c) == CASE c = "USER" -> "user" [] c = "PASS" -> "yes" [] OTHER -> LoginFor(c)

\* The codes of the replies on their way.
Came(r, s) == Len(r) = Len(s) /\ \A i \in 1 .. Len(s) : r[i].code = s[i]
Quiet == srv.cmds = <<>> /\ srv.replies = <<>>

\* A command is on its way to the server, or the reply to it back.
Asked(c) == srv.cmds = <<c>> /\ srv.replies = <<>> /\ srv.login = LoginFor(c)
Told(c) == /\ srv.cmds = <<>> /\ Came(srv.replies, <<ReplyTo(c)>>) /\ srv.login = LoginBy(c)
           /\ c = "PASV" => T.pasv > 0 /\ T.state = "none"

\* What the server says of the data it is to store.
Stored ==
  \/ srv.cmds \in {<<"STOR">>, <<"APPE">>} /\ srv.replies = <<>> /\ T.state = "none"
  \/ srv.cmds = <<>> /\ srv.replies = <<>> /\ T.state \in {"wait", "open"}
  \/ srv.cmds = <<>> /\ Came(srv.replies, <<150>>) /\ T.state = "open"
  \/ srv.cmds = <<>> /\ Came(srv.replies, <<226>>) /\ T.state = "done"
  \/ srv.cmds = <<>> /\ Came(srv.replies, <<150, 226>>) /\ T.state = "done"

\* As long as all goes well there is one command or its reply on the way.
Lock ==
  /\ ret = 0 /\ wq.pc # "noop"
  /\ pc = "open" => ~client.connected
  /\ pc \notin {"idle", "open"} /\ ~Quitting => srv.link = "up"
  /\ pc = "send" /\ cmd # "QUIT" => Quiet /\ srv.login = LoginFor(cmd)
  /\ pc = "send" /\ cmd \in Stores => T.pasv > 0 /\ T.state = "none"
  /\ pc = "recv" /\ cmd # "QUIT" => Asked(cmd) \/ Told(cmd)
  /\ pc = "put" => Quiet /\ srv.login = "yes"
  /\ Storing => srv.login = "yes" /\ T.pasv > 0 /\ Stored
ILock == upload > 0 /\ luck = "served" => Lock

LEMMA CameFacts ==
  ASSUME NEW r \in Seq(Replies)
  PROVE  /\ \A x \in Replies : \A c : x.code = c /\ r = <<>> => Came(Append(r, x), <<c>>)
         /\ \A x \in Replies : \A c, d : x.code = d /\ Came(r, <<c>>) => Came(Append(r, x), <<c, d>>)
         /\ \A c : Came(r, <<c>>) =>
              /\ r # <<>>
              /\ \A n \in DOMAIN r : n = 1 /\ r[1].code = c /\ SubSeq(r, n + 1, Len(r)) = <<>>
         /\ \A c, d : Came(r, <<c, d>>) =>
              /\ r # <<>>
              /\ \A n \in DOMAIN r :
                   \/ n = 1 /\ r[1].code = c /\ Came(SubSeq(r, n + 1, Len(r)), <<d>>)
                   \/ n = 2 /\ r[1].code = c /\ r[2].code = d /\ SubSeq(r, n + 1, Len(r)) = <<>>
<1>1. Len(r) \in Nat /\ DOMAIN r = 1 .. Len(r) /\ (r = <<>> <=> Len(r) = 0)
  BY LenProperties, EmptySeq
<1>2. \A x \in Replies : /\ Len(Append(r, x)) = Len(r) + 1
                         /\ \A i \in 1 .. Len(r) : Append(r, x)[i] = r[i]
                         /\ Append(r, x)[Len(r) + 1] = x
  BY AppendProperties
<1>3. \A n \in DOMAIN r :
        LET rest == SubSeq(r, n + 1, Len(r))
        IN  /\ rest \in Seq(Replies) /\ Len(rest) = Len(r) - n
            /\ \A i \in 1 .. Len(r) - n : rest[i] = r[n + i]
  <2> SUFFICES ASSUME NEW n \in DOMAIN r
               PROVE  LET rest == SubSeq(r, n + 1, Len(r))
                      IN  /\ rest \in Seq(Replies) /\ Len(rest) = Len(r) - n
                          /\ \A i \in 1 .. Len(r) - n : rest[i] = r[n + i]
    OBVIOUS
  <2> DEFINE rest == SubSeq(r, n + 1, Len(r))
  <2>1. rest \in Seq(Replies)
    BY <1>1, SubSeqProperties
  <2>2. DOMAIN rest = 1 .. Len(r) - n /\ \A i \in 1 .. Len(r) - n : rest[i] = r[n + i]
    BY RestOfReplies
  <2> HIDE DEF rest
  <2>3. Len(rest) = Len(r) - n
    <3>1. Len(rest) \in Nat /\ DOMAIN rest = 1 .. Len(rest) /\ Len(r) - n \in Nat
      BY <1>1, <2>1, LenProperties
    <3> QED
      BY <2>2, <3>1
  <2> QED
    BY <2>1, <2>2, <2>3 DEF rest
<1>4. ASSUME NEW x \in Replies, NEW c, x.code = c, r = <<>>
      PROVE  Came(Append(r, x), <<c>>)
  BY <1>1, <1>2, <1>4 DEF Came
<1>5. ASSUME NEW x \in Replies, NEW c, NEW d, x.code = d, Came(r, <<c>>)
      PROVE  Came(Append(r, x), <<c, d>>)
  <2>1. Len(r) = 1 /\ r[1].code = c
    BY <1>5 DEF Came
  <2>2. Len(Append(r, x)) = 2 /\ Append(r, x)[1] = r[1] /\ Append(r, x)[2] = x
    BY <1>2, <2>1
  <2> QED
    BY <1>5, <2>1, <2>2 DEF Came
<1>6. ASSUME NEW c, Came(r, <<c>>)
      PROVE  /\ r # <<>>
             /\ \A n \in DOMAIN r : n = 1 /\ r[1].code = c /\ SubSeq(r, n + 1, Len(r)) = <<>>
  <2>1. Len(r) = 1 /\ r[1].code = c
    BY <1>6 DEF Came
  <2>2. ASSUME NEW n \in DOMAIN r PROVE n = 1 /\ SubSeq(r, n + 1, Len(r)) = <<>>
    <3>1. n = 1
      BY <1>1, <2>1
    <3>2. SubSeq(r, n + 1, Len(r)) \in Seq(Replies) /\ Len(SubSeq(r, n + 1, Len(r))) = 0
      BY <1>3, <2>1, <3>1
    <3> QED
      BY <3>1, <3>2, EmptySeq
  <2> QED
    BY <1>1, <2>1, <2>2
<1>7. ASSUME NEW c, NEW d, Came(r, <<c, d>>)
      PROVE  /\ r # <<>>
             /\ \A n \in DOMAIN r :
                  \/ n = 1 /\ r[1].code = c /\ Came(SubSeq(r, n + 1, Len(r)), <<d>>)
                  \/ n = 2 /\ r[1].code = c /\ r[2].code = d /\ SubSeq(r, n + 1, Len(r)) = <<>>
  <2>1. Len(r) = 2 /\ r[1].code = c /\ r[2].code = d
    BY <1>7 DEF Came
  <2>2. ASSUME NEW n \in DOMAIN r
        PROVE  (n = 1 /\ Came(SubSeq(r, n + 1, Len(r)), <<d>>)) \/ (n = 2 /\ SubSeq(r, n + 1, Len(r)) = <<>>)
    <3> DEFINE rest == SubSeq(r, n + 1, Len(r))
    <3>1. rest \in Seq(Replies) /\ Len(rest) = 2 - n /\ \A i \in 1 .. 2 - n : rest[i] = r[n + i]
      BY <1>3, <2>1
    <3> HIDE DEF rest
    <3>2. CASE n = 1
      <4>1. Len(rest) = 1 /\ rest[1] = r[2]
        BY <3>1, <3>2
      <4> QED
        BY <2>1, <3>2, <4>1 DEF Came, rest
    <3>3. CASE n = 2
      BY <3>1, <3>3, EmptySeq DEF rest
    <3> QED
      BY <1>1, <2>1, <3>2, <3>3
  <2> QED
    BY <1>1, <2>1, <2>2
<1> QED
  BY <1>4, <1>5, <1>6, <1>7

\* What cannot happen to an upload that is served.
LEMMA LuckSteps ==
  ASSUME [Next]_vars, ~Begin
  PROVE  /\ luck' = "served" =>
              /\ luck = "served"
              /\ ~ConnectFails /\ ~ReadFails /\ ~KeepaliveSends /\ ~LinkFails /\ ~OtherReply
              /\ Refuse => ~Allowed
              /\ ReplyLate => ~(client.sock = "open" /\ srv.cmds # <<>>)
              /\ PollTimeout => TimeLeft \/ transfer[upload].state = "done"
         /\ luck' # "lost" =>
              /\ luck # "lost" /\ ~ReadFails
              /\ ReplyOther => luck = "served"
              /\ SendDataFails => wq.sock = "closed"
<1> USE DEF Fault, Loss, Unlucky, SameFaults, historyVars
<1>1. ConnectFails \/ KeepaliveSends \/ LinkFails \/ OtherReply => luck' # "served"
  BY DEF ConnectFails, KeepaliveSends, OtherReply, LinkFails
<1>2. ReadFails => luck' = "lost"
  BY DEF ReadFails
<1>3. Refuse => ~Allowed \/ luck' # "served"
  BY DEF Refuse
<1>4. ReplyLate => ~(client.sock = "open" /\ srv.cmds # <<>>) \/ luck' # "served"
  BY DEF ReplyLate
<1>5. PollTimeout => TimeLeft \/ transfer[upload].state = "done" \/ luck' # "served"
  BY DEF PollTimeout
<1>6. ReplyOther => luck = "served" \/ luck' = "lost"
  BY DEF ReplyOther
<1>7. SendDataFails => wq.sock = "closed" \/ luck' = "lost"
  BY DEF SendDataFails
<1>8. (luck' = "served" => luck = "served") /\ (luck' # "lost" => luck # "lost")
  <2>1. CASE UNCHANGED luck
    BY <2>1
  <2>2. CASE \/ ConnectFails \/ KeepaliveSends \/ LinkFails \/ OtherReply \/ Refuse
             \/ ReplyLate \/ NoDataChannel
    BY <2>2
    DEF ConnectFails, KeepaliveSends, LinkFails, OtherReply, Refuse, ReplyLate, NoDataChannel
  <2>3. CASE PollTimeout \/ ReplyOther \/ SendDataFails
    BY <2>3 DEF PollTimeout, ReplyOther, SendDataFails
  <2> QED
    BY <1>2, <2>1, <2>2, <2>3, StepCases, Zenon
    DEF OpenRefused, Connect, SendCommand, SendCommandFails, ReplyExpected, ReplyHungUp, NextPart,
        SubmitData, PollReply, PollHungUp, SendQuit, CloseUnconnected, QuitAnswered,
        keepalive_timeout, KeepaliveFirst, KeepaliveAnswered, establish_data_channel,
        SendFirstHalf, SendSecondHalf, Answer, AnswerPasv, AnswerStore, AnswerQuit, OpenTransfer,
        EndTransfer, vars
<1> QED
  BY <1>1, <1>2, <1>3, <1>4, <1>5, <1>6, <1>7, <1>8, Zenon

\* What the worker receives is the reply it waits for, and nothing else.
LEMMA ServedReply ==
  ASSUME TypeOK, Lock, NEW n \in DOMAIN srv.replies, pc = "recv", cmd # "QUIT"
  PROVE  /\ srv.cmds = <<>> /\ CodesIn(n) = {ReplyTo(cmd)} /\ ServerAfter(n).replies = <<>>
         /\ srv.login = LoginBy(cmd) /\ (cmd = "PASV" => T.pasv > 0 /\ T.state = "none")
<1>0. srv \in Servers /\ srv.replies \in Seq(Replies)
  BY Basics DEF Servers
<1>1. srv.replies # <<>>
  OBVIOUS
<1>2. Told(cmd)
  BY <1>1 DEF Lock, Asked
<1>3. n = 1 /\ srv.replies[1].code = ReplyTo(cmd)
      /\ SubSeq(srv.replies, n + 1, Len(srv.replies)) = <<>>
  BY <1>0, <1>2, CameFacts DEF Told
<1>4. CodesIn(n) = {ReplyTo(cmd)}
  BY <1>3 DEF CodesIn, Read
<1>5. ServerAfter(n).replies = <<>>
  BY <1>0, <1>3 DEF ServerAfter, Servers
<1> QED
  BY <1>2, <1>4, <1>5 DEF Told

LEMMA NoOtherReply ==
  ASSUME TypeOK, Lock
  PROVE  ~ReplyOther
<1> SUFFICES ASSUME ReplyOther PROVE FALSE
  OBVIOUS
<1>1. PICK n \in DOMAIN srv.replies :
        pc = "recv" /\ cmd \in DOMAIN Expected /\ Expected[cmd] \notin CodesIn(n)
  BY DEF ReplyOther
<1>2. cmd # "QUIT" /\ Expected[cmd] = ReplyTo(cmd)
  BY <1>1 DEF Expected, ReplyTo, SimpleReplies
<1> QED
  BY <1>1, <1>2, ServedReply

LEMMA LockStep ==
  ASSUME Ind, IOrder, ILock, [Next]_vars
  PROVE  ILock'
<1>0. /\ TypeOK /\ IBase /\ IWorker /\ srv \in Servers /\ client \in Clients /\ wq \in Queues
      /\ cmd \in Commands /\ srv.replies \in Seq(Replies) /\ srv.cmds \in Seq(Commands)
      /\ transfer \in [Uploads -> Transfers] /\ upload \in 0 .. Len(Parts) /\ Len(Parts) \in Nat
      /\ Uploads = 1 .. Len(Parts) /\ Numbers \subseteq Nat
  BY Basics DEF Ind, IBase, Servers
<1>1. CASE Begin
  BY <1>1 DEF Begin, ILock, Lock, Storing
<1>2. CASE ~Begin
  <2> SUFFICES ASSUME upload' > 0, luck' = "served" PROVE Lock'
    BY DEF ILock
  <2>1. upload' = upload /\ luck = "served" /\ Lock /\ upload \in Uploads
    <3>1. upload' = upload
      BY <1>2, PartSteps DEF NextPart
    <3> QED
      BY <1>0, <1>2, <3>1, LuckSteps DEF ILock
  <2>2. T \in Transfers /\ T.pasv \in Nat
    BY <1>0, <2>1 DEF T, Transfers
  <2>3. pc \notin {"idle", "open"} /\ ~Quitting =>
          srv.link = "up" /\ client.sock = "open" /\ ~Broken /\ ~HangUp
    BY <1>0, <2>1 DEF Lock, IBase, ISocket, Broken, HangUp
  <2>4. ASSUME UNCHANGED <<srv.cmds, srv.replies, srv.login, srv.link, T.state, T.pasv>>
        PROVE  /\ Quiet' <=> Quiet
               /\ Stored' <=> Stored
               /\ \A c : Asked(c)' <=> Asked(c)
               /\ \A c : Told(c)' <=> Told(c)
    BY <2>4 DEF Quiet, Stored, Asked, Told
  <2>5. ASSUME UNCHANGED <<srv.cmds, srv.replies, srv.login, srv.link, T.state, T.pasv>>,
               UNCHANGED <<cmd, ret>>, pc' = pc \/ (pc = "submit" /\ pc' = "poll"),
               wq'.pc # "noop", client'.connected => client.connected
        PROVE  Lock'
    BY <2>1, <2>4, <2>5 DEF Lock, Storing, Quitting
  <2>6. UNCHANGED transfer => UNCHANGED <<T.state, T.pasv>>
    BY <2>1 DEF T
  <2>7. wq.pc # "noop" /\ ret = 0
    BY <2>1 DEF Lock
  \* the worker opens the connection
  <2>8. CASE Connect
    <3>1. /\ pc' = "recv" /\ cmd' = "GREETING" /\ ret' = ret /\ wq' = wq
          /\ srv' = [NoServer EXCEPT !.link = "up", !.cmds = <<"GREETING">>]
      BY <2>8 DEF Connect, Goto
    <3>2. srv'.cmds = <<"GREETING">> /\ srv'.replies = <<>> /\ srv'.login = "no" /\ srv'.link = "up"
      BY <3>1 DEF NoServer
    <3> QED
      BY <2>7, <3>1, <3>2 DEF Lock, Asked, LoginFor, Storing
  <2>9. ~OpenRefused
    BY <2>1 DEF OpenRefused, Lock
  <2>10. ~SendCommandFails
    BY <2>3 DEF SendCommandFails, SendFails, Quitting
  <2>11. ~ReplyHungUp /\ ~PollHungUp
    BY <2>3 DEF ReplyHungUp, PollHungUp, Quitting
  \* it sends a command
  <2>12. CASE SendCommand
    <3>1. /\ pc = "send" /\ srv' = [srv EXCEPT !.cmds = Append(@, cmd)]
          /\ UNCHANGED <<cmd, ret, wq, transfer>> /\ srv.link = "up"
          /\ pc' = IF cmd \in Stores THEN "submit" ELSE "recv"
      BY <2>3, <2>12 DEF SendCommand, Send, Quitting, Rest, Stores
    <3>2. /\ srv'.cmds = Append(srv.cmds, cmd) /\ srv'.link = "up"
          /\ UNCHANGED <<srv.replies, srv.login, T.state, T.pasv>>
      BY <1>0, <2>6, <3>1 DEF Servers
    <3>3. CASE cmd = "QUIT"
      BY <2>7, <3>1, <3>2, <3>3 DEF Lock, Storing, Quitting, Stores
    <3>4. CASE cmd # "QUIT"
      <4>1. srv.cmds = <<>> /\ srv.replies = <<>> /\ srv.login = LoginFor(cmd)
            /\ (cmd \in Stores => T.pasv > 0 /\ T.state = "none")
        BY <2>1, <3>1, <3>4 DEF Lock, Quiet
      <4>2. srv'.cmds = <<cmd>> /\ srv'.replies = <<>> /\ srv'.login = LoginFor(cmd)
        BY <3>2, <4>1
      <4>3. CASE cmd \in Stores
        <5>1. srv'.cmds \in {<<"STOR">>, <<"APPE">>} /\ srv'.login = "yes"
          BY <4>2, <4>3 DEF Stores, LoginFor
        <5>2. T'.state = "none" /\ T'.pasv > 0
          BY <3>2, <4>1, <4>3
        <5>3. Stored'
          BY <4>2, <5>1, <5>2 DEF Stored
        <5> QED
          BY <2>7, <3>1, <3>2, <4>3, <5>1, <5>2, <5>3 DEF Lock, Storing
      <4>4. CASE cmd \notin Stores
        <5>1. Asked(cmd)'
          BY <3>1, <4>2 DEF Asked
        <5> QED
          BY <2>7, <3>1, <3>2, <4>4, <5>1 DEF Lock, Storing
      <4> QED
        BY <4>3, <4>4
    <3> QED
      BY <3>3, <3>4
  \* it receives a reply
  <2>13. ASSUME NEW n \in DOMAIN srv.replies, pc = "recv", cmd # "QUIT"
         PROVE  /\ srv.cmds = <<>> /\ CodesIn(n) = {ReplyTo(cmd)} /\ ServerAfter(n).replies = <<>>
                /\ srv.login = LoginBy(cmd) /\ (cmd = "PASV" => T.pasv > 0 /\ T.state = "none")
    BY <1>0, <2>1, <2>13, ServedReply
  <2>14. CASE ReplyExpected
    <3>1. PICK n \in DOMAIN srv.replies :
            /\ pc = "recv" /\ cmd # "QUIT" /\ srv' = ServerAfter(n)
            /\ UNCHANGED <<ret, wq, transfer, part>>
            /\ CASE cmd = "TYPE" -> pc' = "put" /\ UNCHANGED cmd
                 [] cmd = "PASV" -> Goto("send", Store)
                 [] OTHER -> Goto("send", Following[cmd])
      BY <2>14 DEF ReplyExpected, Rest
    <3>2. /\ Quiet' /\ srv'.login = LoginBy(cmd) /\ srv'.link = "up"
          /\ UNCHANGED <<T.state, T.pasv>> /\ (cmd = "PASV" => T'.pasv > 0 /\ T'.state = "none")
      BY <1>0, <2>3, <2>6, <2>13, <3>1, Fields DEF Quiet, Quitting
    <3>3. CASE cmd = "TYPE"
      BY <2>7, <3>1, <3>2, <3>3 DEF Lock, Storing, LoginBy, LoginFor
    <3>4. CASE cmd = "PASV"
      <4>1. pc' = "send" /\ cmd' \in Stores
        BY <3>1, <3>4 DEF Goto, Store, Stores
      <4>2. LoginFor(cmd') = "yes" /\ LoginBy(cmd) = "yes"
        BY <3>4, <4>1 DEF LoginFor, LoginBy, Stores
      <4> QED
        BY <2>7, <3>1, <3>2, <3>4, <4>1, <4>2 DEF Lock, Storing
    <3>5. CASE cmd \notin {"TYPE", "PASV"}
      <4>1. cmd \in {"GREETING", "OPTS", "USER", "PASS", "MKD"}
        BY <1>0, <3>1, <3>5 DEF Commands, IWorker
      <4>2. pc' = "send" /\ cmd' = Following[cmd]
        BY <3>1, <3>5 DEF Goto
      <4>3. LoginFor(Following[cmd]) = LoginBy(cmd) /\ Following[cmd] \notin Stores
        BY <4>1 DEF LoginFor, LoginBy, Following, Stores
      <4> QED
        BY <2>7, <3>1, <3>2, <4>2, <4>3 DEF Lock, Storing
    <3> QED
      BY <3>3, <3>4, <3>5
  <2>15. ~ReplyOther
    BY <1>0, <2>1, NoOtherReply
  <2>16. ~ReplyLate
    <3> SUFFICES ASSUME ReplyLate PROVE FALSE
      OBVIOUS
    <3>1. pc = "recv" /\ cmd # "QUIT" /\ NothingComes
      BY DEF ReplyLate
    <3>2. client.sock = "open" /\ srv.replies = <<>>
      BY <2>3, <3>1 DEF NothingComes, Quitting
    <3>3. srv.cmds = <<cmd>>
      BY <1>0, <2>1, <3>1, <3>2, CameFacts DEF Lock, Asked, Told
    <3> QED
      BY <1>2, <3>2, <3>3, LuckSteps
  \* it has data sent
  <2>17. CASE NextPart
    <3>1. /\ pc = "put" /\ UNCHANGED <<srv, wq, transfer>> /\ ret' = 0
          /\ (pc' = "send" /\ cmd' = "PASV") \/ pc' = "close"
      BY <2>7, <2>17 DEF NextPart, Goto
    <3>2. srv.link = "up" /\ Quiet /\ srv.login = "yes"
      BY <2>1, <2>3, <3>1 DEF Lock, Quitting
    <3> QED
      BY <2>7, <3>1, <3>2 DEF Lock, Storing, Quiet, LoginFor, Stores
  <2>18. CASE SubmitData
    <3>1. wq'.pc = wq.pc
      BY <1>0, <2>18 DEF SubmitData, Queues
    <3> QED
      BY <2>5, <2>6, <2>7, <2>18, <3>1 DEF SubmitData, Rest
  <2>19. CASE PollReply
    <3>1. PICK n \in DOMAIN srv.replies :
            /\ pc = "poll" /\ srv' = ServerAfter(n) /\ UNCHANGED <<cmd, ret, wq, transfer>>
            /\ pc' = IF 226 \in CodesIn(n) THEN "put" ELSE "poll"
      BY <2>19 DEF PollReply, Rest
    <3>2. /\ srv'.replies = SubSeq(srv.replies, n + 1, Len(srv.replies))
          /\ UNCHANGED <<srv.cmds, srv.login, srv.link>>
      BY <1>0, <3>1, Fields DEF ServerAfter, Servers
    <3>3. /\ srv.login = "yes" /\ T.pasv > 0 /\ Stored /\ srv.link = "up" /\ srv.replies # <<>>
          /\ UNCHANGED <<T.state, T.pasv>>
      BY <2>1, <2>3, <2>6, <3>1 DEF Lock, Storing, Quitting
    <3>4. \A c \in {150, 226} : n = 1 /\ srv.replies[1].code = c => CodesIn(n) = {c}
      BY DEF CodesIn, Read
    <3>5. srv.cmds = <<>> /\ (226 \in CodesIn(n) => srv'.replies = <<>>)
          /\ (226 \notin CodesIn(n) => Stored')
      <4>1. CASE Came(srv.replies, <<150>>) /\ T.state = "open" /\ srv.cmds = <<>>
        <5>1. n = 1 /\ srv.replies[1].code = 150 /\ srv'.replies = <<>>
          BY <1>0, <3>2, <4>1, CameFacts
        <5> QED
          BY <3>2, <3>3, <3>4, <4>1, <5>1 DEF Stored
      <4>2. CASE Came(srv.replies, <<226>>) /\ T.state = "done" /\ srv.cmds = <<>>
        <5>1. n = 1 /\ srv.replies[1].code = 226 /\ srv'.replies = <<>>
          BY <1>0, <3>2, <4>2, CameFacts
        <5> QED
          BY <3>4, <4>2, <5>1
      <4>3. CASE Came(srv.replies, <<150, 226>>) /\ T.state = "done" /\ srv.cmds = <<>>
        <5>1. \/ n = 1 /\ srv.replies[1].code = 150 /\ Came(srv'.replies, <<226>>)
              \/ n = 2 /\ srv.replies[2].code = 226 /\ srv'.replies = <<>>
          BY <1>0, <3>2, <4>3, CameFacts
        <5>2. CASE n = 1 /\ srv.replies[1].code = 150 /\ Came(srv'.replies, <<226>>)
          BY <3>2, <3>3, <3>4, <4>3, <5>2 DEF Stored
        <5>3. CASE n = 2 /\ srv.replies[2].code = 226 /\ srv'.replies = <<>>
          <6>1. 226 \in CodesIn(n)
            BY <5>3 DEF CodesIn, Read
          <6> QED
            BY <4>3, <5>3, <6>1
        <5> QED
          BY <5>1, <5>2, <5>3
      <4> QED
        BY <3>3, <4>1, <4>2, <4>3 DEF Stored
    <3> QED
      BY <2>7, <3>1, <3>2, <3>3, <3>5 DEF Lock, Storing, Quiet
  <2>20. CASE PollTimeout
    <3>1. TimeLeft
      <4> SUFFICES ASSUME T.state = "done" PROVE FALSE
        BY <1>2, <2>20, LuckSteps DEF T
      <4>1. client.sock = "open" /\ NothingComes /\ Stored
        BY <2>1, <2>3, <2>20 DEF PollTimeout, Lock, Storing, Quitting
      <4> QED
        BY <1>0, <4>1, CameFacts DEF NothingComes, Stored
    <3>2. UNCHANGED <<pc, cmd, ret, client, wq, srv, transfer>>
      BY <2>20, <3>1 DEF PollTimeout, Rest
    <3> QED
      BY <2>5, <2>6, <2>7, <3>2
  <2>21. CASE SendQuit \/ CloseUnconnected \/ QuitAnswered
    <3>1. ret' = 0 /\ wq'.pc # "noop"
          /\ (pc' = "idle" \/ (pc' = "send" /\ cmd' = "QUIT" /\ pc = "close" /\ srv' = srv))
      BY <1>0, <2>7, <2>21, Fields
      DEF SendQuit, CloseUnconnected, QuitAnswered, Closed, close_connection, Goto
    <3> QED
      BY <2>3, <3>1 DEF Lock, Storing, Quitting, Stores
  \* the work queue
  <2>22. CASE keepalive_timeout \/ KeepaliveFirst \/ establish_data_channel \/ NoDataChannel
    <3>1. UNCHANGED <<pc, cmd, ret, srv.cmds, srv.replies, srv.login, srv.link>>
      BY <1>0, <2>22 DEF keepalive_timeout, KeepaliveFirst, establish_data_channel, NoDataChannel,
                         SameServer, workerVars, Servers
    <3>2. wq'.pc # "noop" /\ client'.connected = client.connected
      BY <1>0, <2>7, <2>22 DEF keepalive_timeout, KeepaliveFirst, establish_data_channel,
                               NoDataChannel, Started, Queues, Clients
    <3>3. UNCHANGED <<T.state, T.pasv>>
      <4>1. CASE establish_data_channel
        BY <1>0, <2>1, <4>1, Established DEF T, Transfers
      <4>2. CASE UNCHANGED transfer
        BY <2>6, <4>2
      <4> QED
        BY <2>22, <4>1, <4>2 DEF keepalive_timeout, KeepaliveFirst, NoDataChannel, SameServer
    <3> QED
      BY <2>5, <3>1, <3>2, <3>3
  <2>23. ~KeepaliveAnswered
    BY <2>7 DEF KeepaliveAnswered
  <2>24. CASE SendFirstHalf \/ SendSecondHalf \/ SendDataFails
    <3>1. UNCHANGED <<pc, cmd, ret, srv>> /\ client'.connected = client.connected /\ wq'.pc # "noop"
      <4>1. /\ UNCHANGED <<pc, cmd, ret, srv>>
            /\ client' = [client EXCEPT !.inactivity = client'.inactivity]
            /\ \/ wq' = [wq EXCEPT !.pc = "half"]
               \/ wq' = [wq EXCEPT !.pc = "idle", !.sock = "none", !.port = NoPort]
        BY <1>0, <2>24, DataSteps
      <4> QED
        BY <1>0, <4>1 DEF Clients, Queues
    <3>2. UNCHANGED <<T.state, T.pasv>>
      BY <1>0, <2>1, <2>24, OtherData DEF T
    <3> QED
      BY <2>5, <3>1, <3>2
  \* the server
  <2>25. CASE Answer \/ AnswerPasv \/ AnswerStore \/ AnswerQuit \/ Refuse
    <3>1. /\ UNCHANGED <<pc, cmd, ret, client, wq>> /\ srv.cmds # <<>> /\ srv.link = "up"
          /\ srv'.cmds = Tail(srv.cmds)
      BY <1>0, <2>25, ZenonT(40) DEF Answer, AnswerPasv, AnswerStore, AnswerQuit, Refuse, Serving, Answered,
                         workerVars, Servers
    <3>2. srv'.link = "up" \/ Quitting
      <4>1. AnswerQuit => Quitting
        BY <1>0, HasTaken DEF AnswerQuit, Serving, NextCommand, IBase, IServer
      <4> QED
        BY <1>0, <2>25, <3>1, <4>1, ZenonT(40)
        DEF Answer, AnswerPasv, AnswerStore, Refuse, Answered, Servers
    <3>3. pc \notin {"send", "put"} \/ (pc = "send" /\ cmd = "QUIT")
      BY <2>1, <3>1 DEF Lock, Quiet
    <3>4. CASE pc = "recv" /\ cmd # "QUIT"
      <4>1. Asked(cmd) /\ Head(srv.cmds) = cmd /\ srv'.cmds = <<>>
        <5>1. Asked(cmd) \/ Told(cmd)
          BY <2>1, <3>4 DEF Lock
        <5>2. Asked(cmd)
          BY <3>1, <5>1 DEF Told
        <5>3. srv.cmds = <<cmd>>
          BY <5>2 DEF Asked
        <5>4. Head(<<cmd>>) = cmd /\ Tail(<<cmd>>) = <<>>
          OBVIOUS
        <5> QED
          BY <3>1, <5>2, <5>3, <5>4
      <4>2. Allowed
        BY <4>1 DEF Asked, Allowed, NextCommand, LoginFor, NeedsLogin
      <4>3. cmd \notin {"STOR", "APPE", "NOOP", "QUIT"}
        BY <1>0, <3>4 DEF IWorker
      <4>4. Told(cmd)'
        <5>1. CASE Answer
          <6>1. cmd # "PASV" /\ cmd \in Early
            BY <4>1, <4>3, <5>1 DEF Answer, NextCommand, SimpleReplies, Early
          <6>2. SimpleReplies[cmd] \in {200, 220, 230, 257, 331} /\ ReplyTo(cmd) = SimpleReplies[cmd]
            BY <6>1 DEF SimpleReplies, ReplyTo, Early
          <6>3. Reply(SimpleReplies[cmd]) \in Replies
                /\ Reply(SimpleReplies[cmd]).code = SimpleReplies[cmd]
            <7>1. NoPort \in Ports
              BY UploadNumbers
            <7> QED
              BY <6>2, <7>1 DEF Reply, Replies
          <6>4. /\ srv'.replies = Append(srv.replies, Reply(SimpleReplies[cmd]))
                /\ srv'.login = LoginBy(cmd)
            <7>1. srv' = [Answered(Reply(SimpleReplies[cmd])) EXCEPT
                            !.login = CASE cmd = "USER" -> "user"
                                        [] cmd = "PASS" -> "yes"
                                        [] OTHER -> @]
              BY <4>1, <5>1 DEF Answer, NextCommand
            <7> QED
              BY <1>0, <4>1, <6>1, <7>1 DEF Answered, Servers, Asked, LoginBy, LoginFor, Early
          <6>5. Came(srv'.replies, <<ReplyTo(cmd)>>)
            <7> DEFINE x == Reply(SimpleReplies[cmd])
                       c == ReplyTo(cmd)
            <7>1. x \in Replies /\ x.code = c /\ srv.replies = <<>> /\ srv'.replies = Append(srv.replies, x)
              BY <4>1, <6>2, <6>3, <6>4 DEF Asked
            <7> HIDE DEF x, c
            <7>2. Came(Append(srv.replies, x), <<c>>)
              BY <1>0, <7>1, CameFacts
            <7> QED
              BY <7>1, <7>2 DEF c
          <6> QED
            BY <3>1, <4>1, <6>1, <6>4, <6>5 DEF Told
        <5>2. CASE AnswerPasv
          <6> DEFINE r == [code |-> 227, port |-> <<upload, T.pasv + 1>>]
          <6>1. cmd = "PASV"
            BY <4>1, <5>2 DEF AnswerPasv, NextCommand
          <6>2. /\ srv' = [Answered(r) EXCEPT !.listening = <<upload, T.pasv + 1>>]
                /\ transfer' = [transfer EXCEPT ![upload] = [NoTransfer EXCEPT !.pasv = T.pasv + 1]]
            BY <5>2 DEF AnswerPasv, T
          <6>3. r \in Replies /\ r.code = 227
            BY <5>2, NextPort
          <6> HIDE DEF r
          <6>4. srv'.replies = Append(srv.replies, r) /\ srv'.login = srv.login
            BY <1>0, <6>2 DEF Answered, Servers
          <6>5. T'.pasv > 0 /\ T'.state = "none"
            BY <1>0, <2>1, <2>2, <6>2 DEF T, NoTransfer
          <6>6. Came(srv'.replies, <<227>>) /\ srv'.login = "yes"
            <7>1. srv.replies = <<>> /\ srv.login = "yes"
              BY <4>1, <6>1 DEF Asked, LoginFor
            <7>2. PICK c : c = 227
              OBVIOUS
            <7>3. r \in Replies /\ r.code = c
              BY <6>3, <7>2
            <7>4. Came(Append(srv.replies, r), <<c>>)
              BY <1>0, <7>1, <7>3, CameFacts
            <7> QED
              BY <6>4, <7>1, <7>2, <7>4
          <6> QED
            BY <3>1, <4>1, <6>1, <6>5, <6>6 DEF Told, ReplyTo, LoginBy, LoginFor
        <5>3. ~AnswerStore /\ ~AnswerQuit /\ ~Refuse
          BY <1>2, <4>1, <4>2, <4>3, LuckSteps DEF AnswerStore, AnswerQuit, NextCommand
        <5> QED
          BY <2>25, <5>1, <5>2, <5>3
      <4> QED
        BY <2>7, <3>1, <3>2, <3>4, <4>4 DEF Lock, Storing, Quitting
    <3>5. CASE Storing
      <4>1. /\ srv.cmds \in {<<"STOR">>, <<"APPE">>} /\ srv.replies = <<>> /\ srv.login = "yes"
            /\ T.pasv > 0
        BY <2>1, <3>1, <3>5 DEF Lock, Stored
      <4>2. NextCommand \in Stores /\ srv'.cmds = <<>> /\ Allowed
        <5>1. \A c : Head(<<c>>) = c /\ Tail(<<c>>) = <<>>
          OBVIOUS
        <5>2. PICK c \in Stores : srv.cmds = <<c>>
          BY <4>1 DEF Stores
        <5>3. NextCommand = c /\ srv'.cmds = <<>>
          BY <3>1, <5>1, <5>2 DEF NextCommand
        <5> QED
          BY <4>1, <5>3 DEF Stores, Allowed, NeedsLogin
      <4>3. AnswerStore
        BY <1>2, <2>25, <4>2, LuckSteps
        DEF Answer, AnswerPasv, AnswerQuit, Refuse, Stores, SimpleReplies
      <4>4. /\ srv' = [srv EXCEPT !.cmds = Tail(@)]
            /\ transfer' = [transfer EXCEPT ![upload].state = "wait"]
        BY <4>1, <4>3 DEF AnswerStore, T
      <4>5. srv'.replies = srv.replies /\ srv'.login = srv.login /\ T'.state = "wait" /\ T'.pasv = T.pasv
        BY <1>0, <2>1, <4>4 DEF T, Servers, Transfers
      <4>6. Stored'
        BY <4>1, <4>2, <4>5 DEF Stored
      <4> QED
        BY <2>7, <3>1, <3>2, <3>5, <4>1, <4>5, <4>6 DEF Lock, Storing, Quitting
    <3>6. CASE ~Storing /\ ~(pc = "recv" /\ cmd # "QUIT")
      BY <2>1, <2>7, <3>1, <3>2, <3>3, <3>6 DEF Lock, Storing, Quitting, Stores
    <3> QED
      BY <3>4, <3>5, <3>6
  <2>26. CASE OpenTransfer \/ EndTransfer
    <3>1. /\ UNCHANGED <<pc, cmd, ret, client, wq, srv.cmds, srv.login, srv.link>>
          /\ T.state \in {"wait", "open"}
      BY <1>0, <2>26 DEF OpenTransfer, EndTransfer, workerVars, Servers, T
    <3>2. Storing \/ Leaving
      BY <1>0, <2>1, <3>1 DEF IOrder
    <3>3. CASE Leaving
      BY <2>1, <2>7, <3>1, <3>3 DEF Lock, Leaving, Storing, Quitting
    <3>4. CASE Storing
      <4>1. Stored /\ srv.login = "yes" /\ T.pasv > 0 /\ srv.link = "up" /\ srv.cmds = <<>>
        BY <2>1, <2>3, <3>1, <3>4 DEF Lock, Stored, Storing, Quitting
      <4>2. \A c \in {150, 226} : Reply(c) \in Replies /\ Reply(c).code = c
        <5>1. NoPort \in Ports
          BY UploadNumbers
        <5> QED
          BY <5>1 DEF Reply, Replies
      <4>3. CASE OpenTransfer
        <5>1. /\ srv' = [srv EXCEPT !.replies = Append(@, Reply(150))] /\ T.state = "wait"
              /\ transfer' = [transfer EXCEPT ![upload].state = "open"]
          BY <4>3 DEF OpenTransfer, T
        <5>2. srv'.replies = Append(srv.replies, Reply(150)) /\ T'.state = "open" /\ T'.pasv = T.pasv
          BY <1>0, <2>1, <5>1 DEF T, Servers, Transfers
        <5>3. srv.replies = <<>>
          BY <4>1, <5>1 DEF Stored
        <5>4. Stored'
          <6>1. Came(srv'.replies, <<150>>)
            <7>1. PICK x, c : x = Reply(150) /\ c = 150
              OBVIOUS
            <7>2. x \in Replies /\ x.code = c
              BY <4>2, <7>1
            <7>3. Came(Append(srv.replies, x), <<c>>)
              BY <1>0, <5>3, <7>2, CameFacts
            <7> QED
              BY <5>2, <7>1, <7>3
          <6> QED
            BY <3>1, <4>1, <5>2, <6>1 DEF Stored
        <5> QED
          BY <2>7, <3>1, <3>4, <4>1, <5>2, <5>4 DEF Lock, Storing
      <4>4. CASE EndTransfer
        <5>1. /\ srv' = [srv EXCEPT !.replies = Append(@, Reply(226))] /\ T.state = "open"
              /\ transfer' = [transfer EXCEPT ![upload].state = "done", ![upload].bytes = <<>>]
          BY <4>4 DEF EndTransfer, T
        <5>2. srv'.replies = Append(srv.replies, Reply(226)) /\ T'.state = "done" /\ T'.pasv = T.pasv
          BY <1>0, <2>1, <5>1 DEF T, Servers, Transfers
        <5>3. srv.replies = <<>> \/ Came(srv.replies, <<150>>)
          BY <4>1, <5>1 DEF Stored
        <5>4. Came(srv'.replies, <<226>>) \/ Came(srv'.replies, <<150, 226>>)
          BY <1>0, <4>2, <5>2, <5>3, CameFacts
        <5>5. Stored'
          BY <3>1, <4>1, <5>2, <5>4 DEF Stored
        <5> QED
          BY <2>7, <3>1, <3>4, <4>1, <5>2, <5>5 DEF Lock, Storing
      <4> QED
        BY <2>26, <4>3, <4>4
    <3> QED
      BY <3>2, <3>3, <3>4
  <2>27. CASE UNCHANGED vars
    BY <2>5, <2>6, <2>7, <2>27 DEF vars, workerVars
  <2> QED
    BY <1>2, <2>8, <2>9, <2>10, <2>11, <2>12, <2>14, <2>15, <2>16, <2>17, <2>18, <2>19, <2>20,
       <2>21, <2>22, <2>23, <2>24, <2>25, <2>26, <2>27, LuckSteps, StepCases, Zenon
<1> QED
  BY <1>1, <1>2

-----------------------------------------------------------------------------
(* An upload that returns 0 *)

Opening == pc = "open" \/ (pc \in {"send", "recv"} /\ cmd \in Early)
Asking == pc \in {"send", "recv"} /\ cmd \in TransferCommands
Waiting == pc = "recv" /\ cmd = "PASV"

\* How the worker goes on, but for the next upload and for what costs one its luck.
LEMMA PhaseSteps ==
  ASSUME TypeOK, IWorker, [Next]_vars, ~Begin
  PROVE  \/ /\ UNCHANGED <<part, ret>>
            /\ \/ Opening /\ Opening'
               \/ pc = "put" /\ pc' = "put"
               \/ Asking /\ Asking'
               \/ Storing /\ Storing'
               \/ Leaving /\ Leaving'
         \/ Leaving' /\ ret' = -1
         \/ ReplyOther \/ ReadFails \/ NextPart
         \/ ReplyExpected /\ cmd = "TYPE" /\ pc' = "put" /\ UNCHANGED part
         \/ SendCommand /\ cmd \in Stores /\ Storing' /\ UNCHANGED part
         \/ /\ PollReply /\ pc = "poll" /\ pc' = "put" /\ UNCHANGED part
            /\ \E n \in DOMAIN srv.replies : 226 \in CodesIn(n)
<1>0. cmd \in Commands
  BY DEF TypeOK
<1> USE DEF Opening, Asking, Storing, Leaving, Early, TransferCommands, Stores, Goto, Rest, Fail
<1>1. CASE OpenRefused \/ Connect \/ ConnectFails
  BY <1>1 DEF OpenRefused, Connect, ConnectFails
<1>2. CASE SendCommand
  <2>1. pc = "send" /\ cmd \in Early \union TransferCommands \union {"QUIT"}
    BY <1>0, <1>2 DEF SendCommand, Commands, IWorker
  <2> QED
    BY <1>2, <2>1 DEF SendCommand
<1>3. CASE SendCommandFails
  <2>1. pc = "send" /\ UNCHANGED part
    BY <1>3 DEF SendCommandFails
  <2>2. CASE cmd = "MKD"
    BY <1>3, <2>1, <2>2 DEF SendCommandFails
  <2>3. CASE cmd = "QUIT"
    BY <1>3, <2>1, <2>3 DEF SendCommandFails
  <2>4. CASE cmd \notin {"MKD", "QUIT"}
    BY <1>3, <2>1, <2>4 DEF SendCommandFails
  <2> QED
    BY <2>2, <2>3, <2>4
<1>4. CASE ReplyExpected
  <2>1. pc = "recv" /\ cmd \in {"GREETING", "OPTS", "USER", "PASS", "MKD", "TYPE", "PASV"}
        /\ UNCHANGED <<part, ret>>
    BY <1>0, <1>4 DEF ReplyExpected, Commands, IWorker
  <2>2. CASE cmd = "TYPE"
    BY <1>4, <2>1, <2>2 DEF ReplyExpected
  <2>3. CASE cmd = "PASV"
    BY <1>4, <2>1, <2>3 DEF ReplyExpected, Store
  <2>4. CASE cmd \in DOMAIN Following
    <3>1. cmd \notin {"TYPE", "PASV"} /\ Following[cmd] \in Early
      BY <2>4 DEF Following
    <3> QED
      BY <1>4, <2>1, <3>1 DEF ReplyExpected
  <2> QED
    BY <2>1, <2>2, <2>3, <2>4 DEF Following
<1>5. CASE ReplyLate \/ ReplyHungUp
  <2>1. pc = "recv" /\ GiveUp /\ UNCHANGED part
    BY <1>5 DEF ReplyLate, ReplyHungUp
  <2>2. CASE cmd \in {"OPTS", "MKD"}
    BY <2>1, <2>2 DEF GiveUp, Following
  <2>3. CASE cmd \notin {"OPTS", "MKD"}
    BY <2>1, <2>3 DEF GiveUp
  <2> QED
    BY <2>2, <2>3
<1>6. CASE SubmitData \/ PollTimeout \/ PollHungUp
  BY <1>6 DEF SubmitData, PollTimeout, PollHungUp
<1>7. CASE PollReply
  <2>1. PICK n \in DOMAIN srv.replies :
          pc = "poll" /\ pc' = (IF 226 \in CodesIn(n) THEN "put" ELSE "poll") /\ UNCHANGED <<part, ret>>
    BY <1>7 DEF PollReply
  <2> QED
    BY <1>7, <2>1
<1>8. CASE SendQuit \/ CloseUnconnected \/ QuitAnswered
  BY <1>8 DEF SendQuit, CloseUnconnected, QuitAnswered
<1>9. CASE UNCHANGED workerVars
  <2>1. pc \in {"send", "recv"} => cmd \in Early \union TransferCommands \union {"QUIT"}
    BY <1>0 DEF Commands, IWorker
  <2>2. pc \in {"idle", "open", "send", "recv", "submit", "poll", "put", "close"}
    BY DEF TypeOK
  <2>3. UNCHANGED <<pc, cmd, part, ret>>
    BY <1>9 DEF workerVars
  <2> QED
    BY <2>1, <2>2, <2>3
<1> QED
  BY <1>1, <1>2, <1>3, <1>4, <1>5, <1>6, <1>7, <1>8, <1>9, StepCases, Zenon
  DEF keepalive_timeout, KeepaliveFirst, KeepaliveSends, KeepaliveAnswered,
      establish_data_channel, NoDataChannel, SendFirstHalf, SendSecondHalf, SendDataFails,
      Answer, AnswerPasv, AnswerStore, AnswerQuit, Refuse, OpenTransfer, EndTransfer,
      OtherReply, LinkFails,
      vars

\* Once it leaves it does so until the next upload.
LEMMA LeavingSteps ==
  ASSUME TypeOK, [Next]_vars, ~Begin, Leaving
  PROVE  Leaving'
<1> USE DEF Leaving, Goto
<1>1. CASE SendCommand \/ SendCommandFails
  BY <1>1 DEF SendCommand, SendCommandFails
<1>2. CASE SendQuit \/ CloseUnconnected \/ QuitAnswered
  BY <1>2 DEF SendQuit, CloseUnconnected, QuitAnswered
<1>3. CASE ReplyExpected \/ ReplyOther \/ ReplyLate \/ ReplyHungUp
  BY <1>3 DEF ReplyExpected, ReplyOther, ReplyLate, ReplyHungUp, Expected
<1>4. CASE \/ OpenRefused \/ Connect \/ ConnectFails \/ NextPart \/ ReadFails
           \/ SubmitData \/ PollReply \/ PollTimeout \/ PollHungUp
  BY <1>4 DEF OpenRefused, Connect, ConnectFails, NextPart, ReadFails, SubmitData, PollReply,
              PollTimeout, PollHungUp
<1>5. CASE UNCHANGED workerVars
  BY <1>5 DEF workerVars
<1> QED
  BY <1>1, <1>2, <1>3, <1>4, <1>5, StepCases, Zenon
  DEF keepalive_timeout, KeepaliveFirst, KeepaliveSends, KeepaliveAnswered,
      establish_data_channel, NoDataChannel, SendFirstHalf, SendSecondHalf, SendDataFails,
      Answer, AnswerPasv, AnswerStore, AnswerQuit, Refuse, OpenTransfer, EndTransfer,
      OtherReply, LinkFails,
      vars

\* PASV is waited for once it is sent, and STOR or APPE are sent after its reply.
LEMMA WaitingSteps ==
  ASSUME TypeOK, IWorker, [Next]_vars, ~Begin
  PROVE  /\ Waiting' => Waiting \/ (SendCommand /\ cmd = "PASV")
         /\ Waiting => Waiting' \/ Leaving' \/ ReplyExpected \/ ReplyOther
         /\ pc' = "send" /\ cmd' \in Stores =>
              /\ part' = part
              /\ (pc = "send" /\ cmd' = cmd) \/ (ReplyExpected /\ Waiting /\ cmd' = Store)
<1>0. cmd \in Commands
  BY DEF TypeOK
<1> USE DEF Waiting, Leaving, Stores, Goto, Rest
<1>1. CASE OpenRefused \/ Connect \/ ConnectFails \/ SendCommand \/ SendCommandFails
  BY <1>1 DEF OpenRefused, Connect, ConnectFails, SendCommand, SendCommandFails
<1>2. CASE ReplyExpected
  <2>1. pc = "recv" /\ cmd \in {"GREETING", "OPTS", "USER", "PASS", "MKD", "TYPE", "PASV"}
        /\ UNCHANGED part
    BY <1>0, <1>2 DEF ReplyExpected, Commands, IWorker
  <2>2. CASE cmd = "TYPE"
    BY <1>2, <2>1, <2>2 DEF ReplyExpected
  <2>3. CASE cmd = "PASV"
    BY <1>2, <2>1, <2>3 DEF ReplyExpected, Store
  <2>4. CASE cmd \in DOMAIN Following
    <3>1. cmd \notin {"TYPE", "PASV"} /\ Following[cmd] \notin Stores
      BY <2>4 DEF Following
    <3> QED
      BY <1>2, <2>1, <3>1 DEF ReplyExpected
  <2> QED
    BY <2>1, <2>2, <2>3, <2>4 DEF Following
<1>3. CASE ReplyOther \/ ReplyLate \/ ReplyHungUp
  BY <1>3 DEF ReplyOther, ReplyLate, ReplyHungUp, GiveUp, Following
<1>4. CASE NextPart \/ ReadFails \/ SubmitData \/ PollReply \/ PollTimeout \/ PollHungUp
  BY <1>4 DEF NextPart, ReadFails, SubmitData, PollReply, PollTimeout, PollHungUp
<1>5. CASE SendQuit \/ CloseUnconnected \/ QuitAnswered
  BY <1>5 DEF SendQuit, CloseUnconnected, QuitAnswered
<1>6. CASE UNCHANGED workerVars
  BY <1>6 DEF workerVars
<1> QED
  BY <1>1, <1>2, <1>3, <1>4, <1>5, <1>6, StepCases, Zenon
  DEF keepalive_timeout, KeepaliveFirst, KeepaliveSends, KeepaliveAnswered,
      establish_data_channel, NoDataChannel, SendFirstHalf, SendSecondHalf, SendDataFails,
      Answer, AnswerPasv, AnswerStore, AnswerQuit, Refuse, OpenTransfer, EndTransfer,
      OtherReply, LinkFails,
      vars

\* The data socket is closed together with the control connection.
ISocks == wq.sock = "closed" /\ wq.port[1] = upload => srv.link = "down"

LEMMA SocksStep ==
  ASSUME Ind, ISocks, [Next]_vars
  PROVE  ISocks'
<1> SUFFICES ASSUME wq'.sock = "closed", wq'.port[1] = upload' PROVE srv'.link = "down"
  BY DEF ISocks
<1>0. /\ TypeOK /\ IBase /\ srv \in Servers /\ client \in Clients /\ wq \in Queues
      /\ upload \in 0 .. Len(Parts) /\ Len(Parts) \in Nat /\ Numbers \subseteq Nat
      /\ transfer \in [Uploads -> Transfers]
  BY Basics DEF Ind, IBase
<1>1. CASE wq.sock = "closed" /\ wq'.port = wq.port
  <2>1. wq.port \in Uploads \X Numbers /\ wq.port[1] <= upload /\ wq.port[2] > 0
        /\ (wq.port[1] = upload => wq.port[2] <= T.pasv)
    BY <1>0, <1>1 DEF IBase, IConn
  <2>2. ~Begin
    BY <1>0, <1>1, <2>1 DEF Begin
  <2>3. upload' = upload
    BY <2>2, PartSteps DEF NextPart
  <2>4. srv.link = "down"
    BY <1>1, <2>3 DEF ISocks
  <2>5. ~Connect
    <3> SUFFICES ASSUME Connect PROVE FALSE
      OBVIOUS
    <3>1. T.pasv = 0
      BY <1>0 DEF Connect, IBase, IFresh, NoTransfer
    <3>2. wq.port[2] \in Nat
      BY <1>0, <2>1
    <3> QED
      BY <1>1, <2>1, <2>3, <3>1, <3>2
  <2> QED
    BY <1>0, <2>4, <2>5, CommandSteps, Fields DEF Serving, Servers
<1>2. CASE \/ SendCommandFails \/ ReplyHungUp \/ PollHungUp \/ CloseUnconnected \/ QuitAnswered
           \/ KeepaliveSends \/ KeepaliveAnswered
  <2>1. srv' = NoServer \/ wq' = wq \/ wq' = [wq EXCEPT !.pc = "idle"] \/ \E p : wq' = Started(p)
    BY <1>2 DEF SendCommandFails, ReplyHungUp, PollHungUp, CloseUnconnected, QuitAnswered, Closed,
                close_connection, HangUp, KeepaliveSends, KeepaliveAnswered
  <2>2. srv' = NoServer \/ (wq'.sock = wq.sock /\ wq'.port = wq.port)
    BY <1>0, <2>1 DEF Started, Queues
  <2> QED
    BY <1>0, <1>1, <2>2, Fields
<1>3. CASE SubmitData \/ keepalive_timeout \/ KeepaliveFirst \/ NoDataChannel
  <2>1. wq'.sock = wq.sock /\ wq'.port = wq.port
    BY <1>0, <1>3 DEF SubmitData, keepalive_timeout, KeepaliveFirst, NoDataChannel, Started, Queues
  <2> QED
    BY <1>1, <2>1
<1>4. CASE establish_data_channel
  BY <1>0, <1>4 DEF establish_data_channel, Started, Queues
<1>5. CASE SendFirstHalf \/ SendSecondHalf \/ SendDataFails
  <2>1. \/ wq' = [wq EXCEPT !.pc = "half"]
        \/ wq' = [wq EXCEPT !.pc = "idle", !.sock = "none", !.port = NoPort]
    BY <1>0, <1>5, DataSteps
  <2>2. wq'.sock = wq.sock /\ wq'.port = wq.port
    BY <1>0, <2>1 DEF Queues
  <2> QED
    BY <1>1, <2>2
<1>6. CASE UNCHANGED wq
  BY <1>1, <1>6
<1> QED
  BY <1>2, <1>3, <1>4, <1>5, <1>6, StepCases, Zenon
  DEF Begin, OpenRefused, Connect, ConnectFails, SendCommand, ReplyExpected, ReplyOther,
      ReplyLate, NextPart, ReadFails, PollReply, PollTimeout, SendQuit, Answer, AnswerPasv,
      AnswerStore, AnswerQuit, Refuse, OpenTransfer, EndTransfer, OtherReply, LinkFails, vars

\* One reply to PASV is on its way, or PASV is, and only while the worker waits for it.
IOnce ==
  upload > 0 /\ luck # "lost" /\ ~Leaving =>
    /\ Pasvs(srv.cmds) > 0 => Waiting /\ Pasvs(srv.cmds) = 1 /\ ~Coded(srv.replies, 227)
    /\ Coded(srv.replies, 227) => Waiting /\ Once(srv.replies, 227)

LEMMA OnceStep ==
  ASSUME Ind, ILock, IOnce, [Next]_vars
  PROVE  IOnce'
<1>0. /\ TypeOK /\ IBase /\ IWorker /\ srv \in Servers /\ srv.replies \in Seq(Replies)
      /\ srv.cmds \in Seq(Commands) /\ upload \in 0 .. Len(Parts) /\ Len(Parts) \in Nat
  BY Basics DEF Ind, IBase, Servers
<1>1. CASE Begin
  <2>1. srv' = NoServer
    BY <1>0, <1>1 DEF Begin, IBase, IServer
  <2>2. srv'.cmds = <<>> /\ srv'.replies = <<>>
    BY <2>1 DEF NoServer
  <2> QED
    BY <2>2, PasvsNone DEF IOnce, Coded
<1>2. CASE ~Begin
  <2> SUFFICES ASSUME upload' > 0, luck' # "lost", ~Leaving'
               PROVE  /\ Pasvs(srv'.cmds) > 0 =>
                           Waiting' /\ Pasvs(srv'.cmds) = 1 /\ ~Coded(srv'.replies, 227)
                      /\ Coded(srv'.replies, 227) => Waiting' /\ Once(srv'.replies, 227)
    BY DEF IOnce
  <2>1. upload > 0 /\ luck # "lost" /\ ~Leaving
    <3>1. upload' = upload
      BY <1>2, PartSteps DEF NextPart
    <3> QED
      BY <1>0, <1>2, <3>1, LuckSteps, LeavingSteps
  <2>2. /\ Pasvs(srv.cmds) > 0 => Waiting /\ Pasvs(srv.cmds) = 1 /\ ~Coded(srv.replies, 227)
        /\ Coded(srv.replies, 227) => Waiting /\ Once(srv.replies, 227)
    BY <2>1 DEF IOnce
  <2>3. ~ReplyOther
    BY <1>0, <1>2, <2>1, LuckSteps, NoOtherReply DEF ILock
  <2>4. Pasvs(srv.cmds) \in Nat /\ Pasvs(srv'.cmds) \in Nat
    <3>1. Pasvs(srv.cmds) \in Nat
      BY <1>0, PasvsNat DEF Servers
    <3>2. Pasvs(srv'.cmds) \in Nat
      BY <1>0, <3>1, PasvCount
    <3> QED
      BY <3>1, <3>2
  <2>5. \/ Coded(srv'.replies, 227) => Coded(srv.replies, 227) /\ Once(srv'.replies, 227)
        \/ AnswerPasv
    <3>1. Coded(srv.replies, 227) => Once(srv.replies, 227)
      BY <2>2
    <3>2. ~Coded(srv.replies, 227) => Once(srv.replies, 227)
      BY DEF Once, Coded
    <3>3. CASE srv'.replies = srv.replies \/ srv'.replies = <<>>
      BY <3>1, <3>3 DEF Coded
    <3>4. CASE \E n \in DOMAIN srv.replies :
                 srv'.replies = SubSeq(srv.replies, n + 1, Len(srv.replies))
      BY <1>0, <3>1, <3>2, <3>4, RepliesTaken
    <3>5. CASE \E r \in Replies : /\ srv'.replies = Append(srv.replies, r)
                                  /\ r.code = 227 => AnswerPasv
      BY <1>0, <3>1, <3>2, <3>5, RepliesAppended
    <3>6. Reply(150).code = 150 /\ Reply(226).code = 226
      BY DEF Reply
    <3> QED
      BY <3>3, <3>4, <3>5, <3>6, ReplySteps
  <2>6. AnswerPasv => /\ Pasvs(srv.cmds) = 1 /\ Pasvs(srv'.cmds) = 0
                      /\ Coded(srv'.replies, 227) => Once(srv'.replies, 227)
    <3> SUFFICES ASSUME AnswerPasv
                 PROVE  /\ Pasvs(srv.cmds) = 1 /\ Pasvs(srv'.cmds) = 0
                        /\ Coded(srv'.replies, 227) => Once(srv'.replies, 227)
      OBVIOUS
    <3>1. ~SendCommand
      BY DEF AnswerPasv, SendCommand, workerVars
    <3>2. Pasvs(srv'.cmds) = Pasvs(srv.cmds) - 1
      BY <1>0, <3>1, PasvCount
    <3>3. Pasvs(srv.cmds) = 1 /\ ~Coded(srv.replies, 227)
      BY <2>2, <2>4, <3>2
    <3>4. PICK r \in Replies : srv'.replies = Append(srv.replies, r)
      <4> DEFINE x == [code |-> 227, port |-> <<upload, T.pasv + 1>>]
      <4>1. srv' = [Answered(x) EXCEPT !.listening = <<upload, T.pasv + 1>>]
        BY DEF AnswerPasv, T
      <4>2. srv'.replies = Append(srv.replies, x)
        BY <1>0, <4>1 DEF Servers, Answered
      <4>3. x \in Replies
        BY NextPort
      <4> QED
        BY <4>2, <4>3
    <3>5. Once(srv.replies, 227)
      BY <3>3 DEF Once, Coded
    <3> QED
      BY <1>0, <2>4, <3>2, <3>3, <3>4, <3>5, RepliesAppended
  <2>7. CASE SendCommand /\ cmd = "PASV"
    <3>1. pc = "send" /\ srv'.replies = srv.replies
      BY <1>0, <2>7 DEF SendCommand, Send, Servers
    <3>2. Pasvs(srv.cmds) = 0 /\ ~Coded(srv.replies, 227)
      BY <2>2, <2>4, <3>1 DEF Waiting
    <3>3. Waiting'
      BY <2>7 DEF SendCommand, Waiting
    <3> QED
      BY <1>0, <2>4, <3>1, <3>2, <3>3, PasvCount
  <2>8. CASE ~(SendCommand /\ cmd = "PASV") /\ ~Waiting
    <3>1. Pasvs(srv.cmds) = 0 /\ ~Coded(srv.replies, 227)
      BY <2>2, <2>4, <2>8
    <3>2. Pasvs(srv'.cmds) = 0
      BY <1>0, <2>4, <2>8, <3>1, PasvCount
    <3> QED
      BY <2>5, <2>6, <3>1, <3>2
  <2>9. CASE ~(SendCommand /\ cmd = "PASV") /\ Waiting /\ Waiting'
    <3>1. Pasvs(srv'.cmds) <= Pasvs(srv.cmds)
      BY <1>0, <2>9, PasvCount
    <3>2. CASE AnswerPasv
      BY <2>6, <2>9, <3>2
    <3>3. CASE ~AnswerPasv
      BY <2>2, <2>4, <2>5, <2>9, <3>1, <3>3
    <3> QED
      BY <3>2, <3>3
  <2>10. CASE ReplyExpected /\ Waiting
    <3>1. PICK n \in DOMAIN srv.replies : srv' = ServerAfter(n) /\ 227 \in CodesIn(n)
      BY <2>10 DEF ReplyExpected, Waiting, Expected
    <3>2. PICK i \in 1 .. n : srv.replies[i].code = 227
      BY <3>1 DEF CodesIn, Read
    <3>3. i \in DOMAIN srv.replies
      BY <1>0, LenProperties
    <3>4. Coded(srv.replies, 227)
      BY <3>2, <3>3 DEF Coded
    <3>5. Pasvs(srv.cmds) = 0 /\ Once(srv.replies, 227)
      BY <2>2, <2>4, <3>4
    <3>6. srv'.replies = SubSeq(srv.replies, n + 1, Len(srv.replies)) /\ srv'.cmds = srv.cmds
      BY <1>0, <3>1, Fields, Basics DEF ServerAfter, Servers
    <3>7. ~Coded(srv'.replies, 227)
      BY <1>0, <3>2, <3>5, <3>6, RepliesTaken
    <3> QED
      BY <3>5, <3>6, <3>7
  <2> QED
    BY <1>0, <1>2, <2>3, <2>7, <2>8, <2>9, <2>10, WaitingSteps
<1> QED
  BY <1>1, <1>2

\* Nothing of the file is read before the connection is open.
IOpening == Opening => part = 0

LEMMA OpeningStep ==
  ASSUME Ind, IOpening, [Next]_vars
  PROVE  IOpening'
<1>0. TypeOK /\ IWorker
  BY DEF Ind, IBase
<1>1. CASE Begin
  BY <1>1 DEF Begin, IOpening
<1>2. CASE ~Begin /\ Opening'
  <2>1. ~(pc' = "put") /\ ~Storing' /\ ~Leaving' /\ ~Asking'
    BY <1>2 DEF Opening, Storing, Leaving, Asking, Early, TransferCommands
  <2>2. ~NextPart /\ ~ReadFails
    BY <1>2 DEF NextPart, ReadFails, Opening, Early, Goto
  <2>3. CASE ReplyOther
    BY <2>3, <1>2 DEF ReplyOther, Opening, IOpening, Early, Expected, Goto, Rest
  <2> QED
    BY <1>0, <1>2, <2>1, <2>2, <2>3, PhaseSteps DEF IOpening
<1> QED
  BY <1>1, <1>2 DEF IOpening

\* What is stored is begun with STOR and goes on with APPE, and each is answered before
\* the next transfer.
IStores ==
  upload > 0 /\ luck # "lost" =>
    /\ pc = "send" /\ cmd \in Stores => cmd = Store /\ T.state = "none"
    /\ \A c \in Stores : Has(srv.cmds, c) => T.state = "none" /\ (Storing => c = Store)
    /\ pc = "put" => T.state = "done" \/ T.pasv = 0

LEMMA StoresStep ==
  ASSUME Ind, IOrder, IPorts, ILock, IOnce, IOpening, IStores, [Next]_vars
  PROVE  IStores'
<1>0. /\ TypeOK /\ IBase /\ IWorker /\ srv \in Servers /\ srv.replies \in Seq(Replies)
      /\ srv.cmds \in Seq(Commands) /\ upload \in 0 .. Len(Parts) /\ Len(Parts) \in Nat
      /\ Uploads = 1 .. Len(Parts) /\ transfer \in [Uploads -> Transfers] /\ Numbers \subseteq Nat
      /\ part \in Nat
  BY Basics DEF Ind, IBase, Servers
<1>1. CASE Begin
  <2>1. pc' = "open" /\ srv' = NoServer
    BY <1>0, <1>1 DEF Begin, IBase, IServer
  <2>2. srv'.cmds = <<>>
    BY <2>1 DEF NoServer
  <2> QED
    BY <2>1, <2>2, HasNone DEF IStores
<1>2. CASE ~Begin
  <2> SUFFICES ASSUME upload' > 0, luck' # "lost"
               PROVE  /\ pc' = "send" /\ cmd' \in Stores => cmd' = Store' /\ T'.state = "none"
                      /\ \A c \in Stores : Has(srv'.cmds, c) =>
                           T'.state = "none" /\ (Storing' => c = Store')
                      /\ pc' = "put" => T'.state = "done" \/ T'.pasv = 0
    BY DEF IStores
  <2>1. upload' = upload /\ upload > 0 /\ luck # "lost" /\ upload \in Uploads
    <3>1. upload' = upload
      BY <1>2, PartSteps DEF NextPart
    <3> QED
      BY <1>0, <1>2, <3>1, LuckSteps
  <2>2. /\ pc = "send" /\ cmd \in Stores => cmd = Store /\ T.state = "none"
        /\ \A c \in Stores : Has(srv.cmds, c) => T.state = "none" /\ (Storing => c = Store)
        /\ pc = "put" => T.state = "done" \/ T.pasv = 0
    BY <2>1 DEF IStores
  <2>3. ~ReplyOther
    BY <1>0, <1>2, <2>1, LuckSteps, NoOtherReply DEF ILock
  <2>4. T \in Transfers /\ T.pasv \in Nat
    BY <1>0, <2>1 DEF T, Transfers
  <2>5. AnswerStore => \E c \in Stores : Has(srv.cmds, c)
    BY <1>0, HasTaken DEF AnswerStore, Serving, NextCommand, Stores
  <2>6. AnswerPasv => Pasvs(srv.cmds) > 0
    <3> SUFFICES ASSUME AnswerPasv PROVE Pasvs(srv.cmds) > 0
      OBVIOUS
    <3>1. ~SendCommand
      BY DEF AnswerPasv, SendCommand, workerVars
    <3>2. Pasvs(srv'.cmds) = Pasvs(srv.cmds) - 1 /\ Pasvs(srv'.cmds) \in Nat /\ Pasvs(srv.cmds) \in Nat
      BY <1>0, <3>1, PasvCount
    <3> QED
      BY <3>2
  <2>7. ~Storing /\ ~Leaving => T'.state = T.state \/ (AnswerPasv /\ T'.state = "none")
    <3>1. ~Storing /\ ~Leaving => /\ T.state \notin {"wait", "open"}
                                  /\ \A c \in Stores : ~Has(srv.cmds, c)
      BY <2>1 DEF IOrder
    <3> QED
      BY <1>0, <1>2, <2>1, <2>5, <3>1, StateSteps
  <2>8. part' = part => Store' = Store
    BY DEF Store
  <2>9. ASSUME pc' = "send", cmd' \in Stores
        PROVE  cmd' = Store' /\ T'.state = "none"
    <3>1. part' = part
      BY <1>0, <1>2, <2>9, WaitingSteps
    <3>2. CASE pc = "send" /\ cmd' = cmd
      <4>1. ~Storing /\ ~Leaving
        BY <2>9, <3>2 DEF Storing, Leaving, Stores
      <4> QED
        BY <2>2, <2>7, <2>8, <2>9, <3>1, <3>2, <4>1
    <3>3. CASE ReplyExpected /\ Waiting /\ cmd' = Store
      <4>1. PICK n \in DOMAIN srv.replies : 227 \in CodesIn(n)
        BY <3>3 DEF ReplyExpected, Waiting, Expected
      <4>2. PICK i \in 1 .. n : srv.replies[i].code = 227
        BY <4>1 DEF CodesIn, Read
      <4>3. i \in DOMAIN srv.replies
        BY <1>0, LenProperties
      <4>4. T.data = "none"
        BY <4>2, <4>3 DEF IPorts
      <4>5. T.state \notin {"open", "done"}
        BY <1>0, <2>1, <4>4 DEF IBase, ITransfer
      <4>6. ~Storing /\ ~Leaving
        BY <3>3 DEF Waiting, Storing, Leaving
      <4>7. T.state = "none"
        BY <2>1, <2>4, <4>5, <4>6 DEF IOrder, Transfers
      <4>8. T' = T
        BY <2>1, <3>3 DEF ReplyExpected, Rest, T
      <4> QED
        BY <2>8, <3>1, <3>3, <4>7, <4>8
    <3> QED
      BY <1>0, <1>2, <2>9, <3>2, <3>3, WaitingSteps
  <2>10. ASSUME NEW c \in Stores, Has(srv'.cmds, c)
         PROVE  T'.state = "none" /\ (Storing' => c = Store')
    <3>1. CASE SendCommand /\ pc = "send" /\ cmd \in Stores
      <4>1. \A d \in Stores : ~Has(srv.cmds, d)
        BY <3>1 DEF IOrder, Storing, Leaving, Stores
      <4>2. c = cmd
        BY <1>0, <2>10, <4>1, PendingSteps DEF Stores, TransferCommands
      <4>3. T' = T /\ part' = part
        BY <2>1, <3>1 DEF SendCommand, Rest, T
      <4> QED
        BY <2>2, <2>8, <3>1, <4>2, <4>3
    <3>2. CASE ~(SendCommand /\ cmd \in Stores)
      <4>1. Has(srv.cmds, c)
        BY <1>0, <2>10, <3>2, PendingSteps DEF Stores, TransferCommands
      <4>2. T.state = "none" /\ (Storing => c = Store) /\ (Storing \/ Leaving)
        BY <2>2, <4>1 DEF IOrder
      <4>3. T'.state = "none"
        <5>1. IOrder'
          BY OrderStep
        <5>2. T'.state # "wait"
          BY <2>1, <2>10, <5>1 DEF IOrder, NonePending, Stores, TransferCommands
        <5> QED
          BY <1>0, <1>2, <2>1, <4>2, <5>2, StateSteps
      <4>4. Storing' => Storing /\ part' = part
        <5> SUFFICES ASSUME Storing' PROVE Storing /\ part' = part
          OBVIOUS
        <5>1. ~Leaving'
          BY DEF Storing, Leaving
        <5>2. Storing
          BY <1>0, <1>2, <4>2, <5>1, LeavingSteps
        <5>3. ~NextPart
          BY <5>2 DEF NextPart, Storing
        <5> QED
          BY <1>2, <5>2, <5>3, PartSteps
      <4> QED
        BY <2>8, <4>2, <4>3, <4>4
    <3> QED
      BY <3>1, <3>2 DEF SendCommand
  <2>11. ASSUME pc' = "put"
         PROVE  T'.state = "done" \/ T'.pasv = 0
    <3>1. ~Opening' /\ ~Asking' /\ ~Storing' /\ ~Leaving'
      BY <2>11 DEF Opening, Asking, Storing, Leaving
    <3>2. CASE pc = "put"
      <4>1. ~Storing /\ ~Leaving /\ ~Waiting
        BY <3>2 DEF Storing, Leaving, Waiting
      <4>2. ~AnswerPasv
        BY <2>1, <2>6, <4>1 DEF IOnce
      <4> QED
        BY <1>0, <1>2, <2>1, <2>2, <2>7, <3>2, <4>1, <4>2, PasvSteps
    <3>3. CASE ReplyExpected /\ cmd = "TYPE"
      <4>1. Opening
        BY <3>3 DEF ReplyExpected, Opening, Early
      <4>2. part = 0
        BY <4>1 DEF IOpening
      <4>3. T.pasv + Pasvs(srv.cmds) + (IF ToSend("PASV") THEN 1 ELSE 0) <= part
            /\ Pasvs(srv.cmds) \in Nat
        BY <1>0, <2>1, PasvsNat DEF Ind, IPasvs
      <4>4. T' = T
        BY <2>1, <3>3 DEF ReplyExpected, Rest, T
      <4> QED
        BY <2>4, <4>2, <4>3, <4>4
    <3>4. CASE PollReply /\ \E n \in DOMAIN srv.replies : 226 \in CodesIn(n)
      <4>1. PICK n \in DOMAIN srv.replies : 226 \in CodesIn(n)
        BY <3>4
      <4>2. PICK i \in 1 .. n : srv.replies[i].code = 226
        BY <4>1 DEF CodesIn, Read
      <4>3. i \in DOMAIN srv.replies
        BY <1>0, LenProperties
      <4>4. T.state = "done"
        BY <4>2, <4>3 DEF IOrder, Coded
      <4>5. T' = T
        BY <2>1, <3>4 DEF PollReply, Rest, T
      <4> QED
        BY <4>4, <4>5
    <3>5. ~ReadFails /\ ~NextPart
      BY <2>11 DEF ReadFails, NextPart, Goto
    <3> QED
      BY <1>0, <1>2, <2>3, <3>1, <3>2, <3>3, <3>4, <3>5, PhaseSteps
  <2> QED
    BY <2>9, <2>10, <2>11
<1> QED
  BY <1>1, <1>2

\* What has come of the transfer at hand is of this part, and all of it when the data
\* connection has ended and the server can still say so.
ICame ==
  upload > 0 /\ luck # "lost" =>
    /\ T.pasv = 0 => T.data = "none"
    /\ Of(T.bytes, <<upload, part>>)
    /\ T.data = "ended" /\ T.state # "done" /\ srv.link = "up" => Len(T.bytes) = 2

LEMMA LinkSteps ==
  ASSUME TypeOK, [Next]_vars, srv'.link = "up"
  PROVE  Connect \/ srv.link = "up"
<1>1. client \in Clients /\ wq \in Queues /\ srv \in Servers
  BY Basics
<1> QED
  BY <1>1, CommandSteps, Fields DEF Serving, Servers

LEMMA CameStep ==
  ASSUME Ind, IOrder, ISocks, IStores, ICame, [Next]_vars
  PROVE  ICame'
<1>0. /\ TypeOK /\ IBase /\ IFresh /\ IConn /\ ITransfer /\ srv \in Servers
      /\ srv.cmds \in Seq(Commands) /\ upload \in 0 .. Len(Parts) /\ Len(Parts) \in Nat
      /\ Uploads = 1 .. Len(Parts) /\ transfer \in [Uploads -> Transfers] /\ Numbers \subseteq Nat
  BY Basics DEF Ind, IBase, Servers
<1>1. CASE Begin
  <2>1. upload' \in Uploads /\ pc' = "open"
    BY <1>0, <1>1 DEF Begin
  <2>2. T' = NoTransfer
    BY <1>0, <2>1, FreshStep DEF IFresh
  <2> QED
    BY <2>2 DEF ICame, NoTransfer, Of
<1>2. CASE ~Begin
  <2> SUFFICES ASSUME upload' > 0, luck' # "lost"
               PROVE  /\ T'.pasv = 0 => T'.data = "none"
                      /\ Of(T'.bytes, <<upload', part'>>)
                      /\ T'.data = "ended" /\ T'.state # "done" /\ srv'.link = "up" =>
                           Len(T'.bytes) = 2
    BY DEF ICame
  <2>1. upload' = upload /\ upload > 0 /\ luck # "lost" /\ upload \in Uploads
    <3>1. upload' = upload
      BY <1>2, PartSteps DEF NextPart
    <3> QED
      BY <1>0, <1>2, <3>1, LuckSteps
  <2>2. /\ T.pasv = 0 => T.data = "none"
        /\ Of(T.bytes, <<upload, part>>)
        /\ T.data = "ended" /\ T.state # "done" /\ srv.link = "up" => Len(T.bytes) = 2
    BY <2>1 DEF ICame
  <2>3. T \in Transfers /\ T.pasv \in Nat /\ T.bytes \in Seq(Contents)
    BY <1>0, <2>1 DEF T, Transfers
  <2>4. T'.pasv = 0 => T'.data = "none"
    <3> SUFFICES ASSUME T'.pasv = 0 PROVE T'.data = "none"
      OBVIOUS
    <3>1. /\ T'.pasv = T.pasv \/ T'.pasv = T.pasv + 1
          /\ \/ T'.data = T.data \/ T'.data = "none" \/ establish_data_channel \/ T.data = "open"
      BY <1>0, <1>2, <2>1, PasvSteps
    <3>2. T.pasv = 0
      BY <2>3, <3>1
    <3>3. ~establish_data_channel
      BY <1>0, <2>3, <3>2, Established
    <3> QED
      BY <2>2, <3>1, <3>2, <3>3
  <2>5. Of(T'.bytes, <<upload, part'>>)
    <3>1. CASE T'.bytes = <<>>
      BY <3>1 DEF Of
    <3>2. CASE T'.bytes = T.bytes /\ part' # part
      <4>1. pc = "put"
        BY <1>2, <3>2, PartSteps DEF NextPart
      <4>2. T.state = "done" \/ T.data = "none"
        BY <2>1, <2>2, <4>1 DEF IStores
      <4> QED
        BY <1>0, <2>1, <3>1, <3>2, <4>2 DEF ITransfer
    <3>3. CASE T'.bytes = T.bytes /\ part' = part
      BY <2>2, <3>3
    <3>4. CASE T'.bytes = T.bytes \o <<buffer>> /\ part' = part /\ buffer \in Contents
      BY <1>0, <2>2, <2>3, <3>4, OfAppended DEF IFresh
    <3> QED
      BY <1>2, <2>1, <3>1, <3>2, <3>3, <3>4, FileSteps
  <2>6. ASSUME T'.data = "ended", T'.state # "done", srv'.link = "up"
        PROVE  Len(T'.bytes) = 2
    <3>1. CASE SendFirstHalf \/ SendSecondHalf \/ SendDataFails
      <4>1. wq.pc \in {"sending", "half"} /\ srv' = srv /\ T'.state = T.state
        BY <1>0, <2>1, <3>1, OtherData DEF SendFirstHalf, SendSecondHalf, SendDataFails, T
      <4>2. CASE ~Current
        <5>1. T' = T
          BY <1>0, <2>1, <3>1, <4>2, OtherData DEF T
        <5> QED
          BY <2>2, <2>6, <4>1, <5>1
      <4>3. CASE Current
        <5>1. wq.port # NoPort /\ wq.port[1] = upload /\ wq.port[2] = T.pasv /\ buffer \in Contents
          BY <1>0, <4>1, <4>3, DataIsOfUpload DEF Current
        <5>2. ~SendDataFails
          BY <1>2, <2>6, <4>1, <5>1, LuckSteps DEF ISocks
        <5>3. ASSUME NEW data \in {"open", "ended"}, DataArrives(data, <<buffer>>)
              PROVE  T'.data = data /\ T'.bytes = T.bytes \o <<buffer>>
          <6>1. <<buffer>> \in Seq(Contents)
            BY <5>1
          <6>2. T' = [T EXCEPT !.data = data, !.bytes = T.bytes \o <<buffer>>]
            BY <1>0, <2>1, <5>1, <5>3, <6>1, Arrivals DEF T
          <6> QED
            BY <2>3, <6>2 DEF Transfers
        <5>4. ~SendFirstHalf
          BY <2>6, <5>3 DEF SendFirstHalf
        <5>5. SendSecondHalf
          BY <3>1, <5>2, <5>4
        <5>6. wq.pc = "half" /\ T'.bytes = T.bytes \o <<buffer>>
          BY <5>3, <5>5 DEF SendSecondHalf, DataEnds
        <5>7. Len(T.bytes) = 1
          BY <1>0, <2>1, <4>3, <5>6 DEF ITransfer
        <5>8. Len(T.bytes \o <<buffer>>) = Len(T.bytes) + Len(<<buffer>>)
          BY <2>3, <5>1, ConcatProperties
        <5> QED
          BY <5>6, <5>7, <5>8
      <4> QED
        BY <4>2, <4>3
    <3>2. CASE AnswerPasv
      <4>1. T'.data = "none"
        BY <1>0, <2>1, <3>2 DEF AnswerPasv, NoTransfer, T
      <4> QED
        BY <2>6, <4>1
    <3>3. CASE establish_data_channel
      <4>1. T'.data = "open"
        BY <1>0, <2>1, <2>3, <3>3, Established DEF T, Transfers
      <4> QED
        BY <2>6, <4>1
    <3>4. CASE AnswerStore
      <4>1. T'.data = T.data /\ T'.bytes = T.bytes
        BY <1>0, <2>1, <2>3, <3>4 DEF AnswerStore, T, Transfers
      <4>2. srv.link = "up" /\ \E c \in Stores : Has(srv.cmds, c)
        BY <1>0, <3>4, HasTaken DEF AnswerStore, Serving, NextCommand, Stores
      <4>3. T.state = "none"
        BY <2>1, <4>2 DEF IStores
      <4> QED
        BY <2>2, <2>6, <4>1, <4>2, <4>3
    <3>5. CASE OpenTransfer
      <4>1. T'.data = T.data /\ T'.bytes = T.bytes /\ T.state = "wait" /\ srv.link = "up"
        BY <1>0, <2>1, <2>3, <3>5 DEF OpenTransfer, T, Transfers
      <4> QED
        BY <2>2, <2>6, <4>1
    <3>6. CASE EndTransfer
      <4>1. T'.state = "done"
        BY <1>0, <2>1, <2>3, <3>6 DEF EndTransfer, T, Transfers
      <4> QED
        BY <2>6, <4>1
    <3>7. CASE UNCHANGED <<upload, transfer, file>>
      <4>1. T' = T
        BY <3>7 DEF T
      <4>2. ~Connect
        <5>1. Connect => T.data = "none"
          BY <1>0 DEF Connect, IFresh, NoTransfer
        <5> QED
          BY <2>6, <4>1, <5>1
      <4> QED
        BY <1>0, <2>2, <2>6, <4>1, <4>2, LinkSteps
    <3> QED
      BY <1>2, <3>1, <3>2, <3>3, <3>4, <3>5, <3>6, <3>7, TransferSteps
  <2> QED
    BY <2>1, <2>4, <2>5, <2>6
<1> QED
  BY <1>1, <1>2

\* The first k parts of upload u, in halves of buffers.
FirstParts(u, k) == [i \in 1 .. 2 * k |-> <<u, (i + 1) \div 2>>]
Complete(k) == file[upload] = FirstParts(upload, k)

LEMMA NextPartStored ==
  ASSUME NEW u \in Nat, NEW k \in Nat, NEW f \in Seq(Contents), NEW b \in Seq(Contents),
         f = FirstParts(u, k), Of(b, <<u, k + 1>>), Len(b) = 2
  PROVE  f \o b = FirstParts(u, k + 1)
<1> DEFINE s == f \o b
<1>1. /\ Len(f) \in Nat /\ DOMAIN f = 1 .. Len(f) /\ DOMAIN b = 1 .. 2
      /\ \A i \in 1 .. 2 : b[i] = <<u, k + 1>>
  BY LenProperties DEF Of
<1>2. Len(f) = 2 * k
  <2>1. DOMAIN f = 1 .. 2 * k /\ 2 * k \in Nat
    BY DEF FirstParts
  <2>2. PICK m \in Nat, n \in Nat : m = Len(f) /\ n = 2 * k /\ 1 .. m = 1 .. n
    BY <1>1, <2>1
  <2>3. (m = 0 \/ m \in 1 .. n) /\ (n = 0 \/ n \in 1 .. m)
    BY <2>2
  <2>4. m = n
    BY <2>3
  <2> QED
    BY <2>2, <2>4
<1>3. /\ s \in Seq(Contents) /\ Len(s) = Len(f) + 2
      /\ \A i \in 1 .. Len(f) + 2 : s[i] = IF i <= Len(f) THEN f[i] ELSE b[i - Len(f)]
  <2>1. /\ s \in Seq(Contents) /\ Len(s) = Len(f) + Len(b)
        /\ \A i \in 1 .. Len(f) + Len(b) : s[i] = IF i <= Len(f) THEN f[i] ELSE b[i - Len(f)]
    BY ConcatProperties
  <2> QED
    BY <2>1
<1>4. DOMAIN s = 1 .. 2 * (k + 1) /\ s = [i \in DOMAIN s |-> s[i]]
  <2>1. s = [i \in 1 .. Len(s) |-> s[i]] /\ DOMAIN s = 1 .. Len(s)
    BY <1>3, LenProperties
  <2>2. Len(s) = 2 * (k + 1)
    BY <1>2, <1>3
  <2> QED
    BY <2>1, <2>2
<1> HIDE DEF s
<1>5. ASSUME NEW i \in 1 .. 2 * (k + 1)
      PROVE  s[i] = <<u, (i + 1) \div 2>>
  <2>1. CASE i <= 2 * k
    <3>1. s[i] = f[i] /\ i \in 1 .. 2 * k
      BY <1>2, <1>3, <2>1
    <3> QED
      BY <3>1 DEF FirstParts
  <2>2. CASE ~(i <= 2 * k)
    <3>1. i = 2 * k + 1 \/ i = 2 * k + 2
      BY <2>2
    <3>2. i - Len(f) \in 1 .. 2 /\ i \in 1 .. Len(f) + 2 /\ ~(i <= Len(f))
      BY <1>2, <3>1
    <3>3. s[i] = <<u, k + 1>>
      BY <1>1, <1>3, <3>2
    <3>4. ((i + 1) \div 2) = k + 1
      BY <3>1
    <3> QED
      BY <3>3, <3>4
  <2> QED
    BY <2>1, <2>2
<1>6. s = FirstParts(u, k + 1)
  BY <1>4, <1>5 DEF FirstParts
<1> QED
  BY <1>6 DEF s

\* What the server's file holds, by where the worker is in the upload.
IWhole ==
  upload > 0 /\ luck # "lost" =>
    /\ Opening \/ pc = "put" => Complete(part)
    /\ Asking => part > 0 /\ Complete(part - 1)
    /\ Storing => part > 0 /\ Complete(IF T.state = "done" THEN part ELSE part - 1)
    /\ Leaving /\ ret = 0 => /\ part = Parts[upload] /\ Complete(part)
                             /\ T.state \notin {"wait", "open"}
                             /\ \A c \in Stores : ~Has(srv.cmds, c)

LEMMA WholeStep ==
  ASSUME Ind, IOrder, ILock, IOnce, IStores, ICame, IWhole, [Next]_vars
  PROVE  IWhole'
<1>0. /\ TypeOK /\ IBase /\ IWorker /\ IFresh /\ srv \in Servers /\ cmd \in Commands
      /\ srv.cmds \in Seq(Commands) /\ upload \in 0 .. Len(Parts) /\ Len(Parts) \in Nat
      /\ Uploads = 1 .. Len(Parts) /\ transfer \in [Uploads -> Transfers]
      /\ file \in [Uploads -> Seq(Contents)] /\ part \in Nat
      /\ srv.replies \in Seq(Replies) /\ ret \in {-1, 0}
  BY Basics DEF Ind, IBase, Servers, TypeOK
<1>1. /\ Opening' \/ pc' = "put" => ~Asking' /\ ~Storing' /\ ~Leaving'
      /\ Asking' => ~Storing' /\ ~Leaving'
      /\ Storing' => ~Leaving'
  BY DEF Opening, Asking, Storing, Leaving, Early, TransferCommands
<1>2. CASE Begin
  <2>1. upload' = upload + 1 /\ upload' \in Uploads /\ pc' = "open" /\ part' = 0
    BY <1>0, <1>2 DEF Begin
  <2>2. file'[upload'] = file[upload']
    <3>1. file' = file \/ file' = [file EXCEPT ![upload] = Arrived(upload)]
      BY <1>2 DEF Begin
    <3> QED
      BY <1>0, <2>1, <3>1
  <2>3. file[upload'] = <<>>
    BY <1>0, <2>1 DEF IFresh
  <2>4. FirstParts(upload', 0) = <<>>
    BY DEF FirstParts
  <2>5. Opening' /\ Complete(part)'
    BY <2>1, <2>2, <2>3, <2>4 DEF Opening, Complete
  <2> QED
    BY <1>1, <2>5 DEF IWhole
<1>3. CASE ~Begin
  <2> SUFFICES ASSUME upload' > 0, luck' # "lost"
               PROVE  /\ Opening' \/ pc' = "put" => Complete(part)'
                      /\ Asking' => part' > 0 /\ Complete(part - 1)'
                      /\ Storing' => /\ part' > 0
                                     /\ Complete(IF T.state = "done" THEN part ELSE part - 1)'
                      /\ Leaving' /\ ret' = 0 => /\ part' = Parts[upload'] /\ Complete(part)'
                                                 /\ T'.state \notin {"wait", "open"}
                                                 /\ \A c \in Stores : ~Has(srv'.cmds, c)
    BY DEF IWhole
  <2>1. upload' = upload /\ upload > 0 /\ luck # "lost" /\ upload \in Uploads
    <3>1. upload' = upload
      BY <1>3, PartSteps DEF NextPart
    <3> QED
      BY <1>0, <1>3, <3>1, LuckSteps
  <2>2. /\ Opening \/ pc = "put" => Complete(part)
        /\ Asking => part > 0 /\ Complete(part - 1)
        /\ Storing => part > 0 /\ Complete(IF T.state = "done" THEN part ELSE part - 1)
        /\ Leaving /\ ret = 0 => /\ part = Parts[upload] /\ Complete(part)
                                 /\ T.state \notin {"wait", "open"}
                                 /\ \A c \in Stores : ~Has(srv.cmds, c)
    BY <2>1 DEF IWhole
  <2>3. T \in Transfers /\ T.bytes \in Seq(Contents) /\ file[upload] \in Seq(Contents)
        /\ upload \in Nat
    BY <1>0, <2>1 DEF T, Transfers
  <2>4. ~ReplyOther /\ ~ReadFails
    BY <1>0, <1>3, <2>1, LuckSteps, NoOtherReply DEF ILock
  <2>5. CASE AnswerStore
    <3>1. PICK c \in Stores : c = NextCommand /\ Has(srv.cmds, c)
      BY <1>0, <2>5, HasTaken DEF AnswerStore, Serving, NextCommand, Stores
    <3>2. T.state = "none" /\ (Storing => c = Store) /\ (Storing \/ Leaving)
      BY <2>1, <3>1 DEF IStores, IOrder
    <3>3. UNCHANGED <<pc, cmd, part, ret>>
      BY <2>5 DEF AnswerStore, workerVars
    <3>4. T'.state \in {"none", "wait"}
      BY <1>0, <1>3, <2>1, <2>5, <3>2, StateSteps
      DEF AnswerStore, AnswerPasv, Stores
    <3>5. CASE Storing
      <4>1. file' = file \/ (c = "STOR" /\ file' = [file EXCEPT ![upload] = <<>>])
        BY <2>5, <3>1 DEF AnswerStore
      <4>2. part > 0 /\ Complete(part - 1)
        BY <2>2, <3>2, <3>5
      <4>3. Complete(part - 1)'
        <5>1. CASE file' = file
          BY <2>1, <3>3, <4>2, <5>1 DEF Complete
        <5>2. CASE c = "STOR" /\ file' = [file EXCEPT ![upload] = <<>>]
          <6>1. part = 1 /\ part' - 1 = 0
            BY <3>2, <3>3, <3>5, <5>2 DEF Store
          <6>2. FirstParts(upload, 0) = <<>>
            BY DEF FirstParts
          <6> QED
            BY <1>0, <2>1, <5>2, <6>1, <6>2 DEF Complete
        <5> QED
          BY <4>1, <5>1, <5>2
      <4>4. Storing'
        BY <3>3, <3>5 DEF Storing
      <4>5. Complete(IF T.state = "done" THEN part ELSE part - 1)'
        BY <3>4, <4>3
      <4> QED
        BY <1>1, <3>3, <4>2, <4>4, <4>5
    <3>6. CASE Leaving
      <4>1. Leaving' /\ ret' # 0
        BY <2>2, <3>1, <3>3, <3>6 DEF Leaving
      <4> QED
        BY <1>1, <4>1
    <3> QED
      BY <3>2, <3>5, <3>6
  <2>6. CASE EndTransfer
    <3>1. UNCHANGED <<pc, cmd, part, ret>> /\ T.state = "open" /\ T.data = "ended" /\ srv.link = "up"
      BY <2>6 DEF EndTransfer, workerVars, T
    <3>2. Storing \/ Leaving
      BY <2>1, <3>1 DEF IOrder
    <3>3. CASE Storing
      <4>1. Len(T.bytes) = 2 /\ Of(T.bytes, <<upload, part>>)
        BY <2>1, <3>1 DEF ICame
      <4>2. part > 0 /\ Complete(part - 1)
        BY <2>2, <3>1, <3>3
      <4>3. file'[upload] = file[upload] \o T.bytes
        BY <1>0, <2>1, <2>6 DEF EndTransfer, T
      <4>4. PICK k \in Nat : k = part - 1 /\ k + 1 = part
        BY <1>0, <4>2
      <4>5. file[upload] = FirstParts(upload, k)
        BY <4>2, <4>4 DEF Complete
      <4>6. Of(T.bytes, <<upload, k + 1>>)
        BY <4>1, <4>4
      <4>7. file[upload] \o T.bytes = FirstParts(upload, k + 1)
        BY <2>3, <4>1, <4>5, <4>6, NextPartStored
      <4>8. Complete(part)'
        BY <2>1, <3>1, <4>3, <4>4, <4>7 DEF Complete
      <4>9. T'.state = "done"
        BY <1>0, <2>1, <2>3, <2>6 DEF EndTransfer, T, Transfers
      <4>10. Storing'
        BY <3>1, <3>3 DEF Storing
      <4>11. Complete(IF T.state = "done" THEN part ELSE part - 1)'
        BY <4>8, <4>9
      <4> QED
        BY <1>1, <3>1, <4>2, <4>10, <4>11
    <3>4. CASE Leaving
      <4>1. Leaving' /\ ret' # 0
        BY <2>2, <3>1, <3>4 DEF Leaving
      <4> QED
        BY <1>1, <4>1
    <3> QED
      BY <3>2, <3>3, <3>4
  <2>7. CASE ~AnswerStore /\ ~EndTransfer
    <3>1. file'[upload] = file[upload]
      BY <1>3, <2>1, <2>7, FileSteps
    <3>2. \A k : (file'[upload'] = FirstParts(upload', k)) <=> Complete(k)
      BY <2>1, <3>1 DEF Complete
    <3>3. \/ T'.state = T.state
          \/ AnswerPasv /\ T'.state = "none"
          \/ OpenTransfer /\ T.state = "wait" /\ T'.state = "open"
      BY <1>0, <1>3, <2>1, <2>7, StateSteps
    <3>4. AnswerPasv => ~Storing
      <4> SUFFICES ASSUME AnswerPasv PROVE ~Storing
        OBVIOUS
      <4>1. ~SendCommand
        BY DEF AnswerPasv, SendCommand, workerVars
      <4>2. Pasvs(srv'.cmds) = Pasvs(srv.cmds) - 1 /\ Pasvs(srv'.cmds) \in Nat /\ Pasvs(srv.cmds) \in Nat
        BY <1>0, <4>1, PasvCount
      <4>3. Pasvs(srv.cmds) > 0
        BY <4>2
      <4> QED
        BY <2>1, <4>3 DEF IOnce, Waiting, Storing, Leaving
    <3>5. CASE UNCHANGED part /\ ((Opening /\ Opening') \/ (pc = "put" /\ pc' = "put"))
      <4>1. Complete(part)'
        BY <2>2, <3>2, <3>5 DEF Complete
      <4> QED
        BY <1>1, <3>5, <4>1
    <3>6. CASE UNCHANGED part /\ Asking /\ Asking'
      <4>1. Complete(part - 1)' /\ part' > 0
        BY <2>2, <3>2, <3>6 DEF Complete
      <4> QED
        BY <1>1, <3>6, <4>1
    <3>7. CASE UNCHANGED part /\ Storing /\ Storing'
      <4>1. T'.state = "done" <=> T.state = "done"
        BY <3>3, <3>4, <3>7
      <4>2. Complete(IF T.state = "done" THEN part ELSE part - 1)' /\ part' > 0
        BY <2>2, <3>2, <3>7, <4>1 DEF Complete
      <4> QED
        BY <1>1, <3>7, <4>2
    <3>8. CASE UNCHANGED <<part, ret>> /\ Leaving /\ Leaving'
      <4> SUFFICES ASSUME ret = 0
                   PROVE  /\ part' = Parts[upload'] /\ Complete(part)'
                          /\ T'.state \notin {"wait", "open"}
                          /\ \A c \in Stores : ~Has(srv'.cmds, c)
        BY <1>1, <3>8
      <4>1. Complete(part)'
        BY <2>2, <3>2, <3>8 DEF Complete
      <4>2. ASSUME NEW c \in Stores PROVE ~Has(srv'.cmds, c)
        <5>1. c \in TransferCommands
          BY DEF Stores, TransferCommands
        <5>2. SendCommand /\ cmd = c => ~Leaving
          BY DEF SendCommand, Leaving, Stores
        <5> QED
          BY <1>0, <2>2, <3>8, <5>1, <5>2, PendingSteps
      <4> QED
        BY <2>1, <2>2, <3>3, <3>8, <4>1, <4>2
    <3>9. CASE Leaving' /\ ret' = -1
      BY <1>1, <3>9
    <3>10. CASE NextPart
      <4>1. pc = "put" /\ Complete(part) /\ srv' = srv /\ T' = T
        BY <2>1, <2>2, <3>10 DEF NextPart, T
      <4>2. Parts[upload] \in Nat \ {0}
        BY <2>1, BoundAssumption DEF Uploads
      <4>3. CASE part < Parts[upload]
        <5>1. part' = part + 1 /\ pc' = "send" /\ cmd' = "PASV"
          BY <3>10, <4>3 DEF NextPart, Goto
        <5>2. Asking' /\ part' > 0 /\ part' - 1 = part
          BY <1>0, <5>1 DEF Asking, TransferCommands
        <5>3. Complete(part - 1)'
          BY <3>2, <4>1, <5>2 DEF Complete
        <5> QED
          BY <1>1, <5>2, <5>3
      <4>4. CASE ~(part < Parts[upload])
        <5>1. pc' = "close" /\ part' = part
          BY <3>10, <4>4 DEF NextPart
        <5>2. part <= Parts[upload] \/ part = 0
          BY <1>0 DEF IFresh
        <5>3. part = Parts[upload]
          BY <1>0, <4>2, <4>4, <5>2
        <5>4. T.state \notin {"wait", "open"} /\ \A c \in Stores : ~Has(srv.cmds, c)
          BY <2>1, <4>1 DEF IOrder, Storing, Leaving
        <5>5. Complete(part)'
          BY <3>2, <4>1, <5>1 DEF Complete
        <5>6. Leaving'
          BY <5>1 DEF Leaving
        <5> QED
          BY <1>1, <2>1, <4>1, <5>1, <5>3, <5>4, <5>5, <5>6
      <4> QED
        BY <4>3, <4>4
    <3>11. CASE ReplyExpected /\ cmd = "TYPE" /\ pc' = "put" /\ UNCHANGED part
      <4>1. Opening
        BY <3>11 DEF ReplyExpected, Opening, Early
      <4>2. Complete(part)'
        BY <2>2, <3>2, <3>11, <4>1 DEF Complete
      <4> QED
        BY <1>1, <3>11, <4>2
    <3>12. CASE SendCommand /\ cmd \in Stores /\ Storing' /\ UNCHANGED part
      <4>1. pc = "send" /\ T' = T
        BY <2>1, <3>12 DEF SendCommand, Rest, T
      <4>2. Asking /\ T.state = "none"
        BY <2>1, <3>12, <4>1 DEF Asking, IStores, Stores, TransferCommands
      <4>3. Complete(part - 1)' /\ part' > 0
        BY <2>2, <3>2, <3>12, <4>2 DEF Complete
      <4>4. Complete(IF T.state = "done" THEN part ELSE part - 1)'
        BY <4>1, <4>2, <4>3
      <4> QED
        BY <1>1, <3>12, <4>3, <4>4
    <3>13. CASE /\ PollReply /\ pc = "poll" /\ pc' = "put" /\ UNCHANGED part
                /\ \E n \in DOMAIN srv.replies : 226 \in CodesIn(n)
      <4>1. PICK n \in DOMAIN srv.replies : 226 \in CodesIn(n)
        BY <3>13
      <4>2. PICK i \in 1 .. n : srv.replies[i].code = 226
        BY <4>1 DEF CodesIn, Read
      <4>3. i \in DOMAIN srv.replies
        BY <1>0, LenProperties
      <4>4. T.state = "done"
        BY <4>2, <4>3 DEF IOrder, Coded
      <4>5. Complete(part)'
        BY <2>2, <3>2, <3>13, <4>4 DEF Complete, Storing
      <4> QED
        BY <1>1, <3>13, <4>5
    <3> QED
      BY <1>0, <1>3, <2>4, <3>5, <3>6, <3>7, <3>8, <3>9, <3>10, <3>11, <3>12, <3>13, PhaseSteps, Zenon
  <2> QED
    BY <2>5, <2>6, <2>7
<1> QED
  BY <1>2, <1>3

\* All that is known of an upload that is not lost.
IUpload ==
  /\ Ind /\ IOrder /\ IPorts /\ ILock /\ ISocks /\ IOnce /\ IOpening /\ IStores /\ ICame /\ IWhole

LEMMA UploadInductive == Spec => []IUpload
<1>1. Init => IUpload
  <2> SUFFICES ASSUME Init PROVE IUpload
    OBVIOUS
  <2>1. /\ srv.cmds = <<>> /\ srv.replies = <<>> /\ client.pasv = NoPort /\ upload = 0
        /\ wq.sock = "none" /\ pc = "idle"
    BY DEF Init, NoServer
  <2>2. IOrder
    BY <2>1, HasNone DEF IOrder, NoneLater, Coded, Once
  <2>3. IPorts
    BY <2>1 DEF IPorts, NoPort
  <2>4. ILock /\ ISocks /\ IOnce /\ IOpening /\ IStores /\ ICame /\ IWhole
    BY <2>1 DEF ILock, ISocks, IOnce, IOpening, Opening, IStores, ICame, IWhole
  <2> QED
    BY <2>2, <2>3, <2>4, IndInit DEF IUpload
<1>2. IUpload /\ [Next]_vars => IUpload'
  BY IndStep, OrderStep, PortStep, LockStep, SocksStep, OnceStep, OpeningStep, StoresStep, CameStep,
     WholeStep DEF IUpload
<1> QED
  BY <1>1, <1>2, PTL DEF Spec

\* The file of an upload that has ended with 0 is whole.
LEMMA WholeAtEnd ==
  ASSUME IUpload, pc = "idle", upload > 0, ret = 0, luck # "lost"
  PROVE  Uploaded
<1>1. Leaving
  BY DEF Leaving
<1>2. part = Parts[upload] /\ Complete(part)
  BY <1>1 DEF IUpload, IWhole
<1> QED
  BY <1>2 DEF Uploaded, Whole, Complete, FirstParts

\* Over late replies, breaks, and the data task and the keepalive at any time: an upload
\* that returns 0 is whole at the server, unless it skipped data.
THEOREM ZeroIsWhole == Spec => []ZeroMeansUploaded
<1>1. IUpload => ZeroMeansUploaded
  BY WholeAtEnd DEF ZeroMeansUploaded
<1> QED
  BY <1>1, UploadInductive, PTL

\* An upload on which nothing fails and no reply is late is whole and returns 0, whatever
\* the pace of the threads, the server and the data.
THEOREM ServedIsUploaded == Spec => []UploadedWhenServed
<1>1. IUpload => UploadedWhenServed
  <2> SUFFICES ASSUME IUpload, pc = "idle", upload > 0, luck = "served"
               PROVE  Uploaded
    BY DEF UploadedWhenServed
  <2>1. ret = 0
    BY DEF IUpload, ILock, Lock
  <2> QED
    BY <2>1, WholeAtEnd
<1> QED
  BY <1>1, UploadInductive, PTL

-----------------------------------------------------------------------------
(* What UploadStore promises *)

\* STOR is sent for the first part only, and the file is empty until it is answered.
IUnstored ==
  upload > 0 =>
    /\ part = 0 \/ (part = 1 /\ Asking) \/ Has(srv.cmds, "STOR") => file[upload] = <<>>
    /\ (pc = "send" /\ cmd = "STOR") \/ Has(srv.cmds, "STOR") => part = 1

\* Where there is a transfer there is a part.
LEMMA TransferPart ==
  ASSUME Ind, upload > 0, T.state # "none"
  PROVE  part > 0
<1>0. /\ transfer \in [Uploads -> Transfers] /\ part \in Nat /\ srv \in Servers
      /\ upload \in Uploads /\ ITransfer
  BY Basics DEF Ind, IBase
<1>1. T.pasv > 0 /\ T.pasv \in Nat
  BY <1>0, Basics DEF Ind, IBase, ITransfer, Transfers, T
<1>2. Pasvs(srv.cmds) \in Nat
  BY <1>0, PasvsNat DEF Servers
<1>3. T.pasv + Pasvs(srv.cmds) + (IF ToSend("PASV") THEN 1 ELSE 0) <= part
  BY <1>0 DEF Ind, IPasvs
<1> QED
  BY <1>0, <1>1, <1>2, <1>3

LEMMA UnstoredStep ==
  ASSUME Ind, IOrder, IUnstored, [Next]_vars
  PROVE  IUnstored'
<1>0. /\ TypeOK /\ IBase /\ IWorker /\ IFresh /\ srv \in Servers
      /\ srv.cmds \in Seq(Commands) /\ upload \in 0 .. Len(Parts) /\ Len(Parts) \in Nat
      /\ Uploads = 1 .. Len(Parts) /\ transfer \in [Uploads -> Transfers]
      /\ file \in [Uploads -> Seq(Contents)] /\ part \in Nat
  BY Basics DEF Ind, IBase, Servers
<1>1. CASE Begin
  <2>1. upload' = upload + 1 /\ upload' \in Uploads /\ pc' = "open" /\ part' = 0 /\ srv' = NoServer
    BY <1>0, <1>1 DEF Begin, IBase, IServer
  <2>2. file'[upload'] = <<>>
    <3>1. file' = file \/ file' = [file EXCEPT ![upload] = Arrived(upload)]
      BY <1>1 DEF Begin
    <3>2. file'[upload'] = file[upload']
      BY <1>0, <2>1, <3>1
    <3> QED
      BY <1>0, <2>1, <3>2 DEF IFresh
  <2>3. ~Has(srv'.cmds, "STOR")
    BY <2>1, HasNone DEF NoServer
  <2> QED
    BY <2>1, <2>2, <2>3 DEF IUnstored
<1>2. CASE ~Begin
  <2> SUFFICES ASSUME upload' > 0
               PROVE  /\ part' = 0 \/ (part' = 1 /\ Asking') \/ Has(srv'.cmds, "STOR") =>
                           file'[upload'] = <<>>
                      /\ (pc' = "send" /\ cmd' = "STOR") \/ Has(srv'.cmds, "STOR") => part' = 1
    BY DEF IUnstored
  <2>1. upload' = upload /\ upload > 0 /\ upload \in Uploads
    <3>1. upload' = upload
      BY <1>2, PartSteps DEF NextPart
    <3> QED
      BY <1>0, <3>1
  <2>2. /\ part = 0 \/ (part = 1 /\ Asking) \/ Has(srv.cmds, "STOR") => file[upload] = <<>>
        /\ (pc = "send" /\ cmd = "STOR") \/ Has(srv.cmds, "STOR") => part = 1
    BY <2>1 DEF IUnstored
  <2>3. Has(srv.cmds, "STOR") => pc # "put"
    BY DEF IOrder, Storing, Leaving, Stores
  <2>4. Has(srv'.cmds, "STOR") =>
          /\ Has(srv.cmds, "STOR") \/ (pc = "send" /\ cmd = "STOR" /\ Asking)
          /\ part' = part
    <3> SUFFICES ASSUME Has(srv'.cmds, "STOR")
                 PROVE  /\ Has(srv.cmds, "STOR") \/ (pc = "send" /\ cmd = "STOR" /\ Asking)
                        /\ part' = part
      OBVIOUS
    <3>1. Has(srv.cmds, "STOR") \/ (SendCommand /\ cmd = "STOR")
      BY <1>0, PendingSteps DEF TransferCommands
    <3>2. CASE Has(srv.cmds, "STOR")
      BY <1>2, <2>3, <3>2, PartSteps DEF NextPart
    <3>3. CASE SendCommand /\ cmd = "STOR"
      BY <3>3 DEF SendCommand, Rest, Asking, TransferCommands
    <3> QED
      BY <3>1, <3>2, <3>3
  <2>5. pc' = "send" /\ cmd' = "STOR" => part' = 1
    <3>1. pc' = "send" /\ cmd' = "STOR" =>
            part' = part /\ ((pc = "send" /\ cmd = "STOR") \/ Store = "STOR")
      BY <1>0, <1>2, WaitingSteps DEF Stores
    <3> QED
      BY <2>2, <3>1 DEF Store
  <2>6. part' = 0 => part = 0
    BY <1>0, <1>2, PartSteps DEF NextPart
  <2>7. part' = 1 /\ Asking' => part = 0 \/ (part = 1 /\ Asking)
    <3> SUFFICES ASSUME part' = 1, Asking', part # 0
                 PROVE  part = 1 /\ Asking
      OBVIOUS
    <3>1. ~Opening' /\ pc' # "put" /\ ~Storing' /\ ~Leaving'
      BY DEF Opening, Asking, Storing, Leaving, Early, TransferCommands
    <3>2. ~NextPart
      BY <1>0 DEF NextPart, Asking
    <3>3. part = 1
      BY <1>2, <3>2, PartSteps
    <3>4. ReplyOther => ~Asking'
      BY DEF ReplyOther, Goto, Asking, TransferCommands
    <3>5. ReadFails => ~Asking'
      BY DEF ReadFails, Asking
    <3> QED
      BY <1>0, <1>2, <3>1, <3>2, <3>3, <3>4, <3>5, PhaseSteps, Zenon
  <2>8. CASE EndTransfer
    <3>1. T.state = "open" /\ UNCHANGED <<pc, cmd, part>> /\ srv'.cmds = srv.cmds
      BY <1>0, <2>8 DEF EndTransfer, T, workerVars, Servers
    <3>2. (Storing \/ Leaving) /\ ~Has(srv.cmds, "STOR")
      BY <2>1, <3>1 DEF IOrder, NonePending, TransferCommands
    <3>3. ~Asking'
      BY <3>1, <3>2 DEF Storing, Leaving, Asking, TransferCommands
    <3>4. part # 0
      BY <1>0, <2>1, <3>1, TransferPart
    <3> QED
      BY <2>5, <3>1, <3>2, <3>3, <3>4
  <2>9. CASE ~EndTransfer
    <3>1. file[upload] = <<>> => file'[upload] = <<>>
      BY <1>2, <2>1, <2>9, FileSteps
    <3> QED
      BY <2>1, <2>2, <2>4, <2>5, <2>6, <2>7, <3>1
  <2> QED
    BY <2>8, <2>9
<1> QED
  BY <1>1, <1>2

\* To store anew is to store nothing: the file is empty.
LEMMA StoreAnswered ==
  ASSUME IBase, IUnstored, upload > 0, AnswerStore
  PROVE  /\ UNCHANGED <<pc, cmd, part, ret>>
         /\ \A u \in Uploads : file'[u] = file[u]
         /\ \E c \in Stores : Has(srv.cmds, c)
<1>0. /\ srv.cmds \in Seq(Commands) /\ file \in [Uploads -> Seq(Contents)] /\ srv.cmds # <<>>
      /\ NextCommand \in Stores
  BY Basics DEF IBase, Servers, AnswerStore, Serving, Stores
<1>1. Has(srv.cmds, NextCommand)
  BY <1>0, HasTaken DEF NextCommand
<1>2. file' = file \/ (NextCommand = "STOR" /\ file' = [file EXCEPT ![upload] = <<>>])
  BY DEF AnswerStore
<1>3. NextCommand = "STOR" => file[upload] = <<>>
  BY <1>1 DEF IUnstored
<1>4. UNCHANGED <<pc, cmd, part, ret>>
  BY DEF AnswerStore, workerVars
<1> QED
  BY <1>0, <1>1, <1>2, <1>3, <1>4

LEMMA PhaseCases ==
  ASSUME TypeOK, IWorker
  PROVE  Opening \/ pc = "put" \/ Asking \/ Storing \/ Leaving
BY DEF TypeOK, IWorker, Opening, Asking, Storing, Leaving, Early, TransferCommands, Commands

\* The server's file when the worker has given up: whole parts, of which only the one at
\* hand may still come.
IGivenUp ==
  upload > 0 /\ luck # "lost" /\ Leaving =>
    \/ /\ Complete(part) /\ T.state \notin {"wait", "open"}
       /\ \A c \in Stores : ~Has(srv.cmds, c)
    \/ part > 0 /\ Complete(part - 1)

LEMMA GivenUpStep ==
  ASSUME IUpload, IUnstored, IGivenUp, [Next]_vars
  PROVE  IGivenUp'
<1>0. /\ TypeOK /\ IBase /\ IWorker /\ srv \in Servers /\ cmd \in Commands
      /\ srv.cmds \in Seq(Commands) /\ upload \in 0 .. Len(Parts) /\ Len(Parts) \in Nat
      /\ Uploads = 1 .. Len(Parts) /\ transfer \in [Uploads -> Transfers]
      /\ file \in [Uploads -> Seq(Contents)] /\ part \in Nat
      /\ Ind /\ IOrder /\ IStores /\ ICame /\ IWhole
  BY Basics DEF IUpload, Ind, IBase, Servers
<1> SUFFICES ASSUME upload' > 0, luck' # "lost", Leaving'
             PROVE  \/ /\ Complete(part)' /\ T'.state \notin {"wait", "open"}
                       /\ \A c \in Stores : ~Has(srv'.cmds, c)
                    \/ part' > 0 /\ Complete(part - 1)'
  BY DEF IGivenUp
<1>2. ~Begin
  BY DEF Begin, Leaving
<1>3. upload' = upload /\ upload > 0 /\ luck # "lost" /\ upload \in Uploads
  <2>1. upload' = upload
    BY <1>2, PartSteps DEF NextPart
  <2> QED
    BY <1>0, <1>2, <2>1, LuckSteps
<1>4. part' = part
  BY <1>0, <1>2, PartSteps DEF NextPart, Leaving, Goto
<1>5. /\ T \in Transfers /\ T.bytes \in Seq(Contents)
      /\ file[upload] \in Seq(Contents) /\ upload \in Nat
  BY <1>0, <1>3 DEF T, Transfers
<1>6. \A c \in Stores : Has(srv'.cmds, c) => Has(srv.cmds, c)
  <2> SUFFICES ASSUME NEW c \in Stores, Has(srv'.cmds, c), SendCommand, cmd = c
               PROVE  FALSE
    BY <1>0, PendingSteps DEF Stores, TransferCommands
  <2> QED
    BY DEF SendCommand, Leaving, Stores
<1>7. CASE AnswerStore
  <2>1. /\ UNCHANGED <<pc, cmd, part>> /\ file'[upload] = file[upload]
        /\ \E c \in Stores : Has(srv.cmds, c)
    BY <1>0, <1>3, <1>7, StoreAnswered
  <2>2. Leaving
    BY <2>1 DEF Leaving
  <2>3. part > 0 /\ Complete(part - 1)
    BY <1>3, <2>1, <2>2 DEF IGivenUp
  <2> QED
    BY <1>3, <2>1, <2>3 DEF Complete
<1>8. CASE EndTransfer
  <2>1. /\ UNCHANGED <<pc, cmd, part>> /\ srv.link = "up"
        /\ T.state = "open" /\ T.data = "ended" /\ srv'.cmds = srv.cmds
        /\ file'[upload] = file[upload] \o T.bytes /\ T'.state = "done"
    BY <1>0, <1>3, <1>5, <1>8 DEF EndTransfer, T, workerVars, Transfers, Servers
  <2>2. Leaving
    BY <2>1 DEF Leaving
  <2>3. part > 0 /\ Complete(part - 1)
    BY <1>3, <2>1, <2>2 DEF IGivenUp
  <2>4. Len(T.bytes) = 2 /\ Of(T.bytes, <<upload, part>>)
    BY <1>0, <1>3, <2>1 DEF ICame
  <2>5. PICK k \in Nat : k = part - 1 /\ k + 1 = part
    BY <1>0, <2>3
  <2>6. file[upload] = FirstParts(upload, k) /\ Of(T.bytes, <<upload, k + 1>>)
    BY <2>3, <2>4, <2>5 DEF Complete
  <2>7. file[upload] \o T.bytes = FirstParts(upload, k + 1)
    BY <1>5, <2>4, <2>6, NextPartStored
  <2>8. Complete(part)'
    BY <1>3, <2>1, <2>5, <2>7 DEF Complete
  <2>9. \A c \in Stores : ~Has(srv'.cmds, c)
    BY <1>0, <1>3, <2>1 DEF IOrder, NonePending, Stores, TransferCommands
  <2> QED
    BY <2>1, <2>8, <2>9
<1>9. CASE ~AnswerStore /\ ~EndTransfer
  <2>1. file'[upload] = file[upload]
    BY <1>0, <1>2, <1>3, <1>9, FileSteps
  <2>2. \A k : (file'[upload'] = FirstParts(upload', k)) <=> Complete(k)
    BY <1>3, <2>1 DEF Complete
  <2>3. T'.state \in {"wait", "open"} => T.state \in {"wait", "open"}
    BY <1>0, <1>2, <1>3, <1>9, StateSteps
  <2>4. CASE /\ Complete(part) /\ T.state \notin {"wait", "open"}
             /\ \A c \in Stores : ~Has(srv.cmds, c)
    BY <1>4, <1>6, <2>2, <2>3, <2>4 DEF Complete
  <2>5. CASE part > 0 /\ Complete(part - 1)
    BY <1>4, <2>2, <2>5 DEF Complete
  <2>6. CASE Opening \/ pc = "put"
    <3>1. Complete(part)
      BY <1>0, <1>3, <2>6 DEF IWhole
    <3>2. ~Storing /\ ~Leaving
      BY <2>6 DEF Opening, Storing, Leaving, Early
    <3> QED
      BY <1>0, <1>3, <2>4, <3>1, <3>2 DEF IOrder
  <2>7. CASE Asking
    BY <1>0, <1>3, <2>5, <2>7 DEF IWhole
  <2>8. CASE Storing
    <3>1. part > 0 /\ Complete(IF T.state = "done" THEN part ELSE part - 1)
      BY <1>0, <1>3, <2>8 DEF IWhole
    <3>2. T.state = "done" => \A c \in Stores : ~Has(srv.cmds, c)
      BY <1>0, <1>3 DEF IStores
    <3> QED
      BY <2>4, <2>5, <3>1, <3>2
  <2>9. CASE Leaving
    BY <1>3, <2>4, <2>5, <2>9 DEF IGivenUp
  <2> QED
    BY <1>0, <2>6, <2>7, <2>8, <2>9, PhaseCases
<1> QED
  BY <1>7, <1>8, <1>9

\* What the server has and will have of the upload at hand: in order, and the first parts
\* unless data were skipped.
IArrived ==
  \A u \in Uploads : u = upload =>
    /\ Halves(u, Arrived(u))
    /\ luck # "lost" => IsPrefix(Arrived(u), Promised!Whole(u))
    /\ pc = "idle" /\ ret = 0 /\ luck # "lost" => Arrived(u) = Promised!Whole(u)
    /\ T.state # "none" => part \in 1 .. Parts[u]

\* The first parts and some of the next begin the whole.
LEMMA PartsBegin ==
  ASSUME NEW u \in Uploads, NEW k \in Nat, NEW f \in Seq(Contents), NEW b \in Seq(Contents),
         f = FirstParts(u, k), Of(b, <<u, k + 1>>), Len(b) <= 2, k <= Parts[u],
         b = <<>> \/ k + 1 <= Parts[u]
  PROVE  IsPrefix(f \o b, Promised!Whole(u))
<1> DEFINE s == f \o b
           w == Promised!Whole(u)
<1>0. Parts[u] \in Nat
  BY BoundAssumption DEF Uploads
<1>1. /\ Len(f) \in Nat /\ DOMAIN f = 1 .. Len(f) /\ Len(b) \in Nat /\ DOMAIN b = 1 .. Len(b)
      /\ \A i \in 1 .. Len(b) : b[i] = <<u, k + 1>>
  BY LenProperties DEF Of
<1>2. Len(f) = 2 * k /\ \A i \in 1 .. Len(f) : f[i] = <<u, (i + 1) \div 2>>
  <2>1. f \in Seq(Contents) /\ DOMAIN f = 1 .. 2 * k /\ 2 * k \in Nat
    BY DEF FirstParts
  <2>2. PICK m \in Nat, n \in Nat : m = Len(f) /\ n = 2 * k /\ 1 .. m = 1 .. n
    BY <1>1, <2>1
  <2>3. (m = 0 \/ m \in 1 .. n) /\ (n = 0 \/ n \in 1 .. m)
    BY <2>2
  <2>4. Len(f) = 2 * k
    BY <2>2, <2>3
  <2> QED
    BY <2>4 DEF FirstParts
<1>3. /\ s \in Seq(Contents) /\ Len(s) = Len(f) + Len(b)
      /\ \A i \in 1 .. Len(f) + Len(b) : s[i] = IF i <= Len(f) THEN f[i] ELSE b[i - Len(f)]
  BY ConcatProperties
<1> HIDE DEF s
<1>4. \A i \in 1 .. Len(s) : s[i] = <<u, (i + 1) \div 2>>
  <2> SUFFICES ASSUME NEW i \in 1 .. Len(s) PROVE s[i] = <<u, (i + 1) \div 2>>
    OBVIOUS
  <2>1. CASE i <= Len(f)
    <3>1. i \in 1 .. Len(f) /\ i \in 1 .. Len(f) + Len(b)
      BY <1>1, <1>3, <2>1
    <3>2. s[i] = f[i]
      BY <1>3, <2>1, <3>1
    <3> QED
      BY <1>2, <3>1, <3>2
  <2>2. CASE ~(i <= Len(f))
    <3>1. i = 2 * k + 1 \/ i = 2 * k + 2
      BY <1>1, <1>2, <1>3, <2>2
    <3>2. i - Len(f) \in 1 .. Len(b) /\ i \in 1 .. Len(f) + Len(b)
      BY <1>1, <1>2, <1>3, <2>2
    <3>3. s[i] = <<u, k + 1>>
      BY <1>1, <1>3, <2>2, <3>2
    <3>4. ((i + 1) \div 2) = k + 1
      BY <3>1
    <3> QED
      BY <3>3, <3>4
  <2> QED
    BY <2>1, <2>2
<1>5. /\ w = [i \in 1 .. 2 * Parts[u] |-> <<u, (i + 1) \div 2>>]
      /\ Len(w) = 2 * Parts[u]
  <2>1. w = [i \in 1 .. 2 * Parts[u] |-> <<u, (i + 1) \div 2>>]
    BY DEF Promised!Whole
  <2>2. 2 * Parts[u] \in Nat /\ DOMAIN w = 1 .. 2 * Parts[u]
    BY <1>0, <2>1
  <2> QED
    BY <2>1, <2>2
<1>6. Len(s) \in Nat /\ Len(s) <= 2 * Parts[u]
  <2>1. b = <<>> => Len(b) = 0
    OBVIOUS
  <2> QED
    BY <1>0, <1>1, <1>2, <1>3, <2>1
<1>7. SubSeq(s, 1, Len(s)) = SubSeq(w, 1, Len(s))
  <2> DEFINE n == Len(s)
             A == {<<u, m>> : m \in Int}
  <2>1. n \in Int /\ 1 \in Int /\ \A i \in 1 .. n : s[i] \in A /\ w[i] \in A /\ s[i] = w[i]
    <3> SUFFICES ASSUME NEW i \in 1 .. n PROVE s[i] \in A /\ w[i] \in A /\ s[i] = w[i]
      BY <1>6
    <3>1. i \in 1 .. 2 * Parts[u] /\ ((i + 1) \div 2) \in Int
      BY <1>0, <1>6
    <3>2. w[i] = <<u, (i + 1) \div 2>>
      BY <1>5, <3>1
    <3>3. s[i] = <<u, (i + 1) \div 2>>
      BY <1>4
    <3> QED
      BY <3>1, <3>2, <3>3
  <2> HIDE DEF n, A
  <2>2. /\ SubSeq(s, 1, n) \in Seq(A) /\ Len(SubSeq(s, 1, n)) = IF 1 <= n THEN n - 1 + 1 ELSE 0
        /\ \A i \in 1 .. n - 1 + 1 : SubSeq(s, 1, n)[i] = s[1 + i - 1]
    BY <2>1, SubSeqProperties
  <2>3. /\ SubSeq(w, 1, n) \in Seq(A) /\ Len(SubSeq(w, 1, n)) = IF 1 <= n THEN n - 1 + 1 ELSE 0
        /\ \A i \in 1 .. n - 1 + 1 : SubSeq(w, 1, n)[i] = w[1 + i - 1]
    BY <2>1, SubSeqProperties
  <2>4. n \in Nat
    BY <1>6 DEF n
  <2>5. \A i \in 1 .. n : SubSeq(s, 1, n)[i] = SubSeq(w, 1, n)[i]
    BY <2>1, <2>2, <2>3, <2>4
  <2>6. Len(SubSeq(s, 1, n)) = n /\ Len(SubSeq(w, 1, n)) = n
    BY <2>2, <2>3, <2>4
  <2>7. SubSeq(s, 1, n) = SubSeq(w, 1, n)
    BY <2>2, <2>3, <2>5, <2>6, SeqEqual
  <2> QED
    BY <2>7 DEF n
<1> QED
  BY <1>5, <1>6, <1>7 DEF IsPrefix, s

LEMMA ArrivedInOrder ==
  ASSUME IUpload, IFile, IGivenUp
  PROVE  IArrived
<1> SUFFICES ASSUME upload \in Uploads
             PROVE  /\ Halves(upload, Arrived(upload))
                    /\ luck # "lost" => IsPrefix(Arrived(upload), Promised!Whole(upload))
                    /\ pc = "idle" /\ ret = 0 /\ luck # "lost" =>
                         Arrived(upload) = Promised!Whole(upload)
                    /\ T.state # "none" => part \in 1 .. Parts[upload]
  BY DEF IArrived
<1>0. /\ TypeOK /\ IBase /\ IWorker /\ IFresh /\ ITransfer /\ Ind
      /\ IOrder /\ IStores /\ ICame /\ IWhole
      /\ upload > 0 /\ upload \in Nat /\ part \in Nat /\ T = transfer[upload]
      /\ T \in Transfers /\ T.bytes \in Seq(Contents) /\ file[upload] \in Seq(Contents)
      /\ Parts[upload] \in Nat
  <2>1. /\ upload > 0 /\ upload \in Nat /\ part \in Nat /\ transfer \in [Uploads -> Transfers]
        /\ file \in [Uploads -> Seq(Contents)]
    BY Basics DEF IUpload, Ind, IBase
  <2>2. Parts[upload] \in Nat
    BY <2>1, BoundAssumption DEF Uploads
  <2> QED
    BY <2>1, <2>2 DEF IUpload, Ind, IBase, T, Transfers
<1>1. Halves(upload, Arrived(upload)) /\ Arrived(upload) \in Seq(Contents)
  BY <1>0, CurrentArrived
<1>2. T.state # "none" => part \in 1 .. Parts[upload]
  <2>1. T.state # "none" => part > 0
    BY <1>0, TransferPart
  <2>2. part # 0 => part <= Parts[upload]
    BY <1>0 DEF IFresh
  <2> QED
    BY <1>0, <2>1, <2>2
<1>3. ASSUME luck # "lost" PROVE IsPrefix(Arrived(upload), Promised!Whole(upload))
  <2>1. ASSUME NEW k \in Nat, Complete(k), k = part \/ k = part - 1,
               T.state \in {"wait", "open"} => k = part - 1
        PROVE  IsPrefix(Arrived(upload), Promised!Whole(upload))
    <3>1. file[upload] = FirstParts(upload, k) /\ k <= Parts[upload]
      <4>1. part <= Parts[upload]
        BY <1>0 DEF IFresh
      <4> QED
        BY <1>0, <2>1, <4>1 DEF Complete
    <3>2. CASE T.state \in {"wait", "open"}
      <4>1. k + 1 = part /\ part <= Parts[upload]
        BY <1>0, <1>2, <2>1, <3>2
      <4>2. Of(T.bytes, <<upload, k + 1>>) /\ Len(T.bytes) <= 2
        BY <1>0, <1>3, <4>1 DEF ICame, ITransfer
      <4>3. Arrived(upload) = file[upload] \o T.bytes
        BY <1>0, <3>2 DEF Arrived
      <4> QED
        BY <1>0, <3>1, <4>1, <4>2, <4>3, PartsBegin
    <3>3. CASE T.state \in {"none", "done"}
      <4>1. T.state = "done" => T.bytes = <<>>
        BY <1>0 DEF ITransfer
      <4>2. <<>> \in Seq(Contents) /\ Of(<<>>, <<upload, k + 1>>) /\ Len(<<>>) <= 2
        BY DEF Of
      <4>3. file[upload] \o <<>> = file[upload]
        BY <1>0, ConcatEmptySeq
      <4>4. Arrived(upload) = file[upload] \o <<>>
        BY <1>0, <3>3, <4>1, <4>3 DEF Arrived
      <4>5. IsPrefix(file[upload] \o <<>>, Promised!Whole(upload))
        BY <1>0, <3>1, <4>2, PartsBegin
      <4> QED
        BY <4>4, <4>5
    <3> QED
      BY <1>0, <3>2, <3>3 DEF Transfers
  <2>2. T.state \in {"wait", "open"} => Storing \/ Leaving
    BY <1>0 DEF IOrder
  <2>3. CASE Opening \/ pc = "put"
    <3>1. Complete(part) /\ ~Storing /\ ~Leaving
      BY <1>0, <1>3, <2>3 DEF IWhole, Opening, Storing, Leaving, Early
    <3> QED
      BY <1>0, <2>1, <2>2, <3>1
  <2>4. CASE Asking
    <3>1. part - 1 \in Nat /\ Complete(part - 1)
      BY <1>0, <1>3, <2>4 DEF IWhole
    <3> QED
      BY <2>1, <3>1
  <2>5. CASE Storing
    <3>1. part - 1 \in Nat /\ Complete(IF T.state = "done" THEN part ELSE part - 1)
      BY <1>0, <1>3, <2>5 DEF IWhole
    <3>2. CASE T.state = "done"
      BY <1>0, <2>1, <3>1, <3>2
    <3>3. CASE T.state # "done"
      BY <2>1, <3>1, <3>3
    <3> QED
      BY <3>2, <3>3
  <2>6. CASE Leaving
    <3>1. \/ Complete(part) /\ T.state \notin {"wait", "open"}
          \/ part - 1 \in Nat /\ Complete(part - 1)
      BY <1>0, <1>3, <2>6 DEF IGivenUp
    <3> QED
      BY <1>0, <2>1, <3>1
  <2> QED
    BY <1>0, <2>3, <2>4, <2>5, <2>6, PhaseCases
<1>4. ASSUME pc = "idle", ret = 0, luck # "lost" PROVE Arrived(upload) = Promised!Whole(upload)
  <2>1. file[upload] = Whole(upload) /\ T.state \in {"none", "done"}
    <3>1. Leaving
      BY <1>4 DEF Leaving
    <3>2. T.state \notin {"wait", "open"}
      BY <1>0, <1>4, <3>1 DEF IWhole
    <3> QED
      BY <1>0, <1>4, <3>2, WholeAtEnd DEF Uploaded, Transfers
  <2>2. T.state = "done" => T.bytes = <<>>
    BY <1>0 DEF ITransfer
  <2>3. file[upload] \o <<>> = file[upload]
    BY <1>0, ConcatEmptySeq
  <2>4. Arrived(upload) = file[upload]
    BY <1>0, <2>1, <2>2, <2>3 DEF Arrived
  <2> QED
    BY <2>1, <2>4 DEF Whole, Promised!Whole
<1> QED
  BY <1>1, <1>2, <1>3, <1>4

\* A sequence of one thing only, by its length.
LEMMA OnlyOf ==
  ASSUME NEW b \in Seq(Contents), NEW x, Of(b, x), Len(b) <= 2
  PROVE  b = <<>> \/ \E n \in 1 .. 2 : b = [i \in 1 .. n |-> x]
<1>1. /\ Len(b) \in Nat /\ b = [i \in 1 .. Len(b) |-> b[i]] /\ DOMAIN b = 1 .. Len(b)
  BY LenProperties
<1>2. Len(b) = 0 \/ Len(b) \in 1 .. 2
  BY <1>1
<1>3. CASE Len(b) = 0
  BY <1>3, EmptySeq
<1>4. CASE Len(b) \in 1 .. 2
  BY <1>1, <1>4 DEF Of
<1> QED
  BY <1>2, <1>3, <1>4

\* What is to arrive changes by halves of the buffer, and for the upload at hand, unless a
\* data task was left running.
LEMMA ArrivedSteps ==
  ASSUME IUpload, IFile, IOld, IUnstored, [Next]_vars, ~Begin
  PROVE  \/ \A u \in Uploads : Arrived(u)' = Arrived(u)
         \/ /\ UNCHANGED <<pc, upload, part, ret, luck, left>>
            /\ \E u \in Uploads :
                 /\ \A v \in Uploads : v # u => Arrived(v)' = Arrived(v)
                 /\ \/ /\ u = upload /\ (pc # "idle" \/ left) /\ T'.state # "none"
                       /\ \E n \in 1 .. 2 :
                            Arrived(u)' = Arrived(u) \o [i \in 1 .. n |-> <<upload, part>>]
                    \/ /\ u < upload /\ left
                       /\ Arrived(u)' = Append(Arrived(u), <<upload, part>>)
<1>0. /\ TypeOK /\ IBase /\ IConn /\ ITransfer /\ IServer /\ Ind /\ IOrder /\ IFresh
      /\ upload \in 0 .. Len(Parts) /\ Len(Parts) \in Nat /\ Uploads = 1 .. Len(Parts)
      /\ transfer \in [Uploads -> Transfers] /\ file \in [Uploads -> Seq(Contents)]
      /\ srv \in Servers
  BY Basics DEF IUpload, Ind, IBase
<1>1. upload' = upload
  BY PartSteps DEF NextPart
<1>2. ASSUME NEW u \in Uploads, file'[u] = file[u], transfer'[u].bytes = transfer[u].bytes,
             transfer'[u].state = "none" <=> transfer[u].state = "none"
      PROVE  Arrived(u)' = Arrived(u)
  BY <1>2 DEF Arrived
<1>3. ASSUME NEW u \in Uploads, file'[u] = file[u], transfer'[u] = transfer[u]
      PROVE  Arrived(u)' = Arrived(u)
  BY <1>3 DEF Arrived
<1>4. CASE AnswerPasv
  <2>1. /\ file' = file /\ upload \in Uploads /\ T.state \in {"none", "done"}
        /\ \A u \in Uploads : u # upload => transfer'[u] = transfer[u]
        /\ transfer'[upload].state = "none"
    <3>1. upload \in Uploads
      BY <1>0, <1>4, LinkIsOfUpload DEF AnswerPasv, Serving
    <3> QED
      BY <1>0, <1>4, <3>1 DEF AnswerPasv, Serving, Busy, NoTransfer, T, Transfers
  <2>2. T.state = "done" => T.bytes = <<>>
    BY <1>0, <2>1 DEF ITransfer
  <2>3. file[upload] \o <<>> = file[upload]
    BY <1>0, <2>1, ConcatEmptySeq
  <2>4. ASSUME NEW u \in Uploads, u = upload PROVE Arrived(u)' = Arrived(u)
    BY <1>1, <2>1, <2>2, <2>3, <2>4 DEF Arrived, T
  <2>5. ASSUME NEW u \in Uploads, u # upload PROVE Arrived(u)' = Arrived(u)
    BY <1>3, <2>1, <2>5
  <2> QED
    BY <2>4, <2>5
<1>5. CASE establish_data_channel
  <2>1. file' = file /\ upload \in Uploads /\ transfer' = [transfer EXCEPT ![upload].data = "open"]
    BY <1>0, <1>5, Established DEF establish_data_channel
  <2>2. \A u \in Uploads : transfer[u] \in Transfers
    BY <1>0
  <2>3. \A u \in Uploads : /\ transfer'[u].bytes = transfer[u].bytes
                           /\ transfer'[u].state = transfer[u].state
    BY <1>0, <2>1, <2>2 DEF Transfers
  <2> QED
    BY <1>2, <2>1, <2>3
<1>6. CASE AnswerStore
  <2>1. /\ UNCHANGED <<pc, cmd, part, ret>> /\ \A u \in Uploads : file'[u] = file[u]
        /\ pc # "idle" /\ upload \in Uploads /\ upload > 0
        /\ \E c \in Stores : Has(srv.cmds, c)
    <3>1. pc # "idle" /\ upload \in Uploads /\ upload > 0
      BY <1>0, <1>6, LinkIsOfUpload DEF AnswerStore, Serving
    <3> QED
      BY <1>0, <1>6, <3>1, StoreAnswered
  <2>2. UNCHANGED <<luck, left>>
    BY <1>6 DEF AnswerStore, SameFaults, historyVars
  <2>3. CASE transfer' = transfer
    BY <1>3, <2>1, <2>3
  <2>4. CASE transfer' = [transfer EXCEPT ![upload].state = "wait"]
    <3>1. /\ \A u \in Uploads : u # upload => transfer'[u] = transfer[u]
          /\ transfer'[upload].state = "wait" /\ transfer'[upload].bytes = transfer[upload].bytes
      BY <1>0, <2>1, <2>4 DEF Transfers
    <3>2. T'.state # "none"
      BY <1>1, <3>1 DEF T
    <3> PICK u \in Uploads : u = upload
      BY <2>1
    <3>3. /\ Arrived(u)' = file[u] \o T.bytes
          /\ \A v \in Uploads : v # u => Arrived(v)' = Arrived(v)
      BY <1>3, <2>1, <3>1 DEF Arrived, T
    <3>4. CASE T.state # "none"
      <4>1. Arrived(u)' = Arrived(u)
        BY <3>3, <3>4 DEF Arrived, T
      <4> QED
        BY <3>3, <4>1
    <3>5. CASE T.state = "none"
      <4>1. Arrived(u) = file[u] /\ file[u] \in Seq(Contents)
        BY <1>0, <3>5 DEF Arrived, T
      <4>2. Of(T.bytes, <<upload, part>>) /\ Len(T.bytes) <= 2 /\ T.bytes \in Seq(Contents)
        <5>1. T \in Transfers
          BY <1>0, <2>1 DEF T
        <5> QED
          BY <1>0, <2>1, <5>1 DEF IFile, Between, ITransfer, Transfers
      <4>3. CASE T.bytes = <<>>
        <5>1. file[u] \o <<>> = file[u]
          BY <4>1, ConcatEmptySeq
        <5>2. Arrived(u)' = Arrived(u)
          BY <3>3, <4>1, <4>3, <5>1
        <5> QED
          BY <3>3, <5>2
      <4>4. CASE T.bytes # <<>>
        <5>1. PICK n \in 1 .. 2 : T.bytes = [i \in 1 .. n |-> <<upload, part>>]
          BY <4>2, <4>4, OnlyOf
        <5>2. Arrived(u)' = Arrived(u) \o [i \in 1 .. n |-> <<upload, part>>]
          BY <3>3, <4>1, <5>1
        <5> QED
          BY <1>1, <2>1, <2>2, <3>2, <3>3, <5>2
      <4> QED
        BY <4>3, <4>4
    <3> QED
      BY <3>4, <3>5
  <2> QED
    BY <1>6, <2>3, <2>4 DEF AnswerStore
<1>7. CASE OpenTransfer
  <2>1. upload \in Uploads /\ file' = file /\ T.state = "wait"
        /\ transfer' = [transfer EXCEPT ![upload].state = "open"]
    BY <1>0, <1>7, LinkIsOfUpload DEF OpenTransfer, T
  <2>2. /\ \A u \in Uploads : u # upload => transfer'[u] = transfer[u]
        /\ transfer'[upload].state = "open" /\ transfer'[upload].bytes = transfer[upload].bytes
    BY <1>0, <2>1 DEF Transfers
  <2> QED
    BY <1>2, <1>3, <2>1, <2>2 DEF T
<1>8. CASE EndTransfer
  <2>1. /\ upload \in Uploads /\ T.state = "open"
        /\ transfer' = [transfer EXCEPT ![upload].state = "done", ![upload].bytes = <<>>]
        /\ file' = [file EXCEPT ![upload] = @ \o transfer[upload].bytes]
    BY <1>0, <1>8, LinkIsOfUpload DEF EndTransfer, T
  <2>2. transfer[upload] \in Transfers
    BY <1>0, <2>1
  <2>3. /\ \A u \in Uploads : u # upload => transfer'[u] = transfer[u] /\ file'[u] = file[u]
        /\ transfer'[upload].state = "done" /\ transfer'[upload].bytes = <<>>
        /\ file'[upload] = file[upload] \o transfer[upload].bytes
    BY <1>0, <2>1, <2>2 DEF Transfers
  <2>4. file[upload] \o transfer[upload].bytes \in Seq(Contents)
    BY <1>0, <2>1, <2>2, ConcatProperties DEF Transfers
  <2>5. (file[upload] \o transfer[upload].bytes) \o <<>> = file[upload] \o transfer[upload].bytes
    BY <2>4, ConcatEmptySeq
  <2>6. ASSUME NEW u \in Uploads, u = upload PROVE Arrived(u)' = Arrived(u)
    BY <2>1, <2>3, <2>5, <2>6 DEF Arrived, T
  <2>7. ASSUME NEW u \in Uploads, u # upload PROVE Arrived(u)' = Arrived(u)
    BY <1>3, <2>3, <2>7
  <2> QED
    BY <2>6, <2>7
<1>9. CASE SendDataFails
  <2>1. /\ wq.pc \in {"sending", "half"} /\ DataArrives("ended", <<>>) /\ file' = file
        /\ <<>> \in Seq(Contents)
    BY <1>9 DEF SendDataFails, DataEnds
  <2>2. wq.port # NoPort /\ wq.port[1] \in Uploads
    BY <1>0, <2>1, DataIsOfUpload
  <2>3. /\ \A u \in Uploads : u # wq.port[1] => transfer'[u] = transfer[u]
        /\ LET t == transfer[wq.port[1]]
           IN  transfer'[wq.port[1]] = IF t.pasv # wq.port[2] THEN t
                                       ELSE [t EXCEPT !.data = "ended", !.bytes = t.bytes \o <<>>]
    BY <1>0, <2>1, <2>2, Arrivals
  <2>4. transfer[wq.port[1]] \in Transfers
    BY <1>0, <2>2
  <2>5. transfer[wq.port[1]].bytes \o <<>> = transfer[wq.port[1]].bytes
    BY <2>4, ConcatEmptySeq DEF Transfers
  <2>6. /\ transfer'[wq.port[1]].bytes = transfer[wq.port[1]].bytes
        /\ transfer'[wq.port[1]].state = transfer[wq.port[1]].state
    BY <2>3, <2>4, <2>5 DEF Transfers
  <2> QED
    BY <1>2, <1>3, <2>1, <2>2, <2>3, <2>6
<1>10. CASE SendFirstHalf \/ SendSecondHalf
  <2>1. PICK data \in {"open", "ended"} :
          /\ wq.pc \in {"sending", "half"} /\ wq.sock = "open" /\ DataArrives(data, <<buffer>>)
          /\ UNCHANGED <<pc, part, ret, luck, left, file>>
    BY <1>10 DEF SendFirstHalf, SendSecondHalf, DataEnds, SameFaults, historyVars, workerVars
  <2>2. /\ wq.port # NoPort /\ wq.port[1] \in Uploads /\ wq.port[1] <= upload /\ buffer \in Contents
        /\ upload \in Uploads /\ buffer = <<upload, part>>
    BY <1>0, <2>1, DataIsOfUpload DEF IFresh
  <2> PICK u \in Uploads : u = wq.port[1]
    BY <2>2
  <2> DEFINE t == transfer[u]
  <2>3. /\ <<buffer>> \in Seq(Contents) /\ t \in Transfers
        /\ t.bytes \in Seq(Contents) /\ file[u] \in Seq(Contents)
    BY <1>0, <2>2 DEF Transfers
  <2>4. /\ \A v \in Uploads : v # u => transfer'[v] = transfer[v]
        /\ transfer'[u] = IF t.pasv # wq.port[2] THEN t
                          ELSE [t EXCEPT !.data = data, !.bytes = t.bytes \o <<buffer>>]
    <3>1. /\ \A v \in Uploads : v # wq.port[1] => transfer'[v] = transfer[v]
          /\ LET s == transfer[wq.port[1]]
             IN  transfer'[wq.port[1]] =
                   IF s.pasv # wq.port[2] THEN s
                   ELSE [s EXCEPT !.data = data, !.bytes = s.bytes \o <<buffer>>]
      <4>1. TypeOK /\ IConn /\ wq.port # NoPort
        BY <1>0, <2>2
      <4> QED
        BY <2>1, <2>3, <4>1, Arrivals
    <3> QED
      BY <3>1
  <2>5. \A v \in Uploads : v # u => Arrived(v)' = Arrived(v)
    BY <1>3, <2>1, <2>4
  <2>6. CASE t.pasv # wq.port[2]
    <3>1. \A v \in Uploads : transfer'[v] = transfer[v]
      BY <2>4, <2>6
    <3> QED
      BY <1>3, <2>1, <3>1
  <2>7. CASE t.pasv = wq.port[2]
    <3>1. transfer'[u].state = t.state /\ transfer'[u].bytes = t.bytes \o <<buffer>>
      BY <2>3, <2>4, <2>7 DEF Transfers
    <3>2. CASE t.state = "none"
      <4>1. Arrived(u)' = Arrived(u)
        BY <2>1, <3>1, <3>2 DEF Arrived
      <4> QED
        BY <2>5, <4>1
    <3>3. CASE t.state # "none"
      <4>1. /\ Arrived(u)' = file[u] \o (t.bytes \o <<buffer>>)
            /\ Arrived(u) = file[u] \o t.bytes
        BY <2>1, <3>1, <3>3 DEF Arrived
      <4>2. (file[u] \o t.bytes) \o <<buffer>> = file[u] \o (t.bytes \o <<buffer>>)
        <5>1. \A a, b, c \in Seq(Contents) : (a \o b) \o c = a \o (b \o c)
          BY ConcatAssociative
        <5> HIDE DEF t
        <5> QED
          BY <2>3, <5>1, Zenon
      <4>3. Arrived(u) \in Seq(Contents)
        BY <2>3, <4>1, ConcatProperties
      <4>4. Arrived(u)' = Arrived(u) \o <<buffer>>
        BY <4>1, <4>2
      <4>5. CASE u = upload
        <5>1. T'.state # "none"
          BY <1>1, <3>1, <3>3, <4>5 DEF T
        <5>2. pc # "idle" \/ left
          BY <2>1 DEF IOld
        <5>3. <<buffer>> = [i \in 1 .. 1 |-> <<upload, part>>]
          BY <2>2
        <5>4. \E n \in 1 .. 2 : Arrived(u)' = Arrived(u) \o [i \in 1 .. n |-> <<upload, part>>]
          <6>1. Arrived(u)' = Arrived(u) \o [i \in 1 .. 1 |-> <<upload, part>>]
            BY <4>4, <5>3, Zenon
          <6> QED
            BY <6>1
        <5> QED
          BY <1>1, <2>1, <2>2, <2>5, <4>5, <5>1, <5>2, <5>4
      <4>6. CASE u # upload
        <5>1. u < upload
          BY <1>0, <2>2, <4>6
        <5>2. left
          BY <2>1, <4>6 DEF IOld
        <5>3. Arrived(u)' = Append(Arrived(u), <<upload, part>>)
          BY <2>2, <4>3, <4>4, AppendIsConcat
        <5> QED
          BY <1>1, <2>1, <2>2, <2>5, <5>1, <5>2, <5>3
      <4> QED
        BY <4>5, <4>6
    <3> QED
      BY <3>2, <3>3
  <2> QED
    BY <2>6, <2>7
<1>11. CASE UNCHANGED <<upload, transfer, file>>
  BY <1>3, <1>11
<1> QED
  BY <1>4, <1>5, <1>6, <1>7, <1>8, <1>9, <1>10, <1>11, TransferSteps

LEMMA BeginArrived ==
  ASSUME IBase, Begin
  PROVE  \A u \in Uploads : Arrived(u)' = Arrived(u)
<1>0. /\ transfer \in [Uploads -> Transfers] /\ file \in [Uploads -> Seq(Contents)]
  BY Basics DEF IBase
<1>1. CASE UNCHANGED <<transfer, file>>
  BY <1>1 DEF Arrived
<1>2. CASE /\ file' = [file EXCEPT ![upload] = Arrived(upload)]
           /\ transfer' = [transfer EXCEPT ![upload] = NoTransfer]
  <2> SUFFICES ASSUME NEW u \in Uploads PROVE Arrived(u)' = Arrived(u)
    OBVIOUS
  <2>1. CASE u = upload
    <3>1. file'[u] = Arrived(u) /\ transfer'[u].state = "none"
      BY <1>0, <1>2, <2>1 DEF NoTransfer
    <3> QED
      BY <3>1 DEF Arrived
  <2>2. CASE u # upload
    BY <1>0, <1>2, <2>2 DEF Arrived
  <2> QED
    BY <2>1, <2>2
<1> QED
  BY <1>1, <1>2 DEF Begin

\* How an upload ends, and what does not change before and after.
LEMMA EndSteps ==
  ASSUME TypeOK, [Next]_vars, ~Begin
  PROVE  \/ pc # "idle" /\ pc' = "idle" /\ UNCHANGED <<upload, transfer, file, luck>>
         \/ (pc = "idle" <=> pc' = "idle") /\ (pc = "idle" => ret' = ret) /\ left' = left
<1> USE DEF Rest, Goto, GiveUp, SameFaults, Fault, Loss, Fail, workerVars, historyVars
<1>1. CASE SendCommandFails
  <2>1. pc = "send" /\ UNCHANGED <<upload, transfer, file, luck>>
    BY <1>1 DEF SendCommandFails
  <2>2. CASE cmd = "QUIT"
    BY <1>1, <2>1, <2>2 DEF SendCommandFails
  <2>3. CASE cmd # "QUIT"
    <3>1. left' = left
      BY <1>1, <2>3 DEF SendCommandFails, TypeOK
    <3>2. pc' # "idle"
      BY <1>1, <2>3 DEF SendCommandFails
    <3> QED
      BY <2>1, <3>1, <3>2
  <2> QED
    BY <2>2, <2>3
<1>2. CASE CloseUnconnected \/ QuitAnswered
  BY <1>2 DEF CloseUnconnected, QuitAnswered
<1>3. CASE OpenRefused \/ Connect \/ ConnectFails \/ SendCommand
  BY <1>3 DEF OpenRefused, Connect, ConnectFails, SendCommand
<1>4. CASE ReplyExpected \/ ReplyOther \/ ReplyLate \/ ReplyHungUp
  BY <1>4 DEF ReplyExpected, ReplyOther, ReplyLate, ReplyHungUp
<1>5. CASE NextPart \/ ReadFails \/ SubmitData \/ PollReply
  BY <1>5 DEF NextPart, ReadFails, SubmitData, PollReply
<1>6. CASE PollTimeout \/ PollHungUp \/ SendQuit
  BY <1>6 DEF PollTimeout, PollHungUp, SendQuit
<1>7. CASE UNCHANGED <<workerVars, left>>
  BY <1>7
<1>8. CASE \/ keepalive_timeout \/ KeepaliveFirst \/ KeepaliveSends \/ KeepaliveAnswered
           \/ establish_data_channel \/ NoDataChannel
  BY <1>7, <1>8 DEF keepalive_timeout, KeepaliveFirst, KeepaliveSends, KeepaliveAnswered,
                    establish_data_channel, NoDataChannel
<1>9. CASE SendFirstHalf \/ SendSecondHalf \/ SendDataFails
  BY <1>7, <1>9 DEF SendFirstHalf, SendSecondHalf, SendDataFails
<1>10. CASE Answer \/ AnswerPasv \/ AnswerStore \/ AnswerQuit
  BY <1>7, <1>10 DEF Answer, AnswerPasv, AnswerStore, AnswerQuit
<1>11. CASE OpenTransfer \/ EndTransfer \/ OtherReply \/ LinkFails
  BY <1>7, <1>11 DEF OpenTransfer, EndTransfer, OtherReply, LinkFails
<1>12. CASE Refuse
  <2>1. UNCHANGED workerVars /\ (Fault \/ SameFaults)
    BY <1>12 DEF Refuse
  <2> QED
    BY <1>7, <2>1
<1>13. CASE UNCHANGED vars
  BY <1>7, <1>13 DEF vars
<1> QED
  BY <1>1, <1>2, <1>3, <1>4, <1>5, <1>6, <1>8, <1>9, <1>10, <1>11, <1>12, <1>13, StepCases, Zenon

\* All that UploadStore is implemented with.
IStored == IUpload /\ IPorts /\ IFile /\ IOld /\ IUnstored /\ IGivenUp

LEMMA StoredInductive == Spec => []IStored
<1>1. Init => IPorts /\ IFile /\ IOld /\ IUnstored /\ IGivenUp
  BY UploadNumbers DEF Init, NoServer, IPorts, NoPort, IFile, IOld, IUnstored, IGivenUp, Uploads
<1>2. /\ IUpload /\ IPorts /\ IFile /\ IOld /\ IUnstored /\ IGivenUp /\ [Next]_vars
      => IPorts' /\ IFile' /\ IOld' /\ IUnstored' /\ IGivenUp'
  BY PortStep, FileStep, OldStep, UnstoredStep, GivenUpStep DEF IUpload
<1> QED
  BY <1>1, <1>2, UploadInductive, PTL DEF Spec, IStored

\* Every step of an upload is one of UploadStore, or changes nothing there.
LEMMA StoreSteps ==
  ASSUME IStored, IArrived', [Next]_vars
  PROVE  [Promised!Next]_(Promised!vars)
<1> DEFINE S == [u \in Uploads |-> Arrived(u)]
<1>0. /\ IUpload /\ IFile /\ IOld /\ IUnstored /\ IBase /\ TypeOK
      /\ upload \in 0 .. Len(Parts) /\ Len(Parts) \in Nat /\ Uploads = 1 .. Len(Parts)
      /\ ret' \in {-1, 0} /\ upload' \in 0 .. Len(Parts)
  <2>1. Ind /\ Ind'
    BY IndStep DEF IStored, IUpload
  <2>2. upload' \in 0 .. Len(Parts) /\ ret' \in {-1, 0}
    BY <2>1 DEF Ind, IBase, TypeOK
  <2> QED
    BY <2>2, Basics DEF IStored, IUpload, Ind, IBase
<1>1. S' = [u \in Uploads |-> Arrived(u)']
  OBVIOUS
<1>2. (\A u \in Uploads : Arrived(u)' = Arrived(u)) => S' = S
  BY <1>1
<1>3. CASE Begin
  <2>1. /\ pc = "idle" /\ pc' # "idle" /\ upload' = upload + 1 /\ upload' \in Uploads
        /\ luck' # "lost" /\ left' = left
    BY <1>0, <1>3 DEF Begin
  <2>2. S' = S
    BY <1>0, <1>2, <1>3, BeginArrived
  <2>3. Promised!Begin
    BY <2>1, <2>2 DEF Promised!Begin, Promised!Uploads, Uploads
  <2> QED
    BY <2>3 DEF Promised!Next
<1>4. CASE ~Begin
  <2>1. upload' = upload
    BY <1>4, PartSteps DEF NextPart
  <2>2. CASE pc # "idle" /\ pc' = "idle" /\ UNCHANGED <<upload, transfer, file, luck>>
    <3>1. S' = S
      BY <1>2, <2>2 DEF Arrived
    <3>2. upload > 0
      BY <1>0, <2>2 DEF IBase, IWorker
    <3>3. ret' = 0 /\ luck # "lost" => S[upload] = Promised!Whole(upload)
      <4> SUFFICES ASSUME ret' = 0, luck # "lost" PROVE S[upload] = Promised!Whole(upload)
        OBVIOUS
      <4>1. PICK u \in Uploads : u = upload
        BY <1>0, <2>2 DEF IBase, IWorker
      <4>2. Arrived(u)' = Promised!Whole(u)
        BY <2>2, <4>1 DEF IArrived
      <4>3. Arrived(u)' = Arrived(u)
        BY <2>2 DEF Arrived
      <4> QED
        BY <4>1, <4>2, <4>3
    <3>4. Promised!End
      BY <1>0, <2>1, <2>2, <3>1, <3>3, LeftSteps DEF Promised!End
    <3> QED
      BY <3>4 DEF Promised!Next
  <2>3. CASE (pc = "idle" <=> pc' = "idle") /\ (pc = "idle" => ret' = ret) /\ left' = left
    <3>1. (IF pc = "idle" THEN ret ELSE 0)' = IF pc = "idle" THEN ret ELSE 0
      BY <2>3
    <3>2. CASE S' = S
      <4>1. CASE luck' = "lost"
        BY <2>1, <2>3, <3>1, <3>2, <4>1 DEF Promised!Next, Promised!Skip
      <4>2. CASE luck' # "lost"
        <5>1. luck # "lost"
          BY <1>4, <4>2, LuckSteps
        <5> QED
          BY <2>1, <2>3, <3>1, <3>2, <4>2, <5>1 DEF Promised!vars
      <4> QED
        BY <4>1, <4>2
    <3>3. CASE S' # S
      <4>1. PICK u \in Uploads :
              /\ UNCHANGED <<pc, upload, part, ret, luck, left>>
              /\ \A v \in Uploads : v # u => Arrived(v)' = Arrived(v)
              /\ \/ /\ u = upload /\ (pc # "idle" \/ left) /\ T'.state # "none"
                    /\ \E n \in 1 .. 2 :
                         Arrived(u)' = Arrived(u) \o [i \in 1 .. n |-> <<upload, part>>]
                 \/ /\ u < upload /\ left
                    /\ Arrived(u)' = Append(Arrived(u), <<upload, part>>)
        BY <1>0, <1>2, <1>4, <3>3, ArrivedSteps
      <4>2. S' = [S EXCEPT ![u] = Arrived(u)']
        BY <1>1, <4>1
      <4>3. S[u] = Arrived(u)
        OBVIOUS
      <4>4. CASE u = upload
        <5>0. ~(u < upload)
          BY <1>0, <4>4
        <5>1. PICK n \in 1 .. 2 : Arrived(u)' = Arrived(u) \o [i \in 1 .. n |-> <<upload, part>>]
          BY <4>1, <5>0
        <5>2. (pc # "idle" \/ left) /\ T'.state # "none"
          BY <5>0, <4>1
        <5>3. /\ Halves(u, Arrived(u)') /\ part \in 1 .. Parts[u]
              /\ luck # "lost" => IsPrefix(Arrived(u)', Promised!Whole(u))
          BY <2>1, <4>1, <4>4, <5>2 DEF IArrived
        <5>4. /\ Promised!InOrder(upload, Arrived(u)')
              /\ luck # "lost" => Promised!IsPrefix(Arrived(u)', Promised!Whole(upload))
          BY <4>4, <5>3 DEF Promised!InOrder, Halves, IsPrefix, Promised!IsPrefix,
                            Cardinality, Promised!Cardinality
        <5>5. \E k \in 1 .. Parts[upload], m \in 1 .. 2 :
                LET more == S[upload] \o [i \in 1 .. m |-> <<upload, k>>]
                IN /\ IF luck = "lost" THEN Promised!InOrder(upload, more)
                                       ELSE Promised!IsPrefix(more, Promised!Whole(upload))
                   /\ S' = [S EXCEPT ![upload] = more]
          <6> part \in 1 .. Parts[upload]
            BY <4>4, <5>3
          <6>1. Arrived(u)' = S[upload] \o [i \in 1 .. n |-> <<upload, part>>]
            BY <4>3, <4>4, <5>1
          <6> HIDE DEF S
          <6>2. S' = [S EXCEPT ![upload] = S[upload] \o [i \in 1 .. n |-> <<upload, part>>]]
            BY <4>2, <4>4, <6>1
          <6>3. IF luck = "lost"
                THEN Promised!InOrder(upload, S[upload] \o [i \in 1 .. n |-> <<upload, part>>])
                ELSE Promised!IsPrefix(S[upload] \o [i \in 1 .. n |-> <<upload, part>>],
                                       Promised!Whole(upload))
            BY <5>4, <6>1
          <6> WITNESS part \in 1 .. Parts[upload], n \in 1 .. 2
          <6> QED
            BY <6>2, <6>3
        <5>6. Promised!Store
          BY <2>3, <3>1, <4>1, <5>2, <5>5 DEF Promised!Store
        <5> QED
          BY <5>6 DEF Promised!Next
      <4>5. CASE u # upload
        <5>1. u \in 1 .. upload - 1 /\ left /\ Arrived(u)' = Append(Arrived(u), <<upload, part>>)
          BY <1>0, <4>1, <4>5
        <5>2. part \in 0 .. Parts[upload]
          <6>1. part \in Nat /\ upload \in Uploads
            BY <1>0, <5>1, Basics
          <6>2. Parts[upload] \in Nat
            BY <6>1, BoundAssumption DEF Uploads
          <6> QED
            BY <1>0, <6>1, <6>2 DEF IBase, IFresh
        <5>3. Promised!Stray
          <6>1. \E v \in 1 .. upload - 1, k \in 0 .. Parts[upload] :
                  S' = [S EXCEPT ![v] = Append(@, <<upload, k>>)]
            <7>1. S' = [S EXCEPT ![u] = Append(S[u], <<upload, part>>)]
              BY <4>2, <4>3, <5>1
            <7> QED
              BY <5>1, <5>2, <7>1
          <6> QED
            BY <2>3, <3>1, <4>1, <5>1, <6>1 DEF Promised!Stray
        <5> QED
          BY <5>3 DEF Promised!Next
      <4> QED
        BY <4>4, <4>5
    <3> QED
      BY <3>2, <3>3
  <2> QED
    BY <1>0, <1>4, <2>2, <2>3, EndSteps
<1> QED
  BY <1>3, <1>4

\* To the server's files an upload is what UploadStore promises, over late replies,
\* timeouts, refusals, breaks and a data task at any time: their beginning at every
\* moment, all of them after a success.
THEOREM UploadsImplementStore == Spec => FilesAsPromised
<1>1. Init => Promised!Init
  <2> SUFFICES ASSUME Init PROVE Promised!Init
    OBVIOUS
  <2>1. \A u \in Uploads : Arrived(u) = <<>>
    BY DEF Init, Arrived, NoTransfer
  <2> QED
    BY <2>1 DEF Init, Promised!Init, Promised!Uploads, Uploads
<1>2. IStored => IArrived
  BY ArrivedInOrder DEF IStored
<1>3. IStored /\ IArrived' /\ [Next]_vars => [Promised!Next]_(Promised!vars)
  BY StoreSteps
<1> QED
  BY <1>1, <1>2, <1>3, StoredInductive, PTL DEF Spec, FilesAsPromised, Promised!Spec
=============================================================================
