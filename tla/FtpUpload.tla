----------------------------- MODULE FtpUpload -----------------------------
(***************************************************************************)
(* Uploads over FTP: ftp_write_image and ftp_write_status (ftp.c) over the *)
(* FTP client of patch/ftp_client.c.  A status is an upload of one part;   *)
(* that it is appended to a file of earlier ones is left out.              *)
(*                                                                         *)
(* Who runs.  The worker sends commands and waits for their replies.  The  *)
(* client's work queue, a thread of the lowest priority, sends the data of *)
(* a part, and NOOPs when the keepalive timer finds the connection idle;   *)
(* it shares the control socket and ctrl_buf with the worker.  The server  *)
(* answers the commands in order; one recv returns any number of the       *)
(* replies that have arrived.  The server takes the data connection before *)
(* it answers to STOR and APPE, and finishes a transfer before the next    *)
(* command.                                                                *)
(*                                                                         *)
(* Time is counted in the timeouts of the client's poll, of 10 s each.     *)
(***************************************************************************)
EXTENDS Integers, Sequences, FiniteSetsExt, SequencesExt

CONSTANTS Parts,           \* the uploads, bounded: of how many buffers each is
          DataWaits,       \* FTP_DATA_TIMEOUT_SEC, in timeouts
          KeepaliveWaits,  \* CONFIG_FTP_CLIENT_KEEPALIVE_TIME, in timeouts
          MaxFaults        \* bound: refusals, late or other replies and broken connections

ASSUME BoundAssumption == Parts \in Seq(Nat \ {0}) /\ MaxFaults \in Nat
ASSUME WaitsAssumption == DataWaits \in Nat /\ KeepaliveWaits \in Nat \ {0}

NoPort == <<0, 0>>
Uploads == DOMAIN Parts
Numbers == 0 .. Max({0} \union Range(Parts))
Ports == {NoPort} \union Uploads \X Numbers \* the upload, its PASV
Contents == Uploads \X Numbers             \* of a buffer: the upload, the part

VARIABLES
  \* the worker
  pc,        \* "idle", "open", "send", "recv", "submit", "poll", "put", "close"
  cmd,       \* the command it sends or waits for the reply to
  upload, part,
  buffer,    \* what capture->data holds
  ret,       \* of ftp_write_image: 0 or -1
  waits,     \* wait_time of poll_data_task_done
  client,    \* connected, cmd_sock, the PASV reply in ctrl_buf, ftp_inactivity, the timer
  wq,        \* ftp_work_q: its items, what it does, the data socket and its port
  srv,       \* the control connection and the server at its end
  transfer,  \* of each upload: its last PASV, the state, the data connection, what came over it
  file,      \* of each upload, at the server
  faults,
  \* history, read by no step
  quiet,     \* timeouts since the keepalive timer last fired, at most KeepaliveWaits
  luck,      \* of this upload: "served", "noop" if a NOOP was sent, "fault" if it met one,
             \* "lost" if that made it skip data: a refusal, an error in the file or its data
  left       \* QUIT could once not be sent, and nothing was closed

workerVars == <<pc, cmd, upload, part, buffer, ret, waits>>
historyVars == <<quiet, luck, left>>
vars == <<workerVars, client, wq, srv, transfer, file, faults, historyVars>>

Commands == {"GREETING", "OPTS", "USER", "PASS", "MKD", "TYPE", "PASV", "STOR", "APPE",
             "QUIT", "NOOP"}
Replies == [code : {150, 200, 220, 221, 226, 227, 230, 257, 331, 530, 550}, port : Ports]

TypeOK ==
  /\ pc \in {"idle", "open", "send", "recv", "submit", "poll", "put", "close"}
  /\ cmd \in Commands
  /\ upload \in 0 .. Len(Parts) /\ part \in Numbers
  /\ buffer \in Contents \union {NoPort}
  /\ ret \in {-1, 0}
  /\ waits \in 0 .. DataWaits
  /\ client \in [connected : BOOLEAN, sock : {"invalid", "open", "stale"}, pasv : Ports,
                 inactivity : BOOLEAN, timer : BOOLEAN]
  /\ wq \in [items : BoundedSeq({"data", "keep"}, 2), port : Ports,
             pc : {"idle", "sending", "half", "noop"}, sock : {"none", "open", "closed"}]
  /\ srv \in [link : {"up", "down"}, cmds : Seq(Commands), replies : Seq(Replies),
              login : {"no", "user", "yes"}, listening : Ports]
  /\ transfer \in [Uploads -> [pasv : Numbers, state : {"none", "wait", "open", "done"},
                                    data : {"none", "open", "ended"}, bytes : Seq(Contents)]]
  /\ file \in [Uploads -> Seq(Contents)]
  /\ faults \in 0 .. MaxFaults
  /\ quiet \in 0 .. KeepaliveWaits
  /\ luck \in {"served", "noop", "fault", "lost"} /\ left \in BOOLEAN

NoServer == [link |-> "down", cmds |-> <<>>, replies |-> <<>>, login |-> "no",
             listening |-> NoPort]
NoTransfer == [pasv |-> 0, state |-> "none", data |-> "none", bytes |-> <<>>]

Init ==
  /\ pc = "idle" /\ cmd = "GREETING"
  /\ upload = 0 /\ part = 0 /\ buffer = NoPort
  /\ ret = 0 /\ waits = 0
  /\ client = [connected |-> FALSE, sock |-> "invalid", pasv |-> NoPort,
               inactivity |-> FALSE, timer |-> FALSE]
  /\ wq = [items |-> <<>>, pc |-> "idle", sock |-> "none", port |-> NoPort]
  /\ srv = NoServer
  /\ transfer = [u \in Uploads |-> NoTransfer]
  /\ file = [u \in Uploads |-> <<>>]
  /\ faults = 0
  /\ quiet = 0 /\ luck = "served" /\ left = FALSE

Goto(p, c) == pc' = p /\ cmd' = c

\* Mutant: the cleanup's ftp_close overwrites the error.
FailForgotten == UNCHANGED ret

Fail == ret' = -1
SameFaults == UNCHANGED <<faults, historyVars>>
OneMoreFault == faults < MaxFaults /\ faults' = faults + 1
Unlucky == IF luck = "lost" THEN luck ELSE "fault"
Fault == OneMoreFault /\ luck' = Unlucky /\ UNCHANGED <<quiet, left>>
Loss == OneMoreFault /\ luck' = "lost" /\ UNCHANGED <<quiet, left>>

-----------------------------------------------------------------------------
(* The control connection, as both threads use it *)

\* Mutant: the data socket is left open.
DataSockLeft == wq

\* close_connection, in its three parts.
DataSockClosed == [wq EXCEPT !.sock = IF @ = "open" THEN "closed" ELSE @]
ClientClosed(pasv) == [client EXCEPT !.connected = FALSE, !.sock = "invalid", !.pasv = pasv]
close_connection == /\ client' = ClientClosed(client.pasv)
                    /\ wq' = DataSockClosed
                    /\ srv' = NoServer

Broken == client.sock = "open" /\ srv.link = "down"

\* These commands are written to ctrl_buf, over a PASV reply.
Formatted == {"OPTS", "USER", "PASS", "MKD"}
Sent(c) == [client EXCEPT !.inactivity = FALSE,
                          !.pasv = IF c \in Formatted THEN NoPort ELSE @]

\* do_ftp_send_ctrl succeeds, on a broken connection for nothing.
Send(c) == /\ client.sock = "open"
           /\ client' = Sent(c)
           /\ srv' = IF Broken THEN srv ELSE [srv EXCEPT !.cmds = Append(@, c)]

\* It fails.
SendFails(c) == /\ client.sock # "open" \/ Broken
                /\ UNCHANGED srv

\* Mutant: only the first of the replies that have come is looked at.
ReadOfFirst(n) == 1 .. 1

\* parse_return_code searches all that recv has returned, the first n replies.
Read(n) == 1 .. n

\* do_ftp_recv_ctrl receives the first n replies: the codes it can find, and what it
\* leaves of the client and the server.
Received(n) == client.sock = "open" /\ n \in DOMAIN srv.replies
CodesIn(n) == {srv.replies[i].code : i \in Read(n)}
ClientAfter(n) ==
  LET pasvs == {i \in 1 .. n : srv.replies[i].code = 227}
  IN [client EXCEPT !.inactivity = FALSE,
                    !.pasv = IF pasvs = {} THEN NoPort ELSE srv.replies[Max(pasvs)].port]
ServerAfter(n) == [srv EXCEPT !.replies = SubSeq(@, n + 1, Len(@))]

\* Its poll times out, also when another thread has closed the socket.
NothingComes == client.sock # "open" \/ srv.replies = <<>>

\* The work queue need not wait: neither the server, nor the modem at the start of the
\* next upload, nor 10 s are faster than that.
Ready == \/ wq.pc = "idle" /\ wq.items # <<>>
         \/ wq.pc \in {"sending", "half"} /\ wq.sock = "closed"

\* Its poll returns POLLHUP, or POLLNVAL for a closed socket: close_connection.
HangUp == /\ client.sock # "open" \/ Broken
          /\ client' = ClientClosed(NoPort)
          /\ srv' = NoServer

-----------------------------------------------------------------------------
(* The worker: ftp_write_image *)

\* What the server will have of upload u when nothing more comes.
Arrived(u) == IF transfer[u].state = "none" THEN file[u] ELSE file[u] \o transfer[u].bytes

\* A capture overwrites the buffer, and is uploaded.
Begin ==
  /\ pc = "idle" /\ upload < Len(Parts) /\ ~Ready
  /\ pc' = "open"
  /\ upload' = upload + 1 /\ part' = 0
  /\ buffer' = <<upload', 0>>
  /\ ret' = 0 /\ waits' = 0
  /\ luck' = IF client.connected THEN "fault" ELSE IF wq.pc = "noop" THEN "noop" ELSE "served"
  /\ IF upload \in Uploads /\ transfer[upload].data # "open"
     THEN /\ file' = [file EXCEPT ![upload] = Arrived(upload)]
          /\ transfer' = [transfer EXCEPT ![upload] = NoTransfer]
     ELSE UNCHANGED <<transfer, file>>
  /\ UNCHANGED <<cmd, client, wq, srv, faults, quiet, left>>

Rest == UNCHANGED <<upload, part, buffer, transfer, file>>

\* ftp_open up to the greeting.
OpenRefused ==
  /\ pc = "open" /\ client.connected
  /\ Fail /\ pc' = "close"
  /\ Rest /\ SameFaults /\ UNCHANGED <<cmd, waits, client, wq, srv>>

Connect ==
  /\ pc = "open" /\ ~client.connected
  /\ Goto("recv", "GREETING")
  /\ client' = [client EXCEPT !.sock = "open"]
  /\ srv' = [NoServer EXCEPT !.link = "up", !.cmds = <<"GREETING">>]
  /\ Rest /\ SameFaults /\ UNCHANGED <<ret, waits, wq>>

\* The name is not found, or nothing listens at the server.
ConnectFails ==
  /\ pc = "open" /\ ~client.connected
  /\ Fault
  /\ client' \in {client, [client EXCEPT !.sock = "stale"]}
  /\ Fail /\ pc' = "close"
  /\ Rest /\ UNCHANGED <<cmd, waits, wq, srv>>

SendCommand ==
  /\ pc = "send" /\ Send(cmd)
  /\ pc' = IF cmd \in {"STOR", "APPE"} THEN "submit" ELSE "recv"
  /\ Rest /\ SameFaults /\ UNCHANGED <<cmd, ret, waits, wq>>

\* The result of ftp_mkd is not looked at; ftp_open closes its socket itself; ftp_close
\* returns without closing.
SendCommandFails ==
  /\ pc = "send"
  /\ \/ /\ SendFails(cmd) /\ UNCHANGED wq
        /\ client' = [Sent(cmd) EXCEPT !.sock = IF cmd = "OPTS" THEN "stale" ELSE @]
        /\ left' = (left \/ cmd = "QUIT")
     \/ Broken /\ close_connection /\ UNCHANGED left      \* ENETDOWN
  /\ CASE cmd = "MKD" -> Goto("send", "TYPE") /\ UNCHANGED ret
       [] cmd = "QUIT" -> pc' = "idle" /\ UNCHANGED <<cmd, ret>>
       [] OTHER -> Fail /\ pc' = "close" /\ UNCHANGED cmd
  /\ Rest /\ UNCHANGED <<waits, faults, quiet, luck>>

\* The reply each command waits for, if it matters; the command that follows.
Expected == [GREETING |-> 220, USER |-> 331, PASS |-> 230, TYPE |-> 200, PASV |-> 227]
Following == [GREETING |-> "OPTS", OPTS |-> "USER", USER |-> "PASS", PASS |-> "MKD",
              MKD |-> "TYPE"]

\* Mutant: every part is stored anew.
StoreAnew == "STOR"

Store == IF part = 1 THEN "STOR" ELSE "APPE"

\* The expected reply: ftp_login starts the keepalive timer, ftp_put goes on to STOR.
ReplyExpected ==
  /\ pc = "recv" /\ cmd # "QUIT"
  /\ \E n \in DOMAIN srv.replies :
       /\ Received(n)
       /\ cmd \in DOMAIN Expected => Expected[cmd] \in CodesIn(n)
       /\ srv' = ServerAfter(n)
       /\ client' = IF cmd = "PASS" THEN [ClientAfter(n) EXCEPT !.connected = TRUE, !.timer = TRUE]
                                    ELSE ClientAfter(n)
  /\ CASE cmd = "TYPE" -> pc' = "put" /\ UNCHANGED cmd
       [] cmd = "PASV" -> Goto("send", Store)
       [] OTHER -> Goto("send", Following[cmd])
  /\ Rest /\ SameFaults /\ UNCHANGED <<ret, waits, wq>>

\* Another reply: the functions return FTP_CODE_500, which is no error to ftp_write_image.
ReplyOther ==
  /\ pc = "recv" /\ cmd \in DOMAIN Expected
  /\ \E n \in DOMAIN srv.replies :
       /\ Received(n)
       /\ Expected[cmd] \notin CodesIn(n)
       /\ IF cmd = "GREETING"
          THEN client' = [ClientAfter(n) EXCEPT !.sock = "stale"] /\ srv' = NoServer
          ELSE client' = ClientAfter(n) /\ srv' = ServerAfter(n)
  /\ CASE cmd = "GREETING" -> Goto("send", "USER")
       [] cmd \in {"USER", "PASS"} -> Goto("send", "MKD")
       [] OTHER -> pc' = "put" /\ UNCHANGED cmd
  /\ luck' = IF luck = "served" THEN luck ELSE "lost"
  /\ Rest /\ UNCHANGED <<ret, waits, wq, faults, quiet, left>>

\* What a timeout or a hang-up leads to; the results of OPTS and MKD are not looked at.
GiveUp == IF cmd \in {"OPTS", "MKD"}
          THEN Goto("send", Following[cmd]) /\ UNCHANGED ret
          ELSE Fail /\ pc' = "close" /\ UNCHANGED cmd

ReplyLate ==
  /\ pc = "recv" /\ cmd # "QUIT"
  /\ NothingComes /\ ~Ready
  /\ IF client.sock = "open" /\ srv.cmds # <<>>      \* a reply is still to come
     THEN OneMoreFault /\ luck' = Unlucky
     ELSE UNCHANGED <<faults, luck>>
  /\ quiet' = Min({quiet + 1, KeepaliveWaits})
  /\ IF cmd = "GREETING"
     THEN client' = [client EXCEPT !.sock = "stale"] /\ srv' = NoServer
     ELSE UNCHANGED <<client, srv>>
  /\ GiveUp
  /\ Rest /\ UNCHANGED <<waits, wq, left>>

ReplyHungUp ==
  /\ pc = "recv" /\ cmd # "QUIT"
  /\ HangUp /\ wq' = DataSockClosed
  /\ GiveUp
  /\ Rest /\ SameFaults /\ UNCHANGED waits

\* The next buffer of the file, or its end.
NextPart ==
  /\ pc = "put"
  /\ IF part < Parts[upload]
     THEN /\ part' = part + 1
          /\ buffer' = <<upload, part'>>
          /\ Goto("send", "PASV")
          /\ UNCHANGED ret
     ELSE pc' = "close" /\ ret' = 0 /\ UNCHANGED <<part, buffer, cmd>>
  /\ SameFaults /\ UNCHANGED <<upload, waits, client, wq, srv, transfer, file>>

\* An error in reading the file is its end, and no error; one in opening it is.
ReadFails ==
  /\ pc = "put" /\ pc' = "close"
  /\ Loss
  /\ ret' \in IF part = 0 THEN {0, -1} ELSE {0}
  /\ Rest /\ UNCHANGED <<cmd, waits, client, wq, srv>>

Queued(item) == IF item \in Range(wq.items) THEN wq.items ELSE Append(wq.items, item)

SubmitData ==
  /\ pc = "submit" /\ pc' = "poll"
  /\ waits' = 0
  /\ wq' = [wq EXCEPT !.items = Queued("data")]
  /\ Rest /\ SameFaults /\ UNCHANGED <<cmd, ret, client, srv>>

\* poll_data_task_done: 226 ends it, other replies do not.
PollReply ==
  /\ pc = "poll"
  /\ \E n \in DOMAIN srv.replies :
       /\ Received(n)
       /\ client' = ClientAfter(n) /\ srv' = ServerAfter(n)
       /\ pc' = IF 226 \in CodesIn(n) THEN "put" ELSE "poll"
  /\ Rest /\ SameFaults /\ UNCHANGED <<cmd, ret, waits, wq>>

\* Mutants: a timeout too many; timeouts are not counted.
TimeLeftLate == waits <= DataWaits
Uncounted == waits

TimeLeft == waits < DataWaits
Counted == waits + 1

PollTimeout ==
  /\ pc = "poll"
  /\ NothingComes /\ ~Ready
  /\ quiet' = Min({quiet + 1, KeepaliveWaits})
  /\ IF TimeLeft
     THEN waits' = Counted /\ UNCHANGED <<pc, ret, client, luck>>
     ELSE /\ Fail /\ pc' = "close"
          /\ client' = [client EXCEPT !.pasv = NoPort]
          /\ luck' = IF transfer[upload].state = "done" THEN luck ELSE Unlucky
          /\ UNCHANGED waits
  /\ Rest /\ UNCHANGED <<cmd, wq, srv, faults, left>>

PollHungUp ==
  /\ pc = "poll"
  /\ HangUp /\ wq' = DataSockClosed
  /\ Fail /\ pc' = "close"
  /\ Rest /\ SameFaults /\ UNCHANGED <<cmd, waits>>

-----------------------------------------------------------------------------
(* ftp_close *)

SendQuit ==
  /\ pc = "close" /\ client.connected
  /\ Goto("send", "QUIT")
  /\ Rest /\ SameFaults /\ UNCHANGED <<ret, waits, client, wq, srv>>

\* Mutant: without a login nothing is closed.
ClosedIfConnected == UNCHANGED <<client, wq, srv>>

\* Not logged in: close_connection without QUIT.
Closed == close_connection

CloseUnconnected ==
  /\ pc = "close" /\ ~client.connected
  /\ pc' = "idle"
  /\ Closed
  /\ Rest /\ SameFaults /\ UNCHANGED <<cmd, ret, waits>>

\* The reply to QUIT, a timeout or a hang-up: all the same.
QuitAnswered ==
  /\ pc = "recv" /\ cmd = "QUIT"
  /\ pc' = "idle"
  /\ srv' = NoServer /\ wq' = DataSockClosed
  /\ \/ \E n \in DOMAIN srv.replies :
          Received(n) /\ client' = [ClientClosed(NoPort) EXCEPT !.pasv = ClientAfter(n).pasv,
                                                                !.inactivity = FALSE]
     \/ NothingComes /\ ~Ready /\ client' = ClientClosed(client.pasv)
     \/ (client.sock # "open" \/ Broken) /\ client' = ClientClosed(NoPort)
  /\ Rest /\ SameFaults /\ UNCHANGED <<cmd, ret, waits>>

-----------------------------------------------------------------------------
(* The keepalive timer and the work queue *)

\* Every KeepaliveWaits; without an exchange between two of them a NOOP will be sent.
keepalive_timeout ==
  /\ client.timer
  /\ client.inactivity => quiet = KeepaliveWaits \/ pc = "idle"
  /\ quiet' = 0
  /\ IF client.sock = "invalid"
     THEN client' = [client EXCEPT !.timer = FALSE] /\ UNCHANGED wq
     ELSE wq' = [wq EXCEPT !.items = Queued("keep")] /\ UNCHANGED client
  /\ UNCHANGED <<workerVars, srv, transfer, file, faults, luck, left>>

Start(item) == wq.pc = "idle" /\ wq.items # <<>> /\ Head(wq.items) = item
Started(p) == [wq EXCEPT !.items = Tail(@), !.pc = p]
SameServer == UNCHANGED <<srv, transfer, file>>

\* keepalive_handler
KeepaliveFirst ==
  /\ Start("keep") /\ ~client.inactivity
  /\ wq' = Started("idle")
  /\ client' = [client EXCEPT !.inactivity = TRUE]
  /\ SameServer /\ SameFaults /\ UNCHANGED workerVars

KeepaliveSends ==
  /\ Start("keep") /\ client.inactivity
  /\ \/ Send("NOOP") /\ wq' = Started("noop")
     \/ SendFails("NOOP") /\ client' = Sent("NOOP") /\ wq' = Started("idle")
     \/ /\ Broken      \* ENETDOWN
        /\ client' = ClientClosed(NoPort) /\ srv' = NoServer
        /\ wq' = [DataSockClosed EXCEPT !.items = Tail(@)]
  /\ luck' = IF luck \in {"fault", "lost"} THEN luck ELSE "noop"
  /\ UNCHANGED <<workerVars, transfer, file, faults, quiet, left>>

\* It takes whatever replies come first.
KeepaliveAnswered ==
  /\ wq.pc = "noop"
  /\ \/ \E n \in DOMAIN srv.replies :
          /\ Received(n)
          /\ client' = ClientAfter(n) /\ srv' = ServerAfter(n)
          /\ wq' = [wq EXCEPT !.pc = "idle"]
     \/ NothingComes /\ wq' = [wq EXCEPT !.pc = "idle"] /\ UNCHANGED <<client, srv>>
     \/ HangUp /\ wq' = [DataSockClosed EXCEPT !.pc = "idle"]
  /\ SameFaults /\ UNCHANGED <<workerVars, transfer, file>>

\* data_task reads the port from ctrl_buf now, and connects to it.
establish_data_channel ==
  /\ Start("data")
  /\ client.pasv # NoPort /\ srv.listening = client.pasv
  /\ wq' = [Started("sending") EXCEPT !.sock = "open", !.port = client.pasv]
  /\ srv' = [srv EXCEPT !.listening = NoPort]
  /\ transfer' = [transfer EXCEPT ![client.pasv[1]].data = "open"]
  /\ SameFaults /\ UNCHANGED <<workerVars, client, file>>

\* There is no port in it, or nothing listens there.
NoDataChannel ==
  /\ Start("data")
  /\ \/ (client.pasv = NoPort \/ srv.listening # client.pasv) /\ SameFaults
     \/ Fault
  /\ wq' = Started("idle")
  /\ SameServer /\ UNCHANGED <<workerVars, client>>

DataUpload == wq.port[1]

\* A newer PASV has ended the data connection for the server.
DataArrives(data, bytes) ==
  transfer' = IF transfer[DataUpload].pasv # wq.port[2] THEN transfer
              ELSE [transfer EXCEPT ![DataUpload].data = data, ![DataUpload].bytes = @ \o bytes]

\* The first half of the buffer, as it is when it is sent.
SendFirstHalf ==
  /\ wq.pc = "sending" /\ wq.sock = "open"
  /\ wq' = [wq EXCEPT !.pc = "half"]
  /\ DataArrives("open", <<buffer>>)
  /\ SameFaults /\ UNCHANGED <<workerVars, client, srv, file>>

DataEnds(bytes) ==
  /\ wq' = [wq EXCEPT !.pc = "idle", !.sock = "none", !.port = NoPort]
  /\ DataArrives("ended", bytes)
  /\ client' = [client EXCEPT !.inactivity = FALSE]

SendSecondHalf ==
  /\ wq.pc = "half" /\ wq.sock = "open"
  /\ DataEnds(<<buffer>>)
  /\ SameFaults /\ UNCHANGED <<workerVars, srv, file>>

\* The data connection breaks, or the worker has closed its socket.
SendDataFails ==
  /\ wq.pc \in {"sending", "half"}
  /\ IF wq.sock = "closed" THEN SameFaults ELSE Loss
  /\ DataEnds(<<>>)
  /\ UNCHANGED <<workerVars, srv, file>>

-----------------------------------------------------------------------------
(* The server *)

Reply(c) == [code |-> c, port |-> NoPort]
Busy == transfer[upload].state \in {"wait", "open"}
NextCommand == Head(srv.cmds)
Serving == srv.link = "up" /\ srv.cmds # <<>> /\ ~Busy /\ ~Ready
Answered(r) == [srv EXCEPT !.cmds = Tail(@), !.replies = Append(@, r)]

SimpleReplies == [GREETING |-> 220, OPTS |-> 200, USER |-> 331, PASS |-> 230, MKD |-> 257,
                  TYPE |-> 200, NOOP |-> 200]
NeedsLogin == {"MKD", "TYPE", "PASV", "STOR", "APPE"}
Allowed == CASE NextCommand = "PASS" -> srv.login = "user"
             [] NextCommand \in NeedsLogin -> srv.login = "yes"
             [] OTHER -> TRUE

Answer ==
  /\ Serving /\ Allowed
  /\ NextCommand \in DOMAIN SimpleReplies
  /\ srv' = [Answered(Reply(SimpleReplies[NextCommand])) EXCEPT
               !.login = CASE NextCommand = "USER" -> "user"
                           [] NextCommand = "PASS" -> "yes"
                           [] OTHER -> @]
  /\ SameFaults /\ UNCHANGED <<workerVars, client, wq, transfer, file>>

AnswerPasv ==
  /\ Serving /\ Allowed /\ NextCommand = "PASV"
  /\ LET port == <<upload, transfer[upload].pasv + 1>>
     IN /\ srv' = [Answered([code |-> 227, port |-> port]) EXCEPT !.listening = port]
        /\ transfer' = [transfer EXCEPT ![upload] = [NoTransfer EXCEPT !.pasv = port[2]]]
  /\ SameFaults /\ UNCHANGED <<workerVars, client, wq, file>>

\* Without a PASV before it is refused; else the data connection is waited for.
AnswerStore ==
  /\ Serving /\ Allowed /\ NextCommand \in {"STOR", "APPE"}
  /\ IF transfer[upload].pasv = 0
     THEN srv' = Answered(Reply(550)) /\ UNCHANGED <<transfer, file>>
     ELSE /\ srv' = [srv EXCEPT !.cmds = Tail(@)]
          /\ transfer' = [transfer EXCEPT ![upload].state = "wait"]
          /\ file' = IF NextCommand = "STOR" THEN [file EXCEPT ![upload] = <<>>] ELSE file
  /\ SameFaults /\ UNCHANGED <<workerVars, client, wq>>

AnswerQuit ==
  /\ Serving /\ NextCommand = "QUIT"
  /\ srv' = [Answered(Reply(221)) EXCEPT !.link = "down", !.listening = NoPort]
  /\ SameFaults /\ UNCHANGED <<workerVars, client, wq, transfer, file>>

\* A command out of order, or one the server has another reason to refuse.
Refuse ==
  /\ Serving
  /\ IF Allowed THEN Fault ELSE SameFaults
  /\ srv' = Answered(Reply(530))
  /\ UNCHANGED <<workerVars, client, wq, transfer, file>>

\* A transfer goes on after its control connection is gone: nobody is told how it ends,
\* and NoForeignData looks at what has come by then.
OpenTransfer ==
  /\ srv.link = "up" /\ ~Ready
  /\ transfer[upload].state = "wait" /\ transfer[upload].data # "none"
  /\ transfer' = [transfer EXCEPT ![upload].state = "open"]
  /\ srv' = [srv EXCEPT !.replies = Append(@, Reply(150))]
  /\ SameFaults /\ UNCHANGED <<workerVars, client, wq, file>>

EndTransfer ==
  /\ srv.link = "up" /\ ~Ready
  /\ transfer[upload].state = "open" /\ transfer[upload].data = "ended"
  /\ transfer' = [transfer EXCEPT ![upload].state = "done", ![upload].bytes = <<>>]
  /\ file' = [file EXCEPT ![upload] = @ \o transfer[upload].bytes]
  /\ srv' = [srv EXCEPT !.replies = Append(@, Reply(226))]
  /\ SameFaults /\ UNCHANGED <<workerVars, client, wq>>

\* A reply to nothing, that only TYPE waits for: one of the faults, but an upload that met
\* one may get as many as the server likes while the worker waits for the transfer's end.
OtherReply ==
  /\ srv.link = "up" /\ srv.replies = <<>>      \* bound: one is unread at a time
  /\ IF pc = "poll" /\ luck = "fault" THEN UNCHANGED faults ELSE OneMoreFault
  /\ luck' = Unlucky
  /\ srv' = [srv EXCEPT !.replies = Append(@, Reply(200))]
  /\ UNCHANGED <<workerVars, client, wq, transfer, file, quiet, left>>

LinkFails ==
  /\ srv.link = "up"
  /\ Fault
  /\ srv' = NoServer
  /\ UNCHANGED <<workerVars, client, wq, transfer, file>>

-----------------------------------------------------------------------------
Worker == \/ OpenRefused \/ Connect \/ ConnectFails \/ SendCommand \/ SendCommandFails
          \/ ReplyExpected \/ ReplyOther \/ ReplyLate \/ ReplyHungUp
          \/ NextPart \/ ReadFails \/ SubmitData \/ PollReply \/ PollTimeout \/ PollHungUp
          \/ SendQuit \/ CloseUnconnected \/ QuitAnswered
StartItem == KeepaliveFirst \/ KeepaliveSends \/ establish_data_channel \/ NoDataChannel
WorkQueue == \/ keepalive_timeout \/ StartItem \/ KeepaliveAnswered
             \/ SendFirstHalf \/ SendSecondHalf \/ SendDataFails
Server == \/ Answer \/ AnswerPasv \/ AnswerStore \/ AnswerQuit \/ Refuse
          \/ OpenTransfer \/ EndTransfer
Next == Begin \/ Worker \/ WorkQueue \/ Server \/ OtherReply \/ LinkFails

\* The threads run, though data may never get through.  A server that stops to answer
\* is a broken link; one that is not broken answers.  Nobody need say more than that.
Fairness == WF_vars(Worker) /\ WF_vars(StartItem) /\ WF_vars(Server)

Spec == Init /\ [][Next]_vars /\ Fairness

-----------------------------------------------------------------------------
(* Properties *)

\* Whatever is late, refused or broken, and though a data task may outlive the upload
\* it was submitted for: the server's file of an upload only ever holds buffers of
\* that upload, in their order and none twice (ftp_put, close_connection), unless
\* QUIT could not be sent and the data socket was left to the data task.
NoForeignData ==
  ~left => \A u \in Uploads :
    LET halves == Arrived(u)
    IN \A i \in DOMAIN halves :
         /\ halves[i][1] = u /\ halves[i][2] > 0
         /\ \A j \in 1 .. i - 1 : halves[j][2] <= halves[i][2]
         /\ Cardinality({j \in DOMAIN halves : halves[j] = halves[i]}) <= 2

\* After an upload, however it went, the client is closed and the next one can
\* connect, unless QUIT could not be sent (ftp_close, ftp_client.c:620-635).
ClosedAfterUpload ==
  pc = "idle" /\ ~left => client.sock = "invalid" /\ ~client.connected

\* The file of upload u when it is complete, in halves of buffers.
Whole(u) == [i \in 1 .. 2 * Parts[u] |-> <<u, (i + 1) \div 2>>]
Uploaded == ret = 0 /\ file[upload] = Whole(upload)

\* An upload on which nothing fails and no reply is late is complete and ends with 0,
\* however slowly the data go and however replies are received together, as long as
\* the keepalive sends no NOOP during it.
UploadedWhenServed == pc = "idle" /\ upload > 0 /\ luck = "served" => Uploaded

\* ftp_client.c:23, "time in seconds to wait for Transfer complete": an upload whose
\* transfers complete in that time succeeds.  The keepalive may take the reply.
UploadedInTime == pc = "idle" /\ upload > 0 /\ luck \in {"served", "noop"} => Uploaded

\* An upload that returns 0 is whole at the server, over timeouts, late replies that
\* answer the command before, breaks, and the data task and the keepalive at any time;
\* but for a reply other than the expected (FTP_CODE_500, ftp.c:121, is no error), an
\* error in reading the file, or one in sending it that the server takes for its end.
ZeroMeansUploaded == pc = "idle" /\ upload > 0 /\ ret = 0 /\ luck # "lost" => Uploaded

\* To the server's files an upload is what UploadStore promises, whatever fails.
Promised == INSTANCE UploadStore WITH
  working <- pc # "idle", result <- IF pc = "idle" THEN ret ELSE 0,
  skipped <- luck = "lost", stray <- left, stored <- [u \in Uploads |-> Arrived(u)]
FilesAsPromised == Promised!Spec

\* Every upload ends, and the worker makes captures again, whatever is refused, late or
\* broken and however slow the data task is, unless the server goes on for ever to send
\* replies that end no transfer: each starts the wait of poll_data_task_done anew, which
\* counts only the times that nothing comes (ftp_client.c:354-370, main.c:306).
UploadEnds == []<><<OtherReply>>_vars \/ (pc # "idle" ~> pc = "idle")
=============================================================================
