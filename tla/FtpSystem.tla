------------------------------ MODULE FtpSystem ------------------------------
(***************************************************************************)
(* The client at work with one session of the server: FTPClient on one end *)
(* of the control connection, and on the other the command loop of         *)
(* session.c with the transfers it forks.  Of the session's passive        *)
(* sockets it assumes what Endpoint says, which Session implements.        *)
(***************************************************************************)
EXTENDS FTPClient

CONSTANTS
  MaxListeners,   \* bound: how many passive sockets the session creates
  Transfers,      \* the transfer processes, numbered in the order of their fork
  Remote,         \* the files the server has at the start: name -> size
  Local           \* the files the client has at the start: how much of the remote one

ASSUME FtpSystemAssumption ==
  /\ MaxListeners \in Nat
  /\ Links = (1 .. MaxListeners) \cup Transfers
  /\ (1 .. MaxListeners) \cap Transfers = {}
  /\ Remote \in [Files -> Nat] /\ Local \in [Files -> Nat]

VARIABLES
  made, armed, served,   \* the session's passive sockets, as Endpoint has them
  loggedIn,              \* whether the session is in STATE_LOGGED_IN
  mode,                  \* data_conn.mode
  port_port,             \* data_conn.port_port
  last_sent_byte,        \* data_conn.last_sent_byte
  child,                 \* the transfer processes
  remote,                \* the files on the server's disk
  torn                   \* history: whether a write() has stored less than it was given

Passive == INSTANCE Endpoint

session == <<loggedIn, mode, port_port, last_sent_byte>>
serverVars == <<made, armed, served, session, child, remote, torn>>
vars == <<clientVars, serverVars>>

Data(f, n) == [is |-> "data", of |-> f, n |-> n]
Line(f, size) == [is |-> "line", of |-> f, n |-> size]
Whole(f, size) == [n \in 1 .. size |-> Data(f, n)]

Unborn == [pc |-> "unborn", verb |-> "", file |-> "", mode |-> "MODE_NONE", port |-> 0,
           offset |-> 0, conn |-> 0, to |-> 0]

Init ==
  /\ ClientInit
  /\ Passive!Init
  /\ loggedIn \in BOOLEAN
  /\ mode = "MODE_NONE" /\ port_port = 0 /\ last_sent_byte = 0
  /\ child = [t \in Transfers |-> Unborn]
  /\ remote = [f \in Files |-> IF Remote[f] = 0 THEN NoFile ELSE File(Whole(f, Remote[f]))]
  /\ local = [f \in Files |-> IF Local[f] = 0 THEN NoFile ELSE File(Whole(f, Local[f]))]
  /\ torn = FALSE

-----------------------------------------------------------------------------
(* The command loop.                                                       *)

\* One recv() is one command; what else had arrived is dropped with its buffer.
Receive(cmd) ==
  /\ commands # <<>> /\ cmd = Head(commands)
  /\ \E n \in 1 .. Len(commands) : commands' = SubSeq(commands, n + 1, Len(commands))

Reply(cmd, code, arg) == replies' = Append(replies, [code |-> code, arg |-> arg, to |-> cmd.to])

NotLoggedIn(cmd) ==
  /\ ~loggedIn
  /\ Reply(cmd, "530", 0)
  /\ UNCHANGED <<link, astray>>
  /\ UNCHANGED serverVars

\* The socket that was armed is closed, and a client that waits there with it.
CloseArmed == IF armed = 0 THEN link ELSE [link EXCEPT ![armed].server = "closed"]

\* The 227 names the socket just made, which need not be listening; or, when every
\* bind() has failed and listen() has taken a port of its own, one that is not the
\* session's; or the handler fails and says nothing.
Pasv(cmd) ==
  /\ cmd.verb = "PASV"
  /\ \/ /\ Passive!Arm
        /\ mode' = "MODE_PASV"
        /\ link' = CloseArmed
        /\ \/ Reply(cmd, "227", made') /\ UNCHANGED astray
           \/ Reply(cmd, "227", 0) /\ astray' = TRUE
     \/ UNCHANGED <<made, armed, served, mode, link, replies, astray>>
  /\ UNCHANGED <<loggedIn, port_port, last_sent_byte, child, remote, torn>>

Port(cmd) ==
  /\ cmd.verb = "PORT"
  /\ Passive!Drop
  /\ link' = CloseArmed
  /\ mode' = "MODE_PORT" /\ port_port' = cmd.arg
  /\ Reply(cmd, "200", 0)
  /\ UNCHANGED <<loggedIn, last_sent_byte, child, remote, torn, astray>>

Rest(cmd) ==
  /\ cmd.verb = "REST"
  /\ last_sent_byte' = cmd.arg
  /\ Reply(cmd, "350", 0)
  /\ UNCHANGED link
  /\ UNCHANGED <<made, armed, served, loggedIn, mode, port_port, child, remote, torn, astray>>

NextTransfer(t) == child[t].pc = "unborn" /\ \A u \in Transfers : u < t => child[u].pc # "unborn"

Transferring(cmd, how) ==
  [Unborn EXCEPT !.pc = "setup", !.verb = cmd.verb, !.file = cmd.file, !.mode = how,
                 !.port = port_port, !.to = cmd.to,
                 !.offset = IF cmd.verb = "RETR" THEN last_sent_byte ELSE 0]

\* With no descriptor left accept() fails at once, as if there were no mode.  The
\* client's connection then stays with the session, which has the socket too.
Ways(how) == IF how = "MODE_PASV" THEN {how, "MODE_NONE"} ELSE {how}

\* Fault: the session keeps pasv_fd.
FileTransferKeeps(cmd) ==
  /\ cmd.verb \in {"RETR", "STOR", "APPE", "LIST"}
  /\ \E t \in Transfers :
        /\ NextTransfer(t)
        /\ served' = [served EXCEPT ![t] = armed]
        /\ \E how \in Ways(mode) : child' = [child EXCEPT ![t] = Transferring(cmd, how)]
  /\ mode' = "MODE_NONE" /\ port_port' = 0 /\ last_sent_byte' = 0
  /\ UNCHANGED <<made, armed, loggedIn, replies, link, remote, torn, astray>>

\* file_transfer: the child gets the data connection, and the session forgets it.
FileTransfer(cmd) ==
  /\ cmd.verb \in {"RETR", "STOR", "APPE", "LIST"}
  /\ \E t \in Transfers :
        /\ NextTransfer(t)
        /\ Passive!Hand(t)
        /\ \E how \in Ways(mode) : child' = [child EXCEPT ![t] = Transferring(cmd, how)]
  /\ mode' = "MODE_NONE" /\ port_port' = 0 /\ last_sent_byte' = 0
  /\ UNCHANGED <<loggedIn, replies, link, remote, torn, astray>>

FileTransferForkFails(cmd) ==
  /\ cmd.verb \in {"RETR", "STOR", "APPE", "LIST"}
  /\ Reply(cmd, "451", 0)
  /\ UNCHANGED <<link, astray>>
  /\ UNCHANGED serverVars

HandleCommand ==
  /\ \E n \in 1 .. Len(commands) : LET cmd == commands[n] IN
       /\ Receive(cmd)
       /\ \/ NotLoggedIn(cmd)
          \/ loggedIn /\ (Pasv(cmd) \/ Port(cmd) \/ Rest(cmd) \/ FileTransfer(cmd)
                          \/ FileTransferForkFails(cmd))
  /\ UNCHANGED <<object, local, job, counters>>

-----------------------------------------------------------------------------
(* The transfers.                                                          *)

Runs(t, verbs) == child[t].verb \in verbs
Says(t, code) == Reply([to |-> child[t].to], code, 0)
Content(t) == remote[child[t].file]

\* The process exits and its end of the data connection is closed.
Exit(t) ==
  /\ child' = [child EXCEPT ![t] = [Unborn EXCEPT !.pc = "exited"]]
  /\ link' = IF child[t].conn = 0 THEN link
             ELSE [link EXCEPT ![child[t].conn] =
                     IF @.client = "closed" THEN NoLink
                     ELSE [@ EXCEPT !.server = "closed", !.up = <<>>]]

SetupDataConnection(t) ==
  /\ child[t].pc = "setup"
  /\ \/ /\ child[t].mode = "MODE_PASV" /\ served[t] # 0
        /\ link[served[t]].server = "queued"
        /\ link' = [link EXCEPT ![served[t]].server = "open"]
        /\ child' = [child EXCEPT ![t].pc = "begin", ![t].conn = served[t]]
        /\ UNCHANGED replies
     \/ /\ child[t].mode = "MODE_PORT" /\ ClientListens(child[t].port)
        /\ link' = [link EXCEPT ![t] = [NoLink EXCEPT !.client = "queued", !.server = "open",
                                                     !.port = child[t].port]]
        /\ child' = [child EXCEPT ![t].pc = "begin", ![t].conn = t]
        /\ UNCHANGED replies
     \/ /\ \/ child[t].mode = "MODE_NONE"
           \/ child[t].mode = "MODE_PASV" /\ served[t] = 0
           \/ child[t].mode = "MODE_PORT" /\ ~ClientListens(child[t].port)
        /\ Exit(t) /\ Says(t, "425")
  /\ UNCHANGED remote

Refusal(t) ==
  CASE Runs(t, {"LIST"}) -> {"451"}
    [] Runs(t, {"RETR"}) /\ ~Content(t).exists -> {"550"}
    [] OTHER -> {"450", "550"}

\* The handler opens what it was asked for, and answers 150, or gives up.
Begin(t) ==
  /\ child[t].pc = "begin"
  /\ \/ /\ Content(t).exists \/ Runs(t, {"STOR", "APPE"})
        /\ child' = [child EXCEPT ![t].pc = "streaming"]
        /\ remote' = [remote EXCEPT ![child[t].file] =
             IF Runs(t, {"STOR"}) THEN File(<<>>) ELSE [@ EXCEPT !.exists = TRUE]]
        /\ Says(t, "150")
        /\ UNCHANGED link
     \/ /\ \E code \in Refusal(t) : Says(t, code)
        /\ Exit(t)
        /\ UNCHANGED remote

\* RETR and LIST: one unit after the other, then the last reply and the end.
Sendable(t) ==
  IF Runs(t, {"RETR"}) THEN SubSeq(Content(t).data, child[t].offset + 1, Len(Content(t).data))
  ELSE IF child[t].offset = 0 THEN <<Line(child[t].file, Len(Content(t).data))>> ELSE <<>>

TooFar(t) == Runs(t, {"RETR"}) /\ child[t].offset > Len(Content(t).data)

StreamOut(t) ==
  /\ child[t].pc = "streaming" /\ Runs(t, {"RETR", "LIST"})
  /\ \/ /\ Sendable(t) # <<>> /\ link[child[t].conn].client # "closed"
        /\ link' = [link EXCEPT ![child[t].conn].down = Append(@, Head(Sendable(t)))]
        /\ child' = [child EXCEPT ![t].offset = @ + 1]
        /\ UNCHANGED replies
     \/ /\ Sendable(t) = <<>>
        /\ Says(t, IF TooFar(t) THEN "551" ELSE "226")
        /\ Exit(t)
     \/ /\ Sendable(t) # <<>>
        /\ Exit(t)
        /\ \/ Says(t, "451")
           \/ link[child[t].conn].client = "closed" /\ (Says(t, "426") \/ UNCHANGED replies)
  /\ UNCHANGED remote

\* STOR and APPE: until the client closes.  Of what recv() has returned write() may
\* lose the end; what the next recv() returns is stored all the same.  When one of
\* them fails, the transfer ends without a reply on the control connection.
StreamIn(t) ==
  /\ child[t].pc = "streaming" /\ Runs(t, {"STOR", "APPE"})
  /\ LET up == link[child[t].conn].up IN
     \/ /\ up # <<>>
        /\ \E n \in 1 .. Len(up) :
              /\ link' = [link EXCEPT ![child[t].conn].up = SubSeq(@, n + 1, Len(@))]
              /\ torn' = (torn \/ n > 1)
        /\ remote' = [remote EXCEPT ![child[t].file].data = Append(@, Head(up))]
        /\ UNCHANGED <<child, replies>>
     \/ /\ up = <<>> /\ link[child[t].conn].client = "closed"
        /\ Exit(t)
        /\ Says(t, "226")
        /\ UNCHANGED <<remote, torn>>
     \/ /\ up # <<>>
        /\ Exit(t)
        /\ UNCHANGED <<replies, remote, torn>>

TransferStep(t) ==
  /\ \/ (SetupDataConnection(t) \/ Begin(t) \/ StreamOut(t)) /\ UNCHANGED torn
     \/ StreamIn(t)
  /\ UNCHANGED <<commands, object, local, job, counters, astray, made, armed, served, session>>

-----------------------------------------------------------------------------
\* A port takes connections while a process of the server holds its socket, and the
\* session keeps those it has handed out.  Each port is named by one 227 only, so
\* that nobody connects where a transfer has accepted.
Listening ==
  ({armed} \cup {served[t] : t \in {u \in Transfers : child[u].pc \in {"setup", "exited"}}}) \ {0}

\* Nothing more comes from the server: it waits for the client in all it does.
WaitsForClient(t) ==
  \/ child[t].pc \in {"unborn", "exited"}
  \/ /\ child[t].pc = "setup" /\ child[t].mode = "MODE_PASV"
     /\ served[t] # 0 /\ link[served[t]].server # "queued"
  \/ /\ child[t].pc = "streaming" /\ Runs(t, {"STOR", "APPE"})
     /\ link[child[t].conn].up = <<>> /\ link[child[t].conn].client # "closed"

Quiet == commands = <<>> /\ \A t \in Transfers : WaitsForClient(t)

ClientRuns(j) == ClientStep(j, Quiet, Listening) /\ UNCHANGED serverVars

Next ==
  \/ \E j \in Jobs : ClientRuns(j)
  \/ HandleCommand
  \/ \E t \in Transfers : TransferStep(t)

\* Processes and threads run whenever they can.
Fairness ==
  /\ \A j \in Jobs : WF_vars(ClientRuns(j))
  /\ WF_vars(HandleCommand)
  /\ \A t \in Transfers : WF_vars(TransferStep(t))

Spec == Init /\ [][Next]_vars
FairSpec == Spec /\ Fairness

-----------------------------------------------------------------------------
(* Properties.                                                             *)

Units == [is : {"data", "line"}, of : Files, n : Nat]

\* The client's fields and the session's have the types of the code, and the
\* passive sockets are handed out as Endpoint promises.
TypeOK ==
  /\ Passive!TypeOK /\ Passive!GivenOnce
  /\ data_sock \in Links \cup {None, Dead} /\ port_sock \in Ports \cup {None}
  /\ transfer_type \in {"None", "PASV", "PORT"} /\ write_type \in {"wb", "ab"}
  /\ mode \in {"MODE_NONE", "MODE_PASV", "MODE_PORT"}
  /\ port_port \in Ports \cup {None} /\ last_sent_byte \in Nat
  /\ \A f \in Files : local[f].data \in Seq(Units) /\ remote[f].data \in Seq(Units)
  /\ \A n \in 1 .. Len(replies) : replies[n].to \in 1 .. sent

Reading == {"pasv", "port", "rested", "resumed", "answer", "last"}

\* The reply a method takes for the answer to its command is one, unless an earlier
\* method gave up waiting for a reply or left one unread, or was told a port that is
\* not the session's.
OwnReplies ==
  \A j \in Jobs :
    job[j].pc \in Reading /\ replies # <<>> => astray \/ Head(replies).to = job[j].serial

\* A get or reget that returns a reply and not "error" has the whole file, if the
\* client never went astray and the server's disk stored all it was given.
GetDelivers ==
  [][\A j \in Jobs :
       ReadLast(j, Quiet) /\ job'[j].outcome = "ok" /\ ~astray /\ ~torn =>
         local'[file(j)] = remote[file(j)]]_vars

\* A put or reput told 226 has left the server a file like the local one, on the
\* same two conditions.  The second is not idle: after a write() that stored less
\* than it was given, the 226 comes all the same.
PutDelivers ==
  [][\A j \in Jobs :
       ReadLastStored(j, Quiet) /\ job'[j].outcome = "226" /\ ~astray /\ ~torn =>
         remote[file(j)] = local[file(j)]]_vars

\* j waits for a connection or data of a transfer that, as far as it could read,
\* the server did not begin.
NotBegun(j) == job[j].pc \in {"accept", "recv"} /\ (astray \/ "150" \notin job[j].response)

\* A command that the user has given ends, whatever replies are late, lost or
\* refusals, unless it waits for the data of a transfer the server did not begin.
CommandEnds == \A j \in Jobs : <>[](~Running(j) \/ NotBegun(j))
=============================================================================
