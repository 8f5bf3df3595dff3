------------------------------- MODULE Session -------------------------------
(***************************************************************************)
(* One session process of the FTP server (server/src/session.c): the login *)
(* dialogue, the DataConnection record that PORT, PASV and REST fill in,   *)
(* the descriptors behind it, and the transfer processes that RETR, STOR,  *)
(* APPE and LIST fork (commands.c, file_transfer).                         *)
(*                                                                         *)
(* Descriptors are modelled as the kernel hands them out: socket() returns *)
(* the lowest free number, fork() copies the whole table, and a listening  *)
(* socket accepts connections for as long as any process holds it.  What a *)
(* transfer does with the file is left to module Transfer; here it answers *)
(* 150 and a last reply, or fails.                                         *)
(***************************************************************************)
EXTENDS Integers

CONSTANTS
  Transfers,     \* the processes file_transfer may fork; a pid is not reused
  MaxFd,         \* the highest descriptor a process may have (RLIMIT_NOFILE)
  MaxListeners,  \* bound: how many passive sockets a session ever creates
  MaxBacklog,    \* MAX_CLIENTS, the queue length passive sockets listen with
  Ports,         \* the ports a client may name in PORT
  Offsets        \* the restart points a client may name in REST

ASSUME SessionAssumption ==
  /\ MaxFd \in Nat /\ MaxFd >= 4
  /\ MaxListeners \in Nat
  /\ MaxBacklog \in Nat \ {0}
  /\ Ports \subseteq Nat
  /\ Offsets \subseteq Nat
  /\ "session" \notin Transfers

VARIABLES
  sess,             \* the session process: "serving" or "ended"
  state,            \* SessionState
  mode,             \* data_conn.mode
  pasv_fd,          \* data_conn.pasv_fd, -1 for none
  port_port,        \* data_conn.port_port, -1 for none
  last_sent_byte,   \* data_conn.last_sent_byte
  fdt,              \* the session's descriptor table
  child,            \* the transfer processes
  made,             \* number of passive sockets created; they are 1 .. made
  backlog,          \* connections each passive socket has queued for accept
  reply,            \* what the last step sent on the control connection
  announced,        \* history: the socket whose port the last 227 named, 0 for none
  portAfterPasv     \* history: PORT replaced a PASV since the last transfer

login == <<sess, state>>
data_conn == <<mode, pasv_fd, port_port, last_sent_byte>>
kernel == <<fdt, made, backlog>>
history == <<announced, portAfterPasv>>
vars == <<login, data_conn, kernel, child, reply, history>>

-----------------------------------------------------------------------------
(* Descriptor tables.                                                      *)

client_socket == 4    \* accept() in the parent, which holds 0, 1, 2 and listen_fd 3
Fds == 3 .. MaxFd
Closed == -1
Control == 0          \* the control connection
Listeners == 1 .. MaxListeners
Objects == {Closed, Control} \cup Listeners

Free(table) == {fd \in Fds : table[fd] = Closed}
LowestFree(table) == {fd \in Free(table) : \A other \in Free(table) : fd <= other}
Close(table, fd) == IF fd \in Fds THEN [table EXCEPT ![fd] = Closed] ELSE table
NoDescriptors == [fd \in Fds |-> Closed]

\* Some process still holds passive socket l, so it still takes connections.
Listening(l) ==
  \/ \E fd \in Fds : fdt[fd] = l
  \/ \E t \in Transfers : \E fd \in Fds : child[t].fdt[fd] = l

-----------------------------------------------------------------------------
(* Transfer processes.                                                     *)

Modes == {"MODE_PORT", "MODE_PASV", "MODE_NONE"}
Steps == {"unborn", "setup", "connected", "streaming", "exited"}

\* The copy of the session that fork() leaves in the child.  listener and
\* afterPort are history: the socket pasv_fd named, and portAfterPasv, then.
ChildRecord ==
  [pc: Steps, mode: Modes, pasv_fd: Fds \cup {-1}, port_port: Ports \cup {-1},
   last_sent_byte: Offsets \cup {0}, fdt: [Fds -> Objects],
   listener: Objects, afterPort: BOOLEAN]

Unborn ==
  [pc |-> "unborn", mode |-> "MODE_NONE", pasv_fd |-> -1, port_port |-> -1,
   last_sent_byte |-> 0, fdt |-> NoDescriptors,
   listener |-> Closed, afterPort |-> FALSE]

Fork(table) ==
  [pc |-> "setup", mode |-> mode, pasv_fd |-> pasv_fd, port_port |-> port_port,
   last_sent_byte |-> last_sent_byte, fdt |-> table,
   listener |-> IF mode = "MODE_PASV" THEN fdt[pasv_fd] ELSE Closed,
   afterPort |-> portAfterPasv]

-----------------------------------------------------------------------------
\* Replies, by what the client tells apart: "ok" is every other 2xx and 3xx,
\* "error" every other 4xx and 5xx, "" a step that sends nothing.
Replies == {"", "ok", "error", "150", "221", "226", "227", "425", "550"}

\* Process p's step sends this reply.
Says(p, text) == reply' = [by |-> p, text |-> text]
Reply(text) == Says("session", text)
Silent == Reply("")

Init ==
  /\ sess = "serving"
  /\ state = "STATE_INITIAL"
  /\ mode = "MODE_NONE" /\ pasv_fd = -1 /\ port_port = -1 /\ last_sent_byte = 0
  /\ fdt = [NoDescriptors EXCEPT ![client_socket] = Control]
  /\ child = [t \in Transfers |-> Unborn]
  /\ made = 0
  /\ backlog = [l \in Listeners |-> 0]
  /\ reply = [by |-> "session", text |-> ""]
  /\ announced = 0 /\ portAfterPasv = FALSE

-----------------------------------------------------------------------------
(* Login and the commands that leave the data connection alone.            *)

\* Fault: handlers reachable without the test of the session state.
AnyState == sess = "serving"

LoggedIn == sess = "serving" /\ state = "STATE_LOGGED_IN"

HandleUser ==
  /\ sess = "serving" /\ state = "STATE_INITIAL"
  /\ \/ state' = "STATE_USERNAME_PROVIDED" /\ Reply("ok")   \* anonymous
     \/ UNCHANGED state /\ Reply("error")                   \* any other name
  /\ UNCHANGED <<sess, data_conn, kernel, child, history>>

HandlePass ==
  /\ sess = "serving" /\ state = "STATE_USERNAME_PROVIDED"
  /\ \/ state' = "STATE_LOGGED_IN" /\ Reply("ok")           \* holds an '@'
     \/ UNCHANGED state /\ Reply("error")
  /\ UNCHANGED <<sess, data_conn, kernel, child, history>>

\* What session.c answers without calling a handler: an empty line, a command
\* out of turn, an unknown command.
Refusals ==
  [STATE_INITIAL           |-> {"error"},
   STATE_USERNAME_PROVIDED |-> {"error", "ok"},
   STATE_LOGGED_IN         |-> {"error", "550"}]

Refuse ==
  /\ sess = "serving"
  /\ \E text \in Refusals[state] : Reply(text)
  /\ UNCHANGED <<login, data_conn, kernel, child, history>>

\* SYST, TYPE, PWD, CWD, MKD, RMD and DELE, whatever they answer.
Answer ==
  /\ LoggedIn
  /\ \E text \in {"ok", "error", "550"} : Reply(text)
  /\ UNCHANGED <<login, data_conn, kernel, child, history>>

-----------------------------------------------------------------------------
(* The commands that arm a transfer.                                       *)

\* Fault: the old passive socket is forgotten instead of closed.
HandlePortForgets ==
  /\ LoggedIn
  /\ \E port \in Ports : port_port' = port
  /\ mode' = "MODE_PORT" /\ pasv_fd' = -1
  /\ Reply("ok")
  /\ UNCHANGED <<login, last_sent_byte, kernel, child, history>>

HandlePort ==
  /\ LoggedIn
  /\ \E port \in Ports : port_port' = port
  /\ mode' = "MODE_PORT"
  /\ fdt' = Close(fdt, pasv_fd)            \* pasv_fd itself keeps its value
  /\ portAfterPasv' = (portAfterPasv \/ pasv_fd # -1)
  /\ Reply("ok")
  /\ UNCHANGED <<login, pasv_fd, last_sent_byte, made, backlog, child, announced>>

\* No address, not six numbers, or one out of 0 .. 255: return without a reply.
HandlePortInvalid ==
  /\ LoggedIn
  /\ Silent
  /\ UNCHANGED <<login, data_conn, kernel, child, history>>

\* Fault: pasv_fd is assigned before the descriptor it names is closed.
HandlePasvSwapped ==
  /\ LoggedIn
  /\ made < MaxListeners
  /\ pasv_fd' \in LowestFree(fdt)
  /\ fdt' = Close([fdt EXCEPT ![pasv_fd'] = made + 1], pasv_fd')
  /\ mode' = "MODE_PASV"
  /\ made' = made + 1 /\ announced' = made + 1
  /\ Reply("227")
  /\ UNCHANGED <<login, port_port, last_sent_byte, backlog, child, portAfterPasv>>

\* The new socket is created before the old descriptor is closed.  When
\* MAX_BIND_ATTEMPTS ports were taken, listen() binds the socket to another
\* port and the 227 names one that is not ours (announced' = 0).
HandlePasv ==
  /\ LoggedIn
  /\ made < MaxListeners
  /\ \E fd \in LowestFree(fdt) :
        /\ fdt' = Close([fdt EXCEPT ![fd] = made + 1], pasv_fd)
        /\ pasv_fd' = fd
  /\ mode' = "MODE_PASV"
  /\ made' = made + 1
  /\ announced' \in {made + 1, 0}
  /\ Reply("227")
  /\ UNCHANGED <<login, port_port, last_sent_byte, backlog, child, portAfterPasv>>

\* socket, listen or getsockname fails: close and return without a reply.
HandlePasvFails ==
  /\ LoggedIn
  /\ Silent
  /\ UNCHANGED <<login, data_conn, kernel, child, history>>

\* Fault: the sign of the offset is not tested.
HandleRestUnchecked ==
  /\ LoggedIn
  /\ last_sent_byte' \in Offsets \cup {-1}
  /\ Reply("ok")
  /\ UNCHANGED <<login, mode, pasv_fd, port_port, kernel, child, history>>

HandleRest ==
  /\ LoggedIn
  /\ \/ /\ \E offset \in Offsets : last_sent_byte' = offset
        /\ Reply("ok")
     \/ /\ Reply("error")                                   \* invalid offset
        /\ UNCHANGED last_sent_byte
  /\ UNCHANGED <<login, mode, pasv_fd, port_port, kernel, child, history>>

-----------------------------------------------------------------------------
(* RETR, STOR, APPE, LIST: fork, and forget the data connection.           *)

\* Fault: the parent keeps the data connection it has given to the child.
FileTransferKeeps(t) ==
  /\ LoggedIn
  /\ child[t].pc = "unborn"
  /\ child' = [child EXCEPT ![t] = Fork(fdt)]
  /\ Silent
  /\ UNCHANGED <<login, data_conn, kernel, history>>

\* Fault: the passive socket is closed before fork() instead of after it.
FileTransferClosesFirst(t) ==
  /\ LoggedIn
  /\ child[t].pc = "unborn"
  /\ fdt' = Close(fdt, pasv_fd)
  /\ child' = [child EXCEPT ![t] = Fork(fdt')]
  /\ mode' = "MODE_NONE" /\ pasv_fd' = -1 /\ port_port' = -1 /\ last_sent_byte' = 0
  /\ portAfterPasv' = FALSE
  /\ Silent
  /\ UNCHANGED <<login, made, backlog, announced>>

FileTransfer(t) ==
  /\ LoggedIn
  /\ child[t].pc = "unborn"
  /\ child' = [child EXCEPT ![t] = Fork(fdt)]
  /\ mode' = "MODE_NONE" /\ pasv_fd' = -1 /\ port_port' = -1 /\ last_sent_byte' = 0
  /\ portAfterPasv' = FALSE
  /\ Silent
  /\ UNCHANGED <<login, kernel, announced>>

FileTransferForkFails ==
  /\ LoggedIn
  /\ Reply("error")
  /\ UNCHANGED <<login, data_conn, kernel, child, history>>

-----------------------------------------------------------------------------
(* The end of the session process: the kernel closes what it still holds.  *)

EndSession ==
  /\ sess' = "ended"
  /\ fdt' = NoDescriptors
  /\ UNCHANGED <<state, data_conn, made, backlog, child, history>>

HandleQuit == sess = "serving" /\ EndSession /\ Reply("221")

\* recv returns 0 or fails, or SIGPIPE ends the process while it replies.
Hangup == sess = "serving" /\ EndSession /\ Silent

\* CWD, MKD, RMD or DELE without an argument reads path[0] of a null path.
NullPath == LoggedIn /\ EndSession /\ Silent

-----------------------------------------------------------------------------
(* The steps of transfer process t.                                        *)

At(t, pc) == child[t].pc = pc
GoTo(t, pc, table) == child' = [child EXCEPT ![t].pc = pc, ![t].fdt = table]
Exit(t) == GoTo(t, "exited", NoDescriptors)

\* 425, unless SIGPIPE ends the process first.
NotEstablished(t) == Exit(t) /\ \E text \in {"", "425"} : Says(t, text)

ConnectClient(t) ==
  /\ child[t].mode = "MODE_PORT"
  /\ \/ /\ Free(child[t].fdt) # {}
        /\ GoTo(t, "connected", child[t].fdt) /\ Says(t, "")
     \/ NotEstablished(t)
  /\ UNCHANGED backlog

\* The socket accept() waits on in the child's own table.
PasvSocket(t) == child[t].fdt[child[t].pasv_fd]

AcceptClient(t) ==
  /\ child[t].mode = "MODE_PASV"
  /\ \/ LET l == PasvSocket(t) IN
          /\ l \in Listeners /\ backlog[l] > 0
          /\ Free(child[t].fdt) # {}
          /\ backlog' = [backlog EXCEPT ![l] = @ - 1]
          /\ GoTo(t, "connected", Close(child[t].fdt, child[t].pasv_fd))
          /\ Says(t, "")
     \/ /\ PasvSocket(t) \notin Listeners \/ Free(child[t].fdt) = {}
        /\ NotEstablished(t)
        /\ UNCHANGED backlog

NoConnection(t) ==
  /\ child[t].mode = "MODE_NONE"
  /\ NotEstablished(t)
  /\ UNCHANGED backlog

SetupDataConnection(t) ==
  /\ At(t, "setup")
  /\ ConnectClient(t) \/ AcceptClient(t) \/ NoConnection(t)
  /\ UNCHANGED <<login, data_conn, fdt, made, history>>

\* The handler opens the file or directory and answers 150, or gives up.
\* Either may be cut short by SIGPIPE (no reply).
Begin(t) ==
  /\ At(t, "connected")
  /\ \/ GoTo(t, "streaming", child[t].fdt) /\ Says(t, "150")
     \/ Exit(t) /\ \E text \in {"", "error", "550"} : Says(t, text)
  /\ UNCHANGED <<login, data_conn, kernel, history>>

\* The last reply; none when SIGPIPE ends the process, or when receive_file
\* failed, which sends its error on the data connection.
Finish(t) ==
  /\ At(t, "streaming")
  /\ Exit(t) /\ \E text \in {"", "226", "error"} : Says(t, text)
  /\ UNCHANGED <<login, data_conn, kernel, history>>

-----------------------------------------------------------------------------
(* The client's side of a passive connection: it may connect to any port   *)
(* it was ever told, as long as something listens there.                   *)

ClientConnect(l) ==
  /\ l <= made /\ Listening(l)
  /\ backlog[l] < MaxBacklog
  /\ backlog' = [backlog EXCEPT ![l] = @ + 1]
  /\ UNCHANGED <<login, data_conn, fdt, made, child, reply, history>>

-----------------------------------------------------------------------------
SessionStep ==
  \/ HandleUser \/ HandlePass \/ Refuse \/ Answer
  \/ HandlePort \/ HandlePortInvalid \/ HandlePasv \/ HandlePasvFails \/ HandleRest
  \/ (\E t \in Transfers : FileTransfer(t)) \/ FileTransferForkFails
  \/ HandleQuit \/ Hangup \/ NullPath

TransferStep(t) == SetupDataConnection(t) \/ Begin(t) \/ Finish(t)

Next ==
  \/ SessionStep
  \/ \E t \in Transfers : TransferStep(t)
  \/ \E l \in Listeners : ClientConnect(l)

\* The kernel runs every process; a peer that has connected reads or writes
\* its data, or drops the connection.
Fairness == \A t \in Transfers : WF_vars(TransferStep(t))

Spec == Init /\ [][Next]_vars
FairSpec == Spec /\ Fairness

-----------------------------------------------------------------------------
(* Properties.                                                             *)

States == {"STATE_INITIAL", "STATE_USERNAME_PROVIDED", "STATE_LOGGED_IN"}

\* Every variable has the type its C declaration gives it.
TypeOK ==
  /\ sess \in {"serving", "ended"}
  /\ state \in States
  /\ mode \in Modes
  /\ pasv_fd \in Fds \cup {-1}
  /\ port_port \in Ports \cup {-1}
  /\ last_sent_byte \in Offsets \cup {0}
  /\ fdt \in [Fds -> Objects]
  /\ child \in [Transfers -> ChildRecord]
  /\ made \in 0 .. MaxListeners
  /\ backlog \in [Listeners -> 0 .. MaxBacklog]
  /\ reply \in [by : Transfers \cup {"session"}, text : Replies]
  /\ announced \in 0 .. made
  /\ portAfterPasv \in BOOLEAN

\* However PORT, PASV and transfers alternate, the control connection stays
\* open under its number while the session serves, and every other descriptor
\* it holds is the passive socket it may still use or one it passed to a
\* transfer: handle_port, handle_pasv and handle_quit never drop a socket
\* without closing it, only file_transfer does.
DescriptorLedger ==
  sess = "serving" =>
    /\ fdt[client_socket] = Control
    /\ \A fd \in Fds \ {client_socket} :
         fdt[fd] # Closed =>
           \/ fd = pasv_fd /\ mode = "MODE_PASV"
           \/ \E t \in Transfers : child[t].listener = fdt[fd]

\* A session in passive mode listens on its newest socket, the one its last 227
\* announced if any port could be bound, unless a PORT followed an earlier PASV
\* since the last transfer.  Then pasv_fd is stale, socket() may return the same
\* number, and handle_pasv closes the socket it has just created; the number
\* never names another socket.
PassiveListensUnlessStale ==
  sess = "serving" /\ mode = "MODE_PASV" =>
    \/ fdt[pasv_fd] = made /\ announced \in {made, 0}
    \/ fdt[pasv_fd] = Closed /\ portAfterPasv

\* No two transfers accept on the same passive socket, and the one the session
\* has armed is not shared with a transfer already forked: forgetting pasv_fd
\* after fork keeps one data connection from serving two commands.
OneListenerPerTransfer ==
  /\ \A t, u \in Transfers :
       t # u /\ child[t].listener # Closed => child[t].listener # child[u].listener
  /\ sess = "serving" /\ mode = "MODE_PASV" /\ fdt[pasv_fd] # Closed =>
       \A t \in Transfers : child[t].listener # fdt[pasv_fd]

\* Nothing of the data connection exists for a client that has not logged in:
\* no armed mode, no restart point, no socket and no transfer process.
NothingBeforeLogin ==
  state # "STATE_LOGGED_IN" =>
    /\ mode = "MODE_NONE" /\ pasv_fd = -1 /\ port_port = -1 /\ last_sent_byte = 0
    /\ made = 0
    /\ \A t \in Transfers : At(t, "unborn")

\* A transfer in passive mode gives up its data connection, answering 425, only
\* when its descriptor table is full or a PORT had come after an earlier PASV: a
\* clean PASV is never wasted by what the session does after the fork.
No425AfterCleanPasv ==
  [][\A t \in Transfers :
       At(t, "setup") /\ At(t, "exited")' /\ child[t].mode = "MODE_PASV" =>
         child[t].afterPort \/ Free(child[t].fdt) = {}]_vars

\* A transfer whose client has connected runs to its end, also when the
\* session answers QUIT, hangs up or arms another connection meanwhile.
ConnectedTransferEnds ==
  \A t \in Transfers :
    /\ At(t, "setup")
    /\ child[t].listener \in Listeners => backlog[child[t].listener] > 0
    ~> At(t, "exited")

\* The session, seen from its passive sockets, behaves as Endpoint says: what
\* PORT, PASV, QUIT and the transfers do to descriptors amounts to arming,
\* dropping and handing over one socket at a time.
Promise ==
  INSTANCE Endpoint WITH
    armed  <- IF sess = "serving" /\ mode = "MODE_PASV" /\ fdt[pasv_fd] # Closed
              THEN fdt[pasv_fd] ELSE 0,
    served <- [t \in Transfers |->
                 IF child[t].listener = Closed THEN 0 ELSE child[t].listener]

ImplementsEndpoint == Promise!Spec

\* What config.h's "227 Entering Passive Mode" tells the client: the server
\* listens on the port it has just bound and announced.
PassiveModeListens ==
  [][HandlePasv /\ announced' # 0 => fdt'[pasv_fd'] = announced']_vars

\* What utils.c says of close(pasv_fd) after accept, "Close the listening
\* socket": from then on nobody listens there.
ListenerClosedAfterAccept ==
  \A t \in Transfers :
    child[t].pc \in {"connected", "streaming"} /\ child[t].listener \in Listeners =>
      ~Listening(child[t].listener)
=============================================================================
