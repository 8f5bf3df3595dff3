-------------------------------- MODULE Server --------------------------------
(***************************************************************************)
(* The accept loop (server.c): one process that accepts connections and    *)
(* forks a session process for each, which forks a process for each        *)
(* transfer (file_transfer of commands.c).  What makes a session see the   *)
(* end of its client, and the client the end of its session, is that no    *)
(* other process keeps a copy of the connection: fork() copies the whole   *)
(* table of descriptors, and parent and child close what is not theirs,    *)
(* each in its own time.  A transfer keeps its session's connection, on    *)
(* which it replies, until it exits.  Nobody waits for a process that has  *)
(* ended.                                                                  *)
(***************************************************************************)
EXTENDS Integers, Sequences, FiniteSets

CONSTANTS
  Conns,         \* the connections clients make, each once
  Transfers,     \* the transfers sessions fork, each once
  MAX_CLIENTS,   \* the length of the queue of listen_fd
  MaxProcs,      \* the processes the user may have, ended ones included
  MaxFd          \* the highest descriptor of a process

ASSUME ServerAssumption ==
  /\ MAX_CLIENTS \in Nat \ {0}
  /\ MaxProcs \in Nat
  /\ MaxFd \in Nat /\ MaxFd >= 4
  /\ {"closed", "listening"} \cap Conns = {}

VARIABLES
  queue,     \* connections that wait for accept()
  pc,        \* where start_server's loop is
  fds,       \* the parent's descriptors
  conn_fd,   \* as in start_server
  proc,      \* the process forked for each connection
  transfer,  \* the process forked for each transfer, and the connection it serves
  asked      \* history: the connections there have been

serverVars == <<queue, pc, fds, conn_fd, proc, transfer, asked>>

Fds == 3 .. MaxFd
Closed == "closed"
listen_fd == 3
Free == {fd \in Fds : fds[fd] = Closed}
NoFds == [fd \in Fds |-> Closed]
NoProc == [pc |-> "unborn", fds |-> NoFds]
NoTransfer == [pc |-> "unborn", of |-> "nobody", fds |-> NoFds]

Forked == {c \in Conns : proc[c].pc # "unborn"}
Serving(c) == proc[c].pc = "serving"
Running(t) == transfer[t].pc \in {"forked", "running"}

\* A process that has ended keeps its entry as long as its parent lives.
Entries ==
  {t \in Transfers : Running(t) \/ (transfer[t].pc = "exited" /\ Serving(transfer[t].of))}
ProcessLeft == Cardinality(Forked) + Cardinality(Entries) < MaxProcs

ServerInit ==
  /\ queue = <<>>
  /\ pc = "start"
  /\ fds = NoFds
  /\ conn_fd = -1
  /\ proc = [c \in Conns |-> NoProc]
  /\ transfer = [t \in Transfers |-> NoTransfer]
  /\ asked = {}

Waits(c) == \E n \in 1 .. Len(queue) : queue[n] = c

\* Some process has connection c open.
Held(c) ==
  \E fd \in Fds :
    \/ fds[fd] = c
    \/ \E d \in Conns : proc[d].fds[fd] = c
    \/ \E t \in Transfers : transfer[t].fds[fd] = c

-----------------------------------------------------------------------------
\* socket(), bind() and listen(); when one of them fails, the server exits.
Listen ==
  /\ pc = "start"
  /\ \/ pc' = "accept" /\ fds' = [fds EXCEPT ![listen_fd] = "listening"]
     \/ pc' = "exited" /\ UNCHANGED fds
  /\ UNCHANGED <<queue, conn_fd, proc, transfer, asked>>

Connect(c) ==
  /\ fds[listen_fd] = "listening"
  /\ c \notin asked /\ Len(queue) < MAX_CLIENTS
  /\ queue' = Append(queue, c)
  /\ asked' = asked \cup {c}
  /\ UNCHANGED <<pc, fds, conn_fd, proc, transfer>>

Accept ==
  /\ pc = "accept" /\ queue # <<>>
  /\ \E fd \in Free :
        /\ \A other \in Free : fd <= other
        /\ fds' = [fds EXCEPT ![fd] = Head(queue)]
        /\ conn_fd' = fd
  /\ queue' = Tail(queue)
  /\ pc' = "fork"
  /\ UNCHANGED <<proc, transfer, asked>>

\* Fault: accept()'s result is not looked at.
AcceptFailsUnchecked ==
  /\ pc = "accept" /\ queue # <<>>
  /\ queue' = Tail(queue) /\ conn_fd' = -1
  /\ pc' = "fork"
  /\ UNCHANGED <<fds, proc, transfer, asked>>

\* The client was gone before it was accepted.
AcceptFails ==
  /\ pc = "accept" /\ queue # <<>>
  /\ queue' = Tail(queue) /\ conn_fd' = -1
  /\ UNCHANGED <<pc, fds, proc, transfer, asked>>

\* fork(): from here on parent and child run on their own.
Fork ==
  /\ pc = "fork" /\ ProcessLeft
  /\ proc' = [proc EXCEPT ![fds[conn_fd]] = [pc |-> "forked", fds |-> fds]]
  /\ pc' = "close"
  /\ UNCHANGED <<queue, fds, conn_fd, transfer, asked>>

\* Fault: `continue' without close(conn_fd).
ForkFailsKeeps ==
  /\ pc = "fork"
  /\ pc' = "accept"
  /\ UNCHANGED <<queue, fds, conn_fd, proc, transfer, asked>>

\* No process to be had: as many as allowed have been forked, or no memory.
ForkFails ==
  /\ pc = "fork"
  /\ fds' = [fds EXCEPT ![conn_fd] = Closed]
  /\ pc' = "accept"
  /\ UNCHANGED <<queue, conn_fd, proc, transfer, asked>>

\* Fault: the parent leaves its copy of the connection open.
ParentKeeps ==
  /\ pc = "close"
  /\ pc' = "accept"
  /\ UNCHANGED <<queue, fds, conn_fd, proc, transfer, asked>>

ParentCloses ==
  /\ pc = "close"
  /\ fds' = [fds EXCEPT ![conn_fd] = Closed]
  /\ pc' = "accept"
  /\ UNCHANGED <<queue, conn_fd, proc, transfer, asked>>

\* The child closes listen_fd and greets its client.
StartSession(c) ==
  /\ proc[c].pc = "forked"
  /\ proc' = [proc EXCEPT ![c] = [pc |-> "serving", fds |-> [@.fds EXCEPT ![listen_fd] = Closed]]]
  /\ UNCHANGED <<queue, pc, fds, conn_fd, transfer, asked>>

\* QUIT, a hang-up or a fault: the process is gone but for its entry.
EndSession(c) ==
  /\ Serving(c)
  /\ proc' = [proc EXCEPT ![c] = [pc |-> "zombie", fds |-> NoFds]]
  /\ UNCHANGED <<queue, pc, fds, conn_fd, transfer, asked>>

-----------------------------------------------------------------------------
(* Transfers.  Of their descriptors, and of the sessions', only those that *)
(* lead to clients' connections are here; Session has the data sockets.    *)

ForkTransfer(c, t) ==
  /\ Serving(c) /\ transfer[t].pc = "unborn" /\ ProcessLeft
  /\ transfer' = [transfer EXCEPT ![t] = [pc |-> "forked", of |-> c, fds |-> proc[c].fds]]
  /\ UNCHANGED <<queue, pc, fds, conn_fd, proc, asked>>

\* It has its data connection, which may take any time, and runs its command.
BeginTransfer(t) ==
  /\ transfer[t].pc = "forked"
  /\ transfer' = [transfer EXCEPT ![t].pc = "running"]
  /\ UNCHANGED <<queue, pc, fds, conn_fd, proc, asked>>

\* exit(), with or without a data connection, or a signal.
EndTransfer(t) ==
  /\ Running(t)
  /\ transfer' = [transfer EXCEPT ![t].pc = "exited", ![t].fds = NoFds]
  /\ UNCHANGED <<queue, pc, fds, conn_fd, proc, asked>>

-----------------------------------------------------------------------------
ServerLoop == Listen \/ Accept \/ AcceptFails \/ Fork \/ ForkFails \/ ParentCloses

ServerNext ==
  \/ ServerLoop
  \/ \E c \in Conns : Connect(c) \/ StartSession(c) \/ EndSession(c)
  \/ \E t \in Transfers :
        (\E c \in Conns : ForkTransfer(c, t)) \/ BeginTransfer(t) \/ EndTransfer(t)

ServerSpec == ServerInit /\ [][ServerNext]_serverVars

-----------------------------------------------------------------------------
(* Properties.                                                             *)

\* The tables of all processes hold what their types allow, and the server forks
\* only for a connection it holds.
ServerTypeOK ==
  /\ queue \in Seq(Conns) /\ Len(queue) <= MAX_CLIENTS
  /\ pc \in {"start", "exited", "accept", "fork", "close"}
  /\ conn_fd \in Fds \cup {-1}
  /\ fds \in [Fds -> Conns \cup {Closed, "listening"}]
  /\ proc \in [Conns -> [pc : {"unborn", "forked", "serving", "zombie"},
                         fds : [Fds -> Conns \cup {Closed, "listening"}]]]
  /\ transfer \in [Transfers -> [pc : {"unborn", "forked", "running", "exited"},
                                 of : Conns \cup {"nobody"},
                                 fds : [Fds -> Conns \cup {Closed, "listening"}]]]
  /\ pc \in {"fork", "close"} => conn_fd \in Fds /\ fds[conn_fd] \in Conns
  /\ asked \subseteq Conns /\ Forked \subseteq asked

\* A session starts, and goes on, with its own connection as descriptor 4 and
\* nothing else, and so do its transfers: not the listening socket, and no
\* connection of another session that the server was slow to close.
OwnConnectionOnly ==
  /\ \A c \in Conns : Serving(c) => proc[c].fds = [NoFds EXCEPT ![4] = c]
  /\ \A t \in Transfers : Running(t) => transfer[t].fds = [NoFds EXCEPT ![4] = transfer[t].of]

\* Nobody keeps a connection but those who serve it: as soon as the server is back
\* in accept(), a client whose session could not be forked, or has ended together
\* with the last transfer it forked, reads the end of its connection.  One transfer
\* that still waits for its data connection is enough to withhold it.
NobodyKeepsConnection ==
  pc = "accept" =>
    \A c \in asked :
      \/ Waits(c)
      \/ proc[c].pc \in {"forked", "serving"}
      \/ \E t \in Transfers : Running(t) /\ transfer[t].of = c
      \/ ~Held(c)
=============================================================================
