----------------------------- MODULE ServerProofs -----------------------------
(***************************************************************************)
(* The accept loop keeps connections apart and keeps none, for any number  *)
(* of clients, transfers and processes and any table of descriptors.       *)
(***************************************************************************)
EXTENDS Server, TLAPS

\* The parent's table in accept(), and with connection c beside listen_fd.
Listening == [NoFds EXCEPT ![listen_fd] = "listening"]
With(c) == [Listening EXCEPT ![4] = c]
Alone(c) == [NoFds EXCEPT ![4] = c]

\* What the parent holds at each point of its loop.
LoopHolds ==
  /\ pc \in {"start", "exited"} => fds = NoFds
  /\ pc = "accept" => fds = Listening
  /\ pc \in {"fork", "close"} => conn_fd = 4 /\ \E c \in asked : fds = With(c)
  /\ pc = "close" => proc[fds[4]].pc # "unborn"

\* What each child holds.
ChildrenHold ==
  \A c \in Conns :
    /\ proc[c].pc \in {"unborn", "zombie"} => proc[c].fds = NoFds
    /\ proc[c].pc = "forked" => proc[c].fds = With(c)
    /\ Serving(c) => proc[c].fds = Alone(c)

\* What each transfer holds.
TransfersHold ==
  \A t \in Transfers :
    IF Running(t) THEN transfer[t].of \in Conns /\ transfer[t].fds = Alone(transfer[t].of)
    ELSE transfer[t].fds = NoFds

Waiters == \A n \in 1 .. Len(queue) : queue[n] \in asked

IInv == ServerTypeOK /\ LoopHolds /\ ChildrenHold /\ TransfersHold /\ Waiters

-----------------------------------------------------------------------------
LEMMA FdFacts == 3 \in Fds /\ 4 \in Fds /\ Fds \subseteq Int /\ listen_fd = 3 /\ Closed = "closed"
BY ServerAssumption DEF ServerAssumption, Fds, listen_fd, Closed

Tables == [Fds -> Conns \cup {Closed, "listening"}]
TransferProcesses ==
  [pc : {"unborn", "forked", "running", "exited"}, of : Conns \cup {"nobody"}, fds : Tables]

LEMMA TableTypes ==
  ASSUME NEW c \in Conns
  PROVE  NoFds \in Tables /\ Listening \in Tables /\ With(c) \in Tables /\ Alone(c) \in Tables
BY FdFacts DEF NoFds, Listening, With, Alone, Tables

\* In the parent's table with a connection, that connection is descriptor 4; and
\* closing it, or listen_fd, leaves what is said.
LEMMA TableFacts ==
  ASSUME NEW c \in Conns
  PROVE  /\ With(c)[4] = c
         /\ [With(c) EXCEPT ![4] = Closed] = Listening
         /\ [With(c) EXCEPT ![listen_fd] = Closed] = Alone(c)
<1>1. With(c)[4] = c
  BY FdFacts DEF With, Listening, NoFds
<1>2. [With(c) EXCEPT ![4] = Closed] = Listening
  <2> DEFINE closed == [With(c) EXCEPT ![4] = Closed]
  <2>1. closed = [fd \in Fds |-> closed[fd]] /\ Listening = [fd \in Fds |-> Listening[fd]]
    BY DEF With, Listening, NoFds
  <2>2. \A fd \in Fds : closed[fd] = Listening[fd]
    BY FdFacts DEF With, Listening, NoFds
  <2> QED
    BY <2>1, <2>2
<1>3. [With(c) EXCEPT ![listen_fd] = Closed] = Alone(c)
  <2> DEFINE closed == [With(c) EXCEPT ![listen_fd] = Closed]
  <2>1. closed = [fd \in Fds |-> closed[fd]] /\ Alone(c) = [fd \in Fds |-> Alone(c)[fd]]
    BY DEF With, Alone, Listening, NoFds
  <2>2. \A fd \in Fds : closed[fd] = Alone(c)[fd]
    BY FdFacts DEF With, Alone, Listening, NoFds
  <2> QED
    BY <2>1, <2>2
<1> QED
  BY <1>1, <1>2, <1>3

\* accept() takes descriptor 4.
LEMMA AcceptTakesFour ==
  ASSUME fds = Listening, NEW fd \in Free, \A other \in Free : fd <= other
  PROVE  fd = 4
<1>1. 4 \in Free
  BY FdFacts DEF Free, Listening, NoFds
<1>2. 3 \notin Free
  BY FdFacts DEF Free, Listening, NoFds
<1>3. fd \in 3 .. MaxFd
  BY DEF Free, Fds
<1> QED
  BY <1>1, <1>2, <1>3, ServerAssumption DEF ServerAssumption

-----------------------------------------------------------------------------
LEMMA InitInv == ServerInit => IInv
<1> SUFFICES ASSUME ServerInit PROVE IInv
  OBVIOUS
<1>1. NoFds \in Tables
  BY FdFacts DEF NoFds, Tables
<1>2. ServerTypeOK
  <2>1. queue \in Seq(Conns) /\ Len(queue) <= MAX_CLIENTS
    BY ServerAssumption DEF ServerInit, ServerAssumption
  <2>2. proc \in [Conns -> [pc : {"unborn", "forked", "serving", "zombie"}, fds : Tables]]
    BY <1>1 DEF ServerInit, NoProc
  <2>3. Forked = {}
    BY DEF ServerInit, Forked, NoProc
  <2>4. transfer \in [Transfers -> TransferProcesses]
    BY <1>1 DEF ServerInit, NoTransfer, TransferProcesses
  <2> QED
    BY <1>1, <2>1, <2>2, <2>3, <2>4 DEF ServerInit, ServerTypeOK, Tables, TransferProcesses
<1>3. LoopHolds /\ ChildrenHold /\ TransfersHold /\ Waiters
  BY DEF ServerInit, LoopHolds, ChildrenHold, TransfersHold, Waiters, NoProc, NoTransfer, Serving, Running
<1> QED
  BY <1>2, <1>3 DEF IInv

\* What Connect, Accept, AcceptFails and Fork need of the queue.
LEMMA QueueFacts ==
  ASSUME ServerTypeOK, Waiters, queue # <<>>
  PROVE  /\ Head(queue) \in asked /\ Tail(queue) \in Seq(Conns)
         /\ Len(Tail(queue)) <= MAX_CLIENTS
         /\ \A n \in 1 .. Len(Tail(queue)) : Tail(queue)[n] \in asked
<1>1. queue \in Seq(Conns) /\ Len(queue) \in Nat /\ Len(queue) > 0
  BY DEF ServerTypeOK
<1>2. Head(queue) = queue[1] /\ Len(Tail(queue)) = Len(queue) - 1
  BY <1>1
<1>3. \A n \in 1 .. Len(Tail(queue)) : Tail(queue)[n] = queue[n + 1] /\ n + 1 \in 1 .. Len(queue)
  BY <1>1, <1>2
<1> QED
  BY <1>1, <1>2, <1>3, ServerAssumption DEF ServerTypeOK, Waiters, ServerAssumption

LEMMA TransfersStay == TransfersHold /\ UNCHANGED transfer => TransfersHold'
BY DEF TransfersHold, Running

LEMMA ListenInv == IInv /\ Listen => IInv'
<1> SUFFICES ASSUME IInv, Listen PROVE IInv'
  OBVIOUS
<1>1. fds = NoFds
  BY DEF IInv, LoopHolds, Listen
<1>2. \/ pc' = "accept" /\ fds' = Listening
      \/ pc' = "exited" /\ fds' = NoFds
  BY <1>1 DEF Listen, Listening
<1>3. fds' \in Tables
  BY <1>2, FdFacts DEF Tables, Listening, NoFds
<1>4. ServerTypeOK'
  BY <1>2, <1>3 DEF IInv, ServerTypeOK, Listen, Forked, Tables
<1>5. LoopHolds' /\ ChildrenHold' /\ Waiters'
  BY <1>2 DEF IInv, LoopHolds, ChildrenHold, Waiters, Serving, Listen
<1>6. TransfersHold'
  BY TransfersStay DEF IInv, Listen
<1> QED
  BY <1>4, <1>5, <1>6 DEF IInv

LEMMA ConnectInv == ASSUME NEW c \in Conns PROVE IInv /\ Connect(c) => IInv'
<1> SUFFICES ASSUME IInv, Connect(c) PROVE IInv'
  OBVIOUS
<1>1. queue \in Seq(Conns) /\ Len(queue) < MAX_CLIENTS /\ queue' = Append(queue, c)
  BY DEF IInv, ServerTypeOK, Connect
<1>2. queue' \in Seq(Conns) /\ Len(queue') <= MAX_CLIENTS
  BY <1>1, ServerAssumption DEF ServerAssumption
<1>3. ServerTypeOK'
  BY <1>2 DEF IInv, ServerTypeOK, Connect, Forked
<1>4. Waiters'
  BY <1>1 DEF IInv, Waiters, Connect
<1>5. LoopHolds' /\ ChildrenHold'
  BY DEF IInv, LoopHolds, ChildrenHold, Serving, Connect
<1>6. TransfersHold'
  BY TransfersStay DEF IInv, Connect
<1> QED
  BY <1>3, <1>4, <1>5, <1>6 DEF IInv

LEMMA AcceptInv == IInv /\ Accept => IInv'
<1> SUFFICES ASSUME IInv, Accept PROVE IInv'
  OBVIOUS
<1> DEFINE c == Head(queue)
<1>1. fds = Listening
  BY DEF IInv, LoopHolds, Accept
<1>2. /\ c \in asked /\ c \in Conns
      /\ queue' \in Seq(Conns) /\ Len(queue') <= MAX_CLIENTS /\ Waiters'
  BY QueueFacts DEF IInv, Accept, ServerTypeOK, Waiters
<1>3. fds' = With(c) /\ conn_fd' = 4
  BY <1>1, AcceptTakesFour DEF Accept, With
<1>4. fds' \in Tables /\ fds'[4] = c
  BY <1>2, <1>3, TableTypes, TableFacts
<1>5. ServerTypeOK'
  BY <1>2, <1>3, <1>4, FdFacts DEF IInv, ServerTypeOK, Accept, Forked, Tables
<1>6. LoopHolds' /\ ChildrenHold'
  BY <1>2, <1>3 DEF IInv, LoopHolds, ChildrenHold, Serving, Accept
<1>7. TransfersHold'
  BY TransfersStay DEF IInv, Accept
<1> QED
  BY <1>2, <1>5, <1>6, <1>7 DEF IInv

LEMMA AcceptFailsInv == IInv /\ AcceptFails => IInv'
<1> SUFFICES ASSUME IInv, AcceptFails PROVE IInv'
  OBVIOUS
<1>1. queue' \in Seq(Conns) /\ Len(queue') <= MAX_CLIENTS /\ Waiters'
  BY QueueFacts DEF IInv, AcceptFails, Waiters
<1>2. ServerTypeOK' /\ LoopHolds' /\ ChildrenHold'
  BY <1>1 DEF IInv, ServerTypeOK, LoopHolds, ChildrenHold, Serving, AcceptFails, Forked
<1>3. TransfersHold'
  BY TransfersStay DEF IInv, AcceptFails
<1> QED
  BY <1>1, <1>2, <1>3 DEF IInv

\* At fork() and after it the parent holds a connection as descriptor 4.
LEMMA ForkPoint ==
  ASSUME IInv, pc \in {"fork", "close"}
  PROVE  /\ conn_fd = 4 /\ fds[4] \in asked /\ fds[4] \in Conns
         /\ fds = With(fds[4]) /\ fds \in Tables
         /\ [fds EXCEPT ![conn_fd] = Closed] = Listening
<1>1. PICK c \in asked : fds = With(c)
  BY DEF IInv, LoopHolds
<1>2. c \in Conns
  BY DEF IInv, ServerTypeOK
<1> QED
  BY <1>1, <1>2, TableFacts, TableTypes DEF IInv, LoopHolds

LEMMA ForkInv == IInv /\ Fork => IInv'
<1> SUFFICES ASSUME IInv, Fork PROVE IInv'
  OBVIOUS
<1> DEFINE c == fds[4]
<1>1. conn_fd = 4 /\ c \in asked /\ c \in Conns /\ fds = With(c) /\ fds \in Tables
  BY ForkPoint DEF Fork
<1>2. proc' = [proc EXCEPT ![c] = [pc |-> "forked", fds |-> With(c)]]
  BY <1>1 DEF Fork
<1>3. ServerTypeOK'
  <2>1. proc' \in [Conns -> [pc : {"unborn", "forked", "serving", "zombie"}, fds : Tables]]
    BY <1>1, <1>2 DEF IInv, ServerTypeOK, Tables
  <2>2. Forked' \subseteq asked
    BY <1>1, <1>2 DEF IInv, ServerTypeOK, Forked
  <2> QED
    BY <2>1, <2>2 DEF IInv, ServerTypeOK, Fork, Tables
<1>4. LoopHolds'
  BY <1>1, <1>2 DEF IInv, ServerTypeOK, LoopHolds, Fork
<1>5. ChildrenHold' /\ Waiters'
  BY <1>1, <1>2 DEF IInv, ServerTypeOK, ChildrenHold, Waiters, Serving, Fork
<1>6. TransfersHold'
  BY TransfersStay DEF IInv, Fork
<1> QED
  BY <1>3, <1>4, <1>5, <1>6 DEF IInv

\* Closing conn_fd brings the parent back to accept(), forked or not.
LEMMA CloseInv == IInv /\ (ForkFails \/ ParentCloses) => IInv'
<1> SUFFICES ASSUME IInv, ForkFails \/ ParentCloses PROVE IInv'
  OBVIOUS
<1>1. fds' = Listening /\ pc' = "accept" /\ UNCHANGED <<queue, conn_fd, proc, transfer, asked>>
  BY ForkPoint DEF ForkFails, ParentCloses
<1>2. fds' \in Tables
  BY <1>1, FdFacts DEF Tables, Listening, NoFds
<1>3. ServerTypeOK'
  BY <1>1, <1>2 DEF IInv, ServerTypeOK, Forked, Tables
<1>4. LoopHolds' /\ ChildrenHold' /\ Waiters'
  BY <1>1 DEF IInv, LoopHolds, ChildrenHold, Waiters, Serving
<1>5. TransfersHold'
  BY <1>1, TransfersStay DEF IInv
<1> QED
  BY <1>3, <1>4, <1>5 DEF IInv

LEMMA SessionInv ==
  ASSUME NEW c \in Conns
  PROVE  IInv /\ (StartSession(c) \/ EndSession(c)) => IInv'
<1> SUFFICES ASSUME IInv, StartSession(c) \/ EndSession(c) PROVE IInv'
  OBVIOUS
<1>1. \/ proc' = [proc EXCEPT ![c] = [pc |-> "serving", fds |-> Alone(c)]]
      \/ proc' = [proc EXCEPT ![c] = [pc |-> "zombie", fds |-> NoFds]]
  <2>1. CASE StartSession(c)
    <3>1. proc[c].fds = With(c)
      BY <2>1 DEF StartSession, IInv, ChildrenHold
    <3>2. proc' = [proc EXCEPT ![c] = [pc |-> "serving", fds |-> [With(c) EXCEPT ![listen_fd] = Closed]]]
      BY <2>1, <3>1 DEF StartSession
    <3> QED
      BY <3>2, TableFacts
  <2>2. CASE EndSession(c)
    BY <2>2 DEF EndSession
  <2> QED
    BY <2>1, <2>2
<1>2. proc[c].pc # "unborn" /\ UNCHANGED <<queue, pc, fds, conn_fd, transfer, asked>>
  BY DEF StartSession, EndSession, Serving
<1>3. ServerTypeOK'
  <2>1. proc' \in [Conns -> [pc : {"unborn", "forked", "serving", "zombie"}, fds : Tables]]
    <3>1. /\ proc \in [Conns -> [pc : {"unborn", "forked", "serving", "zombie"}, fds : Tables]]
          /\ Alone(c) \in Tables /\ NoFds \in Tables
      BY TableTypes DEF IInv, ServerTypeOK, Tables
    <3> QED
      BY <1>1, <3>1
  <2>2. Forked' \subseteq asked
    BY <1>1, <1>2 DEF IInv, ServerTypeOK, Forked
  <2> QED
    BY <1>2, <2>1, <2>2 DEF IInv, ServerTypeOK, Tables
<1>4. LoopHolds'
  <2>1. proc'[c].pc # "unborn" /\ \A d \in Conns : d # c => proc'[d] = proc[d]
    BY <1>1 DEF IInv, ServerTypeOK
  <2>2. pc = "close" => fds[4] \in Conns /\ proc'[fds[4]].pc # "unborn"
    BY <2>1, ForkPoint DEF IInv, LoopHolds
  <2> QED
    BY <1>2, <2>2 DEF IInv, LoopHolds
<1>5. ChildrenHold'
  <2> SUFFICES ASSUME NEW d \in Conns
               PROVE  /\ proc'[d].pc \in {"unborn", "zombie"} => proc'[d].fds = NoFds
                      /\ proc'[d].pc = "forked" => proc'[d].fds = With(d)
                      /\ proc'[d].pc = "serving" => proc'[d].fds = Alone(d)
    BY DEF ChildrenHold, Serving
  <2>1. CASE d = c
    BY <1>1, <2>1 DEF IInv, ServerTypeOK
  <2>2. CASE d # c
    <3>1. proc'[d] = proc[d]
      BY <1>1, <2>2 DEF IInv, ServerTypeOK
    <3> QED
      BY <3>1 DEF IInv, ChildrenHold, Serving
  <2> QED
    BY <2>1, <2>2
<1>6. Waiters' /\ TransfersHold'
  BY <1>2, TransfersStay DEF IInv, Waiters
<1> QED
  BY <1>3, <1>4, <1>5, <1>6 DEF IInv

\* A transfer has the descriptors of its session, which serves, until it exits.
LEMMA TransferInv ==
  ASSUME NEW t \in Transfers
  PROVE  /\ \A c \in Conns : IInv /\ ForkTransfer(c, t) => IInv'
         /\ IInv /\ (BeginTransfer(t) \/ EndTransfer(t)) => IInv'
<1> DEFINE Goes(process) ==
      /\ transfer' = [transfer EXCEPT ![t] = process] /\ process \in TransferProcesses
      /\ IF process.pc \in {"forked", "running"}
         THEN process.of \in Conns /\ process.fds = Alone(process.of)
         ELSE process.fds = NoFds
      /\ UNCHANGED <<queue, pc, fds, conn_fd, proc, asked>>
<1>1. ASSUME IInv, NEW process, Goes(process) PROVE IInv'
  <2>1. transfer \in [Transfers -> TransferProcesses]
    BY <1>1 DEF IInv, ServerTypeOK, TransferProcesses, Tables
  <2>2. transfer' \in [Transfers -> TransferProcesses] /\ transfer'[t] = process
    BY <1>1, <2>1
  <2>3. \A u \in Transfers : u # t => transfer'[u] = transfer[u]
    BY <1>1, <2>1
  <2>4. ServerTypeOK'
    BY <1>1, <2>2 DEF IInv, ServerTypeOK, Forked, TransferProcesses, Tables
  <2>5. TransfersHold'
    BY <1>1, <2>2, <2>3 DEF IInv, TransfersHold, Running
  <2>6. LoopHolds' /\ ChildrenHold' /\ Waiters'
    BY <1>1 DEF IInv, LoopHolds, ChildrenHold, Waiters, Serving
  <2> QED
    BY <2>4, <2>5, <2>6 DEF IInv
<1>2. ASSUME IInv, NEW c \in Conns, ForkTransfer(c, t) PROVE IInv'
  <2> DEFINE process == [pc |-> "forked", of |-> c, fds |-> proc[c].fds]
  <2>1. proc[c].fds = Alone(c) /\ Alone(c) \in Tables
    BY <1>2, TableTypes DEF IInv, ChildrenHold, ForkTransfer
  <2>2. process \in TransferProcesses
    BY <2>1 DEF TransferProcesses
  <2>3. Goes(process)
    BY <1>2, <2>1, <2>2 DEF ForkTransfer
  <2> QED
    BY <1>1, <1>2, <2>3
<1>3. ASSUME IInv, BeginTransfer(t) \/ EndTransfer(t) PROVE IInv'
  <2>1. transfer[t] \in TransferProcesses
    BY <1>3 DEF IInv, ServerTypeOK, TransferProcesses, Tables
  <2>2. NoFds \in Tables
    BY FdFacts DEF NoFds, Tables
  <2>3. CASE BeginTransfer(t)
    <3> DEFINE process == [transfer[t] EXCEPT !.pc = "running"]
    <3>1. transfer[t].of \in Conns /\ transfer[t].fds = Alone(transfer[t].of)
      BY <1>3, <2>3 DEF IInv, TransfersHold, BeginTransfer, Running
    <3>2. /\ process \in TransferProcesses /\ process.pc = "running"
          /\ process.of = transfer[t].of /\ process.fds = transfer[t].fds
      BY <2>1 DEF TransferProcesses
    <3>3. transfer' = [transfer EXCEPT ![t] = process]
      BY <1>3, <2>3 DEF BeginTransfer, IInv, ServerTypeOK
    <3>4. Goes(process)
      BY <2>3, <3>1, <3>2, <3>3 DEF BeginTransfer
    <3> QED
      BY <1>1, <1>3, <3>4
  <2>4. CASE EndTransfer(t)
    <3> DEFINE process == [transfer[t] EXCEPT !.pc = "exited", !.fds = NoFds]
    <3>1. process \in TransferProcesses /\ process.pc = "exited" /\ process.fds = NoFds
      BY <2>1, <2>2 DEF TransferProcesses
    <3>2. transfer' = [transfer EXCEPT ![t] = process]
      BY <1>3, <2>4 DEF EndTransfer, IInv, ServerTypeOK
    <3>3. Goes(process)
      BY <2>4, <3>1, <3>2 DEF EndTransfer
    <3> QED
      BY <1>1, <1>3, <3>3
  <2> QED
    BY <1>3, <2>3, <2>4
<1> QED
  BY <1>2, <1>3

LEMMA StepInv == IInv /\ [ServerNext]_serverVars => IInv'
<1> SUFFICES ASSUME IInv, [ServerNext]_serverVars PROVE IInv'
  OBVIOUS
<1>1. CASE ServerLoop
  BY <1>1, ListenInv, AcceptInv, AcceptFailsInv, ForkInv, CloseInv DEF ServerLoop
<1>2. ASSUME NEW c \in Conns, Connect(c) \/ StartSession(c) \/ EndSession(c) PROVE IInv'
  BY <1>2, ConnectInv, SessionInv
<1>3. ASSUME NEW t \in Transfers,
             (\E c \in Conns : ForkTransfer(c, t)) \/ BeginTransfer(t) \/ EndTransfer(t)
      PROVE  IInv'
  BY <1>3, TransferInv
<1>4. CASE UNCHANGED serverVars
  <2>1. ServerTypeOK' /\ LoopHolds' /\ ChildrenHold' /\ Waiters'
    BY <1>4 DEF serverVars, IInv, ServerTypeOK, LoopHolds, ChildrenHold, Waiters, Serving, Forked
  <2> QED
    BY <1>4, <2>1, TransfersStay DEF serverVars, IInv
<1> QED
  BY <1>1, <1>2, <1>3, <1>4 DEF ServerNext

-----------------------------------------------------------------------------
\* The invariant says what the three properties say.
LEMMA InvImplies == IInv => ServerTypeOK /\ OwnConnectionOnly /\ NobodyKeepsConnection
<1> SUFFICES ASSUME IInv PROVE ServerTypeOK /\ OwnConnectionOnly /\ NobodyKeepsConnection
  OBVIOUS
<1>1. OwnConnectionOnly
  BY DEF IInv, ChildrenHold, TransfersHold, OwnConnectionOnly, Alone
<1>2. NobodyKeepsConnection
  <2> SUFFICES ASSUME pc = "accept", NEW c \in asked, proc[c].pc \notin {"forked", "serving"},
                      \A t \in Transfers : Running(t) => transfer[t].of # c
               PROVE  ~Held(c)
    BY DEF NobodyKeepsConnection
  <2>1. c \in Conns /\ c # "listening" /\ c # "closed"
    BY ServerAssumption DEF IInv, ServerTypeOK, ServerAssumption
  <2>2. \A fd \in Fds : fds[fd] # c
    BY <2>1, FdFacts DEF IInv, LoopHolds, Listening, NoFds
  <2>3. ASSUME NEW fd \in Fds, NEW d \in Conns PROVE proc[d].fds[fd] # c
    <3>1. CASE d = c
      <4>1. proc[c].fds = NoFds
        BY <2>1 DEF IInv, ServerTypeOK, ChildrenHold
      <4> QED
        BY <3>1, <4>1, <2>1, FdFacts DEF NoFds
    <3>2. CASE d # c
      <4>1. proc[d].fds \in {NoFds, With(d), Alone(d)}
        BY DEF IInv, ServerTypeOK, ChildrenHold, Serving
      <4>2. NoFds[fd] # c /\ With(d)[fd] # c /\ Alone(d)[fd] # c
        BY <2>1, <3>2, FdFacts DEF With, Alone, Listening, NoFds
      <4> QED
        BY <4>1, <4>2
    <3> QED
      BY <3>1, <3>2
  <2>4. ASSUME NEW fd \in Fds, NEW t \in Transfers PROVE transfer[t].fds[fd] # c
    <3>1. CASE Running(t)
      <4>1. transfer[t].fds = Alone(transfer[t].of) /\ transfer[t].of # c
        BY <3>1 DEF IInv, TransfersHold
      <4> QED
        BY <4>1, <2>1, FdFacts DEF Alone, NoFds
    <3>2. CASE ~Running(t)
      <4>1. transfer[t].fds = NoFds
        BY <3>2 DEF IInv, TransfersHold
      <4> QED
        BY <4>1, <2>1, FdFacts DEF NoFds
    <3> QED
      BY <3>1, <3>2
  <2> QED
    BY <2>2, <2>3, <2>4 DEF Held
<1> QED
  BY <1>1, <1>2 DEF IInv

LEMMA Inductive == ServerSpec => []IInv
<1> QED
  BY InitInv, StepInv, PTL DEF ServerSpec

\* The server's tables hold what their types allow, and it forks for connections
\* it has accepted only.
THEOREM ServerTyped == ServerSpec => []ServerTypeOK
BY Inductive, InvImplies, PTL

\* Every session, and every transfer it forks, has its own connection and nothing
\* of the server or of another session.
THEOREM ConnectionsApart == ServerSpec => []OwnConnectionOnly
BY Inductive, InvImplies, PTL

\* A connection is held by no process, once the server is back in accept(), unless
\* it waits, its session serves, or a transfer forked for it has not exited.
THEOREM ConnectionsEnd == ServerSpec => []NobodyKeepsConnection
BY Inductive, InvImplies, PTL
=============================================================================
