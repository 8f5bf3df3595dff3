---------------------------- MODULE SessionProofs ----------------------------
(***************************************************************************)
(* Proofs about Session, for any number of transfer processes, descriptors *)
(* and passive sockets.                                                    *)
(***************************************************************************)
EXTENDS Session, TLAPS

-----------------------------------------------------------------------------
(* Descriptor tables.                                                      *)

\* Closing a descriptor leaves a descriptor table.
LEMMA CloseType ==
  ASSUME NEW table \in [Fds -> Objects], NEW fd
  PROVE  Close(table, fd) \in [Fds -> Objects]
BY DEF Close, Objects

\* The lowest free descriptor is a descriptor, and it is free.
LEMMA LowestFreeIsFree ==
  ASSUME NEW table, NEW fd \in LowestFree(table)
  PROVE  fd \in Fds /\ table[fd] = Closed
BY DEF LowestFree, Free

LEMMA ClientSocketFd == client_socket \in Fds
BY SessionAssumption DEF SessionAssumption, client_socket, Fds

LEMMA NoDescriptorsType == NoDescriptors \in [Fds -> Objects]
BY DEF NoDescriptors, Objects

\* A transfer's step through GoTo touches its pc and its own table only.
LEMMA GoToType ==
  ASSUME child \in [Transfers -> ChildRecord], NEW t \in Transfers,
         NEW pc \in Steps, NEW table \in [Fds -> Objects], GoTo(t, pc, table)
  PROVE  child' \in [Transfers -> ChildRecord]
<1> DEFINE record == [child[t] EXCEPT !.pc = pc, !.fdt = table]
<1>1. record \in ChildRecord
  BY DEF ChildRecord
<1>2. child' = [child EXCEPT ![t] = record]
  BY DEF GoTo
<1> QED
  BY <1>1, <1>2

LEMMA ForkType ==
  ASSUME TypeOK, NEW table \in [Fds -> Objects], mode = "MODE_PASV" => pasv_fd \in Fds
  PROVE  Fork(table) \in ChildRecord
BY DEF TypeOK, Fork, ChildRecord, Steps, Objects, Modes

-----------------------------------------------------------------------------
(* Type correctness.                                                       *)

PasvHasFd == mode = "MODE_PASV" => pasv_fd \in Fds

LEMMA InitType == Init => TypeOK /\ PasvHasFd
<1> SUFFICES ASSUME Init PROVE TypeOK /\ PasvHasFd
  OBVIOUS
<1>1. client_socket \in Fds
  BY ClientSocketFd
<1>2. fdt \in [Fds -> Objects]
  BY <1>1, NoDescriptorsType DEF Init, Objects
<1>3. Unborn \in ChildRecord
  BY NoDescriptorsType DEF Unborn, ChildRecord, Steps, Modes, Objects
<1>4. child \in [Transfers -> ChildRecord]
  BY <1>3 DEF Init
<1>5. backlog \in [Listeners -> 0 .. MaxBacklog]
  <2>1. 0 \in 0 .. MaxBacklog
    BY SessionAssumption DEF SessionAssumption
  <2> QED
    BY <2>1, Zenon DEF Init
<1>6. reply \in [by : Transfers \cup {"session"}, text : Replies]
  BY DEF Init, Replies
<1>7. made \in 0 .. MaxListeners /\ announced \in 0 .. made
  <2>1. made = 0 /\ announced = 0
    BY Zenon DEF Init
  <2> QED
    BY <2>1, SessionAssumption DEF SessionAssumption
<1>8. portAfterPasv \in BOOLEAN
  BY Zenon DEF Init
<1>9. sess \in {"serving", "ended"} /\ state \in States /\ mode \in Modes /\ PasvHasFd
  BY DEF Init, PasvHasFd, States, Modes
<1>10. pasv_fd \in Fds \cup {-1} /\ port_port \in Ports \cup {-1}
       /\ last_sent_byte \in Offsets \cup {0}
  BY Zenon DEF Init
<1> QED
  BY <1>2, <1>4, <1>5, <1>6, <1>7, <1>8, <1>9, <1>10, Zenon DEF TypeOK

LEMMA SaysType ==
  ASSUME NEW p \in Transfers \cup {"session"}, NEW text \in Replies, Says(p, text)
  PROVE  reply' \in [by : Transfers \cup {"session"}, text : Replies]
BY DEF Says

\* The session's own steps keep every variable in its type.
LEMMA SessionStepType ==
  ASSUME TypeOK, PasvHasFd, SessionStep
  PROVE  TypeOK' /\ PasvHasFd'
<1> USE DEF login, data_conn, kernel, history, Reply, Silent, Replies
<1>0. \A text \in Replies : Reply(text) =>
         reply' \in [by : Transfers \cup {"session"}, text : Replies]
  BY SaysType
<1>1. CASE HandleUser
  BY <1>0, <1>1 DEF HandleUser, TypeOK, PasvHasFd, States
<1>2. CASE HandlePass
  BY <1>0, <1>2 DEF HandlePass, TypeOK, PasvHasFd, States
<1>3. CASE Refuse
  <2>1. PICK text \in Refusals[state] : Reply(text)
    BY <1>3 DEF Refuse
  <2>2. text \in Replies
    <3>1. CASE state = "STATE_INITIAL"
      BY <2>1, <3>1 DEF Refusals
    <3>2. CASE state = "STATE_USERNAME_PROVIDED"
      BY <2>1, <3>2 DEF Refusals
    <3>3. CASE state = "STATE_LOGGED_IN"
      BY <2>1, <3>3 DEF Refusals
    <3> QED
      BY <3>1, <3>2, <3>3 DEF TypeOK, States
  <2> QED
    BY <1>0, <1>3, <2>1, <2>2 DEF Refuse, TypeOK, PasvHasFd
<1>4. CASE Answer
  BY <1>0, <1>4 DEF Answer, TypeOK, PasvHasFd
<1>5. CASE HandlePort
  <2>1. fdt' \in [Fds -> Objects]
    BY <1>5, CloseType DEF HandlePort, TypeOK
  <2> QED
    BY <1>0, <1>5, <2>1 DEF HandlePort, TypeOK, PasvHasFd, Modes
<1>6. CASE HandlePortInvalid
  BY <1>0, <1>6 DEF HandlePortInvalid, TypeOK, PasvHasFd
<1>7. CASE HandlePasv
  <2>1. PICK fd \in LowestFree(fdt) : /\ fdt' = Close([fdt EXCEPT ![fd] = made + 1], pasv_fd)
                                      /\ pasv_fd' = fd
    BY <1>7 DEF HandlePasv
  <2>2. made + 1 \in Listeners /\ made + 1 \in 0 .. MaxListeners
    <3>1. made \in 0 .. MaxListeners /\ made < MaxListeners /\ MaxListeners \in Nat
      BY <1>7, SessionAssumption, Zenon DEF SessionAssumption, HandlePasv, TypeOK
    <3> QED
      BY <3>1 DEF Listeners
  <2>3. fdt' \in [Fds -> Objects]
    BY <2>1, <2>2, CloseType DEF TypeOK, Objects
  <2>4. pasv_fd' \in Fds
    BY <2>1, LowestFreeIsFree
  <2>5. made' \in 0 .. MaxListeners /\ announced' \in 0 .. made'
    BY <1>7, <2>2 DEF HandlePasv
  <2> QED
    BY <1>0, <1>7, <2>3, <2>4, <2>5 DEF HandlePasv, TypeOK, PasvHasFd, Modes
<1>8. CASE HandlePasvFails
  BY <1>0, <1>8 DEF HandlePasvFails, TypeOK, PasvHasFd
<1>9. CASE HandleRest
  BY <1>0, <1>9 DEF HandleRest, TypeOK, PasvHasFd
<1>10. CASE \E t \in Transfers : FileTransfer(t)
  <2>1. PICK t \in Transfers : FileTransfer(t)
    BY <1>10
  <2>2. Fork(fdt) \in ChildRecord
    BY ForkType DEF TypeOK, PasvHasFd
  <2>3. child' \in [Transfers -> ChildRecord]
    BY <2>1, <2>2 DEF FileTransfer, TypeOK
  <2> QED
    BY <1>0, <2>1, <2>3 DEF FileTransfer, TypeOK, PasvHasFd, Modes
<1>11. CASE FileTransferForkFails
  BY <1>0, <1>11 DEF FileTransferForkFails, TypeOK, PasvHasFd
<1>12. CASE EndSession /\ (Reply("221") \/ Silent)
  BY <1>0, <1>12, NoDescriptorsType DEF EndSession, TypeOK, PasvHasFd
<1> QED
  BY <1>1, <1>2, <1>3, <1>4, <1>5, <1>6, <1>7, <1>8, <1>9, <1>10, <1>11, <1>12
     DEF SessionStep, HandleQuit, Hangup, NullPath

\* What a transfer's own step can do to child and reply.
LEMMA TransferStepType ==
  ASSUME TypeOK, NEW t \in Transfers, TransferStep(t)
  PROVE  /\ child' \in [Transfers -> ChildRecord]
         /\ reply' \in [by : Transfers \cup {"session"}, text : Replies]
         /\ backlog' \in [Listeners -> 0 .. MaxBacklog]
<1> USE DEF Replies
<1>0. child[t].fdt \in [Fds -> Objects]
  BY DEF TypeOK, ChildRecord
<1>1. \A text \in Replies : Says(t, text) =>
         reply' \in [by : Transfers \cup {"session"}, text : Replies]
  BY SaysType
<1>2. \A pc \in Steps : GoTo(t, pc, child[t].fdt) => child' \in [Transfers -> ChildRecord]
  BY <1>0, GoToType DEF TypeOK
<1>3. Exit(t) => child' \in [Transfers -> ChildRecord]
  BY GoToType, NoDescriptorsType DEF TypeOK, Exit, Steps
<1>4. NotEstablished(t) =>
        /\ child' \in [Transfers -> ChildRecord]
        /\ reply' \in [by : Transfers \cup {"session"}, text : Replies]
  BY <1>1, <1>3 DEF NotEstablished
<1>5. CASE SetupDataConnection(t)
  <2>1. CASE ConnectClient(t)
    BY <1>1, <1>2, <1>4, <2>1 DEF ConnectClient, TypeOK, Steps
  <2>2. CASE NoConnection(t)
    BY <1>4, <2>2 DEF NoConnection, TypeOK
  <2>3. CASE AcceptClient(t) /\ NotEstablished(t)
    <3>1. child' \in [Transfers -> ChildRecord]
      BY <1>4, <2>3
    <3>2. ~GoTo(t, "connected", Close(child[t].fdt, child[t].pasv_fd))
      <4>1. child'[t].pc = "exited"
        BY <2>3 DEF NotEstablished, Exit, GoTo, TypeOK, ChildRecord
      <4>2. ASSUME GoTo(t, "connected", Close(child[t].fdt, child[t].pasv_fd))
            PROVE  child'[t].pc = "connected"
        BY <4>2 DEF GoTo, TypeOK, ChildRecord
      <4> QED
        BY <4>1, <4>2
    <3> QED
      BY <1>4, <2>3, <3>1, <3>2 DEF AcceptClient, TypeOK
  <2>4. CASE AcceptClient(t) /\ ~NotEstablished(t)
    <3>1. Close(child[t].fdt, child[t].pasv_fd) \in [Fds -> Objects]
      BY <1>0, CloseType
    <3>2. child' \in [Transfers -> ChildRecord]
      BY <2>4, <3>1, GoToType DEF AcceptClient, TypeOK, Steps
    <3>3. PICK l \in Listeners : backlog[l] > 0 /\ backlog' = [backlog EXCEPT ![l] = @ - 1]
      BY <2>4, Zenon DEF AcceptClient
    <3>4. backlog' \in [Listeners -> 0 .. MaxBacklog]
      <4>1. backlog[l] - 1 \in 0 .. MaxBacklog
        <5>1. backlog[l] \in 0 .. MaxBacklog
          BY DEF TypeOK
        <5>2. MaxBacklog \in Nat
          BY SessionAssumption DEF SessionAssumption
        <5> QED
          BY <3>3, <5>1, <5>2
      <4> QED
        BY <3>3, <4>1 DEF TypeOK
    <3> QED
      BY <1>1, <2>4, <3>2, <3>4 DEF AcceptClient
  <2> QED
    BY <1>5, <2>1, <2>2, <2>3, <2>4 DEF SetupDataConnection
<1>6. CASE Begin(t)
  BY <1>1, <1>2, <1>3, <1>6 DEF Begin, TypeOK, kernel, Steps
<1>7. CASE Finish(t)
  BY <1>1, <1>3, <1>7 DEF Finish, TypeOK, kernel
<1> QED
  BY <1>5, <1>6, <1>7 DEF TransferStep

LEMMA NextType == TypeOK /\ PasvHasFd /\ [Next]_vars => TypeOK' /\ PasvHasFd'
<1> SUFFICES ASSUME TypeOK, PasvHasFd, [Next]_vars PROVE TypeOK' /\ PasvHasFd'
  OBVIOUS
<1>1. CASE SessionStep
  BY <1>1, SessionStepType
<1>2. CASE \E t \in Transfers : TransferStep(t)
  <2>1. PICK t \in Transfers : TransferStep(t)
    BY <1>2
  <2>2. UNCHANGED <<login, data_conn, fdt, made, history>>
    BY <2>1, Zenon DEF TransferStep, SetupDataConnection, Begin, Finish, kernel
  <2> QED
    BY <2>1, <2>2, TransferStepType DEF TypeOK, PasvHasFd, login, data_conn, history
<1>3. CASE \E l \in Listeners : ClientConnect(l)
  <2>1. PICK l \in Listeners : ClientConnect(l)
    BY <1>3
  <2>2. backlog' \in [Listeners -> 0 .. MaxBacklog]
    <3>1. backlog[l] \in Nat /\ backlog[l] < MaxBacklog /\ MaxBacklog \in Nat
      BY <2>1, SessionAssumption DEF SessionAssumption, ClientConnect, TypeOK
    <3> QED
      BY <2>1, <3>1 DEF ClientConnect, TypeOK
  <2> QED
    BY <2>1, <2>2 DEF ClientConnect, TypeOK, PasvHasFd, login, data_conn, history
<1>4. CASE UNCHANGED vars
  BY <1>4 DEF vars, login, data_conn, kernel, history, TypeOK, PasvHasFd
<1> QED
  BY <1>1, <1>2, <1>3, <1>4 DEF Next

\* Every reachable state has the types the C declarations give: whatever the
\* order of commands, hang-ups and transfer steps, and for any bounds.
THEOREM TypeCorrect == Spec => []TypeOK
<1>1. Init => TypeOK /\ PasvHasFd
  BY InitType
<1>2. (TypeOK /\ PasvHasFd) /\ [Next]_vars => (TypeOK /\ PasvHasFd)'
  BY NextType
<1> QED
  BY <1>1, <1>2, PTL DEF Spec

-----------------------------------------------------------------------------
(* The inductive invariant.  The properties of Session speak of the socket  *)
(* pasv_fd names; what makes them inductive is who holds which descriptor.  *)

\* While the session serves, descriptor 4 and no other is the control
\* connection; pasv_fd is never 4, socket() having found 4 taken.
ControlHeld ==
  /\ pasv_fd # client_socket
  /\ sess = "serving" => \A fd \in Fds : fdt[fd] = Control <=> fd = client_socket

\* The session holds each passive socket under one number at most.
OneNumberEach ==
  \A fd, other \in Fds : fdt[fd] = fdt[other] /\ fdt[fd] \in Listeners => fd = other

\* Sockets are numbered as they are made, so the next one is new to everybody.
OnlyMadeSockets ==
  /\ \A fd \in Fds : fdt[fd] <= made
  /\ \A t \in Transfers : child[t].listener <= made /\ child[t].listener # Control

UnbornHasNoListener ==
  \A t \in Transfers : At(t, "unborn") => child[t].listener = Closed

\* pasv_fd is set and not stale: then the session is in passive mode.
StaleOnlyAfterPort ==
  sess = "serving" /\ pasv_fd # -1 /\ ~portAfterPasv => mode = "MODE_PASV"

\* A transfer forked after a clean PASV inherited the open socket.
CleanSetup ==
  \A t \in Transfers :
    At(t, "setup") /\ child[t].mode = "MODE_PASV" =>
      /\ child[t].pasv_fd \in Fds
      /\ ~child[t].afterPort => PasvSocket(t) \in Listeners

IInv ==
  /\ TypeOK
  /\ PasvHasFd
  /\ ControlHeld
  /\ OneNumberEach
  /\ OnlyMadeSockets
  /\ UnbornHasNoListener
  /\ StaleOnlyAfterPort
  /\ CleanSetup
  /\ PassiveListensUnlessStale
  /\ DescriptorLedger
  /\ OneListenerPerTransfer
  /\ NothingBeforeLogin

LEMMA InitInvariant == Init => IInv
<1> SUFFICES ASSUME Init PROVE IInv
  OBVIOUS
<1>1. TypeOK /\ PasvHasFd
  BY InitType
<1>2. /\ sess = "serving" /\ mode = "MODE_NONE" /\ pasv_fd = -1 /\ port_port = -1
      /\ last_sent_byte = 0 /\ made = 0
  BY DEF Init
<1>3. \A fd \in Fds : fdt[fd] = IF fd = client_socket THEN Control ELSE Closed
  <2>1. client_socket \in Fds
    BY ClientSocketFd
  <2>2. fdt = [NoDescriptors EXCEPT ![client_socket] = Control]
    BY Zenon DEF Init
  <2> QED
    BY <2>1, <2>2 DEF NoDescriptors
<1>4. \A t \in Transfers : At(t, "unborn") /\ child[t].listener = Closed
  BY DEF Init, At, Unborn
<1>5. ControlHeld
  BY <1>2, <1>3 DEF ControlHeld, client_socket, Control, Closed
<1>6. OneNumberEach
  BY <1>3 DEF OneNumberEach, Control, Closed, Listeners
<1>7. OnlyMadeSockets /\ UnbornHasNoListener
  BY <1>2, <1>3, <1>4 DEF OnlyMadeSockets, UnbornHasNoListener, Control, Closed
<1>8. StaleOnlyAfterPort /\ PassiveListensUnlessStale /\ NothingBeforeLogin
  BY <1>2, <1>4 DEF StaleOnlyAfterPort, PassiveListensUnlessStale, NothingBeforeLogin
<1>9. CleanSetup /\ OneListenerPerTransfer
  BY <1>2, <1>4 DEF CleanSetup, OneListenerPerTransfer, At
<1>10. DescriptorLedger
  <2>1. client_socket \in Fds
    BY ClientSocketFd
  <2> QED
    BY <1>2, <1>3, <2>1 DEF DescriptorLedger
<1> QED
  BY <1>1, <1>5, <1>6, <1>7, <1>8, <1>9, <1>10 DEF IInv

\* Steps that touch neither the armed connection, the descriptors nor a
\* transfer: most commands, and a client's connection being queued.
LEMMA QuietStep ==
  ASSUME IInv, TypeOK', PasvHasFd', NothingBeforeLogin',
         UNCHANGED <<sess, mode, pasv_fd, fdt, made, child, history>>
  PROVE  IInv'
BY DEF IInv, history, ControlHeld, OneNumberEach, OnlyMadeSockets, UnbornHasNoListener,
       StaleOnlyAfterPort, CleanSetup, PassiveListensUnlessStale, DescriptorLedger,
       OneListenerPerTransfer, At, PasvSocket

\* The end of the session leaves nothing to serve, and the transfers alone.
LEMMA EndSessionStep ==
  ASSUME IInv, TypeOK', PasvHasFd', EndSession
  PROVE  IInv'
<1> USE DEF EndSession, IInv, history, data_conn
<1>1. \A fd \in Fds : fdt'[fd] = Closed
  BY DEF NoDescriptors
<1>2. OneNumberEach' /\ OnlyMadeSockets'
  BY <1>1 DEF OneNumberEach, OnlyMadeSockets, Closed, Listeners, TypeOK
<1>3. ControlHeld' /\ StaleOnlyAfterPort' /\ PassiveListensUnlessStale' /\ DescriptorLedger'
  BY DEF ControlHeld, StaleOnlyAfterPort, PassiveListensUnlessStale, DescriptorLedger
<1>4. UnbornHasNoListener' /\ CleanSetup' /\ OneListenerPerTransfer' /\ NothingBeforeLogin'
  BY DEF UnbornHasNoListener, CleanSetup, OneListenerPerTransfer, NothingBeforeLogin,
         At, PasvSocket
<1> QED
  BY <1>2, <1>3, <1>4

LEMMA HandlePortStep ==
  ASSUME IInv, TypeOK', PasvHasFd', HandlePort
  PROVE  IInv'
<1> USE DEF IInv
<1>1. sess = "serving" /\ UNCHANGED <<sess, state, pasv_fd, made, child>> /\ mode' = "MODE_PORT"
  BY DEF HandlePort, LoggedIn, login
<1>2. \A fd \in Fds : fdt'[fd] = IF fd = pasv_fd THEN Closed ELSE fdt[fd]
  BY DEF HandlePort, Close, TypeOK
<1>3. ControlHeld' /\ OneNumberEach' /\ OnlyMadeSockets'
  BY <1>1, <1>2 DEF ControlHeld, OneNumberEach, OnlyMadeSockets, Closed, Control, Listeners, TypeOK
<1>4. StaleOnlyAfterPort' /\ PassiveListensUnlessStale'
  BY <1>1 DEF HandlePort, StaleOnlyAfterPort, PassiveListensUnlessStale
<1>5. DescriptorLedger'
  <2>1. fdt'[client_socket] = Control
    BY <1>1, <1>2, ClientSocketFd DEF ControlHeld
  <2>2. ASSUME NEW fd \in Fds \ {client_socket}, fdt'[fd] # Closed
        PROVE  \E t \in Transfers : child'[t].listener = fdt'[fd]
    <3>1. fd # pasv_fd /\ fdt'[fd] = fdt[fd]
      BY <1>2, <2>2
    <3> QED
      BY <1>1, <2>2, <3>1 DEF DescriptorLedger
  <2> QED
    BY <2>1, <2>2 DEF DescriptorLedger
<1>6. UnbornHasNoListener' /\ CleanSetup' /\ OneListenerPerTransfer' /\ NothingBeforeLogin'
  BY <1>1 DEF UnbornHasNoListener, CleanSetup, OneListenerPerTransfer, NothingBeforeLogin,
              HandlePort, LoggedIn, At, PasvSocket
<1> QED
  BY <1>3, <1>4, <1>5, <1>6

\* The heart of the argument.  A clean pasv_fd is open, so socket() returns
\* another number and closing pasv_fd leaves the new socket alone; a stale one
\* may be free, and then the new socket may be the one that is closed.
LEMMA HandlePasvStep ==
  ASSUME IInv, TypeOK', PasvHasFd', HandlePasv
  PROVE  IInv'
<1> USE DEF IInv
<1>1. /\ sess = "serving" /\ mode' = "MODE_PASV" /\ made' = made + 1
      /\ announced' \in {made + 1, 0}
      /\ UNCHANGED <<sess, state, child, portAfterPasv>>
  BY DEF HandlePasv, LoggedIn, login
<1>2. PICK new \in LowestFree(fdt) : /\ fdt' = Close([fdt EXCEPT ![new] = made + 1], pasv_fd)
                                     /\ pasv_fd' = new
  BY DEF HandlePasv
<1>3. new \in Fds /\ fdt[new] = Closed
  BY LowestFreeIsFree
<1>4. \A fd \in Fds : fdt'[fd] = IF fd = pasv_fd THEN Closed
                                 ELSE IF fd = new THEN made + 1 ELSE fdt[fd]
  BY <1>2, <1>3 DEF Close, TypeOK
<1>5. made + 1 \in Listeners /\ made \in Nat
  BY <1>1 DEF TypeOK, Listeners
<1>6. new # client_socket
  BY <1>1, <1>3 DEF ControlHeld, Closed, Control
<1>7. new = pasv_fd => portAfterPasv
  BY <1>1, <1>3, <1>5 DEF StaleOnlyAfterPort, PassiveListensUnlessStale, TypeOK, Closed, Fds
<1>8. ControlHeld'
  <2>1. made + 1 # Control /\ Closed # Control
    BY <1>5 DEF Closed, Control
  <2> QED
    BY <1>1, <1>2, <1>4, <1>6, <2>1 DEF ControlHeld
<1>9. OneNumberEach'
  BY <1>4, <1>5 DEF OneNumberEach, OnlyMadeSockets, Closed, Listeners, TypeOK, Objects
<1>10. OnlyMadeSockets'
  <2>1. \A fd \in Fds : fdt'[fd] <= made'
    <3> SUFFICES ASSUME NEW fd \in Fds PROVE fdt'[fd] <= made + 1
      BY <1>1
    <3>1. fdt[fd] \in Int /\ fdt[fd] <= made
      BY DEF OnlyMadeSockets, TypeOK, Objects, Listeners, Closed, Control
    <3> QED
      BY <1>4, <1>5, <3>1 DEF Closed
  <2>2. ASSUME NEW t \in Transfers
        PROVE  child'[t].listener <= made' /\ child'[t].listener # Control
    <3>1. child[t].listener \in Int /\ child[t].listener <= made
      BY DEF OnlyMadeSockets, TypeOK, ChildRecord, Objects, Listeners, Closed, Control
    <3> QED
      BY <1>1, <1>5, <3>1 DEF OnlyMadeSockets
  <2> QED
    BY <2>1, <2>2 DEF OnlyMadeSockets
<1>11. StaleOnlyAfterPort'
  BY <1>1 DEF StaleOnlyAfterPort
<1>12. PassiveListensUnlessStale'
  BY <1>1, <1>2, <1>3, <1>4, <1>7 DEF PassiveListensUnlessStale
<1>13. DescriptorLedger'
  <2>1. fdt'[client_socket] = Control
    BY <1>1, <1>4, <1>6, ClientSocketFd DEF ControlHeld
  <2>2. ASSUME NEW fd \in Fds \ {client_socket}, fdt'[fd] # Closed, fd # new
        PROVE  \E t \in Transfers : child'[t].listener = fdt'[fd]
    <3>1. fd # pasv_fd /\ fdt'[fd] = fdt[fd]
      BY <1>4, <2>2
    <3> QED
      BY <1>1, <2>2, <3>1 DEF DescriptorLedger
  <2> QED
    BY <1>1, <1>2, <2>1, <2>2 DEF DescriptorLedger
<1>14. OneListenerPerTransfer'
  <2>1. fdt'[pasv_fd'] \in {made + 1, Closed}
    BY <1>2, <1>3, <1>4
  <2>2. \A t \in Transfers : child'[t].listener # made + 1
    <3> SUFFICES ASSUME NEW t \in Transfers PROVE child[t].listener # made + 1
      BY <1>1
    <3>1. child[t].listener \in Int /\ child[t].listener <= made
      BY DEF OnlyMadeSockets, TypeOK, ChildRecord, Objects, Listeners, Closed, Control
    <3> QED
      BY <1>5, <3>1
  <2> QED
    BY <1>1, <2>1, <2>2 DEF OneListenerPerTransfer
<1>15. UnbornHasNoListener' /\ CleanSetup' /\ NothingBeforeLogin'
  BY <1>1 DEF UnbornHasNoListener, CleanSetup, NothingBeforeLogin, HandlePasv, LoggedIn,
              At, PasvSocket
<1> QED
  BY <1>8, <1>9, <1>10, <1>11, <1>12, <1>13, <1>14, <1>15

\* fork() hands the armed socket to the child and the parent forgets it.
LEMMA FileTransferStep ==
  ASSUME IInv, TypeOK', PasvHasFd', NEW t \in Transfers, FileTransfer(t)
  PROVE  IInv'
<1> USE DEF IInv
<1>1. /\ sess = "serving" /\ state = "STATE_LOGGED_IN" /\ At(t, "unborn")
      /\ mode' = "MODE_NONE" /\ pasv_fd' = -1
      /\ UNCHANGED <<sess, state, fdt, made>>
      /\ child' = [child EXCEPT ![t] = Fork(fdt)]
  BY DEF FileTransfer, LoggedIn, login, kernel, At
<1>2. child'[t] = Fork(fdt) /\ \A u \in Transfers \ {t} : child'[u] = child[u]
  BY <1>1 DEF TypeOK
<1>3. /\ child'[t].pc = "setup" /\ child'[t].mode = mode /\ child'[t].pasv_fd = pasv_fd
      /\ child'[t].fdt = fdt /\ child'[t].afterPort = portAfterPasv
      /\ child'[t].listener = IF mode = "MODE_PASV" THEN fdt[pasv_fd] ELSE Closed
  BY <1>2 DEF Fork
<1>4. mode = "MODE_PASV" =>
        /\ pasv_fd \in Fds
        /\ fdt[pasv_fd] <= made /\ fdt[pasv_fd] # Control
        /\ fdt[pasv_fd] \in Listeners \/ (fdt[pasv_fd] = Closed /\ portAfterPasv)
  BY <1>1 DEF PasvHasFd, OnlyMadeSockets, ControlHeld, PassiveListensUnlessStale,
              TypeOK, Objects, Closed, Control
<1>5. child[t].listener = Closed
  BY <1>1 DEF UnbornHasNoListener
<1>6. ControlHeld'
  BY <1>1 DEF ControlHeld, client_socket
<1>7. OneNumberEach'
  BY <1>1 DEF OneNumberEach
<1>8. OnlyMadeSockets'
  BY <1>1, <1>2, <1>3, <1>4 DEF OnlyMadeSockets, TypeOK, Closed, Control
<1>9. UnbornHasNoListener'
  BY <1>2, <1>3 DEF UnbornHasNoListener, At
<1>10. StaleOnlyAfterPort' /\ PassiveListensUnlessStale' /\ NothingBeforeLogin'
  BY <1>1 DEF StaleOnlyAfterPort, PassiveListensUnlessStale, NothingBeforeLogin
<1>11. CleanSetup'
  <2>1. ASSUME NEW u \in Transfers, u # t,
               At(u, "setup")', child'[u].mode = "MODE_PASV"
        PROVE  child'[u].pasv_fd \in Fds /\ (~child'[u].afterPort => PasvSocket(u)' \in Listeners)
    BY <1>2, <2>1 DEF CleanSetup, At, PasvSocket
  <2>2. child'[t].mode = "MODE_PASV" =>
          child'[t].pasv_fd \in Fds /\ (~child'[t].afterPort => PasvSocket(t)' \in Listeners)
    BY <1>3, <1>4 DEF PasvSocket
  <2> QED
    BY <2>1, <2>2 DEF CleanSetup
<1>12. DescriptorLedger'
  <2>1. ASSUME NEW fd \in Fds \ {client_socket}, fdt[fd] # Closed
        PROVE  \E u \in Transfers : child'[u].listener = fdt[fd]
    <3>1. CASE fd = pasv_fd /\ mode = "MODE_PASV"
      BY <1>3, <3>1
    <3>2. CASE \E u \in Transfers : child[u].listener = fdt[fd]
      BY <1>2, <1>5, <2>1, <3>2
    <3> QED
      BY <1>1, <2>1, <3>1, <3>2 DEF DescriptorLedger
  <2> QED
    BY <1>1, <2>1 DEF DescriptorLedger
<1>13. OneListenerPerTransfer'
  <2>1. ASSUME NEW u \in Transfers, u # t, child'[t].listener # Closed
        PROVE  child'[t].listener # child'[u].listener
    BY <1>1, <1>2, <1>3, <2>1 DEF OneListenerPerTransfer
  <2>2. ASSUME NEW u \in Transfers, NEW v \in Transfers, u # v, u # t, v # t,
               child'[u].listener # Closed
        PROVE  child'[u].listener # child'[v].listener
    BY <1>2, <2>2 DEF OneListenerPerTransfer
  <2> QED
    BY <1>1, <2>1, <2>2 DEF OneListenerPerTransfer
<1> QED
  BY <1>6, <1>7, <1>8, <1>9, <1>10, <1>11, <1>12, <1>13

\* A transfer's own steps leave the session, and what it was forked with, alone.
LEMMA TransferStepStep ==
  ASSUME IInv, TypeOK', PasvHasFd', NEW t \in Transfers, TransferStep(t)
  PROVE  IInv'
<1> USE DEF IInv
<1>1. UNCHANGED <<sess, state, data_conn, fdt, made, history>>
  BY DEF TransferStep, SetupDataConnection, Begin, Finish, login, kernel
<1>2. ~At(t, "unborn")
  BY DEF TransferStep, SetupDataConnection, Begin, Finish, At
<1>3. PICK pc \in {"connected", "streaming", "exited"} :
        \E table : child' = [child EXCEPT ![t].pc = pc, ![t].fdt = table]
  BY DEF TransferStep, SetupDataConnection, ConnectClient, AcceptClient, NoConnection,
         Begin, Finish, NotEstablished, Exit, GoTo
<1>4. /\ child'[t].pc = pc
      /\ child'[t].listener = child[t].listener
      /\ \A u \in Transfers \ {t} : child'[u] = child[u]
  BY <1>3 DEF TypeOK, ChildRecord
<1>5. \A u \in Transfers : child'[u].listener = child[u].listener
  BY <1>4
<1>6. ControlHeld' /\ OneNumberEach' /\ StaleOnlyAfterPort' /\ PassiveListensUnlessStale'
  BY <1>1 DEF data_conn, history, ControlHeld, OneNumberEach, StaleOnlyAfterPort,
              PassiveListensUnlessStale
<1>7. OnlyMadeSockets' /\ DescriptorLedger' /\ OneListenerPerTransfer'
  BY <1>1, <1>5 DEF data_conn, history, OnlyMadeSockets, DescriptorLedger, OneListenerPerTransfer
<1>8. UnbornHasNoListener' /\ CleanSetup'
  BY <1>3, <1>4 DEF UnbornHasNoListener, CleanSetup, At, PasvSocket
<1>9. NothingBeforeLogin'
  BY <1>1, <1>2 DEF NothingBeforeLogin
<1> QED
  BY <1>6, <1>7, <1>8, <1>9

THEOREM Inductive == IInv /\ [Next]_vars => IInv'
<1> SUFFICES ASSUME IInv, [Next]_vars PROVE IInv'
  OBVIOUS
<1>1. TypeOK' /\ PasvHasFd'
  BY NextType DEF IInv
<1>2. CASE HandleUser \/ HandlePass \/ Refuse \/ Answer \/ HandlePortInvalid
           \/ HandlePasvFails \/ HandleRest \/ FileTransferForkFails
  <2>1. UNCHANGED <<sess, mode, pasv_fd, fdt, made, child, history>>
    BY <1>2 DEF HandleUser, HandlePass, Refuse, Answer, HandlePortInvalid, HandlePasvFails,
                HandleRest, FileTransferForkFails, login, data_conn, kernel
  <2>2. NothingBeforeLogin'
    BY <1>2 DEF IInv, NothingBeforeLogin, HandleUser, HandlePass, Refuse, Answer,
                HandlePortInvalid, HandlePasvFails, HandleRest, FileTransferForkFails,
                LoggedIn, login, data_conn, kernel, At
  <2> QED
    BY <1>1, <2>1, <2>2, QuietStep
<1>3. CASE HandlePort
  BY <1>1, <1>3, HandlePortStep
<1>4. CASE HandlePasv
  BY <1>1, <1>4, HandlePasvStep
<1>5. CASE \E t \in Transfers : FileTransfer(t)
  BY <1>1, <1>5, FileTransferStep
<1>6. CASE EndSession
  BY <1>1, <1>6, EndSessionStep
<1>7. CASE \E t \in Transfers : TransferStep(t)
  BY <1>1, <1>7, TransferStepStep
<1>8. CASE (\E l \in Listeners : ClientConnect(l)) \/ UNCHANGED vars
  <2>1. UNCHANGED <<sess, state, data_conn, fdt, made, child, history>>
    BY <1>8 DEF ClientConnect, vars, login, kernel
  <2>2. NothingBeforeLogin'
    BY <2>1 DEF IInv, NothingBeforeLogin, data_conn, At
  <2> QED
    BY <1>1, <2>1, <2>2, QuietStep DEF data_conn
<1> QED
  BY <1>2, <1>3, <1>4, <1>5, <1>6, <1>7, <1>8
     DEF Next, SessionStep, HandleQuit, Hangup, NullPath

LEMMA Invariant == Spec => []IInv
BY InitInvariant, Inductive, PTL DEF Spec

-----------------------------------------------------------------------------
(* The properties.                                                         *)

\* For any number of transfers, PASVs and PORTs the serving session has lost no
\* descriptor but those file_transfer gave away.
THEOREM DescriptorsAccounted == Spec => []DescriptorLedger
BY Invariant, PTL DEF IInv

\* Passive mode listens where the last 227 said, a stale pasv_fd excepted.
THEOREM PassiveModeSound == Spec => []PassiveListensUnlessStale
BY Invariant, PTL DEF IInv

\* No passive socket ever serves two transfers.
THEOREM ListenersDisjoint == Spec => []OneListenerPerTransfer
BY Invariant, PTL DEF IInv

\* Nothing is armed, opened or forked for a client that has not logged in.
THEOREM LoginGuards == Spec => []NothingBeforeLogin
BY Invariant, PTL DEF IInv

\* After a clean PASV a transfer has a listening socket to accept on, so that
\* only a full descriptor table makes setup_data_connection fail.
THEOREM CleanPasvServes == Spec => No425AfterCleanPasv
<1>1. ASSUME IInv, [Next]_vars, NEW t \in Transfers,
             At(t, "setup"), At(t, "exited")', child[t].mode = "MODE_PASV"
      PROVE  child[t].afterPort \/ Free(child[t].fdt) = {}
  <2>1. ASSUME NEW u \in Transfers, TransferStep(u) \/ FileTransfer(u)
        PROVE  u = t
    <3>1. PICK pc, table : child' = [child EXCEPT ![u].pc = pc, ![u].fdt = table]
                           \/ child' = [child EXCEPT ![u] = Fork(fdt)]
      BY <2>1 DEF TransferStep, SetupDataConnection, ConnectClient, AcceptClient, NoConnection,
                  Begin, Finish, NotEstablished, Exit, GoTo, FileTransfer
    <3>2. u # t => child'[t] = child[t]
      BY <1>1, <3>1 DEF IInv, TypeOK
    <3> QED
      BY <1>1, <3>2 DEF At
  <2>2. UNCHANGED child => FALSE
    BY <1>1 DEF At
  <2>3. SetupDataConnection(t)
    BY <1>1, <2>1, <2>2
       DEF Next, SessionStep, HandleUser, HandlePass, Refuse, Answer, HandlePort,
           HandlePortInvalid, HandlePasv, HandlePasvFails, HandleRest, FileTransferForkFails,
           HandleQuit, Hangup, NullPath, EndSession, ClientConnect, vars,
           FileTransfer, TransferStep, Begin, Finish, At
  <2>4. AcceptClient(t)
    BY <1>1, <2>3 DEF SetupDataConnection, ConnectClient, NoConnection
  <2>5. ~GoTo(t, "connected", Close(child[t].fdt, child[t].pasv_fd))
    <3>1. ASSUME GoTo(t, "connected", Close(child[t].fdt, child[t].pasv_fd))
          PROVE  child'[t].pc = "connected"
      BY <1>1, <3>1 DEF GoTo, IInv, TypeOK, ChildRecord
    <3> QED
      BY <1>1, <3>1 DEF At
  <2>6. PasvSocket(t) \notin Listeners \/ Free(child[t].fdt) = {}
    BY <2>4, <2>5, Zenon DEF AcceptClient
  <2> QED
    BY <1>1, <2>6 DEF IInv, CleanSetup
<1>2. IInv /\ [Next]_vars =>
        [\A t \in Transfers :
           At(t, "setup") /\ At(t, "exited")' /\ child[t].mode = "MODE_PASV" =>
             child[t].afterPort \/ Free(child[t].fdt) = {}]_vars
  BY <1>1
<1> QED
  BY <1>2, Invariant, PTL DEF Spec, No425AfterCleanPasv

-----------------------------------------------------------------------------
(* Session implements Endpoint.                                            *)

LEMMA PasvArmsOrWastes ==
  ASSUME IInv, HandlePasv
  PROVE  fdt'[pasv_fd'] \in {made + 1, Closed}
<1>1. PICK new \in LowestFree(fdt) : /\ fdt' = Close([fdt EXCEPT ![new] = made + 1], pasv_fd)
                                     /\ pasv_fd' = new
  BY DEF HandlePasv
<1>2. new \in Fds
  BY LowestFreeIsFree
<1> QED
  BY <1>1, <1>2 DEF IInv, TypeOK, Close

LEMMA StepsImplement == IInv /\ [Next]_vars => [Promise!Next]_(Promise!vars)
<1> SUFFICES ASSUME IInv, [Next]_vars, ~UNCHANGED (Promise!vars) PROVE Promise!Next
  OBVIOUS
<1> USE DEF Promise!Next, Promise!vars
<1>1. \/ HandlePort \/ HandlePasv \/ EndSession
      \/ \E t \in Transfers : FileTransfer(t) \/ TransferStep(t)
  <2>1. ~UNCHANGED <<sess, mode, pasv_fd, fdt, made, child>>
    OBVIOUS
  <2> QED
    BY <2>1 DEF Next, SessionStep, HandleUser, HandlePass, Refuse, Answer, HandlePortInvalid,
                HandlePasvFails, HandleRest, FileTransferForkFails, HandleQuit, Hangup, NullPath,
                ClientConnect, vars, login, data_conn, kernel
<1>2. CASE HandlePort
  <2>1. mode' # "MODE_PASV" /\ UNCHANGED <<made, child>>
    BY <1>2 DEF HandlePort
  <2> QED
    BY <2>1 DEF Promise!Drop
<1>3. CASE EndSession
  <2>1. sess' # "serving" /\ UNCHANGED <<made, child>>
    BY <1>3 DEF EndSession
  <2> QED
    BY <2>1 DEF Promise!Drop
<1>4. CASE HandlePasv
  <2>1. /\ sess' = "serving" /\ mode' = "MODE_PASV" /\ made < MaxListeners
        /\ made' = made + 1 /\ UNCHANGED child
    BY <1>4 DEF HandlePasv, LoggedIn, login
  <2>2. fdt'[pasv_fd'] \in {made + 1, Closed}
    BY <1>4, PasvArmsOrWastes
  <2> QED
    BY <2>1, <2>2 DEF Promise!Arm
<1>5. ASSUME NEW t \in Transfers, FileTransfer(t)
      PROVE  Promise!Hand(t)
  <2>1. /\ sess = "serving" /\ At(t, "unborn") /\ mode' = "MODE_NONE" /\ UNCHANGED made
        /\ child' = [child EXCEPT ![t] = Fork(fdt)]
    BY <1>5 DEF FileTransfer, LoggedIn, kernel, At
  <2>2. child[t].listener = Closed
    BY <2>1 DEF IInv, UnbornHasNoListener
  <2>3. \A u \in Transfers :
          child'[u].listener = IF u = t THEN IF mode = "MODE_PASV" THEN fdt[pasv_fd] ELSE Closed
                               ELSE child[u].listener
    BY <2>1 DEF IInv, TypeOK, Fork
  <2> QED
    BY <2>1, <2>2, <2>3 DEF Promise!Hand
<1>6. ASSUME NEW t \in Transfers, TransferStep(t)
      PROVE  FALSE
  <2>1. UNCHANGED <<sess, mode, pasv_fd, fdt, made>>
    BY <1>6 DEF TransferStep, SetupDataConnection, Begin, Finish, login, data_conn, kernel
  <2>2. PICK pc, table : child' = [child EXCEPT ![t].pc = pc, ![t].fdt = table]
    BY <1>6 DEF TransferStep, SetupDataConnection, ConnectClient, AcceptClient, NoConnection,
                Begin, Finish, NotEstablished, Exit, GoTo
  <2>3. \A u \in Transfers : child'[u].listener = child[u].listener
    BY <2>2 DEF IInv, TypeOK, ChildRecord
  <2> QED
    BY <2>1, <2>3
<1> QED
  BY <1>1, <1>2, <1>3, <1>4, <1>5, <1>6

\* PORT, PASV, QUIT and the transfers, working on raw descriptors, never do
\* anything to a passive socket that Endpoint does not allow.
THEOREM SessionImplementsEndpoint == Spec => ImplementsEndpoint
<1>1. Init => Promise!Init
  <2>1. Init => mode = "MODE_NONE" /\ made = 0
    BY Zenon DEF Init
  <2>2. Init => \A t \in Transfers : child[t].listener = Closed
    <3> SUFFICES ASSUME Init, NEW t \in Transfers PROVE child[t].listener = Closed
      OBVIOUS
    <3>1. child[t] = Unborn
      BY Zenon DEF Init
    <3> QED
      BY <3>1 DEF Unborn
  <2> QED
    BY <2>1, <2>2 DEF Promise!Init
<1> QED
  BY <1>1, StepsImplement, Invariant, PTL DEF Spec, Promise!Spec, ImplementsEndpoint
=============================================================================
