# TLA+ models of the FTP server

The repository holds an FTP server in C (`src/server`), a client for it in
Python (`src/client`) and a UDP echo pair (`src/udp`). The server forks a process
for each session, and each session forks a process for each transfer. They all
work on the same disk without locks, and they hand sockets to one another
through `fork()`. This directory models that server in TLA+. TLC checks the models
on small instances, and TLAPS proves theorems about them for every value of
their constants. The client and the UDP pair are modelled too, the client at work
with a session of the server.

    tlc -config MCSession.cfg MCSession
    tlapm SessionProofs.tla

- [The system](#the-system)
- [Session](#session), [Endpoint](#endpoint), [Transfer](#transfer)
- [Namespace](#namespace), [Server and ServerSystem](#server-and-serversystem)
- [FTPClient and FtpSystem](#ftpclient-and-ftpsystem), [UdpEcho](#udpecho)
- [Runs](#runs), [bounds](#bounds) and [fairness](#fairness)
- [Proofs](#proofs)
- [Where the code departs from what it says](#where-the-code-departs-from-what-it-says)
- [Not modelled](#not-modelled)
- [Plan](#plan)

## The system

| Part | State it keeps | Operations | Talks to |
|---|---|---|---|
| Accept loop: `server.c`, `main.c` | the listening socket, one connection at a time | `accept`, then `fork` a session | sessions, through the descriptors they inherit |
| Session: `session.c`, `commands.c` | `SessionState`, `DataConnection` (mode, `pasv_fd`, `port_port`, `last_sent_byte`, `current_dir`), its descriptor table | USER, PASS, PORT, PASV, REST, QUIT, ABOR, SYST, TYPE, and the commands below | the client, by replies on the control connection; transfers, by `fork` |
| Transfer process: `file_transfer`, `setup_data_connection` | a copy of the session's memory and descriptors | connect or accept, then RETR, STOR, APPE or LIST, then exit | the client, on both connections; the disk |
| File transfer: `send_file`, `receive_file`, `get_file_size` | an open file and its offset | one `read` or `write` per buffer | the disk, shared with every other session |
| Namespace commands | `current_dir` in the session, the tree on disk | CWD, PWD, MKD, RMD, DELE, LIST | the disk, and the client (LIST, on both connections) |
| Path helpers: `is_path_safe`, `resolve_path`, `get_basename` | none | pure functions on strings | - |
| FTP client: `session.py`, `client`, `utils.py` | `sock`, `data_sock`, `port_sock`, `transfer_type`, `write_type` | one method per user command; get, put, reget, reput, mget, mput on a pool of seven threads | the server |
| UDP echo: `udp/src` | the server's counter | send, receive | each other, over UDP |

What makes each of them correct, and where the difficulty lies:

- **Session and data connection.** A transfer gets exactly the data connection
  its client armed: the socket of the last PASV, the address of the last PORT,
  the offset of the last REST. It gets it once, and the session's later commands
  do not take it away. The difficulty is that descriptors are numbers the kernel
  reuses. `pasv_fd` outlives the socket it named, parent and child close their
  copies separately, and the order of `socket`, `close` and `fork` decides which
  socket a number means.
- **File transfers.** RETR sends the file it opened, from the restart point on;
  APPE loses nothing; STOR leaves nothing of the old file. The difficulty is that
  other sessions change the same path between any two system calls, and that RETR
  resolves it four times.
- **Login.** Nothing that touches the disk or opens a socket happens before PASS.
- **Namespace.** The current directory is where a CWD has put it, and exists as far as
  the session can see to it; a listing tells what is there. The difficulty is that
  `mkdir -p`, `nftw` and `readdir` are many system calls each, and other sessions
  change the tree between them.
- **Accept loop.** A connection ends for its client when its session and the
  transfers it has forked have ended. The difficulty is again `fork()`, which copies
  every descriptor, twice.
- **Client.** Each reply is taken for the command it answers, and each data
  connection by the transfer that armed it; what is reported as done is done, and
  every command ends. The difficulty is that replies may be late, lost or
  refusals, that several methods of the library drop an answer when something
  else fails, and that seven threads share one control connection.
- **UDP.** Each reply answers the message just sent, over a network that loses,
  duplicates and reorders.

`PROJECT.json` lists the places in the code where these can go wrong
("hazards"), with the properties that watch them.

## Session

`Session.tla` is one session process and the transfers it forks.

| In the model | In the code |
|---|---|
| `state` | `SessionState` of `handle_client` |
| `mode`, `pasv_fd`, `port_port`, `last_sent_byte` | the fields of `DataConnection` |
| `fdt` | the session's descriptor table, from 3 up. Descriptor 4 is `client_socket`: the parent holds 0, 1, 2 and `listen_fd` 3 when it accepts, and the session closes 3 |
| `child[t]` | transfer process t: its copy of the session at `fork()`, its table and how far it is |
| `backlog[l]` | connections that passive socket l has queued |
| `sess` | whether the session process still runs |
| `reply` | who sent which reply last on the control connection |
| `announced`, `portAfterPasv`, `child[t].listener`, `child[t].afterPort` | nothing: history, for the properties; no guard reads it |

There is one action per handler. The session is one sequential process, so a
handler is one step. What interleaves with it are the transfers and the client,
and neither writes anything a handler reads in the middle. `socket()` returns
the lowest free number (`LowestFree`), `fork()` copies the whole table, and a
socket listens for as long as any process holds it (`Listening`). This is what
the code relies on and what its mistakes come from.

- `HandlePort` closes `pasv_fd` and leaves the number in place, as the code does.
  `HandlePasv` makes the new socket first and closes the old number afterwards.
- `HandlePasv` may leave `announced` at 0. When `MAX_BIND_ATTEMPTS` ports were
  taken, the loop ends as after a success, `listen()` binds some other port, and
  the 227 names one that is not the server's.
- `FileTransfer(t)` is the whole of `file_transfer` in the parent: fork, then
  forget the mode, the descriptor (without closing it), the port and the offset.
- `SetupDataConnection`, `Begin` and `Finish` are the child's steps. In `Begin` and
  `Finish` the four handlers differ in their replies only; what they do with the
  disk is in Transfer.
- `Refuse` and `Answer` stand for replies that change nothing.
- `NullPath` is CWD, MKD, RMD or DELE without an argument: they read `path[0]` of
  a null pointer, which ends the session. `Hangup` is `recv` returning 0 or
  failing, and SIGPIPE.

Properties:

- `DescriptorLedger`: every descriptor the session holds is the control
  connection, the socket it has armed, or one it gave to a transfer.
- `PassiveListensUnlessStale`: a session in passive mode listens on its newest
  socket; the only exception is a `pasv_fd` that a PORT had left stale.
- `OneListenerPerTransfer`: no passive socket serves two commands.
- `NothingBeforeLogin`: no data connection and no transfer exists before the login.
- `No425AfterCleanPasv`: nothing the session does after the fork wastes a PASV.
- `ConnectedTransferEnds`: a transfer whose client has connected runs to its end.

## Endpoint

`Endpoint.tla` says in three actions what passive mode promises. Sockets are made
one after the other; the newest may be armed; it is handed to one transfer or
dropped, and never comes back. Session implements it
(`Session!ImplementsEndpoint`) with `armed` mapped to the socket behind
`pasv_fd`, if there is one, and `served[t]` to the socket t inherited. The stale
descriptor appears there as a socket "lost in the making".

## Transfer

`Transfer.tla` is any number of transfer processes, of one session or several, on
one path. A file is an inode and its content a sequence of units, each marked
with its origin and its place there. So the properties can say which data is
where without saying what the data is.

| In the model | In the code |
|---|---|
| `path` | the inode the name leads to, if any |
| `file[i]` | the content of an inode, which outlives its name |
| `proc[t].op`, `.offset` | the command and `last_sent_byte` |
| `proc[t].inode`, `.pos` | `file_fd` and its file offset |
| `proc[t].count` | the `count` given to `send_file` |
| `proc[t].moved`, `.taken` | what `send_file` sent or `receive_file` stored, and what it received |
| `disturbed[t]` | nothing: history of what others did to the inode t has open |

Each system call that looks at the shared disk is an action. For RETR these are
`StatFile`, `OpenToRead`, `CheckOffset` (the first `get_file_size`), `Measure` (the
second one, with `lseek`) and one `SendChunk` per buffer. STOR and APPE open and
then write once per `recv`, and a `write()` may store less than it is given. An
error of `receive_file` goes to the data connection, so `ReceiveFails` ends the
process without a reply. `HandleDele` is another session's DELE.

Properties:

- `RetrDeliversFile`: what was sent is one contiguous piece of the file opened,
  from the restart point on, unless someone overwrote it. After a 226 it is at
  least what was measured, and all of the file if nobody touched it.
- `AppeKeepsAll`: concurrent appends lose nothing of each other or of the file.
- `StorReplacesFile`: an undisturbed STOR leaves exactly what it reports.
- `TransferEnds`: every transfer ends, whatever happens to its file.
- `CompleteMeansSent`: the comment at `commands.c:281`, which is not what the code does (see
  below).

## Namespace

`Namespace.tla` is the directory tree that all sessions share, with the commands
that read or change it. A path is the sequence of its names.

| In the model | In the code |
|---|---|
| `dirs`, `files` | the tree on disk, from `/` down to what lies under the root and beside it |
| `current_dir[s]` | `data_conn.current_dir`, a string that outlives the directory it names |
| `doing[s]` | where session s is in `mkdir -p`, in `nftw`, or between `nftw` and the change of `current_dir` |
| `list[l].dir`, `.returned` | the directory of a LIST process and the names `readdir` has returned |
| `lost[s]`, `list[l].untold` | nothing: history. Who removed the directory s is in; the entries that LIST l has still to tell |
| `realpath`, `resolve_path` | the two ways the handlers resolve a path: the first looks every name up in the tree, the second only rewrites the string |
| `StringPrefix` | `strncmp(q, p, strlen(p)) == 0`. `Begins` says which names start like another |

CWD and DELE look at the tree in one step. MKD resolves its argument
(`HandleMkd`), runs `mkdir -p` name by name (`MkdirNext`) and replies (`MkdEnds`).
RMD checks its argument (`HandleRmd`), removes one entry at a time
(`RemoveCallback`), and then either stops (`RmdFails`) or changes `current_dir`
(`RmdAdjust`, with `ClosestExistingParent`). `nftw` collects what it will visit as
it goes, so it may miss what another session creates; then its last `remove`
fails. LIST stats its path and opens it (`OpenList`, or `ListFile` for a file),
reads and stats entry by entry, and ends with 226 or is cut off. `StoreFile` is
what STOR and APPE do to the tree.

`Nodes` bounds what may exist, below the root and beside it. The handlers let a
path pass if it starts with the characters of the root (`InRoot`), so a directory
beside the root passes if its name starts like the root's, and MKD, CWD and the others
work there. The model has such a directory. `Cuts` are what is left of the
current directory when RMD cuts it at its last slash, as long as it is a longer string
than the root.

Properties:

- `LeavesRootByCwd`: a session inside the root stops being there only by its own CWD, to
  an existing directory that the test lets pass. PWD skips as many characters as
  the root has and relative paths start at `current_dir`, so this says that nothing else
  moves it; in particular not RMD's search for a parent that still exists.
- `LostOnlyToOthers`: inside the root, a session's own completed RMD never leaves it in
  a directory that is gone, whatever the other sessions create or remove meanwhile. The
  property names all the ways in which it can be lost: another session, the
  session's own DELE of an empty directory, an RMD that stopped half-way, and a
  file where `access()` found a parent. Beside the root the search may stop before it
  finds one.
- `BothResolveAlike`: `resolve_path`, which MKD uses, and `realpath`, which the
  others use, agree on every argument that names something.
- `ListTells`: a listing that ends with 226 had a line for every entry that was
  there all the time.
- `RmdMovesOnlyChildren`: the comment at `commands.c:708`, which is not what the
  code does (see below).

## Server and ServerSystem

`Server.tla` is `start_server`: the table of descriptors of the server (`fds`), of
each session process (`proc`) and of each transfer a session forks (`transfer`), the
queue of `listen_fd`, and `pc`, the place in the loop. `Accept` takes the lowest free
descriptor, `Fork` copies the table, `ParentCloses` and `StartSession` close what parent
and child do not need, in either order. `AcceptFails`, `ForkFails` and a failing
`Listen` are there too. `ForkTransfer` copies the session's table once more. The transfer
replies on the control connection, never closes it, and may wait for its data
connection for any time; it may outlive its session, which may end at any point. Of the
descriptors only those that lead to clients' control connections are in this module;
Session has the data sockets. A session that has ended stays in `proc` as a zombie,
because nobody waits for it, and counts against `MaxProcs`; so does a transfer as long as
its session runs (`Entries`).

- `OwnConnectionOnly`: a serving session has its own connection as descriptor 4 and
  nothing else, and so has a running transfer. `Session.tla` starts from exactly that
  (`client_socket`).
- `NobodyKeepsConnection`: whenever the server is back in `accept()`, no process
  holds a connection whose session could not be forked, or has ended together with all
  its transfers. The client of such a connection reads the end of it. A transfer that
  still waits in `accept()` for its data connection is enough to keep the control
  connection open after the session's end, in the model as in the code.

`ServerSystem.tla` composes the two: a session exists from `fork()` on and runs
Namespace's commands while it serves; RETR, STOR, APPE and LIST run in transfers it
forks, which have a place in the directory tree (`TransferStarts`, `TransferRuns`) and
among the processes; when the session ends, they go on. The properties of both
parts are proved of the whole.

## FTPClient and FtpSystem

`FTPClient.tla` is `session.py` with the commands of the command line that work on
the server's files: get, reget, put, reput, ls, and PASV and PORT, which
leave a data connection behind for the next command. `FtpSystem.tla` puts it at work with a
session: the command loop, and the transfers it forks. Of the session's passive
sockets it knows what `Endpoint` says (`Passive == INSTANCE Endpoint`), which
`Session` is proved to implement: a 227 may therefore name a socket that does
not listen. It may also name a port that is not the session's (`Pasv`, after
`MAX_BIND_ATTEMPTS`); whoever may listen there is not modelled, so that the client's
connect fails.

| In the model | In the code |
|---|---|
| `commands`, `replies` | the two directions of the control connection |
| `link[c]` | a data connection: what is on its way up and down, and whether each end is open |
| `data_sock`, `port_sock`, `transfer_type`, `write_type` | the fields of the FTPClient, shared by its threads. `Dead` is a socket object that is closed or never was connected |
| `job[j]` | a command the user has given: `pc` is the place in the method, `goal` what the data connection is for, `response` the local variable, `keep` the `write_type` handed to get_remote_file, `size` the remote size found by LIST |
| `local`, `remote` | the files on both sides, as sequences of marked units |
| `commands[n].to`, `replies[n].to`, `job[j].serial` | nothing: which command a reply answers. The client cannot see it |
| `astray` | nothing: history. A reply was left behind for others to read, or a 227 named a port that is not the session's |
| `torn` | nothing: history. A `write()` stored less than it was given |
| `loggedIn`, `mode`, `port_port`, `last_sent_byte`, `child[t]` | the session and its transfers, as in Session |

What a thread does between two points where it can block is one step. Three
actions carry most of the difficulty:

- `read_response` takes the first line that has arrived and may lose, with the
  file object it reads through, any number of those behind it; or it gives
  up after five seconds. It may give up although the reply is on its way, `MaxTimeouts`
  times, or because nothing more will come (`Quiet`).
- `Receive`, at the other end: one `recv` is one command, and what had arrived with
  it is dropped.
- `Abandon`: a transfer that fails on the client's side returns before it reads the
  last reply, which the next command will find.

At the server's end, a transfer whose `accept()` finds its descriptor table full answers
425 (`Ways`), the sockets of transfers that have exited go on listening because the session
still holds them (`Listening`), and a `write()` may store the first part only of what
`recv()` has returned, after which `receive_file` goes on (`StreamIn`, which notes it in
`torn`).

Properties:

- `OwnReplies`: as long as no reply was left behind, the reply that a method is
  about to take is the answer to its command. With one command at a time the
  client keeps in step with the server although each side drops what it
  did not expect.
- `GetDelivers`: a get or reget that returns a reply and not "error" has the whole
  file, whichever earlier command left the data connection, `transfer_type` and
  `write_type` as they are.
- `PutDelivers`: after a put or reput told 226 the server has the client's file, if no
  `write()` of the server was short. The condition is needed: the 226 comes after a short
  one too (`ReceiveChunk` and `ReceiveDone` of Transfer show where from).
- `CommandEnds`: every command ends, whatever is refused, lost or late, unless
  it waits for the data of a transfer that, as far as it could read, the
  server did not begin. The exception is real. In active mode `retrieve_file` and
  the others `accept()` before they look at the answer, and after a 425, 451 or 530
  nobody connects.

`astray` appears in `GetDelivers` and `PutDelivers` because after a reply was left
behind the client takes the 226 of one command for another's. This is what the code
does; the properties say that it takes a late or abandoned reply, or a 227 with a
wrong port, to get there.

## UdpEcho

`UdpEcho.tla` is the loop of `client.py`, for several clients, the loop of
`server.py`, and a network that loses, repeats and reorders datagrams.
`NumbersUnique`: the server gives each number once. `ResponsesInStep`: as long as
nothing is repeated, each client prints the response to the message it has
just sent, with increasing numbers. Neither program checks this; it holds because a
client sends one message at a time. `ClientsFinish`: a client ends unless a
datagram is lost, since there is no timeout.

## Runs

| Run | Instance | Shows |
|---|---|---|
| `session_safety` | `MCSession.cfg`, 3.3 million states | the five invariants and `No425AfterCleanPasv` |
| `session_live` | `MCSessionLive.cfg`, 200 thousand states | `ConnectedTransferEnds`; Session implements Endpoint |
| `transfer` | `Transfer.cfg`, 315 thousand states | the content properties and `TransferEnds`, two processes and DELE on one path |
| `namespace` | `MCNamespace.cfg`, 1.8 million states | two sessions, a STOR and a LIST on one tree: the invariants of Namespace, `LeavesRootByCwd`, `ListTells` |
| `server_system` | `MCServerSystem.cfg`, 290 thousand states | the accept loop, its sessions and their transfers at work: the invariants of Server |
| `client` | `MCFtpSystem.cfg`, 1.1 million states | `OwnReplies`, `GetDelivers`, `PutDelivers`, `CommandEnds` |
| `udp` | `UdpEcho.cfg`, 57 thousand states | `NumbersUnique`, `ResponsesInStep`, `ClientsFinish` |
| `session_stale`, `session_leak`, `transfer_short`, `rmd_prefix`, `client_pool` | one property each | a counterexample each: see below |

No run checks for deadlock. The systems are meant to stop when the session has
ended and its transfers are done, when every connection has been made and the
user's commands are used up, or when the clients have sent their messages; an
active state that is stuck would show in the liveness properties. Each property of the passing runs has a mutant: a definition of the
module, marked "Fault", that changes an action as a plausible bug would and breaks
the property.

### Bounds

- `Transfers = {t1, t2}` in Session. Two is where transfers can take each other's
  connection, or the session's. The properties compare at most two transfers with
  the session, and the proofs cover any number. Symmetry is used in
  `session_safety` only.
- `MaxFd = 5` leaves descriptors 3 and 5 for passive sockets and data connections,
  so that the table fills up and numbers are reused. This is the interesting case,
  and with more descriptors it only comes later. The two violations need a third
  free one.
- `MaxListeners = 3` bounds how often PASV succeeds. Three suffice for one that is
  leaked, one that is stale and one that is armed. `MaxBacklog = 1` stands for
  `MAX_CLIENTS`.
- One port and one non-zero offset. Their values are copied and never compared.
- In Transfer: two processes, and a DELE at any time any number of times. The properties
  compare one transfer with what any other does to its file; they are proved for
  any number. A buffer of 2 units, a file of 3 and an upload of 4, so that files
  end inside a buffer, grow past the size that was measured and shrink below it, and
  each upload takes several buffers; restart points at the start, inside and past the
  end of the file.
- In Namespace: the root is `/srv/ftp`. It may hold a directory `a`, which may hold `b`,
  and `ab`, whose name starts like `a`; beside it there may be `ftps`, whose name starts
  like the root's. That is what the comparisons of strings can tell apart, and enough
  for a directory with content, a parent to fall back to and a sibling. Six arguments
  name these absolutely and relatively, with `.` and `..`. One of the two sessions moves
  about (`Movers`), the other changes the tree under it. `mkdir -p` makes nothing
  outside `Nodes`.
- In ServerSystem: two connections, two transfers, of which one lists and one stores, a
  queue of one, three processes for the four, and two descriptors beside `listen_fd`, so
  that a leaked one does not stop the loop at once. The tree is smaller than
  in `namespace`, since the run asks about descriptors.
- In FtpSystem: two commands, one after the other, out of get, reget and ls of a file
  of which the client has the first half, put and reput of one of which the server
  has, PASV and PORT. Every pair is enough for one command to
  find what the other has left. One reply may come too late. A reply that answers
  an abandoned command then meets the next one. Two commands can ask for four
  transfers (reget and reput list first); with three listeners and three transfers
  the fourth PASV or fork fails, as it may in the code. They never take more than two
  ports.
- `client_pool` runs two gets on two threads. `AcceptNothing`, which takes two commands
  at once on one `port_sock`, and the exception in `AcceptData`, happen only with the pool: with one thread
  `port_sock` is set whenever a transfer accepts on it.
- In UdpEcho: two clients, one loss and one repetition.

### Fairness

`FairSpec` asks for weak fairness of each transfer process, `TransferStep(t)`, and
of nothing else: the kernel schedules every process that can run. A process in
`send` or `recv` can run in this sense because its peer reads or writes, closes or
breaks the connection; a peer that stays connected and silent for ever blocks it,
and the code sets no timeout. Waiting in `accept()` is different. A client may never
connect, so `ConnectedTransferEnds` assumes a queued connection, and
`AcceptClient` is disabled without one. The session and the client's connects
have no fairness.

FtpSystem asks for weak fairness of each thread of the client, of the command loop
and of each transfer: all of them are processes or threads that run when they can.
Whether a reply is late is not fair; `MaxTimeouts` bounds it. `CommandEnds` needs
nothing else, since a thread in `read_response` can always go on in the end and one
in `recv` is woken by data or by the other end's close. UdpEcho asks for fairness of both
programs. The network has none beyond delivering what it does not lose: a
receiver that waits takes what is there. Server and Namespace have no
liveness property.

## Proofs

Every theorem holds for every value of the constants that satisfies the assumption
of its module, and no proof has a step that is taken on trust.

| Module | Theorems | State |
|---|---|---|
| `SessionProofs` | `TypeCorrect`, `DescriptorsAccounted`, `PassiveModeSound`, `ListenersDisjoint`, `LoginGuards`, `CleanPasvServes` | the five invariants and the action property of Session |
| | `Inductive`, `Invariant` | its `IInv` is preserved by every step, hence always true |
| | `SessionImplementsEndpoint` | `Spec => ImplementsEndpoint` |
| `EndpointProofs` | `SocketsGivenOnce` | what Endpoint promises, hence all that implement it |
| `TransferProofs` | `TransferTyped`, `TransferDelivers`, `TransferAppends`, `TransferReplaces` | the four invariants of Transfer |
| `NamespaceProofs` | `TreeKept`, `OwnRmdSpares`, `ResolvesAlike` | the three invariants of Namespace |
| | `RootLeftByCwd`, `ListingsTell` | its two action properties |
| `ServerProofs` | `ServerTyped`, `ConnectionsApart`, `ConnectionsEnd` | the three invariants of Server |
| `ServerSystemProofs` | `SystemConnectionsApart`, `SystemConnectionsEnd`, `SystemTreeKept`, `SystemRootLeftByCwd`, `SystemOwnRmdSpares`, `SystemResolvesAlike`, `SystemListingsTell` | the properties of both parts, of the whole |
| `FtpSystemProofs` | `FtpTyped`, `RepliesAreOwn` | the two invariants of FtpSystem |
| | `GetsDeliver`, `PutsDeliver` | its two action properties |
| `UdpEchoProofs` | `UdpTyped`, `NumbersGivenOnce`, `ClientsStayInStep` | the three invariants of UdpEcho |

### Session

For any set of transfers, any descriptor limit of at least 4, any bounds, ports and
offsets (`SessionAssumption`). The invariants are not inductive alone.
`PassiveListensUnlessStale` speaks of the socket behind `pasv_fd`, and a PASV can close
that number only if it names what the session thinks it names. `IInv` adds what is missing:

- `ControlHeld`: descriptor 4 and no other is the control connection, so that
  closing `pasv_fd` never closes it;
- `OneNumberEach`: a passive socket has one number in the session, so that closing
  an old number does not close the armed socket;
- `OnlyMadeSockets`: sockets and the transfers' listeners are among those made, so
  that a new one is new to everybody;
- `UnbornHasNoListener`, `StaleOnlyAfterPort`, `PasvHasFd`: `pasv_fd` is either
  armed, unset, or left by a PORT;
- `CleanSetup`: a transfer that waits to accept, forked after a clean PASV, still
  holds the socket.

The argument follows the code. `HandlePort` clears the mode with the socket.
`HandlePasv` gets a free descriptor, which differs from `pasv_fd` unless that is
stale, so the close hits the old socket or, if stale, the new one. `FileTransfer`
makes the transfer's listener the armed socket and forgets it. The transfers change
their own tables only. For the refinement, the abstract `armed` changes in the
same four actions, and every other step stutters. TLC checked `IInv` as an
invariant of `MCSession.cfg` before it was proved.

### Transfer

For any number of processes, any buffer, file and upload size and any restart points
(`TransferAssumption`). `IInv` says of each transfer

- `Phase`, `Linked`: what it has done so far at each point of the handler; and that
  the path leads to the inode it opened, until somebody removes the name;
- `Reads`: what a RETR has sent is, unit by unit, what the file has from the restart
  point on. While it sends, its `pos` is the restart point plus what it has sent, and
  the file has at least (if nobody touched it, exactly) what `count` says from there;
- `Stores`: a STOR that nobody disturbed has in the file what it has stored, and stands
  at the end of it;
- `Appends`: the units of an APPE in the file are those it has stored, in order;
- `Owns`: no other inode holds a unit of it, and none it has yet to take. So a unit
  that arrives is new to every file;

and `OldKept`: without a STOR on it, the old file still starts as it did. The
record `disturbed[t]` is what makes this inductive: a step of one transfer on the
inode of another either leaves the part the other's invariant speaks of, or marks
it. An append marks it "appended", which leaves `SentIsThere` and the lower bound
on the length; a STOR marks it "overwritten", and then nothing is promised.

### Namespace, Server and ServerSystem

Namespace's theorems hold for any root whose names are not empty, any other paths below,
beside or above it, any arguments and sessions (`NamespaceAssumption`). Its invariant
`LInv` has these parts:

- `Tree`: what exists is a tree, and the root and all it lies in are part of it;
- `AtWork`: the target of MKD or RMD passes the test of the handlers and is not the root,
  and `mkdir -p` is past what the root lies in. A path that passes has at least as many
  names as the root, so the root is not below any target, and RMD never removes it;
- `Inside`: every session is at a path that the test lets pass, or in the directory the
  root lies in, where RMD's search may take a session that was beside the root;
- `Losses`: the record of who took a session's directory is exact, and, inside the root, says
  the session's own RMD only while that RMD still runs and its target is above the session.

The argument for `LeavesRootByCwd`: `current_dir` is changed by CWD, which tests, and by
`ClosestExistingParent`. From inside the root all of `Cuts` up to the root itself are
inside it (`InRootPart`), and as the root exists the search stops there at the latest
(`ParentFound`). For `LostOnlyToOthers`: if RMD removed the session's directory, its target
is a prefix of that and not the root, the session is below the root, and among the paths from
the root down to it there is a longest that exists (`LongestExists`);
`ClosestExistingParent` is that one.

`BothResolveAlike` compares two recursive functions over an argument. They go
through its names in step: as long as `realpath` has found what it looked up,
it stands where `resolve_path` has rewritten the string to, because in a tree every
directory above one that exists is there. `StepByStep` is the induction over the number
of names taken, as a lemma about a set of numbers.

For `ListTells` the invariant is `Telling`: a name still to be told is in the directory
and was not returned yet. Removing an entry takes it out of `untold`, `ListEntry` returns
only entries that it has not returned, and stops when none is left.

`ServerProofs` is for any connections, queue, number of processes and highest
descriptor of at least 4 (`ServerAssumption`). Its invariant says what the tables
hold at each point: `LoopHolds` for the server (listening and nothing else in
`accept()`, one more connection as descriptor 4 from there to the close),
`ChildrenHold` for the sessions (a copy of that after `fork()`, then their own
connection alone), `TransfersHold` for the transfers (a copy of their session's, until they
exit), and `Waiters` for the queue. It is needed because a session's table is a copy of
the server's at `fork()`, and a transfer's one of the session's: that they hold no other
connection is a fact about the server's loop. `ServerSystemProofs` takes all of this over
to `SystemSpec`, in which sessions begin and end at any time: Server's properties because
every step of the whole is one of Server or leaves its variables alone, Namespace's
because a session's end keeps its invariant and no command runs but by a session that
serves.

### FtpSystem

For any files, commands, transfers, listeners and ports (`FTPClientAssumption`,
`FtpSystemAssumption`). `FtpTyped` holds for any pool.
`TypeOK` needs `TInv`, which says besides types that a job that runs has a file and a
goal, that reput has a size before it appends, that a transfer has a connection from
its 150 on, and that serial numbers are those of commands sent. That sockets are handed
out once follows from the lemma that proves it of Endpoint (`Given == INSTANCE
EndpointProofs`).

`RepliesAreOwn` is `PoolSize = 1 => (Spec => []OwnReplies)`. With two threads it is
false (`client_pool` shows what comes of it). `OwnReplies` looks at the first reply only. That
it is the right one depends on who else may still speak, so the invariant `XInv`
describes the whole exchange. Unless the client went astray, `Turn(j)` holds of
the job j that runs:

- `Mine`: every command, reply and transfer under way bears the job's serial number;
- `Orderly`: there is one command and nothing else, or what has come of it: at most one
  transfer, and no reply after one that is not a 150;
- `Calm`: between two commands of a method nothing is under way;
- `Offered`: the socket that a 227 on its way names is the armed one or was lost in the
  making, and no transfer has it, so that nobody else connects or accepts there;
- `Asks`, `Answers`, `Moves`: what is true at each point of a method where it waits for a
  reply, a connection or data. A reply other than 150 means that the transfer is over; and
  as long as it is not, its connection is the one the client has, so that the
  transfer's end is what the client's `recv` waits for;
- `Prepared`, `Ready`, `OnArmed`, `NoQueue`: why it is that one. The armed socket, if
  any, has the client's `data_sock` in its queue, and nobody else is in the
  queue of `port_sock`.

The critical step is the one that gives the next serial number: `SendPasv`, `SendPort`,
`SendRest` and `Request` may only come when nothing is under way, which is `Calm` or
`Prepared`. It follows from the last reply having been read (`ReadSettles`: a reply
that is not 150 was the last) and, for RETR and LIST, from the end of the
data, which the transfer's exit gives, after its reply. `read_response` may drop all that
is behind the reply it takes: under `Turn` this is never the answer to
another command. `TInv` and the rest of `XInv` (`OneRuns`, `PortsNew`, `OwnSockets`) hold
also when replies were left behind. TLC checked `XInv` on the instance of
`MCFtpSystem.cfg` before it was proved.

`GetsDeliver` and `PutsDeliver` are `PoolSize = 1 => (Spec => GetDelivers)` and the same for
`PutDelivers`. A reply that says 226 is not enough for either: what was read must have
been written to the right file from the right place, and nothing be left on the way.
`YInv` adds to `XInv` where the data are. `Clean` holds always: nothing comes down
a connection before the server accepts it, and what the client sends goes up it with
its close (one step of the model: `SendData`). The rest, `Ordered`, holds unless the client
went astray or a `write()` was short:

- `Parts`: every file, on either side, is the first part of one whole file. A unit
  bears its file and its place in it, so that this is lost if one is
  written twice, skipped, or to another file;
- `Plan`, what the commands and the transfer were asked for: `Addressed` (the verb and
  file of the job), `Restarts` (the offset of REST is where the local file ends, as
  `write_type` says it will be when opened, and reaches the session before RETR does)
  and `Sized` (reput appends only at the size LIST told, which nobody has changed since);
- `Getting`, `Got`: of a RETR, what is on the connection follows what the client will
  have, the transfer's `offset` is behind both, and after 226 the three make up the
  remote file;
- `Listing`: what a LIST sends is the size of the file;
- `Putting`, `Put`: while STOR or APPE is being set up nothing was sent yet. From the
  client's close on, what the server has and what is on its way make up the local file,
  and a 226 means that there is nothing on its way;
- `OpenSock`, `Unloaded`: the client's socket is open, and no STOR that was refused has
  left data on a socket that the next transfer will use.

Two points of the code carry the argument. The client reads to the end of the
data before it reads the last reply, and the server says 226 before it closes:
so for RETR the 226 may be under way while data are, which is why `Follows` ties it to
the length of what is left. STOR and APPE end for the server only when it
has read all and the client has closed, so that their 226 comes after the whole file. TLC checked
`YInv` on the instance of `MCFtpSystem.cfg` before it was proved. A short `write()` breaks
`Put`: what was received and not stored is neither in the file nor on its way. So `torn`
appears in the invariant as it does in the properties, and two lemmas (`HandleTears`,
`TransferTears`) say that nothing else tears a file.

### UdpEcho

For any number of clients, messages, losses and repetitions. The invariant says that the
numbers of all responses, on their way or printed, are at most `sequence_number` and
differ, and (`InStep`) that a client has one datagram on its way, request or response,
about the message it waits for, numbered later than all it has printed, as long
as nothing was repeated.

### Only model-checked

- `ConnectedTransferEnds`, `TransferEnds`, `CommandEnds` and `ClientsFinish`: liveness
  under fairness is beyond what the prover does.
- The five properties that the code does not have are refuted by TLC's counterexamples.

## Where the code departs from what it says

1. **Stale `pasv_fd`** (`session_stale`). After PASV, PORT, PASV, `socket()` returns
   the number that `handle_port` closed but did not forget, and `handle_pasv` closes
   that number, its own new socket, before it sends the 227. The client's
   connect is refused and the transfer answers 425.
2. **Leaked listener** (`session_leak`). The close that `utils.c:26` calls "Close
   the listening socket" closes the child's copy. The parent sets `pasv_fd` to -1
   without closing its own: the port goes on listening until the session ends, and
   each passive transfer costs one descriptor. When the table is full,
   `handle_pasv` returns without any reply.
3. **RETR reported complete** (`transfer_short`). The handler has the file open and asks
   for its size by its name. If another session deletes it in between, the size is -1,
   nothing is sent, and 226 follows, although the file that is open is whole. With a
   new file under the name, it is the new one's size that counts. `CompleteMeansSent` is
   as false when a STOR truncates the file under the RETR: `send_file`'s loop ends
   early, and the 226 is sent all the same. The run shows the first of these.
4. **RMD takes siblings for children** (`rmd_prefix`). The comment says that
   `current_dir` changes if the removed directory "was a parent of" it. The code
   compares the characters of the removed path only: a session in `/ab` that
   removes `/a` is moved to `/`.
5. **The pool shares one client** (`client_pool`). Each get on the pool sends REST,
   which sets the shared `write_type` to `'ab'`, and then sets it to `'wb'`. The REST of
   another thread in between makes a get append to the old local file, and
   its 226 reports success.

Other departures that have no run of their own, met while modelling:

- When `write()` stores a part of a buffer, `receive_file` adds that part to its total
  and goes on with the next buffer. The 226 tells the smaller total, and nothing else says
  that the middle is missing.
- MKD, CWD, RMD and DELE compare the start of the path with the root, character by
  character, so that they take a directory beside the root whose name is longer than the
  root's for one inside it. Namespace models the comparison as it is.
- A transfer keeps the client's control connection open, so that after QUIT the
  client reads the end of it only when its last transfer has ended.
- `read_response` may lose the second of two replies that arrive together. The
  next `response += self.read_response()` then adds `None`, which raises a
  TypeError. On the pool it disappears with the task; for `ls`, which runs on the
  main thread, it ends the client. In FtpSystem this is the outcome "exception".
- A RETR refused with 450, 451 or 425 has its local file opened, and emptied, all
  the same, since `retrieve_file` looks for 550 only.
- `active_mode` sets `transfer_type` whatever the server has answered to PORT.

## Not modelled

- Strings: the parsing of command lines, numbers and addresses, and the wording of
  replies. A command arrives parsed; a reply is its code, as far as a client
  tells it apart.
- How commands arrive, in Session: each arrives alone and whole. FtpSystem has
  commands that arrive together; in neither does one arrive in two parts.
- In Namespace: symbolic links, permissions other than as a reason to fail, and the
  lines for `.` and `..`. The root is an absolute path without links. What the shell
  makes of the argument of `mkdir -p`. That a command or a path is longer than
  `BUFFER_SIZE`.
- In FtpSystem: whoever listens on the port that a 227 names by mistake.
- In Server: the sessions' and transfers' data sockets (they are in Session); signals;
  and a queue longer than `listen` was asked for (Linux keeps one more connection).
- In the client: connect, open, close and login, which begin and end a session;
  RETR, STOR, APPE, LIST and REST typed by hand; mget and mput, which are sequences
  of get and put; a port that cannot be bound; the timeout that two threads set on one
  socket. `"226" in response` and `"550" in response` are taken for the reply's
  code; in the code a file name in the 150 line that contains these digits has the same
  effect.
- `main.c`, which parses `-port` and `-root`.
- The choice of a random port, beyond whether one could be bound; IP addresses;
  `usleep`.
- Processes killed from outside, and I/O errors below those the code tests for.
- Local commands of the client and its argument validators, which keep no state.

## Plan

Done: `Session`, `Endpoint`, `Transfer`, `Namespace`, `Server`, `ServerSystem`,
`FTPClient`, `FtpSystem`, `UdpEcho`, and the proofs above. Next:

1. What `FtpSystem` leaves out of the client: login and close, and the commands that
   start a transfer typed by hand.
2. What holds of replies and files when a reply was left behind, which `astray` now
   excludes, and with two threads in the pool.
3. The hazards of `PROJECT.json` that have a note in place of a property: where the code
   gives no promise to check, what it does there is in the models.
