------------------------------ MODULE FTPClient ------------------------------
(***************************************************************************)
(* The client library (client/src/session.py) and the commands of the      *)
(* command line that use it.  One FTPClient object has one control         *)
(* connection, one data socket and one transfer_type, and up to PoolSize   *)
(* threads work on it: each runs the methods of one command from send() to *)
(* send(), and blocks only where it reads a reply, accepts or receives.    *)
(*                                                                         *)
(* What a thread does between two such points is one step.  Replies carry  *)
(* the command they answer, which the client cannot see.                   *)
(***************************************************************************)
EXTENDS Integers, Sequences, FiniteSets

CONSTANTS
  Jobs,        \* 1 .. N, the commands the user gives, in that order
  Commands,    \* bound: what they may be, [cmd, file] each
  PoolSize,    \* how many run at a time: 1 or more (ThreadPoolExecutor)
  Files,       \* the names the commands use, local and remote
  Links,       \* the data connections, by the listener or transfer they came from
  Ports,       \* bound: the ports active_mode takes, one after the other
  MaxTimeouts  \* bound: how often a reply comes later than five seconds

ASSUME FTPClientAssumption ==
  /\ Jobs \subseteq Nat
  /\ Commands \subseteq [cmd : {"get", "reget", "put", "reput", "ls", "PASV", "PORT"},
                         file : Files]
  /\ PoolSize \in Nat \ {0} /\ MaxTimeouts \in Nat
  /\ Links \subseteq Nat \ {0} /\ Ports \subseteq Nat \ {0}

VARIABLES
  commands,        \* sent on the control connection, not received
  replies,         \* arrived on the control connection, not read
  link,            \* the data connections, both directions
  data_sock,       \* self.data_sock: a link, None or Dead
  port_sock,       \* self.port_sock: a port or None; it listens while it is here
  transfer_type,   \* self.transfer_type
  write_type,      \* self.write_type
  local,           \* the files on the client's disk
  job,             \* the commands the user has given
  sent,            \* number of commands sent; their serial numbers are 1 .. sent
  ports,           \* number of ports taken
  timeouts,        \* replies that came too late
  astray           \* history: a reply was left behind for others to read, or named no port of the session

wires == <<commands, replies, link>>
object == <<data_sock, port_sock, transfer_type, write_type>>
counters == <<sent, ports, timeouts>>
clientVars == <<wires, object, local, job, counters, astray>>

None == 0          \* no socket
Dead == -1         \* a socket that is closed, or never was connected
NoFile == [exists |-> FALSE, data |-> <<>>]
File(data) == [exists |-> TRUE, data |-> data]
NoReply == [code |-> "None", arg |-> 0, to |-> 0]
NoLink == [up |-> <<>>, down |-> <<>>, client |-> "none", server |-> "none", port |-> 0]

Waiting == [pc |-> "waiting", cmd |-> "", file |-> CHOOSE f \in Files : TRUE, goal |-> "",
            serial |-> 0, active |-> FALSE, port |-> 0, response |-> {}, size |-> -1,
            keep |-> "wb", outcome |-> ""]

ClientInit ==
  /\ commands = <<>> /\ replies = <<>>
  /\ link = [c \in Links |-> NoLink]
  /\ data_sock = None /\ port_sock = None
  /\ transfer_type = "None" /\ write_type = "wb"
  /\ job = [j \in Jobs |-> Waiting]
  /\ sent = 0 /\ ports = 0 /\ timeouts = 0
  /\ astray = FALSE

Running(j) == job[j].pc \notin {"waiting", "ended"}
At(j, pc) == job[j].pc = pc
Is(j, cmds) == job[j].cmd \in cmds
file(j) == job[j].file

-----------------------------------------------------------------------------
(* Building blocks.                                                        *)

GoTo(j, pc) == job' = [job EXCEPT ![j].pc = pc]
End(j, outcome) == job' = [job EXCEPT ![j] = [Waiting EXCEPT !.pc = "ended", !.outcome = outcome]]

\* send_command, up to where it reads the reply.
Send(j, verb, arg, pc) ==
  /\ commands' = Append(commands, [verb |-> verb, file |-> file(j), arg |-> arg, to |-> sent + 1])
  /\ sent' = sent + 1
  /\ job' = [job EXCEPT ![j].pc = pc, ![j].serial = sent + 1]

\* read_response: the first line, with which its buffer may take what follows
\* and lose it, or None after five seconds.  quiet: nothing more will come.
read_response(j, r, quiet) ==
  \/ /\ replies # <<>> /\ r = Head(replies)
     /\ \E n \in 1 .. Len(replies) : replies' = SubSeq(replies, n + 1, Len(replies))
     /\ UNCHANGED <<timeouts, astray>>
  \/ /\ replies = <<>> /\ r = NoReply
     /\ quiet \/ timeouts < MaxTimeouts
     /\ timeouts' = IF quiet THEN timeouts ELSE timeouts + 1
     /\ astray' = (astray \/ ~quiet)
     /\ UNCHANGED replies

Arrived == {replies[n] : n \in 1 .. Len(replies)} \cup {NoReply}

\* What closing a socket leaves of its link: what the client had sent still goes.
CloseLink(c) ==
  IF c \notin Links THEN link
  ELSE [link EXCEPT ![c] = IF @.server = "closed" THEN NoLink
                           ELSE [@ EXCEPT !.client = "closed", !.down = <<>>]]

\* close_data_connection, at the end of a transfer.
CloseData ==
  /\ link' = CloseLink(data_sock)
  /\ data_sock' = None

-----------------------------------------------------------------------------
(* passive_mode and active_mode.                                           *)

Room == Cardinality({j \in Jobs : Running(j)}) < PoolSize

\* What the data connection of a command is first wanted for.  reget without a
\* local file is get.
Goal(c) ==
  CASE c.cmd = "get" -> "rest"
    [] c.cmd = "reget" -> IF local[c.file].exists THEN "list" ELSE "rest"
    [] c.cmd = "put" -> "stor"
    [] c.cmd \in {"reput", "ls"} -> "list"
    [] OTHER -> "done"

\* A thread of the pool takes the next command up.  put and reput need the file.
Start(j, c) ==
  /\ At(j, "waiting") /\ Room /\ \A i \in Jobs : At(i, "waiting") => j <= i
  /\ c.cmd \in {"put", "reput"} => local[c.file].exists
  /\ job' = [job EXCEPT ![j].pc = "mode", ![j].cmd = c.cmd, ![j].file = c.file, ![j].goal = Goal(c)]
  /\ UNCHANGED <<wires, object, local, counters, astray>>

Active(j) == Is(j, {"PORT"}) \/ (transfer_type = "PORT" /\ ~Is(j, {"PASV"}))

SendPasv(j) ==
  /\ At(j, "mode") /\ ~Active(j)
  /\ Send(j, "PASV", 0, "pasv")
  /\ UNCHANGED <<replies, link, object, local, ports, timeouts, astray>>

\* On with what the data connection is for.  reget set its write_type before.
ModeSet(j) ==
  /\ GoTo(j, job[j].goal)
  /\ write_type' = IF job[j].goal = "retr" THEN job[j].keep ELSE write_type

\* listening: the ports where the server takes connections.
Connect(l, listening) ==
  IF l \in listening
  THEN /\ link' = [CloseLink(data_sock) EXCEPT ![l] = [NoLink EXCEPT !.client = "open",
                                                                   !.server = "queued"]]
       /\ data_sock' = l
       /\ transfer_type' = "PASV"
  ELSE link' = CloseLink(data_sock) /\ data_sock' = Dead /\ UNCHANGED transfer_type

\* The old data socket is closed whatever the reply.  Only a 227 is connected to;
\* any exception is caught and logged, and the caller goes on.
ReadPasv(j, quiet, listening) ==
  /\ At(j, "pasv")
  /\ \E r \in Arrived :
       /\ read_response(j, r, quiet)
       /\ IF r.code = "227" THEN Connect(r.arg, listening)
          ELSE /\ link' = CloseLink(data_sock)
               /\ data_sock' = IF data_sock = None THEN None ELSE Dead
               /\ UNCHANGED transfer_type
  /\ ModeSet(j)
  /\ UNCHANGED <<commands, port_sock, local, sent, ports>>

\* A connection nobody has accepted goes with its listening socket.
CloseQueued(links, port) ==
  [c \in Links |-> IF links[c].client = "queued" /\ links[c].port = port
                   THEN [links[c] EXCEPT !.client = "closed"] ELSE links[c]]

\* A new listening socket, and PORT.
SendPort(j) ==
  /\ At(j, "mode") /\ Active(j)
  /\ ports + 1 \in Ports
  /\ link' = CloseQueued(CloseLink(data_sock), port_sock)
  /\ data_sock' = IF data_sock = None THEN None ELSE Dead
  /\ port_sock' = ports + 1 /\ ports' = ports + 1
  /\ Send(j, "PORT", ports + 1, "port")
  /\ UNCHANGED <<replies, transfer_type, write_type, local, timeouts, astray>>

\* transfer_type is set whatever the reply.
ReadPort(j, quiet) ==
  /\ At(j, "port")
  /\ \E r \in Arrived : read_response(j, r, quiet)
  /\ transfer_type' = "PORT"
  /\ ModeSet(j)
  /\ UNCHANGED <<commands, link, data_sock, port_sock, local, sent, ports>>

\* PASV and PORT typed by the user end here.
Done(j) ==
  /\ At(j, "done")
  /\ End(j, "ok")
  /\ UNCHANGED <<wires, object, local, counters, astray>>

-----------------------------------------------------------------------------
(* REST, and the command that starts a transfer.                           *)

\* send_command_with_params sets write_type for REST.
SendRest(j) ==
  /\ job[j].pc \in {"rest", "resume"}
  /\ write_type' = "ab"
  /\ IF At(j, "rest") THEN Send(j, "REST", 0, "rested")
     ELSE Send(j, "REST", Len(local[file(j)].data), "resumed")
  /\ UNCHANGED <<replies, link, data_sock, port_sock, transfer_type, local, ports, timeouts,
                 astray>>

\* Fault: REST is sent without its reply being read.
ReadRestNot(j, quiet) ==
  /\ job[j].pc \in {"rested", "resumed"}
  /\ write_type' = IF At(j, "rested") THEN "wb" ELSE write_type
  /\ job' = [job EXCEPT ![j].pc = IF At(j, "rested") THEN "retr" ELSE "mode",
                       ![j].goal = "retr", ![j].keep = write_type']
  /\ UNCHANGED <<wires, data_sock, port_sock, transfer_type, local, counters, astray>>

\* get takes its write_type for the transfer; reget hands on self.write_type and
\* sets the data connection up after REST.
ReadRest(j, quiet) ==
  /\ job[j].pc \in {"rested", "resumed"}
  /\ \E r \in Arrived : read_response(j, r, quiet)
  /\ write_type' = IF At(j, "rested") THEN "wb" ELSE write_type
  /\ job' = [job EXCEPT ![j].pc = IF At(j, "rested") THEN "retr" ELSE "mode",
                       ![j].goal = "retr", ![j].keep = write_type']
  /\ UNCHANGED <<commands, link, data_sock, port_sock, transfer_type, local, sent, ports>>

Verb(pc) == [retr |-> "RETR", stor |-> "STOR", appe |-> "APPE", list |-> "LIST"][pc]

\* STOR and APPE look for the local file once more; without it they do nothing.
HasFile(j) == job[j].pc \in {"stor", "appe"} => local[file(j)].exists

Request(j) ==
  /\ job[j].pc \in {"retr", "stor", "appe", "list"}
  /\ transfer_type # "None" /\ HasFile(j)
  /\ commands' = Append(commands, [verb |-> Verb(job[j].pc), file |-> file(j), arg |-> 0,
                                   to |-> sent + 1])
  /\ sent' = sent + 1
  /\ job' = [job EXCEPT ![j].pc = "answer", ![j].goal = job[j].pc, ![j].serial = sent + 1,
                        ![j].active = (transfer_type = "PORT"), ![j].response = {}]
  /\ UNCHANGED <<replies, link, object, local, ports, timeouts, astray>>

\* "PORT or PASV mode is needed."  reget goes on with a full transfer, reput too.
RequestRefused(j) ==
  /\ job[j].pc \in {"retr", "stor", "appe", "list"}
  /\ transfer_type = "None" \/ ~HasFile(j)
  /\ CASE At(j, "list") /\ Is(j, {"reget"}) -> job' = [job EXCEPT ![j].pc = "mode", ![j].goal = "rest"]
       [] At(j, "list") /\ Is(j, {"reput"}) -> job' = [job EXCEPT ![j].pc = "mode", ![j].goal = "stor"]
       [] OTHER -> End(j, "error")
  /\ UNCHANGED <<wires, object, local, counters, astray>>

-----------------------------------------------------------------------------
(* The transfer.                                                           *)

\* An exception nobody catches ends the thread's work on the command.
Raise(j) == End(j, "exception")

\* What reget and reput do with the answer "error" of their listing.
Fallback(j) == IF Is(j, {"reget"}) THEN "rest" ELSE "stor"
ListFailed(j) ==
  IF Is(j, {"ls"}) THEN End(j, "error")
  ELSE job' = [job EXCEPT ![j].pc = "mode", ![j].goal = Fallback(j)]

ReadAnswer(j, quiet) ==
  /\ At(j, "answer")
  /\ \E r \in Arrived :
       /\ read_response(j, r, quiet)
       /\ job' = [job EXCEPT ![j].pc = IF job[j].active THEN "accept" ELSE "judge",
                            ![j].response = {r.code}, ![j].port = port_sock]
  /\ UNCHANGED <<commands, link, object, local, sent, ports>>

\* accept() on port_sock comes before any look at the reply, and waits for ever;
\* what is closed afterwards is self.port_sock as it is by then.
ClientListens(port) ==
  \/ port_sock = port
  \/ \E j \in Jobs : At(j, "accept") /\ job[j].port = port

AcceptData(j) ==
  /\ At(j, "accept")
  /\ \E c \in Links :
        /\ link[c].client = "queued" /\ link[c].port = job[j].port
        /\ link' = [link EXCEPT ![c].client = "open"]
        /\ data_sock' = c
  /\ port_sock' = None
  /\ IF port_sock = None THEN Raise(j) ELSE GoTo(j, "judge")
  /\ UNCHANGED <<commands, replies, transfer_type, write_type, local, counters, astray>>

\* There was no port_sock to accept on.
AcceptNothing(j) ==
  /\ At(j, "accept") /\ job[j].port = None
  /\ Raise(j)
  /\ UNCHANGED <<wires, object, local, counters, astray>>

\* RETR was refused with 550, or was not answered at all: "550" in None raises.
Judge(j) ==
  /\ At(j, "judge") /\ job[j].goal = "retr"
  /\ IF "None" \in job[j].response
     THEN Raise(j) /\ UNCHANGED <<link, object>>
     ELSE /\ "550" \in job[j].response
          /\ CloseData /\ transfer_type' = "None" /\ write_type' = "wb"
          /\ End(j, "error")
          /\ UNCHANGED port_sock
  /\ UNCHANGED <<commands, replies, local, counters, astray>>

\* The local file is opened as write_type says: "wb" empties it.
OpenLocal(j) ==
  /\ At(j, "judge") /\ job[j].goal = "retr"
  /\ job[j].response \cap {"None", "550"} = {}
  /\ local' = [local EXCEPT ![file(j)] = File(IF write_type = "wb" THEN <<>> ELSE @.data)]
  /\ GoTo(j, "recv")
  /\ UNCHANGED <<wires, object, counters, astray>>

\* The other transfers look at no answer before the data.
Proceed(j) ==
  /\ At(j, "judge") /\ job[j].goal # "retr"
  /\ job' = [job EXCEPT ![j].pc = IF job[j].goal = "list" THEN "recv" ELSE "send",
                       ![j].size = IF job[j].goal = "list" THEN -1 ELSE @]
  /\ UNCHANGED <<wires, object, local, counters, astray>>

Connected == data_sock \in Links /\ link[data_sock].client = "open"

\* One recv() of retrieve_file or list_files, on whatever data_sock is by now.
RecvData(j) ==
  /\ At(j, "recv") /\ Connected
  /\ link[data_sock].down # <<>>
  /\ LET unit == Head(link[data_sock].down) IN
       IF job[j].goal = "retr"
       THEN /\ local' = [local EXCEPT ![file(j)].data = Append(@, unit)]
            /\ UNCHANGED job
       ELSE /\ job' = [job EXCEPT ![j].size =
                 IF unit.is = "line" /\ unit.of = file(j) THEN unit.n ELSE @]
            /\ UNCHANGED local
  /\ link' = [link EXCEPT ![data_sock].down = Tail(@)]
  /\ UNCHANGED <<commands, replies, object, counters, astray>>

\* Fault: no `break' at the end of the data.
RecvEndNever(j) ==
  /\ At(j, "recv") /\ Connected
  /\ link[data_sock].down = <<>> /\ link[data_sock].server = "closed"
  /\ UNCHANGED clientVars

\* The end of the data, at which list_files keeps its transfer_type for now.
RecvEnd(j) ==
  /\ At(j, "recv") /\ Connected
  /\ link[data_sock].down = <<>> /\ link[data_sock].server = "closed"
  /\ CloseData
  /\ transfer_type' = IF job[j].goal = "retr" THEN "None" ELSE transfer_type
  /\ GoTo(j, "last")
  /\ UNCHANGED <<commands, replies, port_sock, write_type, local, counters, astray>>

\* recv() or send() on no socket, or a dead one, or an error of the local file:
\* caught, logged, and the last reply is left unread.
Dropped(j) ==
  IF job[j].goal = "list" THEN ListFailed(j) /\ UNCHANGED transfer_type
  ELSE End(j, "error") /\ transfer_type' = "None"

Abandon(j) ==
  /\ \/ job[j].pc \in {"recv", "send"} /\ ~Connected
     \/ At(j, "send") /\ Connected /\ link[data_sock].server = "closed"
     \/ At(j, "recv") /\ job[j].goal = "retr" /\ Connected /\ link[data_sock].down # <<>>
     \/ At(j, "judge") /\ job[j].goal = "retr" /\ job[j].response \cap {"None", "550"} = {}
  /\ CloseData
  /\ Dropped(j)
  /\ astray' = TRUE
  /\ UNCHANGED <<commands, replies, port_sock, write_type, local, counters>>

\* Fault: append_file does not seek().
SendDataFromStart(j) ==
  /\ At(j, "send") /\ Connected
  /\ link' = [link EXCEPT ![data_sock].client = "closed", ![data_sock].up = @ \o local[file(j)].data]
  /\ data_sock' = None /\ transfer_type' = "None"
  /\ GoTo(j, "last")
  /\ UNCHANGED <<commands, replies, port_sock, write_type, local, counters, astray>>

\* store_file and append_file send the local file, from the offset on, and close.
SendData(j) ==
  /\ At(j, "send") /\ Connected
  /\ LET from == IF job[j].goal = "appe" THEN job[j].size ELSE 0
         data == local[file(j)].data IN
       link' = [link EXCEPT ![data_sock].client = "closed",
                            ![data_sock].up = @ \o SubSeq(data, from + 1, Len(data))]
  /\ data_sock' = None /\ transfer_type' = "None"
  /\ GoTo(j, "last")
  /\ UNCHANGED <<commands, replies, port_sock, write_type, local, counters, astray>>

\* Fault: the test for 226 is left out.
ReadLastUnchecked(j, quiet) ==
  /\ At(j, "last") /\ job[j].goal = "retr"
  /\ \E r \in Arrived : read_response(j, r, quiet)
  /\ End(j, "ok") /\ write_type' = "wb"
  /\ UNCHANGED <<commands, link, data_sock, port_sock, transfer_type, local, sent, ports>>

\* The last reply of RETR: with no 226 the local file is removed.
ReadLast(j, quiet) ==
  /\ At(j, "last") /\ job[j].goal = "retr"
  /\ \E r \in Arrived :
       /\ read_response(j, r, quiet)
       /\ \/ r.code = "None" /\ Raise(j) /\ UNCHANGED <<local, write_type>>
          \/ /\ r.code # "None" /\ "226" \notin job[j].response \cup {r.code}
             /\ local' = [local EXCEPT ![file(j)] = NoFile]
             /\ End(j, "error") /\ UNCHANGED write_type
          \/ /\ "226" \in job[j].response \cup {r.code} /\ r.code # "None"
             /\ End(j, "ok") /\ write_type' = "wb" /\ UNCHANGED local
  /\ UNCHANGED <<commands, link, data_sock, port_sock, transfer_type, sent, ports>>

\* Of STOR and APPE: whatever it says, but response += None raises.
ReadLastStored(j, quiet) ==
  /\ At(j, "last") /\ job[j].goal \in {"stor", "appe"}
  /\ \E r \in Arrived :
       /\ read_response(j, r, quiet)
       /\ IF "None" \in job[j].response \cup {r.code} THEN Raise(j)
          ELSE End(j, IF "226" \in job[j].response \cup {r.code} THEN "226" ELSE "ok")
  /\ UNCHANGED <<commands, link, object, local, sent, ports>>

\* Of LIST.  reget and reput look for the remote size, and resume where it is
\* the larger or the smaller of the two and the other time stamp the older.
Resumes(j) ==
  \/ Is(j, {"reget"}) /\ Len(local[file(j)].data) < job[j].size
  \/ Is(j, {"reput"}) /\ Len(local[file(j)].data) > job[j].size

ReadListed(j, quiet) ==
  /\ At(j, "last") /\ job[j].goal = "list"
  /\ \E r \in Arrived :
       /\ read_response(j, r, quiet)
       /\ \/ /\ r.code = "None" \/ (r.code = "226" /\ job[j].size = -1 /\ ~Is(j, {"ls"}))
             /\ Raise(j)
             /\ transfer_type' = IF r.code = "None" THEN transfer_type ELSE "None"
          \/ /\ r.code # "None" /\ Is(j, {"ls"})
             /\ End(j, "ok") /\ transfer_type' = "None"
          \/ /\ r.code # "None" /\ ~Is(j, {"ls"})
             /\ r.code = "226" => job[j].size # -1
             /\ \/ job' = [job EXCEPT ![j].pc = "mode", ![j].goal = Fallback(j)]
                \/ /\ r.code = "226" /\ Resumes(j)
                   /\ job' = [job EXCEPT ![j].pc = IF Is(j, {"reget"}) THEN "resume" ELSE "mode",
                                        ![j].goal = "appe"]
             /\ transfer_type' = "None"
  /\ UNCHANGED <<commands, link, data_sock, port_sock, write_type, local, sent, ports>>

-----------------------------------------------------------------------------
\* Everything a thread does for job j.
ClientStep(j, quiet, listening) ==
  \/ (\E c \in Commands : Start(j, c)) \/ SendPasv(j) \/ ReadPasv(j, quiet, listening)
  \/ SendPort(j) \/ ReadPort(j, quiet) \/ Done(j)
  \/ SendRest(j) \/ ReadRest(j, quiet) \/ Request(j) \/ RequestRefused(j)
  \/ ReadAnswer(j, quiet) \/ AcceptData(j) \/ AcceptNothing(j) \/ Judge(j) \/ OpenLocal(j) \/ Proceed(j)
  \/ RecvData(j) \/ RecvEnd(j) \/ Abandon(j) \/ SendData(j)
  \/ ReadLast(j, quiet) \/ ReadLastStored(j, quiet) \/ ReadListed(j, quiet)
=============================================================================
