---------------------------- MODULE FtpSystemProofs ----------------------------
(***************************************************************************)
(* The client and the session of FtpSystem keep their types, the session's *)
(* passive sockets are handed out as Endpoint promises, and a client that  *)
(* runs one command at a time takes no reply for another's, gets the file  *)
(* it asked for and puts the file it has, for any files, commands and      *)
(* number of transfers.                                                    *)
(***************************************************************************)
EXTENDS FtpSystem, SequenceTheorems, FiniteSetTheorems, TLAPS

Given == INSTANCE EndpointProofs

Codes == {"530", "227", "200", "350", "451", "425", "550", "450", "150", "551", "226", "426"}
FileVerbs == {"RETR", "STOR", "APPE", "LIST"}
Ends == {"none", "queued", "open", "closed"}
Modes == {"MODE_NONE", "MODE_PASV", "MODE_PORT"}
Requests == {"retr", "stor", "appe", "list"}
Goals == Requests \cup {"rest", "done"}
Points == Goals \cup Reading \cup
          {"waiting", "ended", "mode", "resume", "accept", "judge", "recv", "send"}
Tasks == {"get", "reget", "put", "reput", "ls", "PASV", "PORT"}

Command == [verb : {"PASV", "PORT", "REST"} \cup FileVerbs, file : Files, arg : Nat, to : Nat]
Answer == [code : Codes, arg : Nat, to : Nat]
Disk == [exists : BOOLEAN, data : Seq(Units)]
Connection == [up : Seq(Units), down : Seq(Units), client : Ends, server : Ends, port : Nat]
Work == [pc : Points, cmd : Tasks \cup {""}, file : Files \cup {Waiting.file}, goal : Goals \cup {""}, serial : Nat,
         active : BOOLEAN, port : Nat, response : SUBSET (Codes \cup {"None"}),
         size : Nat \cup {-1}, keep : {"wb", "ab"},
         outcome : {"", "ok", "error", "exception", "226"}]
Child == [pc : {"unborn", "setup", "begin", "streaming", "exited"},
          verb : FileVerbs \cup {""}, file : Files \cup {""}, mode : Modes, port : Nat,
          offset : Nat, conn : Nat, to : Nat]

Live(t) == child[t].pc \notin {"unborn", "exited"}

\* A job that runs has a file, and reput sends from a size it has seen.
Works ==
  /\ job \in [Jobs -> Work]
  /\ \A j \in Jobs : Running(j) =>
       /\ file(j) \in Files /\ job[j].goal \in Goals
       /\ "appe" \in {job[j].goal, job[j].pc} => job[j].size \in Nat

Objects ==
  /\ data_sock \in Links \cup {None, Dead} /\ port_sock \in Ports \cup {None}
  /\ transfer_type \in {"None", "PASV", "PORT"} /\ write_type \in {"wb", "ab"}

Counts == sent \in Nat /\ ports \in Nat /\ timeouts \in Nat /\ astray \in BOOLEAN

Asked ==
  /\ commands \in Seq(Command)
  /\ \A n \in 1 .. Len(commands) : commands[n].verb = "PORT" => commands[n].arg \in Ports

Wires == replies \in Seq(Answer) /\ link \in [Links -> Connection]

Disks == local \in [Files -> Disk] /\ remote \in [Files -> Disk]

Session == loggedIn \in BOOLEAN /\ mode \in Modes /\ port_port \in Ports \cup {None} /\ last_sent_byte \in Nat

\* A transfer that runs has a command, and from its 150 on a connection.
Forked ==
  /\ child \in [Transfers -> Child]
  /\ \A t \in Transfers :
       /\ Live(t) => child[t].file \in Files /\ child[t].verb \in FileVerbs
       /\ child[t].pc \in {"begin", "streaming"} => child[t].conn \in Links

\* Whatever has a serial number has that of a command sent.
Owing ==
  /\ \A n \in 1 .. Len(commands) : commands[n].to \in 1 .. sent
  /\ \A n \in 1 .. Len(replies) : replies[n].to \in 1 .. sent
  /\ \A t \in Transfers : Live(t) => child[t].to \in 1 .. sent

Sockets == Passive!TypeOK /\ Passive!GivenOnce

ClientKeeps == Works /\ Objects /\ Counts
ServerKeeps == Session /\ Forked /\ Sockets
TInv == ClientKeeps /\ ServerKeeps /\ Asked /\ Wires /\ Disks /\ Owing

-----------------------------------------------------------------------------
(* What is known of the constants and the building blocks.                 *)

LEMMA Constants ==
  /\ Links \subseteq Nat \ {0} /\ Ports \subseteq Nat \ {0} /\ Jobs \subseteq Nat
  /\ MaxListeners \in Nat /\ 1 .. MaxListeners \subseteq Links /\ Transfers \subseteq Links
  /\ \A c \in Commands : c.file \in Files /\ c.cmd \in Tasks
BY FTPClientAssumption, FtpSystemAssumption DEF FTPClientAssumption, FtpSystemAssumption, Tasks

LEMMA NothingTyped ==
  /\ NoLink \in Connection /\ NoFile \in Disk
  /\ \A data \in Seq(Units) : File(data) \in Disk
  /\ Unborn \in Child
  /\ <<>> \in Seq(Units) /\ <<>> \in Seq(Command) /\ <<>> \in Seq(Answer)
<1>1. <<>> \in Seq(Units) /\ <<>> \in Seq(Command) /\ <<>> \in Seq(Answer)
  BY EmptySeq
<1> QED
  BY <1>1 DEF NoLink, Connection, Ends, NoFile, Disk, File, Unborn, Child, Modes, FileVerbs

LEMMA WaitingTyped ==
  ASSUME NEW pc \in {"waiting", "ended"}, NEW outcome \in {"", "ok", "error", "exception", "226"}
  PROVE  Waiting \in Work /\ [Waiting EXCEPT !.pc = pc, !.outcome = outcome] \in Work
<1> DEFINE name == CHOOSE f \in Files : TRUE
<1>1. Waiting = [pc |-> "waiting", cmd |-> "", file |-> name, goal |-> "",
                 serial |-> 0, active |-> FALSE, port |-> 0, response |-> {}, size |-> -1,
                 keep |-> "wb", outcome |-> ""]
  BY DEF Waiting
<1> HIDE DEF name
<1>2. Waiting.file = name
  BY <1>1
<1> QED
  BY <1>1, <1>2 DEF Work, Points, Tasks

LEMMA Sequence ==
  ASSUME NEW S, NEW s \in Seq(S), NEW n \in 1 .. Len(s)
  PROVE  /\ SubSeq(s, n + 1, Len(s)) \in Seq(S)
         /\ Len(SubSeq(s, n + 1, Len(s))) = Len(s) - n
         /\ \A m \in 1 .. Len(s) - n : SubSeq(s, n + 1, Len(s))[m] = s[n + m]
         /\ Head(s) = s[1] /\ Head(s) \in S
<1>1. Len(s) \in Nat /\ n \in Nat /\ 1 <= n /\ n <= Len(s)
  BY LenProperties
<1>2. \A m \in n + 1 .. Len(s) : s[m] \in S
  BY <1>1, ElementOfSeq
<1>3. /\ SubSeq(s, n + 1, Len(s)) \in Seq(S)
      /\ Len(SubSeq(s, n + 1, Len(s))) = IF n + 1 <= Len(s) THEN Len(s) - (n + 1) + 1 ELSE 0
      /\ \A m \in 1 .. Len(s) - (n + 1) + 1 : SubSeq(s, n + 1, Len(s))[m] = s[n + 1 + m - 1]
  BY <1>1, <1>2, SubSeqProperties
<1>4. s # <<>>
  BY <1>1, EmptySeq
<1>5. Head(s) = s[1] /\ Head(s) \in S
  BY <1>1, <1>4, HeadTailProperties
<1> QED
  BY <1>1, <1>3, <1>5

\* read_response leaves some of the replies that were there.
LEMMA ReadTyped ==
  ASSUME Wires, Counts, Owing, NEW r, NEW quiet, NEW j \in Jobs, read_response(j, r, quiet)
  PROVE  /\ replies' \in Seq(Answer) /\ \A m \in 1 .. Len(replies') : replies'[m].to \in 1 .. sent
         /\ timeouts' \in Nat /\ astray' \in BOOLEAN
         /\ r \in Answer \cup {NoReply}
<1>1. CASE replies # <<>> /\ r = Head(replies) /\ UNCHANGED <<timeouts, astray>>
           /\ \E n \in 1 .. Len(replies) : replies' = SubSeq(replies, n + 1, Len(replies))
  <2>1. PICK n \in 1 .. Len(replies) : replies' = SubSeq(replies, n + 1, Len(replies))
    BY <1>1
  <2>2. /\ replies' \in Seq(Answer) /\ Len(replies') = Len(replies) - n
        /\ \A m \in 1 .. Len(replies) - n : replies'[m] = replies[n + m]
        /\ r \in Answer
    BY <1>1, <2>1, Sequence DEF Wires
  <2>3. Len(replies) \in Nat
    BY LenProperties DEF Wires
  <2>4. ASSUME NEW m \in 1 .. Len(replies') PROVE replies'[m].to \in 1 .. sent
    <3>1. n + m \in 1 .. Len(replies) /\ replies'[m] = replies[n + m]
      BY <2>2, <2>3
    <3> QED
      BY <3>1 DEF Owing
  <2> QED
    BY <1>1, <2>2, <2>4 DEF Counts
<1>2. CASE replies = <<>> /\ r = NoReply /\ UNCHANGED replies
           /\ timeouts' = (IF quiet THEN timeouts ELSE timeouts + 1)
           /\ astray' = (astray \/ ~quiet)
  BY <1>2 DEF Wires, Owing, Counts
<1> QED
  BY <1>1, <1>2 DEF read_response

LEMMA JobSet ==
  ASSUME Works, NEW j \in Jobs, NEW record \in Work, job' = [job EXCEPT ![j] = record],
         record.pc \notin {"waiting", "ended"} =>
           /\ record.file \in Files /\ record.goal \in Goals
           /\ "appe" \in {record.goal, record.pc} => record.size \in Nat
  PROVE  Works'
BY DEF Works, Running, file

LEMMA EndTyped ==
  ASSUME Works, NEW j \in Jobs, NEW outcome \in {"ok", "error", "exception", "226"}, End(j, outcome)
  PROVE  Works'
<1> DEFINE record == [Waiting EXCEPT !.pc = "ended", !.outcome = outcome]
<1>1. record \in Work
  BY WaitingTyped
<1>2. record.pc = "ended"
  BY DEF Waiting
<1>3. job' = [job EXCEPT ![j] = record]
  BY DEF End
<1> HIDE DEF record
<1>4. record.pc \notin {"waiting", "ended"} =>
        /\ record.file \in Files /\ record.goal \in Goals
        /\ "appe" \in {record.goal, record.pc} => record.size \in Nat
  BY <1>2
<1> QED
  BY <1>1, <1>3, <1>4, JobSet

LEMMA GoToTyped ==
  ASSUME Works, NEW j \in Jobs, Running(j), NEW pc \in Points, pc = "appe" => job[j].goal = "appe", GoTo(j, pc)
  PROVE  Works'
<1> DEFINE record == [job[j] EXCEPT !.pc = pc]
<1>1. /\ record \in Work /\ record.file = job[j].file /\ record.pc = pc
      /\ record.goal = job[j].goal /\ record.size = job[j].size
  <2>1. job[j] \in Work
    BY DEF Works
  <2>2. record \in Work
    BY <2>1 DEF Work
  <2> QED
    BY <2>1, <2>2 DEF Work
<1>2. job' = [job EXCEPT ![j] = record]
  BY DEF GoTo
<1> HIDE DEF record
<1> QED
  BY <1>1, <1>2, JobSet DEF Works, file

\* A command more is one of the type, and the next serial number.
LEMMA CommandTyped ==
  ASSUME Asked, Counts, Owing, NEW cmd \in Command, cmd.to = sent + 1, cmd.verb = "PORT" => cmd.arg \in Ports,
         commands' = Append(commands, cmd), sent' = sent + 1, UNCHANGED <<replies, child>>
  PROVE  Asked' /\ Owing'
<1>1. /\ commands' \in Seq(Command) /\ Len(commands') = Len(commands) + 1
      /\ \A n \in 1 .. Len(commands) : commands'[n] = commands[n]
      /\ commands'[Len(commands) + 1] = cmd
  BY AppendProperties DEF Asked
<1>2. Len(commands) \in Nat /\ sent \in Nat
  BY LenProperties DEF Asked, Counts
<1>3. ASSUME NEW n \in 1 .. Len(commands')
      PROVE  (commands'[n].verb = "PORT" => commands'[n].arg \in Ports) /\ commands'[n].to \in 1 .. sent'
  <2>1. CASE n = Len(commands) + 1
    BY <1>1, <1>2, <2>1
  <2>2. CASE n # Len(commands) + 1
    <3>1. n \in 1 .. Len(commands)
      BY <1>1, <1>2, <2>2
    <3>2. commands'[n] = commands[n] /\ commands[n].to \in 1 .. sent
          /\ (commands[n].verb = "PORT" => commands[n].arg \in Ports)
      BY <1>1, <3>1 DEF Asked, Owing
    <3> QED
      BY <1>2, <3>2
  <2> QED
    BY <2>1, <2>2
<1>4. 1 .. sent \subseteq 1 .. sent'
  BY <1>2
<1> QED
  BY <1>1, <1>3, <1>4 DEF Asked, Owing, Live

LEMMA SendTyped ==
  ASSUME TInv, NEW j \in Jobs, Running(j), NEW verb \in {"PASV", "PORT", "REST"}, NEW arg \in Nat,
         NEW pc \in Reading, verb = "PORT" => arg \in Ports,
         Send(j, verb, arg, pc), UNCHANGED <<replies, child>>
  PROVE  Works' /\ Asked' /\ Owing' /\ sent' \in Nat
<1>1. /\ job[j] \in Work /\ file(j) \in Files /\ sent \in Nat /\ job[j].goal \in Goals
      /\ job[j].goal = "appe" => job[j].size \in Nat
      /\ pc # "appe"
  BY DEF TInv, ClientKeeps, Works, Counts, Reading
<1> DEFINE record == [job[j] EXCEPT !.pc = pc, !.serial = sent + 1]
           cmd == [verb |-> verb, file |-> file(j), arg |-> arg, to |-> sent + 1]
<1>2. /\ record \in Work /\ record.file = file(j) /\ record.pc = pc
      /\ record.goal = job[j].goal /\ record.size = job[j].size
  <2>1. pc \in Points /\ sent + 1 \in Nat
    BY <1>1 DEF Points
  <2> QED
    BY <1>1, <2>1 DEF Work, file
<1>3. cmd \in Command /\ cmd.to = sent + 1 /\ cmd.verb = verb /\ cmd.arg = arg
  BY <1>1 DEF Command
<1>4. /\ job' = [job EXCEPT ![j] = record]
      /\ commands' = Append(commands, cmd) /\ sent' = sent + 1
  BY DEF Send
<1> HIDE DEF record, cmd
<1>5. Works'
  BY <1>1, <1>2, <1>4, JobSet DEF TInv, ClientKeeps
<1>6. Asked' /\ Owing'
  BY <1>3, <1>4, CommandTyped DEF TInv, ClientKeeps
<1> QED
  BY <1>1, <1>4, <1>5, <1>6

LEMMA ClosingTyped ==
  ASSUME Wires, NEW c
  PROVE  CloseLink(c) \in [Links -> Connection]
<1> SUFFICES ASSUME c \in Links PROVE CloseLink(c) \in [Links -> Connection]
  BY DEF CloseLink, Wires
<1> DEFINE record == IF link[c].server = "closed" THEN NoLink
                     ELSE [link[c] EXCEPT !.client = "closed", !.down = <<>>]
<1>1. record \in Connection
  BY NothingTyped DEF Wires, Connection, Ends
<1>2. CloseLink(c) = [link EXCEPT ![c] = record]
  BY DEF CloseLink
<1> HIDE DEF record
<1> QED
  BY <1>1, <1>2 DEF Wires

\* A step of the client leaves the session and the server's files alone.
LEMMA ClientStepTyped ==
  ASSUME TInv, UNCHANGED serverVars, ClientKeeps', Asked', Wires', Owing', local' \in [Files -> Disk]
  PROVE  TInv'
BY DEF TInv, ServerKeeps, Session, Forked, Live, Sockets, Disks, Passive!TypeOK, Passive!GivenOnce,
       serverVars, session

\* Nothing is owed anew where nothing is sent.
LEMMA OwingStays ==
  ASSUME Owing, UNCHANGED <<commands, sent, child>>,
         \A m \in 1 .. Len(replies') : replies'[m].to \in 1 .. sent
  PROVE  Owing'
BY DEF Owing, Live

-----------------------------------------------------------------------------
(* The client keeps its types.                                             *)

LEMMA JobTyped ==
  ASSUME TInv, UNCHANGED serverVars, UNCHANGED <<wires, object, local, counters, astray>>, Works'
  PROVE  TInv'
BY ClientStepTyped DEF TInv, ClientKeeps, Objects, Counts, Asked, Wires, Owing, Live, Disks,
   serverVars, wires, object, counters

LEMMA StartTyped ==
  ASSUME TInv, NEW j \in Jobs, NEW c \in Commands, Start(j, c), UNCHANGED serverVars
  PROVE  TInv'
<1>1. job[j] \in Work /\ c.file \in Files
      /\ c.cmd \in Tasks /\ "mode" \in Points
  BY Constants DEF Points, TInv, ClientKeeps, Works
<1>2. Goal(c) \in Goals \ {"appe"}
  BY DEF Goal, Goals, Requests
<1> DEFINE record == [job[j] EXCEPT !.pc = "mode", !.cmd = c.cmd, !.file = c.file, !.goal = Goal(c)]
<1>3. record \in Work /\ record.file = c.file /\ record.goal = Goal(c) /\ record.pc = "mode"
  <2> DEFINE goal == Goal(c)
  <2> HIDE DEF goal
  <2> QED
    BY <1>1, <1>2 DEF Work, goal
<1>4. job' = [job EXCEPT ![j] = record]
  BY DEF Start
<1> HIDE DEF record
<1>5. Works'
  BY <1>1, <1>2, <1>3, <1>4, JobSet DEF TInv, ClientKeeps
<1> QED
  BY <1>5, JobTyped DEF Start

LEMMA DoneTyped ==
  ASSUME TInv, NEW j \in Jobs, Done(j) \/ AcceptNothing(j) \/ RequestRefused(j), UNCHANGED serverVars
  PROVE  TInv'
<1>1. job[j] \in Work /\ Works
  BY DEF TInv, ClientKeeps, Works
<1>2. ASSUME NEW outcome \in {"ok", "error", "exception"}, End(j, outcome)
      PROVE  Works'
  BY <1>1, <1>2, EndTyped
<1>3. ASSUME NEW goal \in {"rest", "stor"}, At(j, "list"),
             job' = [job EXCEPT ![j].pc = "mode", ![j].goal = goal]
      PROVE  Works'
  <2> DEFINE record == [job[j] EXCEPT !.pc = "mode", !.goal = goal]
  <2>1. record \in Work /\ record.goal = goal /\ record.pc = "mode" /\ record.file = job[j].file
    <3>1. goal \in Goals \cup {""} /\ "mode" \in Points
      BY DEF Goals, Requests, Points
    <3> QED
      BY <1>1, <3>1 DEF Work
  <2>2. job' = [job EXCEPT ![j] = record]
    BY <1>3
  <2>3. file(j) \in Files /\ goal \in Goals
    BY <1>1, <1>3 DEF Works, Running, At, Goals, Requests
  <2> HIDE DEF record
  <2> QED
    BY <1>1, <2>1, <2>2, <2>3, JobSet DEF file
<1>4. CASE Done(j) \/ AcceptNothing(j)
  BY <1>2, <1>4, JobTyped DEF Done, AcceptNothing, Raise, TInv, ClientKeeps
<1>5. CASE RequestRefused(j)
  <2>1. Works'
    <3>1. CASE At(j, "list") /\ Is(j, {"reget"})
      BY <1>3, <1>5, <3>1 DEF RequestRefused
    <3>2. CASE At(j, "list") /\ Is(j, {"reput"})
      <4>1. ~Is(j, {"reget"})
        BY <3>2 DEF Is
      <4> QED
        BY <1>3, <1>5, <3>2, <4>1 DEF RequestRefused
    <3>3. CASE ~(At(j, "list") /\ Is(j, {"reget"})) /\ ~(At(j, "list") /\ Is(j, {"reput"}))
      BY <1>2, <1>5, <3>3 DEF RequestRefused
    <3> QED
      BY <3>1, <3>2, <3>3
  <2> QED
    BY <1>5, <2>1, JobTyped DEF RequestRefused
<1> QED
  BY <1>4, <1>5

LEMMA SendPasvTyped ==
  ASSUME TInv, NEW j \in Jobs, SendPasv(j), UNCHANGED serverVars PROVE TInv'
<1>1. Running(j) /\ "pasv" \in Reading
  BY DEF SendPasv, Running, At, Reading
<1>2. Works' /\ Asked' /\ Owing' /\ sent' \in Nat
  BY <1>1, SendTyped DEF SendPasv, serverVars
<1> QED
  BY <1>2, ClientStepTyped DEF SendPasv, TInv, ClientKeeps, Objects, Counts, Wires, Disks, object

LEMMA SendRestTyped ==
  ASSUME TInv, NEW j \in Jobs, SendRest(j), UNCHANGED serverVars PROVE TInv'
<1>1. Running(j) /\ {"rested", "resumed"} \subseteq Reading
  BY DEF SendRest, Running, Reading
<1>2. Len(local[file(j)].data) \in Nat
  <2>1. local[file(j)] \in Disk
    BY <1>1 DEF TInv, ClientKeeps, Works, Disks
  <2> QED
    BY <2>1, LenProperties DEF Disk
<1>3. Works' /\ Asked' /\ Owing' /\ sent' \in Nat
  <2>1. UNCHANGED <<replies, child>>
    BY DEF SendRest, serverVars
  <2>2. CASE At(j, "rest")
    <3>1. Send(j, "REST", 0, "rested")
      BY <2>2 DEF SendRest
    <3> QED
      BY <1>1, <2>1, <3>1, SendTyped
  <2>3. CASE ~At(j, "rest")
    <3>1. Send(j, "REST", Len(local[file(j)].data), "resumed")
      BY <2>3 DEF SendRest
    <3> QED
      BY <1>1, <1>2, <2>1, <3>1, SendTyped
  <2> QED
    BY <2>2, <2>3
<1> QED
  BY <1>3, ClientStepTyped DEF SendRest, TInv, ClientKeeps, Objects, Counts, Wires, Disks

LEMMA SendPortTyped ==
  ASSUME TInv, NEW j \in Jobs, SendPort(j), UNCHANGED serverVars PROVE TInv'
<1>1. /\ Running(j) /\ "port" \in Reading
      /\ ports + 1 \in Ports /\ ports + 1 \in Nat
  BY Constants DEF SendPort, Running, At, Reading
<1>2. Works' /\ Asked' /\ Owing' /\ sent' \in Nat
  BY <1>1, SendTyped DEF SendPort, serverVars
<1>3. Wires'
  <2> DEFINE links == CloseLink(data_sock)
  <2>1. links \in [Links -> Connection]
    BY ClosingTyped DEF TInv
  <2>2. link' = CloseQueued(links, port_sock) /\ UNCHANGED replies
    BY DEF SendPort
  <2> HIDE DEF links
  <2>3. ASSUME NEW c \in Links
        PROVE  (IF links[c].client = "queued" /\ links[c].port = port_sock
                THEN [links[c] EXCEPT !.client = "closed"] ELSE links[c]) \in Connection
    BY <2>1 DEF Connection, Ends
  <2> QED
    BY <2>2, <2>3 DEF CloseQueued, Wires, TInv
<1>4. Objects' /\ Counts'
  BY <1>1, <1>2 DEF SendPort, TInv, ClientKeeps, Objects, Counts
<1> QED
  BY <1>2, <1>3, <1>4, ClientStepTyped DEF SendPort, TInv, ClientKeeps, Disks

LEMMA RequestTyped ==
  ASSUME TInv, NEW j \in Jobs, Request(j), UNCHANGED serverVars PROVE TInv'
<1>1. /\ job[j] \in Work /\ file(j) \in Files /\ sent \in Nat /\ job[j].pc \in Requests
      /\ (job[j].goal = "appe" => job[j].size \in Nat)
      /\ Running(j)
  BY DEF Request, Requests, TInv, ClientKeeps, Works, Counts, Running
<1>2. Verb(job[j].pc) \in FileVerbs
  BY <1>1 DEF Verb, Requests, FileVerbs
<1> DEFINE verb == Verb(job[j].pc)
           cmd == [verb |-> verb, file |-> file(j), arg |-> 0, to |-> sent + 1]
           active == transfer_type = "PORT"
           record == [job[j] EXCEPT !.pc = "answer", !.goal = job[j].pc, !.serial = sent + 1,
                                    !.active = active, !.response = {}]
<1>3. cmd \in Command /\ cmd.to = sent + 1 /\ cmd.verb # "PORT"
  <2> HIDE DEF verb
  <2>1. verb # "PORT" /\ verb \in {"PASV", "PORT", "REST"} \cup FileVerbs
    BY <1>2 DEF verb, FileVerbs
  <2> QED
    BY <1>1, <2>1 DEF Command
<1>4. /\ record \in Work /\ record.pc = "answer" /\ record.goal = job[j].pc
      /\ record.file = file(j) /\ record.size = job[j].size
  <2>1. job[j].pc \in Goals /\ "answer" \in Points /\ active \in BOOLEAN /\ sent + 1 \in Nat
    BY <1>1 DEF Goals, Points, Reading
  <2> HIDE DEF active
  <2> QED
    BY <1>1, <2>1 DEF Work, file
<1>5. job' = [job EXCEPT ![j] = record] /\ commands' = Append(commands, cmd) /\ sent' = sent + 1
  BY DEF Request
<1>6. UNCHANGED <<replies, child>>
  BY DEF Request, serverVars
<1> HIDE DEF cmd, record, verb, active
<1>7. Asked' /\ Owing'
  BY <1>3, <1>5, <1>6, CommandTyped DEF TInv, ClientKeeps
<1>8. Works'
  <2>1. job[j].pc \in Goals /\ (job[j].pc = "appe" => job[j].size \in Nat)
    BY <1>1 DEF Goals, TInv, ClientKeeps, Works
  <2> QED
    BY <1>1, <1>4, <1>5, <2>1, JobSet DEF TInv, ClientKeeps
<1> QED
  BY <1>1, <1>5, <1>7, <1>8, ClientStepTyped
  DEF Request, TInv, ClientKeeps, Objects, Counts, Wires, Disks, object

\* A step that reads a reply.
LEMMA ReadStepTyped ==
  ASSUME TInv, NEW j \in Jobs, NEW r, NEW quiet, read_response(j, r, quiet),
         UNCHANGED serverVars, UNCHANGED <<commands, sent, ports>>,
         Works', Objects', link' \in [Links -> Connection], local' \in [Files -> Disk]
  PROVE  TInv'
<1>1. /\ replies' \in Seq(Answer) /\ \A m \in 1 .. Len(replies') : replies'[m].to \in 1 .. sent
      /\ timeouts' \in Nat /\ astray' \in BOOLEAN
  BY ReadTyped DEF TInv, ClientKeeps
<1>2. Owing'
  BY <1>1, OwingStays DEF TInv, serverVars
<1> QED
  BY <1>1, <1>2, ClientStepTyped DEF TInv, ClientKeeps, Counts, Asked, Wires

LEMMA ModeSetTyped ==
  ASSUME TInv, NEW j \in Jobs, job[j].pc \in {"pasv", "port"}, ModeSet(j)
  PROVE  Works' /\ write_type' \in {"wb", "ab"}
<1>1. Running(j) /\ job[j] \in Work /\ job[j].goal \in Goals
  BY DEF Running, TInv, ClientKeeps, Works
<1>2. job[j].goal \in Points /\ job[j].keep \in {"wb", "ab"}
  BY <1>1 DEF Points, Work
<1>3. Works'
  BY <1>1, <1>2, GoToTyped DEF ModeSet, TInv, ClientKeeps
<1> QED
  BY <1>2, <1>3 DEF ModeSet, TInv, ClientKeeps, Objects

LEMMA ListeningTyped == Sockets => Listening \subseteq 1 .. MaxListeners
BY Constants DEF Sockets, Listening, Passive!TypeOK

LEMMA ReadPasvTyped ==
  ASSUME TInv, NEW j \in Jobs, ReadPasv(j, Quiet, Listening), UNCHANGED serverVars PROVE TInv'
<1>1. PICK r \in Arrived :
        /\ read_response(j, r, Quiet)
        /\ IF r.code = "227" THEN Connect(r.arg, Listening)
           ELSE /\ link' = CloseLink(data_sock)
                /\ data_sock' = IF data_sock = None THEN None ELSE Dead
                /\ UNCHANGED transfer_type
  BY DEF ReadPasv
<1>2. Works' /\ write_type' \in {"wb", "ab"}
  BY ModeSetTyped DEF ReadPasv, At
<1>3. CloseLink(data_sock) \in [Links -> Connection]
  BY ClosingTyped DEF TInv
<1>4. /\ link' \in [Links -> Connection]
      /\ data_sock' \in Links \cup {None, Dead} /\ transfer_type' \in {"None", "PASV", "PORT"}
  <2>1. CASE r.code = "227" /\ r.arg \in Listening
    <3>1. r.arg \in Links
      BY <2>1, ListeningTyped, Constants DEF TInv, ServerKeeps
    <3>2. link' = [CloseLink(data_sock) EXCEPT ![r.arg] = [NoLink EXCEPT !.client = "open",
                                                                        !.server = "queued"]]
          /\ data_sock' = r.arg /\ transfer_type' = "PASV"
      BY <1>1, <2>1 DEF Connect
    <3>3. [NoLink EXCEPT !.client = "open", !.server = "queued"] \in Connection
      BY NothingTyped DEF NoLink, Connection, Ends
    <3> QED
      BY <1>3, <3>1, <3>2, <3>3
  <2>2. CASE ~(r.code = "227" /\ r.arg \in Listening)
    BY <1>1, <1>3, <2>2 DEF Connect, TInv, ClientKeeps, Objects
  <2> QED
    BY <2>1, <2>2
<1> QED
  BY <1>1, <1>2, <1>4, ReadStepTyped DEF ReadPasv, TInv, ClientKeeps, Objects, Disks

LEMMA ReadPortTyped ==
  ASSUME TInv, NEW j \in Jobs, ReadPort(j, Quiet), UNCHANGED serverVars PROVE TInv'
<1>1. PICK r \in Arrived : read_response(j, r, Quiet)
  BY DEF ReadPort
<1>2. Works' /\ write_type' \in {"wb", "ab"}
  BY ModeSetTyped DEF ReadPort, At
<1> QED
  BY <1>1, <1>2, ReadStepTyped DEF ReadPort, TInv, ClientKeeps, Objects, Wires, Disks

LEMMA ReadRestTyped ==
  ASSUME TInv, NEW j \in Jobs, ReadRest(j, Quiet), UNCHANGED serverVars PROVE TInv'
<1>1. PICK r \in Arrived : read_response(j, r, Quiet)
  BY DEF ReadRest
<1>2. /\ job[j] \in Work /\ file(j) \in Files
      /\ write_type' \in {"wb", "ab"}
  BY DEF ReadRest, TInv, ClientKeeps, Works, Objects, Running
<1> DEFINE pc == IF At(j, "rested") THEN "retr" ELSE "mode"
           record == [job[j] EXCEPT !.pc = pc, !.goal = "retr", !.keep = write_type']
<1>3. /\ record \in Work /\ record.goal = "retr" /\ record.file = file(j)
      /\ record.goal \in Goals /\ record.pc # "appe"
  <2>1. pc \in Points /\ pc # "appe" /\ "retr" \in Goals
    BY DEF Points, Goals, Requests
  <2> HIDE DEF pc
  <2> QED
    BY <1>2, <2>1 DEF Work, file
<1>4. job' = [job EXCEPT ![j] = record]
  BY DEF ReadRest
<1> HIDE DEF record
<1>5. Works'
  BY <1>2, <1>3, <1>4, JobSet DEF TInv, ClientKeeps
<1> QED
  BY <1>1, <1>2, <1>5, ReadStepTyped DEF ReadRest, TInv, ClientKeeps, Objects, Wires, Disks

LEMMA ReadAnswerTyped ==
  ASSUME TInv, NEW j \in Jobs, ReadAnswer(j, Quiet), UNCHANGED serverVars PROVE TInv'
<1>1. PICK r \in Arrived :
        /\ read_response(j, r, Quiet)
        /\ job' = [job EXCEPT ![j].pc = IF job[j].active THEN "accept" ELSE "judge",
                              ![j].response = {r.code}, ![j].port = port_sock]
  BY DEF ReadAnswer
<1>2. job[j] \in Work /\ file(j) \in Files /\ job[j].goal \in Goals
      /\ (job[j].goal = "appe" => job[j].size \in Nat)
  BY DEF ReadAnswer, At, TInv, ClientKeeps, Works, Running
<1>3. r.code \in Codes \cup {"None"} /\ port_sock \in Nat
  <2>1. r \in Answer \cup {NoReply}
    BY <1>1, ReadTyped DEF TInv, ClientKeeps
  <2> QED
    BY <2>1, Constants DEF Answer, NoReply, TInv, ClientKeeps, Objects, None
<1> DEFINE pc == IF job[j].active THEN "accept" ELSE "judge"
           record == [job[j] EXCEPT !.pc = pc, !.response = {r.code}, !.port = port_sock]
<1>4. /\ record \in Work /\ record.goal = job[j].goal /\ record.file = file(j)
      /\ record.size = job[j].size /\ record.pc # "appe"
  <2>1. pc \in Points /\ pc # "appe"
    BY DEF Points
  <2>2. {r.code} \in SUBSET (Codes \cup {"None"})
    BY <1>3
  <2> HIDE DEF pc
  <2> QED
    BY <1>2, <1>3, <2>1, <2>2 DEF Work, file
<1>5. job' = [job EXCEPT ![j] = record]
  BY <1>1
<1> HIDE DEF record
<1>6. Works'
  BY <1>2, <1>4, <1>5, JobSet DEF TInv, ClientKeeps
<1> QED
  BY <1>1, <1>6, ReadStepTyped DEF ReadAnswer, TInv, ClientKeeps, Objects, Wires, Disks, object

\* A step of a transfer that neither sends nor reads a command's reply.
LEMMA DataStepTyped ==
  ASSUME TInv, UNCHANGED serverVars, UNCHANGED <<commands, replies, sent, ports>>,
         timeouts' = timeouts, astray' \in BOOLEAN,
         Works', Objects', link' \in [Links -> Connection], local' \in [Files -> Disk]
  PROVE  TInv'
BY ClientStepTyped DEF TInv, ClientKeeps, Counts, Asked, Wires, Owing, Live, serverVars

LEMMA AcceptDataTyped ==
  ASSUME TInv, NEW j \in Jobs, AcceptData(j), UNCHANGED serverVars PROVE TInv'
<1>1. PICK c \in Links : link' = [link EXCEPT ![c].client = "open"] /\ data_sock' = c
  BY DEF AcceptData
<1>2. link' \in [Links -> Connection]
  <2>1. [link[c] EXCEPT !.client = "open"] \in Connection
    BY DEF TInv, Wires, Connection, Ends
  <2> QED
    BY <1>1, <2>1 DEF TInv, Wires
<1>3. Works'
  <2>1. Running(j) /\ "judge" \in Points
    BY DEF AcceptData, At, Running, Points
  <2> QED
    BY <2>1, EndTyped, GoToTyped DEF AcceptData, Raise, TInv, ClientKeeps
<1>4. Objects'
  BY <1>1 DEF AcceptData, TInv, ClientKeeps, Objects
<1> QED
  BY <1>2, <1>3, <1>4, DataStepTyped DEF AcceptData, TInv, ClientKeeps, Counts, Disks, counters

LEMMA JudgeTyped ==
  ASSUME TInv, NEW j \in Jobs, Judge(j), UNCHANGED serverVars PROVE TInv'
<1>1. Works'
  BY EndTyped DEF Judge, Raise, TInv, ClientKeeps
<1>2. link' \in [Links -> Connection] /\ Objects'
  <2>1. CASE UNCHANGED <<link, object>>
    BY <2>1 DEF TInv, ClientKeeps, Wires, Objects, object
  <2>2. CASE CloseData /\ transfer_type' = "None" /\ write_type' = "wb" /\ UNCHANGED port_sock
    BY <2>2, ClosingTyped DEF CloseData, TInv, ClientKeeps, Objects
  <2> QED
    BY <2>1, <2>2 DEF Judge
<1> QED
  BY <1>1, <1>2, DataStepTyped DEF Judge, TInv, ClientKeeps, Counts, Disks, counters

LEMMA OpenLocalTyped ==
  ASSUME TInv, NEW j \in Jobs, OpenLocal(j), UNCHANGED serverVars PROVE TInv'
<1>1. Running(j) /\ "recv" \in Points /\ file(j) \in Files
  BY DEF OpenLocal, At, Running, Points, TInv, ClientKeeps, Works
<1>2. Works'
  BY <1>1, GoToTyped DEF OpenLocal, TInv, ClientKeeps
<1>3. local' \in [Files -> Disk]
  <2> DEFINE data == IF write_type = "wb" THEN <<>> ELSE local[file(j)].data
  <2>1. data \in Seq(Units)
    BY <1>1, NothingTyped DEF TInv, Disks, Disk
  <2>2. local' = [local EXCEPT ![file(j)] = File(data)]
    BY DEF OpenLocal
  <2> HIDE DEF data
  <2> QED
    BY <2>1, <2>2, NothingTyped DEF TInv, Disks
<1> QED
  BY <1>2, <1>3, DataStepTyped
  DEF OpenLocal, TInv, ClientKeeps, Counts, Wires, Objects, wires, object, counters

LEMMA ProceedTyped ==
  ASSUME TInv, NEW j \in Jobs, Proceed(j), UNCHANGED serverVars PROVE TInv'
<1>1. /\ job[j] \in Work /\ file(j) \in Files /\ job[j].goal \in Goals
      /\ job[j].goal = "appe" => job[j].size \in Nat
  BY DEF Proceed, At, Running, TInv, ClientKeeps, Works
<1> DEFINE pc == IF job[j].goal = "list" THEN "recv" ELSE "send"
           size == IF job[j].goal = "list" THEN -1 ELSE job[j].size
           record == [job[j] EXCEPT !.pc = pc, !.size = size]
<1>2. /\ record \in Work /\ record.goal = job[j].goal /\ record.file = file(j)
      /\ record.pc # "appe" /\ record.size = size
  <2>1. pc \in Points /\ pc # "appe"
    BY DEF Points
  <2>2. size \in Nat \cup {-1}
    BY <1>1 DEF Work
  <2> HIDE DEF pc, size
  <2> QED
    BY <1>1, <2>1, <2>2 DEF Work, file
<1>3. job[j].goal = "appe" => size = job[j].size
  OBVIOUS
<1>4. job' = [job EXCEPT ![j] = record]
  BY DEF Proceed
<1> HIDE DEF record, size
<1>5. Works'
  BY <1>1, <1>2, <1>3, <1>4, JobSet DEF TInv, ClientKeeps
<1> QED
  BY <1>5, JobTyped DEF Proceed

LEMMA RecvDataTyped ==
  ASSUME TInv, NEW j \in Jobs, RecvData(j), UNCHANGED serverVars PROVE TInv'
<1>1. /\ data_sock \in Links /\ link[data_sock] \in Connection /\ link[data_sock].down # <<>>
      /\ job[j] \in Work /\ file(j) \in Files /\ job[j].goal \in Goals
      /\ job[j].goal = "appe" => job[j].size \in Nat
  BY DEF RecvData, Connected, At, Running, TInv, ClientKeeps, Works, Wires
<1> DEFINE unit == Head(link[data_sock].down)
           rest == Tail(link[data_sock].down)
<1>2. unit \in Units /\ rest \in Seq(Units)
  BY <1>1, HeadTailProperties DEF Connection
<1>3. /\ IF job[j].goal = "retr"
         THEN local' = [local EXCEPT ![file(j)].data = Append(@, unit)] /\ UNCHANGED job
         ELSE /\ job' = [job EXCEPT ![j].size =
                   IF unit.is = "line" /\ unit.of = file(j) THEN unit.n ELSE @]
              /\ UNCHANGED local
      /\ link' = [link EXCEPT ![data_sock].down = rest]
  BY DEF RecvData
<1> HIDE DEF unit, rest
<1>4. link' \in [Links -> Connection]
  <2>1. [link[data_sock] EXCEPT !.down = rest] \in Connection
    BY <1>1, <1>2 DEF Connection
  <2> QED
    BY <1>1, <1>3, <2>1 DEF TInv, Wires
<1>5. Works' /\ local' \in [Files -> Disk]
  <2>1. CASE job[j].goal = "retr"
    <3>1. Append(local[file(j)].data, unit) \in Seq(Units)
      <4>1. local[file(j)].data \in Seq(Units)
        BY <1>1 DEF TInv, Disks, Disk
      <4> QED
        BY <1>2, <4>1, AppendProperties
    <3>2. [local[file(j)] EXCEPT !.data = Append(local[file(j)].data, unit)] \in Disk
      BY <1>1, <3>1 DEF TInv, Disks, Disk
    <3>3. local' \in [Files -> Disk]
      BY <1>1, <1>3, <2>1, <3>2 DEF TInv, Disks
    <3> QED
      BY <1>3, <2>1, <3>3 DEF TInv, ClientKeeps, Works, Running, file
  <2>2. CASE job[j].goal # "retr"
    <3> DEFINE size == IF unit.is = "line" /\ unit.of = file(j) THEN unit.n ELSE job[j].size
               record == [job[j] EXCEPT !.size = size]
    <3>1. size \in Nat \cup {-1} /\ (job[j].size \in Nat => size \in Nat)
      BY <1>1, <1>2 DEF Units, Work
    <3>2. job' = [job EXCEPT ![j] = record]
      BY <1>3, <2>2
    <3>3. /\ record \in Work /\ record.goal = job[j].goal /\ record.file = file(j)
          /\ record.pc = job[j].pc /\ record.size = size
      <4> HIDE DEF size
      <4> QED
        BY <1>1, <3>1 DEF Work, file
    <3>4. job[j].pc # "appe"
      BY DEF RecvData, At
    <3> HIDE DEF record, size
    <3>5. Works'
      BY <1>1, <3>1, <3>2, <3>3, <3>4, JobSet DEF TInv, ClientKeeps
    <3> QED
      BY <1>3, <2>2, <3>5 DEF TInv, Disks
  <2> QED
    BY <2>1, <2>2
<1> QED
  BY <1>4, <1>5, DataStepTyped DEF RecvData, TInv, ClientKeeps, Objects, Counts, object, counters

LEMMA RecvEndTyped ==
  ASSUME TInv, NEW j \in Jobs, RecvEnd(j), UNCHANGED serverVars PROVE TInv'
<1>1. Running(j) /\ "last" \in Points
  BY DEF RecvEnd, At, Running, Points, Reading
<1>2. Works'
  BY <1>1, GoToTyped DEF RecvEnd, TInv, ClientKeeps
<1> QED
  BY <1>2, ClosingTyped, DataStepTyped
  DEF RecvEnd, CloseData, TInv, ClientKeeps, Objects, Counts, Disks, counters

LEMMA SendDataTyped ==
  ASSUME TInv, NEW j \in Jobs, SendData(j), UNCHANGED serverVars PROVE TInv'
<1>1. /\ data_sock \in Links /\ link[data_sock] \in Connection
      /\ Running(j) /\ file(j) \in Files /\ "last" \in Points
      /\ job[j].goal = "appe" => job[j].size \in Nat
  BY DEF SendData, Connected, At, Running, Points, Reading, TInv, ClientKeeps, Works, Wires
<1> DEFINE from == IF job[j].goal = "appe" THEN job[j].size ELSE 0
           data == local[file(j)].data
           sending == SubSeq(data, from + 1, Len(data))
<1>2. sending \in Seq(Units)
  <2>1. data \in Seq(Units) /\ from \in Nat
    BY <1>1 DEF TInv, Disks, Disk
  <2>2. Len(data) \in Nat
    BY <2>1, LenProperties
  <2> HIDE DEF data, from
  <2>3. from + 1 \in Int /\ \A i \in from + 1 .. Len(data) : data[i] \in Units
    BY <2>1, <2>2, ElementOfSeq
  <2> QED
    BY <2>2, <2>3, SubSeqProperties
<1>3. link' = [link EXCEPT ![data_sock].client = "closed", ![data_sock].up = @ \o sending]
  BY DEF SendData
<1> HIDE DEF sending
<1>4. link' \in [Links -> Connection]
  <2>1. link[data_sock].up \o sending \in Seq(Units)
    BY <1>1, <1>2, ConcatProperties DEF Connection
  <2>2. [link[data_sock] EXCEPT !.client = "closed", !.up = link[data_sock].up \o sending] \in Connection
    BY <1>1, <2>1 DEF Connection, Ends
  <2> QED
    BY <1>1, <1>3, <2>2 DEF TInv, Wires
<1>5. Works'
  BY <1>1, GoToTyped DEF SendData, TInv, ClientKeeps
<1> QED
  BY <1>4, <1>5, DataStepTyped DEF SendData, TInv, ClientKeeps, Objects, Counts, Disks, counters

\* What reget and reput go on with after their listing.
LEMMA FallsBack ==
  ASSUME TInv, NEW j \in Jobs, Running(j), NEW pc \in {"mode", "resume"},
         NEW goal \in {"rest", "stor", "appe"}, goal = "appe" => job[j].size \in Nat,
         job' = [job EXCEPT ![j].pc = pc, ![j].goal = goal]
  PROVE  Works'
<1> DEFINE record == [job[j] EXCEPT !.pc = pc, !.goal = goal]
<1>1. job[j] \in Work /\ file(j) \in Files
  BY DEF TInv, ClientKeeps, Works
<1>2. pc \in Points /\ goal \in Goals /\ pc # "appe"
  BY DEF Points, Goals, Requests
<1>3. /\ record \in Work /\ record.pc = pc /\ record.goal = goal
      /\ record.file = file(j) /\ record.size = job[j].size
  <2> DEFINE went == [job[j] EXCEPT !.pc = pc]
  <2>1. went \in Work
    BY <1>1, <1>2 DEF Work
  <2>2. record = [went EXCEPT !.goal = goal]
    BY <1>1 DEF Work
  <2>3. [went EXCEPT !.goal = goal] \in Work
    <3> HIDE DEF went
    <3> QED
      BY <1>2, <2>1 DEF Work
  <2>4. record \in Work
    BY <2>2, <2>3
  <2> QED
    BY <1>1, <2>4 DEF Work, file
<1>4. job' = [job EXCEPT ![j] = record]
  OBVIOUS
<1>5. Works
  BY DEF TInv, ClientKeeps
<1> HIDE DEF record
<1>6. /\ record.file \in Files /\ record.goal \in Goals
      /\ "appe" \in {record.goal, record.pc} => record.size \in Nat
  BY <1>1, <1>2, <1>3
<1> QED
  BY <1>3, <1>4, <1>5, <1>6, JobSet

LEMMA FallbackTyped ==
  ASSUME TInv, NEW j \in Jobs, Running(j), job' = [job EXCEPT ![j].pc = "mode", ![j].goal = Fallback(j)]
  PROVE  Works'
<1>1. Fallback(j) \in {"rest", "stor"}
  BY DEF Fallback
<1> QED
  BY <1>1, FallsBack

LEMMA AbandonTyped ==
  ASSUME TInv, NEW j \in Jobs, Abandon(j), UNCHANGED serverVars PROVE TInv'
<1>1. Running(j)
  BY DEF Abandon, At, Running
<1>2. Works' /\ transfer_type' \in {"None", "PASV", "PORT"}
  <2>1. CASE job[j].goal = "list"
    BY <1>1, <2>1, FallbackTyped, EndTyped
    DEF Abandon, Dropped, ListFailed, TInv, ClientKeeps, Objects
  <2>2. CASE job[j].goal # "list"
    BY <2>2, EndTyped DEF Abandon, Dropped, TInv, ClientKeeps
  <2> QED
    BY <2>1, <2>2
<1> QED
  BY <1>2, ClosingTyped, DataStepTyped
  DEF Abandon, CloseData, TInv, ClientKeeps, Objects, Counts, Disks, counters

LEMMA ReadLastTyped ==
  ASSUME TInv, NEW j \in Jobs, ReadLast(j, Quiet), UNCHANGED serverVars PROVE TInv'
<1>1. PICK r \in Arrived :
        /\ read_response(j, r, Quiet)
        /\ \/ r.code = "None" /\ Raise(j) /\ UNCHANGED <<local, write_type>>
           \/ /\ r.code # "None" /\ "226" \notin job[j].response \cup {r.code}
              /\ local' = [local EXCEPT ![file(j)] = NoFile]
              /\ End(j, "error") /\ UNCHANGED write_type
           \/ /\ "226" \in job[j].response \cup {r.code} /\ r.code # "None"
              /\ End(j, "ok") /\ write_type' = "wb" /\ UNCHANGED local
  BY DEF ReadLast
<1>2. Works'
  BY <1>1, EndTyped DEF Raise, TInv, ClientKeeps
<1>3. local' \in [Files -> Disk] /\ write_type' \in {"wb", "ab"}
  BY <1>1, NothingTyped DEF TInv, Disks, ClientKeeps, Objects
<1> QED
  BY <1>1, <1>2, <1>3, ReadStepTyped DEF ReadLast, TInv, ClientKeeps, Objects, Wires

LEMMA ReadLastStoredTyped ==
  ASSUME TInv, NEW j \in Jobs, ReadLastStored(j, Quiet), UNCHANGED serverVars PROVE TInv'
<1>1. PICK r \in Arrived :
        /\ read_response(j, r, Quiet)
        /\ IF "None" \in job[j].response \cup {r.code} THEN Raise(j)
           ELSE End(j, IF "226" \in job[j].response \cup {r.code} THEN "226" ELSE "ok")
  BY DEF ReadLastStored
<1>2. Works'
  BY <1>1, EndTyped DEF Raise, TInv, ClientKeeps
<1> QED
  BY <1>1, <1>2, ReadStepTyped DEF ReadLastStored, TInv, ClientKeeps, Objects, Wires, Disks, object

LEMMA ReadListedTyped ==
  ASSUME TInv, NEW j \in Jobs, ReadListed(j, Quiet), UNCHANGED serverVars PROVE TInv'
<1>1. PICK r \in Arrived :
        /\ read_response(j, r, Quiet)
        /\ \/ /\ r.code = "None" \/ (r.code = "226" /\ job[j].size = -1 /\ ~Is(j, {"ls"}))
              /\ Raise(j)
              /\ transfer_type' = IF r.code = "None" THEN transfer_type ELSE "None"
           \/ /\ r.code # "None" /\ Is(j, {"ls"})
              /\ End(j, "ok") /\ transfer_type' = "None"
           \/ /\ r.code # "None" /\ ~Is(j, {"ls"})
              /\ r.code = "226" => job[j].size # -1
              /\ \/ job' = [job EXCEPT ![j].pc = "mode", ![j].goal = Fallback(j)]
                 \/ /\ r.code = "226" /\ Resumes(j)
                    /\ job' = [job EXCEPT ![j].pc = IF Is(j, {"reget"}) THEN "resume" ELSE "mode",
                                          ![j].goal = "appe"]
              /\ transfer_type' = "None"
  BY DEF ReadListed
<1>2. Running(j) /\ job[j].size \in Nat \cup {-1}
  BY DEF ReadListed, At, Running, TInv, ClientKeeps, Works, Work
<1>3. Works'
  <2>1. CASE Raise(j) \/ End(j, "ok")
    BY <2>1, EndTyped DEF Raise, TInv, ClientKeeps
  <2>2. CASE job' = [job EXCEPT ![j].pc = "mode", ![j].goal = Fallback(j)]
    BY <1>2, <2>2, FallbackTyped
  <2>3. CASE /\ job[j].size # -1
             /\ job' = [job EXCEPT ![j].pc = IF Is(j, {"reget"}) THEN "resume" ELSE "mode",
                                   ![j].goal = "appe"]
    <3> DEFINE pc == IF Is(j, {"reget"}) THEN "resume" ELSE "mode"
    <3>1. pc \in {"mode", "resume"} /\ job' = [job EXCEPT ![j].pc = pc, ![j].goal = "appe"]
      BY <2>3
    <3> HIDE DEF pc
    <3> QED
      BY <1>2, <2>3, <3>1, FallsBack
  <2> QED
    BY <1>1, <2>1, <2>2, <2>3
<1>4. transfer_type' \in {"None", "PASV", "PORT"}
  BY <1>1 DEF TInv, ClientKeeps, Objects
<1> QED
  BY <1>1, <1>3, <1>4, ReadStepTyped DEF ReadListed, TInv, ClientKeeps, Objects, Wires, Disks

LEMMA ClientTyped == ASSUME TInv, NEW j \in Jobs, ClientRuns(j) PROVE TInv'
BY StartTyped, DoneTyped, SendPasvTyped, SendRestTyped, SendPortTyped, RequestTyped, ReadPasvTyped,
   ReadPortTyped, ReadRestTyped, ReadAnswerTyped, AcceptDataTyped, JudgeTyped, OpenLocalTyped,
   ProceedTyped, RecvDataTyped, RecvEndTyped, SendDataTyped, AbandonTyped, ReadLastTyped,
   ReadLastStoredTyped, ReadListedTyped
DEF ClientRuns, ClientStep

-----------------------------------------------------------------------------
(* The session and its transfers keep theirs.                              *)

\* Of its passive sockets a step of the session makes what Endpoint allows, and
\* Endpoint keeps its promise.
LEMMA SocketsKept ==
  ASSUME Sockets, Passive!Next \/ UNCHANGED <<made, armed, served>>
  PROVE  Sockets'
BY Constants, Given!StepKeepsPromise
DEF Sockets, Passive!TypeOK, Passive!GivenOnce, Passive!Next, Passive!Arm, Passive!Drop, Passive!Hand,
    Given!TypeOK, Given!GivenOnce, Given!Next, Given!Arm, Given!Drop, Given!Hand, Given!vars

LEMMA ServerStepTyped ==
  ASSUME TInv, UNCHANGED <<object, local, job, counters>>, astray' \in BOOLEAN,
         Session', Forked', Sockets', Asked', Wires', remote' \in [Files -> Disk], Owing'
  PROVE  TInv'
BY DEF TInv, ClientKeeps, Works, Running, file, Objects, Counts, ServerKeeps, Disks, object, counters

LEMMA ReceiveTyped ==
  ASSUME Asked, Owing, NEW cmd, Receive(cmd)
  PROVE  /\ Asked' /\ \A m \in 1 .. Len(commands') : commands'[m].to \in 1 .. sent
         /\ cmd \in Command /\ cmd.to \in 1 .. sent
         /\ cmd.verb = "PORT" => cmd.arg \in Ports
<1>1. PICK n \in 1 .. Len(commands) : commands' = SubSeq(commands, n + 1, Len(commands))
  BY DEF Receive
<1>2. /\ commands' \in Seq(Command) /\ Len(commands') = Len(commands) - n
      /\ \A m \in 1 .. Len(commands) - n : commands'[m] = commands[n + m]
      /\ cmd = commands[1] /\ cmd \in Command
  BY <1>1, Sequence DEF Asked, Receive
<1>3. Len(commands) \in Nat
  BY LenProperties DEF Asked
<1>4. ASSUME NEW m \in 1 .. Len(commands')
      PROVE  /\ commands'[m].to \in 1 .. sent
             /\ commands'[m].verb = "PORT" => commands'[m].arg \in Ports
  <2>1. n + m \in 1 .. Len(commands) /\ commands'[m] = commands[n + m]
    BY <1>2, <1>3
  <2> QED
    BY <2>1 DEF Asked, Owing
<1>5. 1 \in 1 .. Len(commands)
  BY <1>3
<1> QED
  BY <1>2, <1>4, <1>5 DEF Asked, Owing

LEMMA ReplyTyped ==
  ASSUME Wires, Owing, NEW cmd, cmd.to \in 1 .. sent, sent \in Nat,
         NEW code \in Codes, NEW arg \in Nat, Reply(cmd, code, arg)
  PROVE  replies' \in Seq(Answer) /\ \A m \in 1 .. Len(replies') : replies'[m].to \in 1 .. sent
<1> DEFINE answer == [code |-> code, arg |-> arg, to |-> cmd.to]
<1>1. answer \in Answer /\ answer.to \in 1 .. sent
  BY DEF Answer
<1>2. replies' = Append(replies, answer)
  BY DEF Reply
<1> HIDE DEF answer
<1>3. /\ replies' \in Seq(Answer) /\ Len(replies') = Len(replies) + 1
      /\ \A n \in 1 .. Len(replies) : replies'[n] = replies[n]
      /\ replies'[Len(replies) + 1] = answer
  BY <1>1, <1>2, AppendProperties DEF Wires
<1>4. Len(replies) \in Nat
  BY LenProperties DEF Wires
<1> QED
  BY <1>1, <1>3, <1>4 DEF Owing

LEMMA ChildSet ==
  ASSUME Forked, Owing, NEW t \in Transfers, NEW record \in Child, child' = [child EXCEPT ![t] = record],
         record.pc \notin {"unborn", "exited"} =>
           record.file \in Files /\ record.verb \in FileVerbs /\ record.to \in 1 .. sent,
         record.pc \in {"begin", "streaming"} => record.conn \in Links
  PROVE  Forked' /\ \A u \in Transfers : Live(u)' => child'[u].to \in 1 .. sent
BY DEF Forked, Live, Owing

\* What is owed, part by part.
LEMMA OwingParts ==
  ASSUME UNCHANGED sent,
         \A m \in 1 .. Len(commands') : commands'[m].to \in 1 .. sent,
         \A m \in 1 .. Len(replies') : replies'[m].to \in 1 .. sent,
         \A u \in Transfers : Live(u)' => child'[u].to \in 1 .. sent
  PROVE  Owing'
BY DEF Owing

LEMMA CloseArmedTyped ==
  ASSUME TInv PROVE CloseArmed \in [Links -> Connection]
<1> SUFFICES ASSUME armed # 0 PROVE CloseArmed \in [Links -> Connection]
  BY DEF CloseArmed, TInv, Wires
<1>1. armed \in Links
  BY Constants DEF TInv, ServerKeeps, Sockets, Passive!TypeOK
<1>2. [link[armed] EXCEPT !.server = "closed"] \in Connection
  BY <1>1 DEF TInv, Wires, Connection, Ends
<1> QED
  BY <1>1, <1>2 DEF CloseArmed, TInv, Wires

\* A reply of the session itself.
LEMMA SessionReplies ==
  ASSUME TInv, NEW cmd, Receive(cmd), NEW code \in Codes, NEW arg \in Nat, Reply(cmd, code, arg),
         UNCHANGED <<object, local, job, counters>>, astray' \in BOOLEAN, UNCHANGED <<child, remote>>,
         Session', Sockets', link' \in [Links -> Connection]
  PROVE  TInv'
<1>1. /\ Asked' /\ \A m \in 1 .. Len(commands') : commands'[m].to \in 1 .. sent
      /\ cmd.to \in 1 .. sent
  BY ReceiveTyped DEF TInv
<1>2. sent \in Nat
  BY DEF TInv, ClientKeeps, Counts
<1>3. replies' \in Seq(Answer) /\ \A m \in 1 .. Len(replies') : replies'[m].to \in 1 .. sent
  BY <1>1, <1>2, ReplyTyped DEF TInv
<1>4. Forked' /\ \A u \in Transfers : Live(u)' => child'[u].to \in 1 .. sent
  BY DEF TInv, ServerKeeps, Forked, Live, Owing
<1>5. UNCHANGED sent
  BY DEF counters
<1>6. Owing'
  BY <1>1, <1>3, <1>4, <1>5, OwingParts
<1> QED
  BY <1>1, <1>3, <1>4, <1>6, ServerStepTyped DEF TInv, Wires, Disks

LEMMA RefusingTyped ==
  ASSUME TInv, NEW cmd, Receive(cmd), NotLoggedIn(cmd) \/ FileTransferForkFails(cmd),
         UNCHANGED <<object, local, job, counters>>, astray' \in BOOLEAN
  PROVE  TInv'
<1>1. {"530", "451"} \subseteq Codes /\ 0 \in Nat
  BY DEF Codes
<1>2. UNCHANGED serverVars /\ UNCHANGED link
  BY DEF NotLoggedIn, FileTransferForkFails
<1>3. Session' /\ Sockets' /\ link' \in [Links -> Connection] /\ UNCHANGED <<child, remote>>
  BY <1>2, SocketsKept DEF TInv, ServerKeeps, Session, Wires, serverVars, session
<1>4. Reply(cmd, "530", 0) \/ Reply(cmd, "451", 0)
  BY DEF NotLoggedIn, FileTransferForkFails
<1> QED
  BY <1>1, <1>3, <1>4, SessionReplies

LEMMA PasvTyped ==
  ASSUME TInv, NEW cmd, Receive(cmd), Pasv(cmd),
         UNCHANGED <<object, local, job, counters>>, astray' \in BOOLEAN
  PROVE  TInv'
<1>1. CASE /\ Passive!Arm /\ mode' = "MODE_PASV" /\ link' = CloseArmed
           /\ Reply(cmd, "227", made') \/ Reply(cmd, "227", 0)
  <2>1. Sockets'
    BY <1>1, SocketsKept DEF Passive!Next, TInv, ServerKeeps
  <2>2. made' \in Nat /\ 0 \in Nat /\ "227" \in Codes
    BY <2>1, Constants DEF Sockets, Passive!TypeOK, Codes
  <2>3. Session'
    BY <1>1 DEF Pasv, TInv, ServerKeeps, Session, Modes
  <2>4. UNCHANGED <<child, remote>> /\ link' \in [Links -> Connection]
    BY <1>1, CloseArmedTyped DEF Pasv
  <2> QED
    BY <1>1, <2>1, <2>2, <2>3, <2>4, SessionReplies
<1>2. CASE UNCHANGED <<made, armed, served, mode, link, replies>>
  <2>1. Sockets' /\ Session' /\ Forked' /\ Wires' /\ remote' \in [Files -> Disk]
    BY <1>2, SocketsKept DEF Pasv, TInv, ServerKeeps, Session, Forked, Live, Wires, Disks
  <2>2. Asked' /\ \A m \in 1 .. Len(commands') : commands'[m].to \in 1 .. sent
    BY ReceiveTyped DEF TInv
  <2>3. Owing'
    BY <1>2, <2>2 DEF Pasv, TInv, Owing, Live, counters
  <2> QED
    BY <2>1, <2>2, <2>3, ServerStepTyped
<1> QED
  BY <1>1, <1>2 DEF Pasv

LEMMA PortTyped ==
  ASSUME TInv, NEW cmd, Receive(cmd), Port(cmd),
         UNCHANGED <<object, local, job, counters>>, astray' \in BOOLEAN
  PROVE  TInv'
<1>1. cmd.arg \in Ports /\ "200" \in Codes
  BY ReceiveTyped DEF Port, TInv, Codes
<1>2. Sockets'
  BY SocketsKept DEF Port, Passive!Next, TInv, ServerKeeps
<1>3. Session'
  BY <1>1 DEF Port, TInv, ServerKeeps, Session, Modes
<1>4. link' \in [Links -> Connection] /\ UNCHANGED <<child, remote>> /\ Reply(cmd, "200", 0)
  BY CloseArmedTyped DEF Port
<1> QED
  BY <1>1, <1>2, <1>3, <1>4, SessionReplies

LEMMA RestTyped ==
  ASSUME TInv, NEW cmd, Receive(cmd), Rest(cmd),
         UNCHANGED <<object, local, job, counters>>, astray' \in BOOLEAN
  PROVE  TInv'
<1>1. cmd.arg \in Nat /\ "350" \in Codes
  BY ReceiveTyped DEF Command, TInv, Codes
<1>2. Sockets'
  BY SocketsKept DEF Rest, TInv, ServerKeeps
<1>3. Session' /\ link' \in [Links -> Connection]
  BY <1>1 DEF Rest, TInv, ServerKeeps, Session, Wires
<1>4. UNCHANGED <<child, remote>> /\ Reply(cmd, "350", 0)
  BY DEF Rest
<1> QED
  BY <1>1, <1>2, <1>3, <1>4, SessionReplies

LEMMA FileTransferTyped ==
  ASSUME TInv, NEW cmd, Receive(cmd), FileTransfer(cmd),
         UNCHANGED <<object, local, job, counters>>, astray' \in BOOLEAN
  PROVE  TInv'
<1>1. /\ Asked' /\ \A m \in 1 .. Len(commands') : commands'[m].to \in 1 .. sent
      /\ cmd \in Command /\ cmd.to \in 1 .. sent /\ cmd.verb \in FileVerbs
  BY ReceiveTyped DEF TInv, FileTransfer, FileVerbs
<1>2. PICK t \in Transfers, how \in Ways(mode) : Passive!Hand(t) /\ child' = [child EXCEPT ![t] = Transferring(cmd, how)]
  BY DEF FileTransfer
<1> DEFINE record == Transferring(cmd, how)
<1>3. /\ record \in Child /\ record.pc = "setup" /\ record.file \in Files
      /\ record.verb \in FileVerbs /\ record.to \in 1 .. sent
  <2>1. /\ how \in Modes /\ port_port \in Nat /\ cmd.file \in Files /\ cmd.to \in Nat
        /\ (IF cmd.verb = "RETR" THEN last_sent_byte ELSE 0) \in Nat
    BY <1>1, Constants DEF TInv, ServerKeeps, Session, None, Command, Ways, Modes
  <2> DEFINE offset == IF cmd.verb = "RETR" THEN last_sent_byte ELSE 0
  <2>2. record = [Unborn EXCEPT !.pc = "setup", !.verb = cmd.verb, !.file = cmd.file, !.mode = how,
                                !.port = port_port, !.to = cmd.to, !.offset = offset]
    BY DEF Transferring
  <2> HIDE DEF offset, record
  <2> QED
    BY <1>1, <2>1, <2>2 DEF Unborn, Child, offset
<1> HIDE DEF record
<1>4. Forked' /\ \A u \in Transfers : Live(u)' => child'[u].to \in 1 .. sent
  BY <1>2, <1>3, ChildSet DEF TInv, ServerKeeps, record
<1>5. Sockets'
  BY <1>2, SocketsKept DEF Passive!Next, TInv, ServerKeeps
<1>6. Session' /\ Wires' /\ remote' \in [Files -> Disk]
  BY DEF FileTransfer, TInv, ServerKeeps, Session, Modes, None, Wires, Disks
<1>7. Owing'
  <2>1. UNCHANGED <<sent, replies>>
    BY DEF FileTransfer, counters
  <2> QED
    BY <1>1, <1>4, <2>1, OwingParts DEF TInv, Owing
<1> QED
  BY <1>1, <1>4, <1>5, <1>6, <1>7, ServerStepTyped

\* A command leaves the client as it was on its way, or astray.
LEMMA HandleAstray ==
  ASSUME HandleCommand PROVE (UNCHANGED astray \/ astray' = TRUE) /\ (astray => astray')
<1>1. PICK n \in 1 .. Len(commands) :
        \/ NotLoggedIn(commands[n]) \/ Pasv(commands[n]) \/ Port(commands[n]) \/ Rest(commands[n])
        \/ FileTransfer(commands[n]) \/ FileTransferForkFails(commands[n])
  BY DEF HandleCommand
<1>2. UNCHANGED astray \/ astray' = TRUE
  BY <1>1 DEF NotLoggedIn, Pasv, Port, Rest, FileTransfer, FileTransferForkFails
<1>3. astray => astray'
  BY <1>2, Zenon
<1> QED
  BY <1>2, <1>3

LEMMA HandleCommandTyped == ASSUME TInv, HandleCommand PROVE TInv'
<1>1. PICK n \in 1 .. Len(commands) :
        /\ Receive(commands[n])
        /\ \/ NotLoggedIn(commands[n])
           \/ /\ loggedIn
              /\ \/ Pasv(commands[n]) \/ Port(commands[n]) \/ Rest(commands[n])
                 \/ FileTransfer(commands[n]) \/ FileTransferForkFails(commands[n])
  BY DEF HandleCommand
<1>2. UNCHANGED <<object, local, job, counters>>
  BY DEF HandleCommand
<1>3. astray' \in BOOLEAN
  BY HandleAstray DEF TInv, ClientKeeps, Counts
<1> QED
  BY <1>1, <1>2, <1>3, RefusingTyped, PasvTyped, PortTyped, RestTyped, FileTransferTyped

\* A step of a transfer: it may reply, and leaves the session as it is.
LEMMA TransferTyped ==
  ASSUME TInv, NEW t \in Transfers, TransferStep(t),
         Forked', \A u \in Transfers : Live(u)' => child'[u].to \in 1 .. sent,
         replies' \in Seq(Answer), \A m \in 1 .. Len(replies') : replies'[m].to \in 1 .. sent,
         link' \in [Links -> Connection], remote' \in [Files -> Disk]
  PROVE  TInv'
<1>1. UNCHANGED <<commands, object, local, job, counters, astray, made, armed, served, session>>
  BY DEF TransferStep
<1>2. Session' /\ Asked' /\ Wires' /\ Sockets'
  BY <1>1, SocketsKept DEF TInv, ServerKeeps, Session, Asked, Wires, session
<1>3. Owing'
  BY <1>1, OwingParts DEF TInv, Owing, counters
<1>4. astray' \in BOOLEAN
  BY <1>1 DEF TInv, ClientKeeps, Counts
<1> QED
  BY <1>1, <1>2, <1>3, <1>4, ServerStepTyped

LEMMA SaysTyped ==
  ASSUME TInv, NEW t \in Transfers, Live(t), NEW code \in Codes, Says(t, code)
  PROVE  replies' \in Seq(Answer) /\ \A m \in 1 .. Len(replies') : replies'[m].to \in 1 .. sent
<1> DEFINE cmd == [to |-> child[t].to]
<1>1. cmd.to \in 1 .. sent /\ sent \in Nat /\ 0 \in Nat
  BY DEF TInv, Owing, ClientKeeps, Counts
<1>2. Reply(cmd, code, 0)
  BY DEF Says
<1> HIDE DEF cmd
<1> QED
  BY <1>1, <1>2, ReplyTyped DEF TInv

LEMMA SilentTyped ==
  ASSUME TInv, UNCHANGED replies
  PROVE  replies' \in Seq(Answer) /\ \A m \in 1 .. Len(replies') : replies'[m].to \in 1 .. sent
BY DEF TInv, Wires, Owing

LEMMA ExitTyped ==
  ASSUME TInv, NEW t \in Transfers, Exit(t)
  PROVE  /\ Forked' /\ \A u \in Transfers : Live(u)' => child'[u].to \in 1 .. sent
         /\ link' \in [Links -> Connection]
<1> DEFINE record == [Unborn EXCEPT !.pc = "exited"]
<1>1. record \in Child /\ record.pc = "exited"
  BY NothingTyped DEF Unborn, Child
<1>2. child' = [child EXCEPT ![t] = record]
  BY DEF Exit
<1> HIDE DEF record
<1>3. Forked' /\ \A u \in Transfers : Live(u)' => child'[u].to \in 1 .. sent
  BY <1>1, <1>2, ChildSet DEF TInv, ServerKeeps
<1>4. link' \in [Links -> Connection]
  <2> DEFINE c == child[t].conn
  <2>1. ASSUME c \in Links
        PROVE  (IF link[c].client = "closed" THEN NoLink
                ELSE [link[c] EXCEPT !.server = "closed", !.up = <<>>]) \in Connection
    BY <2>1, NothingTyped DEF TInv, Wires, Connection, Ends
  <2>2. link' = link \/ link' = [link EXCEPT ![c] = IF link[c].client = "closed" THEN NoLink
                                             ELSE [link[c] EXCEPT !.server = "closed", !.up = <<>>]]
    BY DEF Exit
  <2> HIDE DEF c
  <2> QED
    BY <2>1, <2>2 DEF TInv, Wires
<1> QED
  BY <1>3, <1>4

LEMMA ChildFacts ==
  ASSUME TInv, NEW t \in Transfers, Live(t)
  PROVE  /\ child[t] \in Child /\ child[t].file \in Files /\ child[t].verb \in FileVerbs
         /\ child[t].to \in 1 .. sent /\ remote[child[t].file] \in Disk
         /\ child[t].pc \in {"begin", "streaming"} =>
              child[t].conn \in Links /\ link[child[t].conn] \in Connection
BY DEF TInv, ServerKeeps, Forked, Owing, Disks, Wires

\* A transfer goes on: it keeps its command.
LEMMA ChildGoesOn ==
  ASSUME TInv, NEW t \in Transfers, Live(t), NEW record \in Child, child' = [child EXCEPT ![t] = record],
         record.pc \in {"begin", "streaming"}, record.conn \in Links,
         record.file = child[t].file, record.verb = child[t].verb, record.to = child[t].to
  PROVE  Forked' /\ \A u \in Transfers : Live(u)' => child'[u].to \in 1 .. sent
BY ChildFacts, ChildSet DEF TInv, ServerKeeps

LEMMA SetupTyped ==
  ASSUME TInv, NEW t \in Transfers, TransferStep(t), SetupDataConnection(t) PROVE TInv'
<1>1. Live(t) /\ child[t] \in Child /\ UNCHANGED remote
  BY ChildFacts DEF SetupDataConnection, Live
<1>2. ASSUME NEW c \in Links, NEW record \in Connection, link' = [link EXCEPT ![c] = record],
             child' = [child EXCEPT ![t].pc = "begin", ![t].conn = c], UNCHANGED replies
      PROVE  TInv'
  <2> DEFINE work == [child[t] EXCEPT !.pc = "begin", !.conn = c]
  <2>1. /\ work \in Child /\ work.pc = "begin" /\ work.conn = c /\ work.file = child[t].file
        /\ work.verb = child[t].verb /\ work.to = child[t].to
    BY <1>1, Constants DEF Child
  <2>2. child' = [child EXCEPT ![t] = work]
    BY <1>2
  <2> HIDE DEF work
  <2>3. Forked' /\ \A u \in Transfers : Live(u)' => child'[u].to \in 1 .. sent
    BY <1>1, <2>1, <2>2, ChildGoesOn
  <2>4. link' \in [Links -> Connection]
    BY <1>2 DEF TInv, Wires
  <2> QED
    BY <1>1, <1>2, <2>3, <2>4, SilentTyped, TransferTyped DEF TInv, Disks
<1>3. CASE /\ served[t] # 0 /\ link' = [link EXCEPT ![served[t]].server = "open"]
           /\ child' = [child EXCEPT ![t].pc = "begin", ![t].conn = served[t]]
           /\ UNCHANGED replies
  <2>1. served[t] \in Links
    BY <1>3, Constants DEF TInv, ServerKeeps, Sockets, Passive!TypeOK
  <2>2. [link[served[t]] EXCEPT !.server = "open"] \in Connection
    BY <2>1 DEF TInv, Wires, Connection, Ends
  <2>3. link' = [link EXCEPT ![served[t]] = [link[served[t]] EXCEPT !.server = "open"]]
    BY <1>3
  <2> QED
    BY <1>2, <1>3, <2>1, <2>2, <2>3
<1>4. CASE /\ link' = [link EXCEPT ![t] = [NoLink EXCEPT !.client = "queued", !.server = "open",
                                                        !.port = child[t].port]]
           /\ child' = [child EXCEPT ![t].pc = "begin", ![t].conn = t]
           /\ UNCHANGED replies
  <2>1. [NoLink EXCEPT !.client = "queued", !.server = "open", !.port = child[t].port] \in Connection
    BY <1>1, NothingTyped DEF NoLink, Connection, Ends, Child
  <2> QED
    BY <1>2, <1>4, <2>1, Constants
<1>5. CASE Exit(t) /\ Says(t, "425")
  BY <1>1, <1>5, ExitTyped, SaysTyped, TransferTyped DEF TInv, Disks, Codes
<1> QED
  BY <1>3, <1>4, <1>5 DEF SetupDataConnection

LEMMA BeginTyped ==
  ASSUME TInv, NEW t \in Transfers, TransferStep(t), Begin(t) PROVE TInv'
<1>1. /\ Live(t) /\ child[t] \in Child /\ child[t].file \in Files /\ child[t].conn \in Links
      /\ remote[child[t].file] \in Disk
  BY ChildFacts DEF Begin, Live
<1>2. CASE /\ child' = [child EXCEPT ![t].pc = "streaming"]
           /\ remote' = [remote EXCEPT ![child[t].file] =
                IF Runs(t, {"STOR"}) THEN File(<<>>) ELSE [@ EXCEPT !.exists = TRUE]]
           /\ Says(t, "150") /\ UNCHANGED link
  <2> DEFINE work == [child[t] EXCEPT !.pc = "streaming"]
  <2>1. /\ work \in Child /\ work.pc = "streaming" /\ work.conn = child[t].conn
        /\ work.file = child[t].file /\ work.verb = child[t].verb /\ work.to = child[t].to
    BY <1>1 DEF Child
  <2>2. child' = [child EXCEPT ![t] = work]
    BY <1>2
  <2> HIDE DEF work
  <2>3. Forked' /\ \A u \in Transfers : Live(u)' => child'[u].to \in 1 .. sent
    BY <1>1, <2>1, <2>2, ChildGoesOn
  <2>4. remote' \in [Files -> Disk]
    <3>1. File(<<>>) \in Disk /\ [remote[child[t].file] EXCEPT !.exists = TRUE] \in Disk
      BY <1>1, NothingTyped DEF Disk
    <3> QED
      BY <1>1, <1>2, <3>1 DEF TInv, Disks
  <2>5. link' \in [Links -> Connection]
    BY <1>2 DEF TInv, Wires
  <2>6. "150" \in Codes
    BY DEF Codes
  <2> QED
    BY <1>1, <1>2, <2>3, <2>4, <2>5, <2>6, SaysTyped, TransferTyped
<1>3. CASE (\E code \in Refusal(t) : Says(t, code)) /\ Exit(t) /\ UNCHANGED remote
  <2>1. Refusal(t) \subseteq Codes
    BY DEF Refusal, Codes, Runs
  <2> QED
    BY <1>1, <1>3, <2>1, ExitTyped, SaysTyped, TransferTyped DEF TInv, Disks
<1> QED
  BY <1>2, <1>3 DEF Begin

\* A reply, or none, and the end.
LEMMA EndingTyped ==
  ASSUME TInv, NEW t \in Transfers, TransferStep(t), Live(t), Exit(t), UNCHANGED remote,
         UNCHANGED replies \/ \E code \in Codes : Says(t, code)
  PROVE  TInv'
BY ExitTyped, SaysTyped, SilentTyped, TransferTyped DEF TInv, Disks

LEMMA StreamOutTyped ==
  ASSUME TInv, NEW t \in Transfers, TransferStep(t), StreamOut(t) PROVE TInv'
<1>1. /\ Live(t) /\ child[t] \in Child /\ child[t].file \in Files /\ child[t].conn \in Links
      /\ remote[child[t].file] \in Disk /\ link[child[t].conn] \in Connection /\ UNCHANGED remote
  BY ChildFacts DEF StreamOut, Live
<1>2. CASE /\ Sendable(t) # <<>>
           /\ link' = [link EXCEPT ![child[t].conn].down = Append(@, Head(Sendable(t)))]
           /\ child' = [child EXCEPT ![t].offset = @ + 1]
           /\ UNCHANGED replies
  <2>1. Sendable(t) \in Seq(Units)
    <3> DEFINE data == remote[child[t].file].data
    <3>1. data \in Seq(Units) /\ Len(data) \in Nat /\ child[t].offset \in Nat
      BY <1>1, LenProperties DEF Disk, Child
    <3>2. SubSeq(data, child[t].offset + 1, Len(data)) \in Seq(Units)
      <4> HIDE DEF data
      <4>1. \A i \in child[t].offset + 1 .. Len(data) : data[i] \in Units
        BY <3>1, ElementOfSeq
      <4> QED
        BY <3>1, <4>1, SubSeqProperties
    <3>3. <<Line(child[t].file, Len(data))>> \in Seq(Units)
      <4> HIDE DEF data
      <4>1. Line(child[t].file, Len(data)) \in Units
        BY <1>1, <3>1 DEF Line, Units
      <4> QED
        BY <4>1
    <3> QED
      BY <3>2, <3>3, NothingTyped DEF Sendable, Content
  <2>2. Head(Sendable(t)) \in Units
    BY <1>2, <2>1, HeadTailProperties
  <2>3. link' \in [Links -> Connection]
    <3>1. Append(link[child[t].conn].down, Head(Sendable(t))) \in Seq(Units)
      BY <1>1, <2>2, AppendProperties DEF Connection
    <3> DEFINE sent1 == Append(link[child[t].conn].down, Head(Sendable(t)))
    <3>2. link' = [link EXCEPT ![child[t].conn].down = sent1]
      BY <1>2
    <3> HIDE DEF sent1
    <3>3. [link[child[t].conn] EXCEPT !.down = sent1] \in Connection
      BY <1>1, <3>1 DEF Connection, sent1
    <3> QED
      BY <1>1, <3>2, <3>3 DEF TInv, Wires
  <2>4. Forked' /\ \A u \in Transfers : Live(u)' => child'[u].to \in 1 .. sent
    <3> DEFINE offset == child[t].offset + 1
               work == [child[t] EXCEPT !.offset = offset]
    <3>1. offset \in Nat /\ child' = [child EXCEPT ![t] = work]
      <4>1. child[t].offset \in Nat
        BY <1>1 DEF Child
      <4>2. child' = [child EXCEPT ![t] = work]
        BY <1>2
      <4> QED
        BY <4>1, <4>2
    <3> HIDE DEF offset
    <3>2. /\ work \in Child /\ work.pc = "streaming" /\ work.conn = child[t].conn
          /\ work.file = child[t].file /\ work.verb = child[t].verb /\ work.to = child[t].to
      BY <1>1, <3>1 DEF Child, StreamOut
    <3> HIDE DEF work
    <3> QED
      BY <1>1, <3>1, <3>2, ChildGoesOn
  <2> QED
    BY <1>1, <1>2, <2>3, <2>4, SilentTyped, TransferTyped DEF TInv, Disks
<1>3. CASE Exit(t)
  <2>1. {"551", "226", "451", "426"} \subseteq Codes
    BY DEF Codes
  <2>2. UNCHANGED replies \/ \E code \in Codes : Says(t, code)
    BY <1>2, <1>3, <2>1 DEF StreamOut
  <2> QED
    BY <1>1, <1>3, <2>2, EndingTyped
<1> QED
  BY <1>2, <1>3 DEF StreamOut

LEMMA StreamInTyped ==
  ASSUME TInv, NEW t \in Transfers, TransferStep(t), StreamIn(t) PROVE TInv'
<1>1. /\ Live(t) /\ child[t].file \in Files /\ child[t].conn \in Links
      /\ remote[child[t].file] \in Disk /\ link[child[t].conn] \in Connection
  BY ChildFacts DEF StreamIn, Live
<1> DEFINE up == link[child[t].conn].up
<1>2. CASE /\ up # <<>>
           /\ remote' = [remote EXCEPT ![child[t].file].data = Append(@, Head(up))]
           /\ \E n \in 1 .. Len(up) : link' = [link EXCEPT ![child[t].conn].up = SubSeq(up, n + 1, Len(up))]
           /\ UNCHANGED <<child, replies>>
  <2>1. up \in Seq(Units) /\ Head(up) \in Units
    BY <1>1, <1>2, HeadTailProperties DEF Connection
  <2>2. link' \in [Links -> Connection]
    <3>1. PICK n \in 1 .. Len(up) : link' = [link EXCEPT ![child[t].conn].up = SubSeq(up, n + 1, Len(up))]
      BY <1>2
    <3> DEFINE rest == SubSeq(up, n + 1, Len(up))
    <3>2. rest \in Seq(Units) /\ link' = [link EXCEPT ![child[t].conn].up = rest]
      BY <2>1, <3>1, Sequence
    <3> HIDE DEF rest
    <3>3. [link[child[t].conn] EXCEPT !.up = rest] \in Connection
      BY <1>1, <3>2 DEF Connection
    <3> QED
      BY <1>1, <3>2, <3>3 DEF TInv, Wires
  <2>3. remote' \in [Files -> Disk]
    <3> DEFINE data == Append(remote[child[t].file].data, Head(up))
    <3>1. data \in Seq(Units)
      BY <1>1, <2>1, AppendProperties DEF Disk
    <3>2. remote' = [remote EXCEPT ![child[t].file].data = data]
      BY <1>2
    <3> HIDE DEF data
    <3>3. [remote[child[t].file] EXCEPT !.data = data] \in Disk
      BY <1>1, <3>1 DEF Disk
    <3> QED
      BY <1>1, <3>2, <3>3 DEF TInv, Disks
  <2>4. Forked' /\ \A u \in Transfers : Live(u)' => child'[u].to \in 1 .. sent
    BY <1>2 DEF TInv, ServerKeeps, Forked, Live, Owing
  <2> QED
    BY <1>2, <2>2, <2>3, <2>4, SilentTyped, TransferTyped
<1>3. CASE Exit(t) /\ UNCHANGED remote /\ (UNCHANGED replies \/ Says(t, "226"))
  BY <1>1, <1>3, EndingTyped DEF Codes
<1> QED
  BY <1>2, <1>3 DEF StreamIn

-----------------------------------------------------------------------------
(* The types hold.                                                         *)

LEMMA WholeTyped ==
  ASSUME NEW name \in Files, NEW size \in Nat
  PROVE  File(Whole(name, size)) \in Disk
<1>1. \A n \in 1 .. size : Data(name, n) \in Units
  BY DEF Data, Units
<1>2. Whole(name, size) \in Seq(Units)
  BY <1>1 DEF Whole
<1> QED
  BY <1>2, NothingTyped

LEMMA InitTyped == Init => TInv
<1> SUFFICES ASSUME Init PROVE TInv
  OBVIOUS
<1>1. local \in [Files -> Disk] /\ remote \in [Files -> Disk]
  <2>1. ASSUME NEW name \in Files
        PROVE  /\ (IF Local[name] = 0 THEN NoFile ELSE File(Whole(name, Local[name]))) \in Disk
               /\ (IF Remote[name] = 0 THEN NoFile ELSE File(Whole(name, Remote[name]))) \in Disk
    BY WholeTyped, NothingTyped, FtpSystemAssumption DEF FtpSystemAssumption
  <2> QED
    BY <2>1 DEF Init
<1>2. Works
  <2>1. Waiting \in Work /\ Waiting.pc = "waiting"
    BY WaitingTyped DEF Waiting
  <2> QED
    BY <2>1 DEF Init, ClientInit, Works, Running
<1>3. Forked /\ \A t \in Transfers : ~Live(t)
  BY NothingTyped DEF Init, Forked, Live, Unborn
<1>4. Sockets
  BY Constants DEF Init, Passive!Init, Sockets, Passive!TypeOK, Passive!GivenOnce
<1>5. Asked /\ Wires /\ Owing
  BY <1>3, NothingTyped, EmptySeq DEF Init, ClientInit, Asked, Wires, Owing
<1>6. Objects /\ Counts /\ Session
  BY DEF Init, ClientInit, Objects, Counts, Session, Modes, None
<1> QED
  BY <1>1, <1>2, <1>3, <1>4, <1>5, <1>6 DEF TInv, ClientKeeps, ServerKeeps, Disks

LEMMA TransferStepTyped == ASSUME TInv, NEW t \in Transfers, TransferStep(t) PROVE TInv'
BY SetupTyped, BeginTyped, StreamOutTyped, StreamInTyped DEF TransferStep

LEMMA StutterTyped == ASSUME TInv, UNCHANGED vars PROVE TInv'
BY ClientStepTyped DEF TInv, ClientKeeps, Works, Running, file, Objects, Counts, Asked, Wires, Owing, Live,
   Disks, vars, clientVars, wires, object, counters, serverVars

LEMMA NextTyped == ASSUME TInv, [Next]_vars PROVE TInv'
BY ClientTyped, HandleCommandTyped, TransferStepTyped, StutterTyped DEF Next

LEMMA TInvHolds == Spec => []TInv
BY InitTyped, NextTyped, PTL DEF Spec

LEMMA TypesFollow == TInv => TypeOK
BY DEF TInv, ClientKeeps, ServerKeeps, Objects, Session, Modes, Disks, Disk, Wires, Owing, Sockets, TypeOK

\* The client's and the session's fields keep the types of the code, and no data
\* connection is given to two transfers, whatever either side sends, loses or
\* closes: for any files, commands, ports and number of transfers.
THEOREM FtpTyped == Spec => []TypeOK
BY TInvHolds, TypesFollow, PTL

-----------------------------------------------------------------------------
(* One command at a time.  While no reply was left behind, all that is     *)
(* under way belongs to the command that runs, and a reply other than 150  *)
(* is the last of it.                                                      *)

Free == \A t \in Transfers : ~Live(t)
Settled == commands = <<>> /\ replies = <<>> /\ Free

\* The client has connected to the socket that is armed,
Ready == armed # 0 => link[armed].server = "queued"

\* and so has its data_sock, if it is one;
OnArmed == data_sock \in Links => data_sock = armed

\* nobody has connected to port_sock.
Queue(c) == link[c].client = "queued" /\ link[c].port = port_sock
NoQueue == port_sock # None /\ \A c \in Links : ~Queue(c)

\* All that is under way has the job's serial number,
Mine(j) ==
  /\ \A n \in 1 .. Len(commands) : commands[n].to = job[j].serial
  /\ \A n \in 1 .. Len(replies) : replies[n].to = job[j].serial
  /\ \A t \in Transfers : Live(t) => child[t].to = job[j].serial

\* and it is a command, or what has come of it.
Orderly ==
  /\ commands # <<>> => Len(commands) = 1 /\ replies = <<>> /\ Free
  /\ \A n \in 1 .. Len(replies) : replies[n].code # "150" => n = Len(replies) /\ Free
  /\ \A t, u \in Transfers : Live(t) /\ Live(u) => t = u

\* Between two commands nothing is under way.
Calm(j) ==
  job[j].pc \in Goals \cup {"mode", "resume"} => Settled /\ Ready

\* The data connection a transfer is going to use.
Prepared(j) ==
  job[j].pc \in Requests \cup {"rest", "rested"} => OnArmed /\ (transfer_type = "PORT" => NoQueue)

\* The port of a 227 is new: of those that listen it is the armed one or none.
Offered(arg) == armed \in {0, arg} /\ \A t \in Transfers : served[t] # arg

\* PASV, PORT and REST start no transfer.  After PASV a socket may be armed to
\* which the client has yet to connect: the one it is told of.
Asks(j) ==
  /\ job[j].pc \in {"pasv", "port", "rested", "resumed"} =>
       /\ Free /\ \A n \in 1 .. Len(replies) : replies[n].code # "150"
       /\ \A n \in 1 .. Len(commands) : commands[n].verb \notin FileVerbs
  /\ job[j].pc \in {"port", "rested", "resumed"} =>
       Ready /\ \A n \in 1 .. Len(commands) : commands[n].verb # "PASV"
  /\ At(j, "pasv") =>
       /\ Ready \/ (replies # <<>> /\ replies[1].code = "227")
       /\ replies # <<>> /\ replies[1].code = "227" => Offered(replies[1].arg)
       /\ transfer_type = "PORT" => job[j].goal = "done"
  /\ At(j, "port") => data_sock \notin Links /\ NoQueue
  /\ At(j, "rested") => \A n \in 1 .. Len(commands) : commands[n].verb # "PORT"

Fits(verb, goal) == verb \in {"STOR", "APPE"} => goal \in {"stor", "appe"}

\* The transfer that a command has started says 150 when it begins, and takes the
\* data connection that the client has.
Started(j, t) ==
  /\ Fits(child[t].verb, job[j].goal)
  /\ child[t].pc = "streaming" <=> replies # <<>>
  /\ child[t].pc = "setup" /\ served[t] # 0 => link[served[t]].server = "queued"
  /\ data_sock \in Links =>
       IF child[t].pc = "setup" THEN child[t].mode # "MODE_PORT" /\ data_sock = served[t]
       ELSE data_sock = child[t].conn
  /\ job[j].active => \A c \in Links : Queue(c) => child[t].pc # "setup" /\ child[t].conn = c

Answers(j) ==
  At(j, "answer") =>
    /\ Ready
    /\ commands # <<>> => OnArmed /\ (job[j].active => NoQueue)
    /\ \A n \in 1 .. Len(commands) : commands[n].verb \in FileVerbs /\ Fits(commands[n].verb, job[j].goal)
    /\ \A n \in 1 .. Len(replies) : replies[n].code = "150" => n = 1
    /\ job[j].active => port_sock # None
    /\ \A t \in Transfers : Live(t) => Started(j, t)

\* Once it has begun, the client is on its data connection, or on none.
Begun(j, t) ==
  /\ child[t].pc = "streaming" /\ Fits(child[t].verb, job[j].goal)
  /\ At(j, "accept") => \A c \in Links : Queue(c) => child[t].conn = c
  /\ job[j].pc \in {"accept", "judge", "recv", "send"} =>
       (data_sock \in Links => data_sock = child[t].conn)
  /\ At(j, "last") /\ job[j].goal \in {"stor", "appe"} => link[child[t].conn].client = "closed"

Moves(j) ==
  job[j].pc \in {"accept", "judge", "recv", "send", "last"} =>
    /\ Ready /\ commands = <<>>
    /\ \A n \in 1 .. Len(replies) : replies[n].code # "150"
    /\ job[j].response = {"150"} \/ Settled
    /\ At(j, "accept") => job[j].port = port_sock /\ port_sock # None
    /\ At(j, "recv") => job[j].goal \in {"retr", "list"}
    /\ \A t \in Transfers : Live(t) => Begun(j, t)

Turn(j) == Mine(j) /\ Orderly /\ Calm(j) /\ Prepared(j) /\ Asks(j) /\ Answers(j) /\ Moves(j)

Turns ==
  /\ \A j \in Jobs : Running(j) => Turn(j)
  /\ (\A j \in Jobs : ~Running(j)) => Settled /\ Ready

\* One job runs, PASV and PORT typed by the user start no transfer,
OneRuns ==
  /\ \A i, j \in Jobs : Running(i) /\ Running(j) => i = j
  /\ \A j \in Jobs : Running(j) /\ Is(j, {"PASV", "PORT"}) =>
       job[j].goal = "done" /\ job[j].pc \in {"mode", "pasv", "port", "done"}

\* ports are taken once, and a transfer's connection is one of its own.
PortsNew ==
  /\ port_sock <= ports /\ port_port <= ports
  /\ \A n \in 1 .. Len(commands) : commands[n].verb = "PORT" => commands[n].arg <= ports
  /\ \A t \in Transfers : child[t].port <= ports
  /\ \A c \in Links : link[c].port <= ports

OwnSockets ==
  /\ armed # 0 => mode = "MODE_PASV"
  /\ \A t \in Transfers : Live(t) => child[t].conn \in {0, served[t], t}

XInv == TInv /\ OneRuns /\ PortsNew /\ OwnSockets /\ (~astray => Turns)

-----------------------------------------------------------------------------
(* What holds however many replies were left behind.                       *)

LEMMA ClosedLinks ==
  ASSUME Wires, NEW c, NEW l \in Links
  PROVE  /\ CloseLink(c)[l].client = "queued" => CloseLink(c)[l] = link[l]
         /\ link[l].server = "queued" => CloseLink(c)[l].server = "queued"
         /\ CloseLink(c)[l].port \in {link[l].port, 0}
<1>1. CASE c \notin Links \/ l # c
  BY <1>1 DEF CloseLink, Wires
<1>2. CASE c \in Links /\ l = c
  <2>1. link[l] \in Connection
    BY DEF Wires
  <2>2. CloseLink(c)[l] = IF link[l].server = "closed" THEN NoLink
                          ELSE [link[l] EXCEPT !.client = "closed", !.down = <<>>]
    BY <1>2 DEF CloseLink, Wires
  <2> QED
    BY <2>1, <2>2 DEF NoLink, Connection
<1> QED
  BY <1>1, <1>2

\* A step of a job leaves the others alone, and only Start takes one up.
LEMMA OthersWait ==
  ASSUME TInv, NEW j \in Jobs, ClientRuns(j)
  PROVE  /\ \A i \in Jobs \ {j} : job'[i] = job[i]
         /\ Running(j) \/ \E c \in Commands : Start(j, c)
<1>1. job \in [Jobs -> Work]
  BY DEF TInv, ClientKeeps, Works
<1>2. ASSUME NEW record, job' = [job EXCEPT ![j] = record]
      PROVE  \A i \in Jobs \ {j} : job'[i] = job[i]
  BY <1>1, <1>2
<1>3. CASE \E c \in Commands : Start(j, c)
  BY <1>2, <1>3 DEF Start
<1>4. CASE SendPasv(j) \/ SendPort(j) \/ SendRest(j)
  BY <1>2, <1>4 DEF SendPasv, SendPort, SendRest, Send, At, Running
<1>5. CASE ReadPasv(j, Quiet, Listening) \/ ReadPort(j, Quiet)
  BY <1>2, <1>5 DEF ReadPasv, ReadPort, ModeSet, GoTo, At, Running
<1>6. CASE Done(j) \/ ReadRest(j, Quiet) \/ Request(j) \/ RequestRefused(j) \/ ReadAnswer(j, Quiet)
  <2>1. Running(j)
    BY <1>6 DEF Done, ReadRest, Request, RequestRefused, ReadAnswer, At, Running
  <2>2. CASE RequestRefused(j)
    <3>1. \E record : job' = [job EXCEPT ![j] = record]
      BY <2>2 DEF RequestRefused, End, At, Is
    <3> QED
      BY <1>2, <2>1, <3>1
  <2> QED
    BY <1>2, <1>6, <2>1, <2>2 DEF Done, ReadRest, Request, ReadAnswer, End
<1>7. CASE AcceptData(j) \/ AcceptNothing(j) \/ Judge(j) \/ OpenLocal(j) \/ Proceed(j)
  <2>1. CASE AcceptData(j) \/ AcceptNothing(j)
    BY <1>2, <2>1 DEF AcceptData, AcceptNothing, Raise, GoTo, End, At, Running
  <2>2. CASE Judge(j) \/ OpenLocal(j) \/ Proceed(j)
    BY <1>2, <2>2 DEF Judge, OpenLocal, Proceed, Raise, GoTo, End, At, Running
  <2> QED
    BY <1>7, <2>1, <2>2
<1>8. CASE RecvData(j) \/ RecvEnd(j) \/ SendData(j)
  <2>1. CASE RecvData(j)
    BY <1>2, <2>1 DEF RecvData, At, Running
  <2>2. CASE RecvEnd(j) \/ SendData(j)
    BY <1>2, <2>2 DEF RecvEnd, SendData, GoTo, At, Running
  <2> QED
    BY <1>8, <2>1, <2>2
<1>9. CASE Abandon(j)
  BY <1>2, <1>9 DEF Abandon, Dropped, ListFailed, GoTo, End, At, Running
<1>10. CASE ReadLast(j, Quiet) \/ ReadLastStored(j, Quiet) \/ ReadListed(j, Quiet)
  <2>1. CASE ReadLast(j, Quiet) \/ ReadLastStored(j, Quiet)
    BY <1>2, <2>1 DEF ReadLast, ReadLastStored, Raise, End, At, Running
  <2>2. CASE ReadListed(j, Quiet)
    BY <1>2, <2>2 DEF ReadListed, Raise, End, At, Running
  <2> QED
    BY <1>10, <2>1, <2>2
<1> QED
  BY <1>3, <1>4, <1>5, <1>6, <1>7, <1>8, <1>9, <1>10 DEF ClientRuns, ClientStep

\* A thread of the pool is free when no job runs, if the pool has one.
LEMMA RoomForOne ==
  ASSUME PoolSize = 1, OneRuns, Room
  PROVE  \A j \in Jobs : ~Running(j)
<1> SUFFICES ASSUME NEW j \in Jobs, Running(j) PROVE FALSE
  OBVIOUS
<1>1. {i \in Jobs : Running(i)} = {j}
  BY DEF OneRuns
<1>2. Cardinality({j}) = 1
  BY FS_Singleton
<1> QED
  BY <1>1, <1>2 DEF Room

\* What becomes of a job when a step sets some of its fields.
Keeps(j) ==
  /\ job'[j].cmd = job[j].cmd
  /\ job'[j].active = job[j].active

KeepsAnswer(j) == job'[j].port = job[j].port /\ job'[j].response = job[j].response

LEMMA AfterGoTo ==
  ASSUME Works, NEW j \in Jobs, NEW pc, GoTo(j, pc)
  PROVE  /\ Keeps(j) /\ KeepsAnswer(j) /\ job'[j].pc = pc
         /\ job'[j].goal = job[j].goal /\ job'[j].serial = job[j].serial
<1>1. job'[j] = [job[j] EXCEPT !.pc = pc] /\ job[j] \in Work
  BY DEF Works, GoTo
<1> QED
  BY <1>1 DEF Work, Keeps, KeepsAnswer

LEMMA AfterGoal ==
  ASSUME Works, NEW j \in Jobs, NEW pc, NEW goal,
         job' = [job EXCEPT ![j].pc = pc, ![j].goal = goal]
  PROVE  Keeps(j) /\ KeepsAnswer(j) /\ job'[j].pc = pc /\ job'[j].goal = goal
<1> DEFINE record == [job[j] EXCEPT !.pc = pc, !.goal = goal]
<1>1. job[j] \in Work /\ j \in DOMAIN job
  BY DEF Works
<1>2. job' = [job EXCEPT ![j] = record]
  OBVIOUS
<1>3. /\ record.pc = pc /\ record.goal = goal /\ record.cmd = job[j].cmd
      /\ record.active = job[j].active /\ record.port = job[j].port
      /\ record.response = job[j].response
  BY <1>1 DEF Work
<1> HIDE DEF record
<1> QED
  BY <1>1, <1>2, <1>3 DEF Keeps, KeepsAnswer

LEMMA AfterSend ==
  ASSUME Works, NEW j \in Jobs, NEW verb, NEW arg, NEW pc, Send(j, verb, arg, pc)
  PROVE  /\ Keeps(j) /\ KeepsAnswer(j) /\ job'[j].pc = pc
         /\ job'[j].goal = job[j].goal /\ job'[j].serial = sent + 1
<1> DEFINE serial == sent + 1
<1>1. job' = [job EXCEPT ![j].pc = pc, ![j].serial = serial]
  BY DEF Send
<1> HIDE DEF serial
<1>2. /\ Keeps(j) /\ KeepsAnswer(j) /\ job'[j].pc = pc
      /\ job'[j].goal = job[j].goal /\ job'[j].serial = serial
  <2>1. job'[j] = [job[j] EXCEPT !.pc = pc, !.serial = serial] /\ job[j] \in Work
    BY <1>1 DEF Works
  <2> QED
    BY <2>1 DEF Work, Keeps, KeepsAnswer
<1> QED
  BY <1>2 DEF serial

LEMMA AfterEnd ==
  ASSUME Works, NEW j \in Jobs, NEW outcome, End(j, outcome)
  PROVE  ~Running(j)' /\ job'[j].pc = "ended"
BY DEF Works, End, Waiting, Running

LEMMA AfterRest ==
  ASSUME Works, NEW j \in Jobs, NEW quiet, ReadRest(j, quiet)
  PROVE  /\ Keeps(j) /\ job'[j].goal = "retr"
         /\ job'[j].pc = IF At(j, "rested") THEN "retr" ELSE "mode"
<1> DEFINE pc == IF At(j, "rested") THEN "retr" ELSE "mode"
           keep == write_type'
<1>1. job' = [job EXCEPT ![j].pc = pc, ![j].goal = "retr", ![j].keep = keep]
  BY DEF ReadRest
<1> HIDE DEF pc, keep
<1>2. Keeps(j) /\ job'[j].goal = "retr" /\ job'[j].pc = pc
  <2>1. job'[j] = [job[j] EXCEPT !.pc = pc, !.goal = "retr", !.keep = keep] /\ job[j] \in Work
    BY <1>1 DEF Works
  <2> QED
    BY <2>1 DEF Work, Keeps
<1> QED
  BY <1>2 DEF pc

LEMMA AfterRequest ==
  ASSUME Works, NEW j \in Jobs, Request(j)
  PROVE  /\ job'[j].cmd = job[j].cmd /\ job'[j].pc = "answer" /\ job'[j].goal = job[j].pc
         /\ job'[j].serial = sent + 1 /\ (job'[j].active => transfer_type = "PORT")
<1> DEFINE serial == sent + 1
           goal == job[j].pc
           Asking(active) == [job[j] EXCEPT !.pc = "answer", !.goal = goal, !.serial = serial,
                                            !.active = active, !.response = {}]
<1>1. job' = [job EXCEPT ![j] = Asking(transfer_type = "PORT")] /\ job[j] \in Work
  BY DEF Request, Works
<1>2. job'[j] = Asking(transfer_type = "PORT")
  <2> HIDE DEF Asking
  <2> QED
    BY <1>1 DEF Works
<1> HIDE DEF serial, goal
<1>3. CASE transfer_type = "PORT"
  <2>1. job'[j] = Asking(TRUE)
    BY <1>2, <1>3
  <2>2. /\ Asking(TRUE).cmd = job[j].cmd /\ Asking(TRUE).pc = "answer" /\ Asking(TRUE).goal = goal
        /\ Asking(TRUE).serial = serial
    BY <1>1 DEF Work
  <2> QED
    BY <1>3, <2>1, <2>2 DEF goal, serial
<1>4. CASE transfer_type # "PORT"
  <2>1. job'[j] = Asking(FALSE)
    BY <1>2, <1>4
  <2>2. /\ Asking(FALSE).cmd = job[j].cmd /\ Asking(FALSE).pc = "answer"
        /\ Asking(FALSE).goal = goal /\ Asking(FALSE).serial = serial /\ ~Asking(FALSE).active
    BY <1>1 DEF Work
  <2> QED
    BY <2>1, <2>2 DEF goal, serial
<1> QED
  BY <1>3, <1>4

\* Of the steps that leave a command unfinished, or start it anew.
FallenBack(j) ==
  \E goal \in {"rest", "stor"} : job' = [job EXCEPT ![j].pc = "mode", ![j].goal = goal]

LEMMA AfterRefused ==
  ASSUME NEW j \in Jobs, RequestRefused(j) PROVE FallenBack(j) \/ End(j, "error")
<1>1. CASE At(j, "list") /\ Is(j, {"reget"})
  BY <1>1 DEF RequestRefused, FallenBack
<1>2. CASE At(j, "list") /\ Is(j, {"reput"})
  <2>1. ~Is(j, {"reget"})
    BY <1>2 DEF Is
  <2> QED
    BY <1>2, <2>1 DEF RequestRefused, FallenBack
<1>3. CASE ~(At(j, "list") /\ Is(j, {"reget"})) /\ ~(At(j, "list") /\ Is(j, {"reput"}))
  BY <1>3 DEF RequestRefused, End
<1> QED
  BY <1>1, <1>2, <1>3

LEMMA AfterAnswer ==
  ASSUME Works, NEW j \in Jobs, NEW quiet, ReadAnswer(j, quiet)
  PROVE  \E r \in Arrived :
           /\ read_response(j, r, quiet)
           /\ Keeps(j) /\ job'[j].goal = job[j].goal /\ job'[j].serial = job[j].serial
           /\ job'[j].port = port_sock /\ job'[j].response = {r.code}
           /\ job'[j].pc = IF job[j].active THEN "accept" ELSE "judge"
<1>1. PICK r \in Arrived :
        /\ read_response(j, r, quiet)
        /\ job' = [job EXCEPT ![j].pc = IF job[j].active THEN "accept" ELSE "judge",
                              ![j].response = {r.code}, ![j].port = port_sock]
  BY DEF ReadAnswer
<1> DEFINE pc == IF job[j].active THEN "accept" ELSE "judge"
           response == {r.code}
<1>2. job' = [job EXCEPT ![j].pc = pc, ![j].response = response, ![j].port = port_sock]
  BY <1>1
<1> HIDE DEF pc, response
<1>3. /\ Keeps(j) /\ job'[j].goal = job[j].goal /\ job'[j].serial = job[j].serial
      /\ job'[j].port = port_sock /\ job'[j].response = response /\ job'[j].pc = pc
  <2>1. /\ job'[j] = [job[j] EXCEPT !.pc = pc, !.response = response, !.port = port_sock]
        /\ job[j] \in Work
    BY <1>2 DEF Works
  <2> QED
    BY <2>1 DEF Work, Keeps
<1> QED
  BY <1>1, <1>3 DEF pc, response

LEMMA AfterProceed ==
  ASSUME Works, NEW j \in Jobs, Proceed(j)
  PROVE  /\ Keeps(j) /\ KeepsAnswer(j)
         /\ job'[j].goal = job[j].goal /\ job'[j].serial = job[j].serial
         /\ job'[j].pc = IF job[j].goal = "list" THEN "recv" ELSE "send"
<1> DEFINE pc == IF job[j].goal = "list" THEN "recv" ELSE "send"
           size == IF job[j].goal = "list" THEN -1 ELSE job[j].size
<1>1. job' = [job EXCEPT ![j].pc = pc, ![j].size = size]
  BY DEF Proceed, Works
<1> HIDE DEF pc, size
<1>2. /\ Keeps(j) /\ KeepsAnswer(j)
      /\ job'[j].goal = job[j].goal /\ job'[j].serial = job[j].serial /\ job'[j].pc = pc
  <2>1. job'[j] = [job[j] EXCEPT !.pc = pc, !.size = size] /\ job[j] \in Work
    BY <1>1 DEF Works
  <2> QED
    BY <2>1 DEF Work, Keeps, KeepsAnswer
<1> QED
  BY <1>2 DEF pc

\* RecvData learns a size at most.
LEMMA AfterRecv ==
  ASSUME Works, NEW j \in Jobs, RecvData(j)
  PROVE  /\ Keeps(j) /\ KeepsAnswer(j) /\ job'[j].pc = job[j].pc
         /\ job'[j].goal = job[j].goal /\ job'[j].serial = job[j].serial
<1> DEFINE unit == Head(link[data_sock].down)
           size == IF unit.is = "line" /\ unit.of = file(j) THEN unit.n ELSE job[j].size
<1>1. UNCHANGED job \/ job' = [job EXCEPT ![j].size = size]
  BY DEF RecvData, Works
<1> HIDE DEF unit, size
<1>2. CASE UNCHANGED job
  BY <1>2 DEF Keeps, KeepsAnswer
<1>3. CASE job' = [job EXCEPT ![j].size = size]
  <2>1. job'[j] = [job[j] EXCEPT !.size = size]
    BY <1>3 DEF Works
  <2>2. job[j] \in Work
    BY DEF Works
  <2> QED
    BY <2>1, <2>2 DEF Work, Keeps, KeepsAnswer
<1> QED
  BY <1>1, <1>2, <1>3

\* What a step makes of the job that runs.
ManualOnly(j) ==
  Running(j) /\ Is(j, {"PASV", "PORT"}) =>
    job[j].goal = "done" /\ job[j].pc \in {"mode", "pasv", "port", "done"}

LEMMA OneKeepsRunning ==
  ASSUME OneRuns, NEW j \in Jobs, Running(j) \/ \A i \in Jobs : ~Running(i),
         \A i \in Jobs \ {j} : job'[i] = job[i], ManualOnly(j)'
  PROVE  OneRuns'
BY DEF OneRuns, Running, Is, ManualOnly

LEMMA ClientManual == ASSUME TInv, OneRuns, NEW j \in Jobs, ClientRuns(j) PROVE ManualOnly(j)'
<1>1. Works /\ ManualOnly(j)
  BY DEF TInv, ClientKeeps, OneRuns, ManualOnly
<1>2. ASSUME NEW outcome, End(j, outcome) PROVE ManualOnly(j)'
  BY <1>1, <1>2, AfterEnd DEF ManualOnly
<1>3. ASSUME Running(j), job[j].pc \notin {"mode", "pasv", "port", "done"}, job'[j].cmd = job[j].cmd
      PROVE  ManualOnly(j)'
  BY <1>1, <1>3 DEF ManualOnly, Is
<1>4. ASSUME NEW pc, GoTo(j, pc) PROVE job'[j].cmd = job[j].cmd
  BY <1>1, <1>4, AfterGoTo DEF Keeps
<1>5. ASSUME NEW pc, NEW goal, job' = [job EXCEPT ![j].pc = pc, ![j].goal = goal]
      PROVE  job'[j].cmd = job[j].cmd
  BY <1>1, <1>5, AfterGoal DEF Keeps
<1>6. CASE \E c \in Commands : Start(j, c)
  <2>1. PICK c \in Commands : Start(j, c)
    BY <1>6
  <2>2. job'[j].pc = "mode" /\ job'[j].cmd = c.cmd /\ job'[j].goal = Goal(c)
    <3> DEFINE goal == Goal(c)
    <3>1. job' = [job EXCEPT ![j].pc = "mode", ![j].cmd = c.cmd, ![j].file = c.file, ![j].goal = goal]
      BY <2>1 DEF Start
    <3> HIDE DEF goal
    <3>2. job'[j].pc = "mode" /\ job'[j].cmd = c.cmd /\ job'[j].goal = goal
      <4>1. /\ job'[j] = [job[j] EXCEPT !.pc = "mode", !.cmd = c.cmd, !.file = c.file, !.goal = goal]
            /\ job[j] \in Work
        BY <1>1, <3>1 DEF Works
      <4> QED
        BY <4>1 DEF Work
    <3> QED
      BY <3>2 DEF goal
  <2>3. c.cmd \in {"PASV", "PORT"} => Goal(c) = "done"
    BY DEF Goal
  <2> QED
    BY <2>2, <2>3 DEF ManualOnly, Is
<1>7. CASE SendPasv(j) \/ SendPort(j) \/ ReadPasv(j, Quiet, Listening) \/ ReadPort(j, Quiet)
  <2>1. CASE SendPasv(j) \/ SendPort(j)
    <3>1. \E verb, arg : \E pc \in {"pasv", "port"} : Send(j, verb, arg, pc)
      BY <2>1 DEF SendPasv, SendPort
    <3>2. Running(j) /\ job[j].pc = "mode"
      BY <2>1 DEF SendPasv, SendPort, At, Running
    <3> QED
      BY <1>1, <3>1, <3>2, AfterSend DEF ManualOnly, Is, Keeps
  <2>2. CASE ReadPasv(j, Quiet, Listening) \/ ReadPort(j, Quiet)
    <3>1. GoTo(j, job[j].goal) /\ Running(j) /\ job[j].pc \in {"pasv", "port"}
      BY <2>2 DEF ReadPasv, ReadPort, ModeSet, At, Running
    <3> QED
      BY <1>1, <3>1, AfterGoTo DEF ManualOnly, Is, Keeps
  <2> QED
    BY <1>7, <2>1, <2>2
<1>8. CASE Done(j)
  BY <1>2, <1>8 DEF Done
<1>9. CASE SendRest(j) \/ ReadRest(j, Quiet) \/ Request(j) \/ ReadAnswer(j, Quiet)
  <2>1. ASSUME SendRest(j) PROVE job'[j].cmd = job[j].cmd
    BY <1>1, <2>1, AfterSend DEF SendRest, Keeps
  <2>2. job'[j].cmd = job[j].cmd
    BY <1>1, <1>9, <2>1, AfterRest, AfterRequest, AfterAnswer DEF Keeps
  <2> QED
    BY <1>3, <1>9, <2>2 DEF SendRest, ReadRest, Request, ReadAnswer, At, Running
<1>10. CASE RequestRefused(j)
  <2>1. Running(j) /\ job[j].pc \notin {"mode", "pasv", "port", "done"}
    BY <1>10 DEF RequestRefused, Running
  <2> QED
    BY <1>2, <1>3, <1>5, <1>10, <2>1, AfterRefused DEF FallenBack
<1>11. CASE AcceptData(j) \/ AcceptNothing(j) \/ Judge(j)
  <2>1. Running(j) /\ job[j].pc \notin {"mode", "pasv", "port", "done"}
    BY <1>11 DEF AcceptData, AcceptNothing, Judge, At, Running
  <2> QED
    BY <1>2, <1>3, <1>4, <1>11, <2>1 DEF AcceptData, AcceptNothing, Judge, Raise
<1>12. CASE OpenLocal(j) \/ Proceed(j) \/ RecvData(j) \/ RecvEnd(j) \/ SendData(j)
  <2>1. job'[j].cmd = job[j].cmd
    BY <1>1, <1>4, <1>12, AfterProceed, AfterRecv DEF OpenLocal, RecvEnd, SendData, Keeps
  <2> QED
    BY <1>3, <1>12, <2>1 DEF OpenLocal, Proceed, RecvData, RecvEnd, SendData, At, Running
<1>13. CASE Abandon(j)
  <2>1. Running(j) /\ job[j].pc \notin {"mode", "pasv", "port", "done"}
    BY <1>13 DEF Abandon, At, Running
  <2> QED
    BY <1>2, <1>3, <1>5, <1>13, <2>1 DEF Abandon, Dropped, ListFailed
<1>14. CASE ReadLast(j, Quiet) \/ ReadLastStored(j, Quiet) \/ ReadListed(j, Quiet)
  <2>1. Running(j) /\ job[j].pc \notin {"mode", "pasv", "port", "done"}
    BY <1>14 DEF ReadLast, ReadLastStored, ReadListed, At, Running
  <2> QED
    BY <1>2, <1>3, <1>5, <1>14, <2>1 DEF ReadLast, ReadLastStored, ReadListed, Raise
<1> QED
  BY <1>6, <1>7, <1>8, <1>9, <1>10, <1>11, <1>12, <1>13, <1>14 DEF ClientRuns, ClientStep

LEMMA ClientOneRuns ==
  ASSUME PoolSize = 1, TInv, OneRuns, NEW j \in Jobs, ClientRuns(j)
  PROVE  OneRuns'
<1>1. Running(j) \/ \A i \in Jobs : ~Running(i)
  BY OthersWait, RoomForOne DEF Start
<1> QED
  BY <1>1, OthersWait, ClientManual, OneKeepsRunning

\* What no step of the client does to a data connection.
LinkGoesOn(c) ==
  /\ link'[c].port \in {link[c].port, 0}
  /\ link[c].server = "queued" => link'[c].server = "queued"
  /\ link'[c].client = "queued" => link[c].client = "queued" /\ link'[c].port = link[c].port

LinksGoOn == \A c \in Links : LinkGoesOn(c)

LEMMA ClosingGoesOn == ASSUME Wires, NEW s, link' = CloseLink(s) PROVE LinksGoOn
BY ClosedLinks DEF LinksGoOn, LinkGoesOn

LEMMA PartsGoOn ==
  ASSUME Wires, NEW c \in Links, NEW up, NEW down, NEW client \in {"open", "closed"},
         link' = [link EXCEPT ![c].down = down] \/ link' = [link EXCEPT ![c].client = client]
         \/ link' = [link EXCEPT ![c].client = client, ![c].up = up]
  PROVE  LinksGoOn
<1> SUFFICES ASSUME NEW l \in Links PROVE LinkGoesOn(l)
  BY DEF LinksGoOn
<1>1. CASE l # c
  BY <1>1 DEF Wires, LinkGoesOn
<1>2. CASE l = c
  <2>1. link[c] \in Connection
    BY DEF Wires
  <2>2. \/ link'[c] = [link[c] EXCEPT !.down = down]
        \/ link'[c] = [link[c] EXCEPT !.client = client]
        \/ link'[c] = [link[c] EXCEPT !.client = client, !.up = up]
    BY DEF Wires
  <2> QED
    BY <1>2, <2>1, <2>2 DEF Connection, LinkGoesOn
<1> QED
  BY <1>1, <1>2

LEMMA ConnectGoesOn ==
  ASSUME Wires, data_sock \in Links \cup {None, Dead}, NEW l \in Nat, NEW listening \in SUBSET Links,
         Connect(l, listening)
  PROVE  LinksGoOn /\ (l \in listening => link'[l].server = "queued")
<1>1. CASE l \notin listening
  BY <1>1, ClosingGoesOn DEF Connect
<1>2. CASE l \in listening
  <2>1. link' = [CloseLink(data_sock) EXCEPT ![l] = [NoLink EXCEPT !.client = "open", !.server = "queued"]]
        /\ l \in Links
    BY <1>2 DEF Connect
  <2>2. CloseLink(data_sock) \in [Links -> Connection]
    BY ClosingTyped
  <2>3. link'[l] = [NoLink EXCEPT !.client = "open", !.server = "queued"]
        /\ \A c \in Links \ {l} : link'[c] = CloseLink(data_sock)[c]
    <3> HIDE DEF CloseLink
    <3> QED
      BY <2>1, <2>2
  <2>4. link'[l].client = "open" /\ link'[l].server = "queued" /\ link'[l].port = 0
    BY <2>3 DEF NoLink
  <2>5. \A c \in Links \ {l} : LinkGoesOn(c)
    BY <2>3, ClosedLinks DEF LinkGoesOn
  <2> QED
    BY <2>1, <2>4, <2>5 DEF LinksGoOn, LinkGoesOn
<1> QED
  BY <1>1, <1>2

LEMMA SendPortGoesOn == ASSUME Wires, NEW j \in Jobs, SendPort(j) PROVE LinksGoOn
<1> SUFFICES ASSUME NEW c \in Links PROVE LinkGoesOn(c)
  BY DEF LinksGoOn
<1> DEFINE old == CloseLink(data_sock)[c]
<1>1. link'[c] = IF old.client = "queued" /\ old.port = port_sock
                 THEN [old EXCEPT !.client = "closed"] ELSE old
  BY DEF SendPort, CloseQueued
<1>2. /\ old.client = "queued" => old = link[c]
      /\ link[c].server = "queued" => old.server = "queued"
      /\ old.port \in {link[c].port, 0}
  BY ClosedLinks
<1>3. old \in Connection
  BY ClosingTyped
<1> HIDE DEF old
<1> QED
  BY <1>1, <1>2, <1>3 DEF LinkGoesOn, Connection

LEMMA ClientLinks == ASSUME TInv, NEW j \in Jobs, ClientRuns(j) PROVE LinksGoOn
<1>1. Wires /\ Objects
  BY DEF TInv, ClientKeeps
<1>2. ASSUME UNCHANGED link PROVE LinksGoOn
  BY <1>2 DEF LinksGoOn, LinkGoesOn
<1>3. CASE \/ (\E c \in Commands : Start(j, c)) \/ SendPasv(j) \/ ReadPort(j, Quiet) \/ Done(j)
           \/ SendRest(j) \/ ReadRest(j, Quiet) \/ Request(j) \/ RequestRefused(j)
           \/ ReadAnswer(j, Quiet) \/ AcceptNothing(j) \/ OpenLocal(j) \/ Proceed(j)
           \/ ReadLast(j, Quiet) \/ ReadLastStored(j, Quiet) \/ ReadListed(j, Quiet)
  BY <1>2, <1>3 DEF Start, SendPasv, ReadPort, Done, SendRest, ReadRest, Request, RequestRefused,
    ReadAnswer, AcceptNothing, OpenLocal, Proceed, ReadLast, ReadLastStored, ReadListed, wires
<1>4. CASE ReadPasv(j, Quiet, Listening)
  <2>1. PICK r \in Arrived :
          /\ read_response(j, r, Quiet)
          /\ IF r.code = "227" THEN Connect(r.arg, Listening)
             ELSE link' = CloseLink(data_sock)
    BY <1>4 DEF ReadPasv
  <2>2. r.arg \in Nat /\ Listening \in SUBSET Links
    <3>1. r \in Answer \cup {NoReply}
      BY <2>1, ReadTyped DEF TInv, ClientKeeps
    <3>2. Listening \subseteq 1 .. MaxListeners
      BY ListeningTyped DEF TInv, ServerKeeps
    <3> QED
      BY <3>1, <3>2, Constants DEF Answer, NoReply
  <2> QED
    BY <1>1, <2>1, <2>2, ClosingGoesOn, ConnectGoesOn DEF Objects
<1>5. CASE SendPort(j)
  BY <1>1, <1>5, SendPortGoesOn
<1>6. CASE Judge(j) \/ RecvEnd(j) \/ Abandon(j)
  BY <1>1, <1>2, <1>6, ClosingGoesOn DEF Judge, RecvEnd, Abandon, CloseData
<1>7. CASE AcceptData(j)
  <2>1. PICK c \in Links : link' = [link EXCEPT ![c].client = "open"]
    BY <1>7 DEF AcceptData
  <2> QED
    BY <1>1, <2>1, PartsGoOn
<1>8. CASE RecvData(j)
  <2>1. data_sock \in Links /\ link' = [link EXCEPT ![data_sock].down = Tail(link[data_sock].down)]
    BY <1>1, <1>8 DEF RecvData, Connected, Wires
  <2> QED
    BY <1>1, <2>1, PartsGoOn
<1>9. CASE SendData(j)
  <2>1. data_sock \in Links /\ \E up : link' = [link EXCEPT ![data_sock].client = "closed", ![data_sock].up = up]
    BY <1>1, <1>9 DEF SendData, Connected, Wires
  <2> QED
    BY <1>1, <2>1, PartsGoOn
<1> QED
  BY <1>3, <1>4, <1>5, <1>6, <1>7, <1>8, <1>9 DEF ClientRuns, ClientStep

LEMMA PortsKept ==
  ASSUME TInv, PortsNew, LinksGoOn, ports' \in Nat, ports <= ports', UNCHANGED serverVars,
         port_sock' <= ports',
         \/ UNCHANGED commands
         \/ \E cmd : commands' = Append(commands, cmd) /\ (cmd.verb = "PORT" => cmd.arg <= ports')
  PROVE  PortsNew'
<1>1. /\ ports \in Nat /\ port_port \in Nat /\ commands \in Seq(Command)
      /\ \A t \in Transfers : child[t].port \in Nat
      /\ \A c \in Links : link[c].port \in Nat
  <2>1. ports \in Nat /\ port_port \in Nat /\ commands \in Seq(Command)
    BY Constants DEF TInv, ClientKeeps, ServerKeeps, Counts, Session, Asked, None
  <2>2. \A t \in Transfers : child[t] \in Child
    BY DEF TInv, ServerKeeps, Forked
  <2>3. \A c \in Links : link[c] \in Connection
    BY DEF TInv, Wires
  <2> QED
    BY <2>1, <2>2, <2>3 DEF Child, Connection
<1>2. port_port' <= ports' /\ (\A t \in Transfers : child'[t].port <= ports')
  BY <1>1 DEF PortsNew, serverVars, session
<1>3. \A c \in Links : link'[c].port <= ports'
  BY <1>1 DEF PortsNew, LinksGoOn, LinkGoesOn
<1>4. \A n \in 1 .. Len(commands') : commands'[n].verb = "PORT" => commands'[n].arg <= ports'
  <2>1. \A n \in 1 .. Len(commands) : commands[n].verb = "PORT" => commands[n].arg \in Nat
    BY Constants DEF TInv, Asked
  <2>2. \A n \in 1 .. Len(commands) : commands[n].verb = "PORT" => commands[n].arg <= ports'
    BY <1>1, <2>1 DEF PortsNew
  <2>3. CASE \E cmd : commands' = Append(commands, cmd) /\ (cmd.verb = "PORT" => cmd.arg <= ports')
    <3>1. PICK cmd : commands' = Append(commands, cmd) /\ (cmd.verb = "PORT" => cmd.arg <= ports')
      BY <2>3
    <3>2. /\ Len(commands') = Len(commands) + 1 /\ commands'[Len(commands) + 1] = cmd
          /\ \A n \in 1 .. Len(commands) : commands'[n] = commands[n]
      BY <1>1, <3>1
    <3>3. Len(commands) \in Nat
      BY <1>1
    <3>4. ASSUME NEW n \in 1 .. Len(commands') PROVE n = Len(commands) + 1 \/ n \in 1 .. Len(commands)
      BY <3>2, <3>3
    <3> QED
      BY <2>2, <3>1, <3>2, <3>4
  <2> QED
    BY <2>2, <2>3
<1> QED
  BY <1>2, <1>3, <1>4 DEF PortsNew

LEMMA ClientPortsNew ==
  ASSUME TInv, PortsNew, NEW j \in Jobs, ClientRuns(j)
  PROVE  PortsNew'
<1>1. LinksGoOn /\ UNCHANGED serverVars /\ ports \in Nat /\ port_sock \in Nat /\ port_sock <= ports
  <2>1. ports \in Nat /\ port_sock \in Ports \cup {None}
    BY DEF TInv, ClientKeeps, Counts, Objects
  <2>2. port_sock \in Nat
    BY <2>1, Constants DEF None
  <2> QED
    BY <2>1, <2>2, ClientLinks DEF ClientRuns, PortsNew
<1>2. CASE SendPort(j)
  <2>1. /\ port_sock' = ports + 1 /\ ports' = ports + 1
        /\ \E cmd : commands' = Append(commands, cmd) /\ cmd.arg = ports + 1
    BY <1>2 DEF SendPort, Send
  <2> QED
    BY <1>1, <2>1, PortsKept
<1>3. CASE AcceptData(j)
  <2>1. port_sock' = 0 /\ UNCHANGED <<ports, commands>>
    BY <1>3 DEF AcceptData, None, counters
  <2> QED
    BY <1>1, <2>1, PortsKept
<1>4. CASE SendPasv(j) \/ SendRest(j) \/ Request(j)
  <2>1. UNCHANGED <<ports, port_sock>>
    BY <1>4 DEF SendPasv, SendRest, Request, object
  <2>2. CASE Request(j)
    <3>1. job[j].pc \in Requests /\ commands' = Append(commands,
            [verb |-> Verb(job[j].pc), file |-> file(j), arg |-> 0, to |-> sent + 1])
      BY <2>2 DEF Request, Requests
    <3>2. Verb(job[j].pc) # "PORT"
      BY <3>1 DEF Requests, Verb
    <3>3. \E cmd : commands' = Append(commands, cmd) /\ cmd.verb # "PORT"
      BY <3>1, <3>2
    <3> QED
      BY <1>1, <2>1, <3>3, PortsKept
  <2>3. CASE SendPasv(j) \/ SendRest(j)
    <3>1. \E cmd : commands' = Append(commands, cmd) /\ cmd.verb # "PORT"
      BY <2>3 DEF SendPasv, SendRest, Send
    <3> QED
      BY <1>1, <2>1, <3>1, PortsKept
  <2> QED
    BY <1>4, <2>2, <2>3
<1>5. ASSUME UNCHANGED <<commands, ports, port_sock>> PROVE PortsNew'
  BY <1>1, <1>5, PortsKept
<1>6. CASE \/ (\E c \in Commands : Start(j, c)) \/ ReadPasv(j, Quiet, Listening)
           \/ ReadPort(j, Quiet) \/ Done(j) \/ ReadRest(j, Quiet) \/ RequestRefused(j)
           \/ ReadAnswer(j, Quiet) \/ AcceptNothing(j) \/ Judge(j) \/ OpenLocal(j)
           \/ Proceed(j) \/ RecvData(j)
  BY <1>5, <1>6 DEF Start, ReadPasv, ReadPort, Done, ReadRest, RequestRefused, ReadAnswer,
    AcceptNothing, Judge, OpenLocal, Proceed, RecvData, object, wires, counters
<1>7. CASE RecvEnd(j) \/ Abandon(j) \/ SendData(j)
           \/ ReadLast(j, Quiet) \/ ReadLastStored(j, Quiet) \/ ReadListed(j, Quiet)
  BY <1>5, <1>7 DEF RecvEnd, Abandon, SendData, ReadLast, ReadLastStored, ReadListed, object, counters
<1> QED
  BY <1>2, <1>3, <1>4, <1>6, <1>7 DEF ClientRuns, ClientStep

-----------------------------------------------------------------------------
(* The server takes what it is told of ports, and closes what is its own.  *)

LEMMA ServerKeepsJobs == ASSUME OneRuns, UNCHANGED job PROVE OneRuns'
BY DEF OneRuns, Running, Is

LEMMA ReceivedIsSent ==
  ASSUME TInv, NEW cmd, Receive(cmd)
  PROVE  /\ Len(commands) # 0 /\ cmd = commands[1] /\ cmd \in Command
         /\ commands' \in Seq(Command)
         /\ \A n \in 1 .. Len(commands') : \E m \in 1 .. Len(commands) : commands'[n] = commands[m]
         /\ Len(commands) = 1 => commands' = <<>>
<1>1. commands \in Seq(Command) /\ Len(commands) \in Nat /\ commands # <<>> /\ cmd = Head(commands)
  BY DEF TInv, Asked, Receive
<1>2. PICK n \in 1 .. Len(commands) : commands' = SubSeq(commands, n + 1, Len(commands))
  BY DEF Receive
<1>3. /\ commands' \in Seq(Command) /\ Len(commands') = Len(commands) - n
      /\ \A m \in 1 .. Len(commands) - n : commands'[m] = commands[n + m]
      /\ Head(commands) = commands[1] /\ Head(commands) \in Command
  BY <1>1, <1>2, Sequence
<1>4. Len(commands) = 1 => commands' = <<>>
  BY <1>3, EmptySeq
<1>5. \A m \in 1 .. Len(commands) - n : n + m \in 1 .. Len(commands)
  BY <1>1
<1> QED
  BY <1>1, <1>3, <1>4, <1>5

LEMMA HandlePorts ==
  ASSUME TInv, PortsNew, OwnSockets, HandleCommand
  PROVE  PortsNew' /\ OwnSockets'
<1>1. PICK n \in 1 .. Len(commands) :
        /\ Receive(commands[n])
        /\ \/ NotLoggedIn(commands[n])
           \/ loggedIn /\ (Pasv(commands[n]) \/ Port(commands[n]) \/ Rest(commands[n])
                           \/ FileTransfer(commands[n]) \/ FileTransferForkFails(commands[n]))
  BY DEF HandleCommand
<1> DEFINE cmd == commands[n]
<1>2. UNCHANGED <<port_sock, ports>>
  BY DEF HandleCommand, object, counters
<1>3. cmd = commands[1] /\ 1 \in 1 .. Len(commands) /\ cmd.verb = "PORT" => cmd.arg <= ports
  BY <1>1, ReceivedIsSent DEF PortsNew
<1>4. \A m \in 1 .. Len(commands') : commands'[m].verb = "PORT" => commands'[m].arg <= ports'
  BY <1>1, <1>2, ReceivedIsSent DEF PortsNew
<1>5. ASSUME UNCHANGED link \/ link' = CloseArmed PROVE \A c \in Links : link'[c].port = link[c].port
  <2>1. \A c \in Links : link[c] \in Connection
    BY DEF TInv, Wires
  <2>2. link \in [Links -> Connection]
    BY DEF TInv, Wires
  <2>3. CASE link' = CloseArmed /\ armed # 0
    <3>1. link' = [link EXCEPT ![armed].server = "closed"]
      BY <2>3 DEF CloseArmed
    <3> QED
      BY <2>1, <2>2, <3>1 DEF Connection
  <2> QED
    BY <1>5, <2>3 DEF CloseArmed
<1>6. CASE NotLoggedIn(cmd) \/ FileTransferForkFails(cmd) \/ Rest(cmd)
  <2>1. UNCHANGED <<port_port, child, link, armed, mode, served>>
    BY <1>6 DEF NotLoggedIn, FileTransferForkFails, Rest, serverVars, session
  <2> QED
    BY <1>2, <1>4, <1>5, <2>1 DEF PortsNew, OwnSockets, Live
<1>7. CASE Pasv(cmd)
  <2>1. /\ UNCHANGED <<port_port, child, served>> /\ (mode' = "MODE_PASV" \/ UNCHANGED <<armed, mode>>)
        /\ UNCHANGED link \/ link' = CloseArmed
    BY <1>7 DEF Pasv, Passive!Arm
  <2> QED
    BY <1>2, <1>4, <1>5, <2>1 DEF PortsNew, OwnSockets, Live
<1>8. CASE Port(cmd)
  <2>1. /\ port_port' = cmd.arg /\ cmd.verb = "PORT" /\ armed' = 0 /\ link' = CloseArmed
        /\ UNCHANGED <<child, served>>
    BY <1>8 DEF Port, Passive!Drop
  <2>2. cmd.arg <= ports
    BY <1>1, <1>3, <2>1, ReceivedIsSent
  <2> QED
    BY <1>2, <1>4, <1>5, <2>1, <2>2 DEF PortsNew, OwnSockets, Live
<1>9. CASE FileTransfer(cmd)
  <2>1. PICK t \in Transfers, how \in Ways(mode) : NextTransfer(t) /\ Passive!Hand(t)
                               /\ child' = [child EXCEPT ![t] = Transferring(cmd, how)]
    BY <1>9 DEF FileTransfer
  <2>2. port_port' = 0 /\ UNCHANGED link
    BY <1>9 DEF FileTransfer
  <2>3. armed' = 0 /\ served' = [served EXCEPT ![t] = armed] /\ served \in [Transfers -> 0 .. made]
    BY <2>1 DEF Passive!Hand, TInv, ServerKeeps, Sockets, Passive!TypeOK
  <2>4. Transferring(cmd, how).port = port_port /\ Transferring(cmd, how).conn = 0
    BY DEF Transferring, Unborn
  <2>5. child \in [Transfers -> Child] /\ ports \in Nat
    BY DEF TInv, ServerKeeps, ClientKeeps, Forked, Counts
  <2>6. child'[t] = Transferring(cmd, how) /\ \A u \in Transfers \ {t} : child'[u] = child[u] /\ served'[u] = served[u]
    <3> HIDE DEF cmd
    <3> QED
      BY <2>1, <2>3, <2>5
  <2>7. \A u \in Transfers : child'[u].port <= ports
    BY <2>4, <2>6 DEF PortsNew
  <2>8. \A u \in Transfers : Live(u)' => child'[u].conn \in {0, served'[u], u}
    BY <2>4, <2>6 DEF OwnSockets, Live
  <2>9. 0 <= ports
    BY <2>5
  <2> QED
    BY <1>2, <1>4, <1>5, <2>2, <2>3, <2>7, <2>8, <2>9 DEF PortsNew, OwnSockets
<1> QED
  BY <1>1, <1>6, <1>7, <1>8, <1>9

\* What a step of a transfer does: it ends, saying something or not,
Exiting(t) ==
  /\ child[t].pc \in {"setup", "begin", "streaming"} /\ Exit(t)
  /\ UNCHANGED replies \/ \E code \in Codes \ {"150"} : Says(t, code)

\* or moves a unit of data,
SameChild(u) ==
  /\ child'[u].pc = child[u].pc /\ child'[u].verb = child[u].verb /\ child'[u].mode = child[u].mode
  /\ child'[u].port = child[u].port /\ child'[u].conn = child[u].conn /\ child'[u].to = child[u].to

SameEnds(c) ==
  /\ link'[c].client = link[c].client /\ link'[c].server = link[c].server
  /\ link'[c].port = link[c].port

Streaming(t) ==
  /\ child[t].pc = "streaming"
  /\ UNCHANGED replies
  /\ \A u \in Transfers : SameChild(u)
  /\ \A c \in Links : SameEnds(c)

\* or begins to, or takes its connection.
OnlyChild(t) == \A u \in Transfers \ {t} : child'[u] = child[u]

Beginning(t) ==
  /\ child[t].pc = "begin" /\ child'[t].pc = "streaming"
  /\ child'[t].verb = child[t].verb /\ child'[t].port = child[t].port
  /\ child'[t].conn = child[t].conn /\ child'[t].to = child[t].to
  /\ OnlyChild(t) /\ UNCHANGED link /\ Says(t, "150")

Connecting(t, c) ==
  /\ child[t].pc = "setup" /\ child'[t].pc = "begin"
  /\ child'[t].verb = child[t].verb /\ child'[t].port = child[t].port
  /\ child'[t].conn = c /\ child'[t].to = child[t].to
  /\ OnlyChild(t) /\ UNCHANGED replies
  /\ \A d \in Links \ {c} : link'[d] = link[d]

Accepting(t) ==
  /\ Connecting(t, served[t]) /\ served[t] \in Links
  /\ link'[served[t]].client = link[served[t]].client /\ link'[served[t]].port = link[served[t]].port

Dialling(t) ==
  /\ Connecting(t, t) /\ child[t].mode = "MODE_PORT"
  /\ link'[t].port = child[t].port

LEMMA SetupDoes ==
  ASSUME TInv, NEW t \in Transfers, SetupDataConnection(t)
  PROVE  Accepting(t) \/ Dialling(t) \/ Exiting(t)
<1>1. /\ child[t] \in Child /\ child \in [Transfers -> Child] /\ link \in [Links -> Connection]
      /\ child[t].pc = "setup" /\ t \in Links /\ served[t] \in Links \cup {0}
  <2>1. made \in 0 .. MaxListeners /\ served[t] \in 0 .. made
    BY DEF TInv, ServerKeeps, Sockets, Passive!TypeOK
  <2>2. served[t] \in Links \cup {0}
    BY <2>1, Constants
  <2> QED
    BY <2>2, Constants DEF SetupDataConnection, TInv, ServerKeeps, Forked, Wires
<1>2. ASSUME NEW c \in Links, child' = [child EXCEPT ![t].pc = "begin", ![t].conn = c]
      PROVE  /\ OnlyChild(t) /\ child'[t].pc = "begin" /\ child'[t].verb = child[t].verb
             /\ child'[t].port = child[t].port /\ child'[t].conn = c /\ child'[t].to = child[t].to
  BY <1>1, <1>2 DEF OnlyChild, Child
<1>3. CASE /\ served[t] # 0 /\ link' = [link EXCEPT ![served[t]].server = "open"]
           /\ child' = [child EXCEPT ![t].pc = "begin", ![t].conn = served[t]]
           /\ UNCHANGED replies
  <2>1. served[t] \in Links /\ link[served[t]] \in Connection
    BY <1>1, <1>3
  <2>2. /\ link'[served[t]].client = link[served[t]].client
        /\ link'[served[t]].port = link[served[t]].port
        /\ \A d \in Links \ {served[t]} : link'[d] = link[d]
    BY <1>1, <1>3, <2>1 DEF Connection
  <2> QED
    BY <1>1, <1>2, <1>3, <2>1, <2>2 DEF Accepting, Connecting
<1>4. CASE /\ child[t].mode = "MODE_PORT" /\ UNCHANGED replies
           /\ link' = [link EXCEPT ![t] = [NoLink EXCEPT !.client = "queued", !.server = "open",
                                                        !.port = child[t].port]]
           /\ child' = [child EXCEPT ![t].pc = "begin", ![t].conn = t]
  <2> DEFINE port == child[t].port
  <2>1. link' = [link EXCEPT ![t] = [NoLink EXCEPT !.client = "queued", !.server = "open", !.port = port]]
    BY <1>4
  <2> HIDE DEF port
  <2>2. link'[t].port = port /\ \A d \in Links \ {t} : link'[d] = link[d]
    BY <1>1, <2>1 DEF NoLink
  <2> QED
    BY <1>1, <1>2, <1>4, <2>2 DEF Dialling, Connecting, port
<1>5. CASE Exit(t) /\ Says(t, "425")
  BY <1>1, <1>5 DEF Exiting, Codes
<1> QED
  BY <1>3, <1>4, <1>5 DEF SetupDataConnection

LEMMA BeginDoes ==
  ASSUME TInv, NEW t \in Transfers, Begin(t)
  PROVE  Beginning(t) \/ Exiting(t)
<1>1. child[t] \in Child /\ child \in [Transfers -> Child] /\ child[t].pc = "begin"
  BY DEF Begin, TInv, ServerKeeps, Forked
<1>2. CASE child' = [child EXCEPT ![t].pc = "streaming"] /\ Says(t, "150") /\ UNCHANGED link
  <2>1. /\ child'[t] = [child[t] EXCEPT !.pc = "streaming"] /\ OnlyChild(t)
    BY <1>1, <1>2 DEF OnlyChild
  <2> QED
    BY <1>1, <1>2, <2>1 DEF Beginning, Child
<1>3. CASE (\E code \in Refusal(t) : Says(t, code)) /\ Exit(t)
  <2>1. Refusal(t) \subseteq Codes \ {"150"}
    BY DEF Refusal, Codes
  <2> QED
    BY <1>1, <1>3, <2>1 DEF Exiting
<1> QED
  BY <1>2, <1>3 DEF Begin

LEMMA OffsetSame ==
  ASSUME child \in [Transfers -> Child], NEW t \in Transfers, NEW offset,
         child' = [child EXCEPT ![t].offset = offset]
  PROVE  \A u \in Transfers : SameChild(u)
<1>1. ASSUME NEW u \in Transfers PROVE SameChild(u)
  <2>1. /\ child[u] \in Child
        /\ child'[u] = child[u] \/ child'[u] = [child[u] EXCEPT !.offset = offset]
    OBVIOUS
  <2> QED
    BY <2>1 DEF SameChild, Child
<1> QED
  BY <1>1

LEMMA PartSame ==
  ASSUME link \in [Links -> Connection], NEW c \in Links, NEW data,
         link' = [link EXCEPT ![c].up = data] \/ link' = [link EXCEPT ![c].down = data]
  PROVE  \A d \in Links : SameEnds(d)
<1>1. ASSUME NEW d \in Links PROVE SameEnds(d)
  <2>1. /\ link[d] \in Connection
        /\ \/ link'[d] = link[d]
           \/ link'[d] = [link[d] EXCEPT !.up = data]
           \/ link'[d] = [link[d] EXCEPT !.down = data]
    OBVIOUS
  <2> QED
    BY <2>1 DEF SameEnds, Connection
<1> QED
  BY <1>1

LEMMA StreamDoes ==
  ASSUME TInv, NEW t \in Transfers, StreamOut(t) \/ StreamIn(t)
  PROVE  Streaming(t) \/ Exiting(t)
<1>1. /\ child \in [Transfers -> Child] /\ link \in [Links -> Connection]
      /\ child[t].pc = "streaming" /\ child[t].conn \in Links
  BY DEF StreamOut, StreamIn, TInv, ServerKeeps, Forked, Wires
<1>2. "551" \in Codes \ {"150"} /\ "226" \in Codes \ {"150"} /\ "451" \in Codes \ {"150"}
      /\ "426" \in Codes \ {"150"}
  BY DEF Codes
<1>3. CASE StreamOut(t)
  <2>1. CASE /\ link' = [link EXCEPT ![child[t].conn].down = Append(link[child[t].conn].down, Head(Sendable(t)))]
             /\ child' = [child EXCEPT ![t].offset = child[t].offset + 1]
             /\ UNCHANGED replies
    <3> DEFINE offset == child[t].offset + 1
               data == Append(link[child[t].conn].down, Head(Sendable(t)))
    <3>1. child' = [child EXCEPT ![t].offset = offset] /\ link' = [link EXCEPT ![child[t].conn].down = data]
      BY <2>1
    <3> HIDE DEF offset, data
    <3> QED
      BY <1>1, <2>1, <3>1, OffsetSame, PartSame DEF Streaming
  <2>2. CASE Says(t, IF TooFar(t) THEN "551" ELSE "226") /\ Exit(t)
    <3>1. Says(t, "551") \/ Says(t, "226")
      BY <2>2
    <3> QED
      BY <1>1, <1>2, <2>2, <3>1 DEF Exiting
  <2>3. CASE Exit(t) /\ (Says(t, "451") \/ Says(t, "426") \/ UNCHANGED replies)
    BY <1>1, <1>2, <2>3 DEF Exiting
  <2> QED
    BY <1>1, <1>3, <2>1, <2>2, <2>3 DEF StreamOut
<1>4. CASE StreamIn(t)
  <2>1. CASE (\E rest : link' = [link EXCEPT ![child[t].conn].up = rest]) /\ UNCHANGED <<child, replies>>
    <3>1. \A u \in Transfers : SameChild(u)
      BY <2>1 DEF SameChild
    <3> QED
      BY <1>1, <2>1, <3>1, PartSame DEF Streaming
  <2>2. CASE Exit(t) /\ (Says(t, "226") \/ UNCHANGED replies)
    BY <1>1, <1>2, <2>2 DEF Exiting
  <2> QED
    BY <1>1, <1>4, <2>1, <2>2 DEF StreamIn
<1> QED
  BY <1>3, <1>4

LEMMA ConnNotArmed ==
  ASSUME TInv, OwnSockets, NEW t \in Transfers, Live(t)
  PROVE  armed # 0 => armed # child[t].conn /\ armed # t /\ armed # served[t] /\ armed \in Links
<1>1. armed # 0 => armed \in 1 .. MaxListeners
  BY Constants DEF TInv, ServerKeeps, Sockets, Passive!TypeOK
<1>2. armed # 0 => armed # t /\ armed \in Links
  BY <1>1, FtpSystemAssumption DEF FtpSystemAssumption
<1>3. armed # 0 => armed # served[t]
  BY DEF TInv, ServerKeeps, Sockets, Passive!GivenOnce
<1> QED
  BY <1>2, <1>3 DEF OwnSockets

LEMMA ExitDoes ==
  ASSUME TInv, OwnSockets, NEW t \in Transfers, Live(t), Exit(t)
  PROVE  /\ ~Live(t)' /\ child'[t].port = 0 /\ OnlyChild(t)
         /\ \A c \in Links : link'[c].port \in {link[c].port, 0}
         /\ armed # 0 => link'[armed] = link[armed]
<1>1. child \in [Transfers -> Child] /\ link \in [Links -> Connection]
  BY DEF TInv, ServerKeeps, Forked, Wires
<1>2. child'[t] = [Unborn EXCEPT !.pc = "exited"] /\ OnlyChild(t)
  BY <1>1 DEF Exit, OnlyChild
<1>3. ~Live(t)' /\ child'[t].port = 0
  BY <1>2 DEF Unborn, Live
<1>4. \A c \in Links \ {child[t].conn} : link'[c] = link[c]
  BY <1>1 DEF Exit
<1>5. ASSUME NEW c \in Links, c = child[t].conn PROVE link'[c].port \in {link[c].port, 0}
  <2>1. c # 0 /\ link[c] \in Connection
    BY <1>1, Constants
  <2>2. link'[c] = IF link[c].client = "closed" THEN NoLink
                   ELSE [link[c] EXCEPT !.server = "closed", !.up = <<>>]
    BY <1>1, <1>5, <2>1 DEF Exit
  <2> QED
    BY <2>1, <2>2 DEF NoLink, Connection
<1> QED
  BY <1>2, <1>3, <1>4, <1>5, ConnNotArmed

LEMMA TransferDoes ==
  ASSUME TInv, NEW t \in Transfers, TransferStep(t)
  PROVE  /\ Accepting(t) \/ Dialling(t) \/ Beginning(t) \/ Streaming(t) \/ Exiting(t)
         /\ Live(t) /\ UNCHANGED <<commands, object, job, counters, astray, made, armed, served, session>>
BY SetupDoes, BeginDoes, StreamDoes DEF TransferStep, Live, Accepting, Dialling, Connecting,
  Beginning, Streaming, Exiting

LEMMA TransferPorts ==
  ASSUME TInv, PortsNew, OwnSockets, NEW t \in Transfers, TransferStep(t)
  PROVE  PortsNew' /\ OwnSockets'
<1>1. UNCHANGED <<commands, ports, port_sock, armed, served, mode, port_port>> /\ Live(t) /\ ports \in Nat
  BY TransferDoes DEF object, counters, session, TInv, ClientKeeps, Counts
<1>2. ASSUME \A u \in Transfers : child'[u].port \in {child[u].port, 0},
             \A u \in Transfers : Live(u)' => child'[u].conn \in {0, served[u], u},
             \A c \in Links : link'[c].port \in {link[c].port, 0, child[t].port}
      PROVE  PortsNew' /\ OwnSockets'
  BY <1>1, <1>2 DEF PortsNew, OwnSockets
<1>3. ASSUME OnlyChild(t), Live(t)' => child'[t].conn \in {0, served[t], t},
             child'[t].port \in {child[t].port, 0},
             \A c \in Links : link'[c].port \in {link[c].port, 0, child[t].port}
      PROVE  PortsNew' /\ OwnSockets'
  BY <1>1, <1>2, <1>3 DEF OnlyChild, OwnSockets, Live
<1>4. CASE Accepting(t) \/ Dialling(t)
  BY <1>3, <1>4 DEF Accepting, Dialling, Connecting
<1>5. CASE Beginning(t)
  BY <1>1, <1>3, <1>5 DEF Beginning, OwnSockets
<1>6. CASE Streaming(t)
  BY <1>1, <1>2, <1>6 DEF Streaming, SameChild, SameEnds, OwnSockets, Live
<1>7. CASE Exiting(t)
  BY <1>1, <1>3, <1>7, ExitDoes DEF Exiting
<1> QED
  BY <1>4, <1>5, <1>6, <1>7, TransferDoes

-----------------------------------------------------------------------------
(* The turn of the job that runs, step by step of the client.              *)

TakesTurn(j) == IF Running(j) THEN Turn(j) ELSE Settled /\ Ready

LEMMA TurnsFollow ==
  ASSUME OneRuns, NEW j \in Jobs, Running(j) \/ \A i \in Jobs : ~Running(i),
         \A i \in Jobs \ {j} : job'[i] = job[i], TakesTurn(j)'
  PROVE  Turns'
<1>1. \A i \in Jobs \ {j} : ~Running(i)'
  BY DEF OneRuns, Running
<1>2. ASSUME NEW i \in Jobs, Running(i)' PROVE Turn(i)'
  <2>1. i = j
    BY <1>1, <1>2
  <2> QED
    BY <1>2, <2>1 DEF TakesTurn
<1>3. (\A i \in Jobs : ~Running(i)') => Settled' /\ Ready'
  BY DEF TakesTurn
<1> QED
  BY <1>2, <1>3 DEF Turns

\* Between two commands, and at the end.
LEMMA CalmTurn ==
  ASSUME NEW j \in Jobs, Settled', Ready', job'[j].pc \in Goals \cup {"mode", "resume", "ended"},
         Prepared(j)'
  PROVE  TakesTurn(j)'
<1> SUFFICES ASSUME Running(j)' PROVE Turn(j)'
  BY DEF TakesTurn
<1>1. Len(commands') = 0 /\ Len(replies') = 0
  BY DEF Settled
<1>2. job'[j].pc \notin {"pasv", "port", "rested", "resumed", "answer", "accept", "judge", "recv", "send", "last"}
  BY DEF Goals, Requests, Running
<1>3. Mine(j)' /\ Orderly'
  BY <1>1 DEF Mine, Orderly, Settled, Free
<1>4. Asks(j)' /\ Answers(j)' /\ Moves(j)'
  BY <1>2 DEF Asks, Answers, Moves, At
<1> QED
  BY <1>3, <1>4 DEF Turn, Calm

\* What every step of a client's turn may assume.
Turning(j) == TInv /\ PortsNew /\ Turn(j) /\ LinksGoOn /\ UNCHANGED serverVars /\ ~astray'

LEMMA ReadyStays ==
  ASSUME TInv, LinksGoOn, UNCHANGED serverVars PROVE (Ready => Ready') /\ (Free => Free')
<1>1. armed # 0 => armed \in Links
  BY Constants DEF TInv, ServerKeeps, Sockets, Passive!TypeOK
<1>2. UNCHANGED <<armed, child>>
  BY DEF serverVars
<1> QED
  BY <1>1, <1>2 DEF Ready, LinksGoOn, LinkGoesOn, Free, Live

LEMMA QueuesStay ==
  ASSUME LinksGoOn, UNCHANGED port_sock
  PROVE  /\ \A c \in Links : Queue(c)' => Queue(c)
         /\ NoQueue => NoQueue'
BY DEF LinksGoOn, LinkGoesOn, Queue, NoQueue

\* A reply that is not 150 is the last one, and none comes but the server has ended.
LEMMA ReadSettles ==
  ASSUME TInv, Orderly, NEW j \in Jobs, NEW r, read_response(j, r, Quiet), ~astray',
         UNCHANGED <<commands, child>>,
         \A n \in 1 .. Len(replies) : replies[n].code # "150",
         Quiet /\ replies = <<>> => Free
  PROVE  Settled'
<1>1. replies \in Seq(Answer) /\ Len(replies) \in Nat
  BY DEF TInv, Wires
<1>2. Free => Free'
  BY DEF Free, Live
<1>3. CASE replies = <<>>
  <2>1. Quiet /\ replies' = <<>>
    BY <1>1, <1>3 DEF read_response
  <2> QED
    BY <1>2, <1>3, <2>1 DEF Settled, Quiet
<1>4. CASE replies # <<>>
  <2>1. 1 \in 1 .. Len(replies)
    BY <1>1, <1>4, EmptySeq
  <2>2. Len(replies) = 1 /\ Free
    BY <2>1 DEF Orderly
  <2>3. PICK n \in 1 .. Len(replies) : replies' = SubSeq(replies, n + 1, Len(replies))
    BY <1>4 DEF read_response
  <2>4. Len(replies') = Len(replies) - n /\ replies' \in Seq(Answer)
    BY <1>1, <2>3, Sequence
  <2>5. replies' = <<>>
    BY <2>2, <2>4, EmptySeq
  <2>6. commands = <<>>
    BY <1>4 DEF Orderly
  <2> QED
    BY <1>2, <2>2, <2>5, <2>6 DEF Settled
<1> QED
  BY <1>3, <1>4

LEMMA StartTurn ==
  ASSUME TInv, Settled, Ready, NEW j \in Jobs, \E c \in Commands : Start(j, c), UNCHANGED serverVars
  PROVE  TakesTurn(j)'
<1>1. PICK c \in Commands : Start(j, c)
  OBVIOUS
<1>2. job'[j].pc = "mode"
  <2> DEFINE goal == Goal(c)
  <2>1. job' = [job EXCEPT ![j].pc = "mode", ![j].cmd = c.cmd, ![j].file = c.file, ![j].goal = goal]
    BY <1>1 DEF Start
  <2> HIDE DEF goal
  <2>2. /\ job'[j] = [job[j] EXCEPT !.pc = "mode", !.cmd = c.cmd, !.file = c.file, !.goal = goal]
        /\ job[j] \in Work
    BY <2>1 DEF TInv, ClientKeeps, Works
  <2> QED
    BY <2>2 DEF Work
<1>3. UNCHANGED <<commands, replies, link, child, armed>>
  BY <1>1 DEF Start, wires, serverVars
<1>4. Settled' /\ Ready'
  BY <1>3 DEF Settled, Ready, Free, Live
<1>5. Prepared(j)'
  BY <1>2 DEF Prepared, Requests
<1> QED
  BY <1>2, <1>4, <1>5, CalmTurn

\* PASV and PORT typed by the user, and what is refused without asking.
LEMMA EndTurn ==
  ASSUME NEW j \in Jobs, Settled', Ready', FallenBack(j) \/ (\E outcome : End(j, outcome)), Works
  PROVE  TakesTurn(j)'
<1>1. job'[j].pc \in {"mode", "ended"}
  BY AfterGoal, AfterEnd DEF FallenBack
<1>2. Prepared(j)'
  BY <1>1 DEF Prepared, Requests
<1> QED
  BY <1>1, <1>2, CalmTurn

LEMMA DoneTurn ==
  ASSUME NEW j \in Jobs, Turning(j), Done(j) \/ RequestRefused(j) PROVE TakesTurn(j)'
<1>1. Settled /\ Ready
  BY DEF Turning, Turn, Calm, Done, RequestRefused, At, Goals, Requests
<1>2. UNCHANGED <<commands, replies>> /\ Works
  BY DEF Done, RequestRefused, wires, Turning, TInv, ClientKeeps
<1>3. Settled' /\ Ready'
  BY <1>1, <1>2, ReadyStays DEF Turning, Settled
<1>4. FallenBack(j) \/ \E outcome : End(j, outcome)
  BY AfterRefused DEF Done
<1> QED
  BY <1>2, <1>3, <1>4, EndTurn

\* A command sent while nothing else is under way.
SendsOnly(cmd) ==
  /\ Len(commands') = 1 /\ commands'[1] = cmd
  /\ Len(replies') = 0 /\ replies' = <<>> /\ \A t \in Transfers : ~Live(t)'

LEMMA CommandAlone ==
  ASSUME NEW j \in Jobs, Settled, NEW cmd, commands' = Append(commands, cmd), cmd.to = job'[j].serial,
         UNCHANGED <<replies, child>>
  PROVE  SendsOnly(cmd) /\ Mine(j)' /\ Orderly'
<1>1. Len(commands') = 1 /\ commands'[1] = cmd
  BY DEF Settled
<1>2. replies' = <<>> /\ Len(replies') = 0 /\ Free'
  BY DEF Settled, Free, Live
<1> QED
  BY <1>1, <1>2 DEF SendsOnly, Mine, Orderly, Free

LEMMA SendPasvTurn == ASSUME OneRuns, NEW j \in Jobs, Turning(j), SendPasv(j) PROVE TakesTurn(j)'
<1> DEFINE cmd == [verb |-> "PASV", file |-> file(j), arg |-> 0, to |-> sent + 1]
<1>1. Settled /\ Ready /\ At(j, "mode") /\ Works
  BY DEF Turning, Turn, Calm, SendPasv, At, TInv, ClientKeeps
<1>2. Send(j, "PASV", 0, "pasv") /\ UNCHANGED <<replies, child, transfer_type, port_sock>>
  BY DEF SendPasv, Turning, serverVars, object
<1>3. job'[j].pc = "pasv" /\ job'[j].goal = job[j].goal /\ job'[j].serial = sent + 1
  BY <1>1, <1>2, AfterSend
<1>4. commands' = Append(commands, cmd) /\ cmd.verb = "PASV" /\ cmd.to = sent + 1
  BY <1>2 DEF Send
<1> HIDE DEF cmd
<1>5. SendsOnly(cmd) /\ Mine(j)' /\ Orderly'
  BY <1>1, <1>2, <1>3, <1>4, CommandAlone
<1>6. Ready'
  BY <1>1, ReadyStays DEF Turning
<1>7. transfer_type' = "PORT" => job'[j].goal = "done"
  BY <1>1, <1>2, <1>3 DEF SendPasv, Active, OneRuns, Is, At, Running
<1>8. Asks(j)'
  BY <1>3, <1>4, <1>5, <1>6, <1>7 DEF Asks, At, SendsOnly, FileVerbs, Free
<1>9. Calm(j)' /\ Prepared(j)' /\ Answers(j)' /\ Moves(j)'
  BY <1>3 DEF Calm, Prepared, Answers, Moves, At, Goals, Requests
<1> QED
  BY <1>3, <1>5, <1>8, <1>9 DEF TakesTurn, Turn, Running

LEMMA SendPortTurn == ASSUME NEW j \in Jobs, Turning(j), SendPort(j) PROVE TakesTurn(j)'
<1> DEFINE cmd == [verb |-> "PORT", file |-> file(j), arg |-> ports + 1, to |-> sent + 1]
<1>1. Settled /\ Ready /\ Works
  BY DEF Turning, Turn, Calm, SendPort, At, TInv, ClientKeeps
<1>2. Send(j, "PORT", ports + 1, "port") /\ UNCHANGED <<replies, child>>
  BY DEF SendPort, Turning, serverVars
<1>3. job'[j].pc = "port" /\ job'[j].serial = sent + 1
  BY <1>1, <1>2, AfterSend
<1>4. commands' = Append(commands, cmd) /\ cmd.verb = "PORT" /\ cmd.to = sent + 1
  BY <1>2 DEF Send
<1> HIDE DEF cmd
<1>5. SendsOnly(cmd) /\ Mine(j)' /\ Orderly'
  BY <1>1, <1>2, <1>3, <1>4, CommandAlone
<1>6. Ready'
  BY <1>1, ReadyStays DEF Turning
<1>7. data_sock' \notin Links
  BY Constants DEF SendPort, None, Dead
<1>8. NoQueue'
  <2>1. port_sock' = ports + 1 /\ ports \in Nat
    BY DEF SendPort, Turning, TInv, ClientKeeps, Counts
  <2>2. \A c \in Links : link[c].port <= ports /\ link[c].port \in Nat
    BY DEF Turning, PortsNew, TInv, Wires, Connection
  <2>3. \A c \in Links : link'[c].port # ports + 1
    BY <2>1, <2>2 DEF Turning, LinksGoOn, LinkGoesOn
  <2> QED
    BY <2>1, <2>3 DEF NoQueue, Queue, None
<1>9. Asks(j)'
  BY <1>3, <1>4, <1>5, <1>6, <1>7, <1>8 DEF Asks, At, SendsOnly, FileVerbs, Free
<1>10. Calm(j)' /\ Prepared(j)' /\ Answers(j)' /\ Moves(j)'
  BY <1>3 DEF Calm, Prepared, Answers, Moves, At, Goals, Requests
<1> QED
  BY <1>3, <1>5, <1>9, <1>10 DEF TakesTurn, Turn, Running

\* The connection that is prepared stays so while nobody touches it.
LEMMA StaysPrepared ==
  ASSUME LinksGoOn, UNCHANGED <<data_sock, port_sock, armed, transfer_type>>
  PROVE  /\ OnArmed => OnArmed'
         /\ (transfer_type = "PORT" => NoQueue) => (transfer_type' = "PORT" => NoQueue')
BY QueuesStay DEF OnArmed

LEMMA SendRestTurn == ASSUME NEW j \in Jobs, Turning(j), SendRest(j) PROVE TakesTurn(j)'
<1>1. Settled /\ Ready /\ Works
  BY DEF Turning, Turn, Calm, SendRest, Goals, TInv, ClientKeeps
<1>2. \E arg : IF At(j, "rest") THEN Send(j, "REST", arg, "rested") ELSE Send(j, "REST", arg, "resumed")
  BY DEF SendRest
<1>3. PICK arg : IF At(j, "rest") THEN Send(j, "REST", arg, "rested") ELSE Send(j, "REST", arg, "resumed")
  BY <1>2
<1>4. /\ job'[j].pc \in {"rested", "resumed"} /\ job'[j].serial = sent + 1
      /\ job'[j].pc = "rested" => At(j, "rest")
  BY <1>1, <1>3, AfterSend
<1> DEFINE cmd == [verb |-> "REST", file |-> file(j), arg |-> arg, to |-> sent + 1]
<1>5. commands' = Append(commands, cmd) /\ cmd.verb = "REST" /\ cmd.to = sent + 1
  BY <1>3 DEF Send
<1>6. UNCHANGED <<replies, child, data_sock, port_sock, armed, transfer_type>>
  BY DEF SendRest, Turning, serverVars
<1> HIDE DEF cmd
<1>7. SendsOnly(cmd) /\ Mine(j)' /\ Orderly'
  BY <1>1, <1>4, <1>5, <1>6, CommandAlone
<1>8. Ready'
  BY <1>1, ReadyStays DEF Turning
<1>9. Asks(j)'
  BY <1>4, <1>5, <1>7, <1>8 DEF Asks, At, SendsOnly, FileVerbs, Free
<1>10. Prepared(j)'
  <2>1. job'[j].pc = "rested" => OnArmed /\ (transfer_type = "PORT" => NoQueue)
    BY <1>4 DEF At, Turning, Turn, Prepared
  <2>2. LinksGoOn
    BY DEF Turning
  <2> QED
    BY <1>4, <1>6, <2>1, <2>2, StaysPrepared DEF Prepared, Requests
<1>11. Calm(j)' /\ Answers(j)' /\ Moves(j)'
  BY <1>4 DEF Calm, Answers, Moves, At, Goals, Requests
<1> QED
  BY <1>4, <1>7, <1>9, <1>10, <1>11 DEF TakesTurn, Turn, Running

LEMMA RequestTurn == ASSUME NEW j \in Jobs, Turning(j), Request(j) PROVE TakesTurn(j)'
<1>1. /\ Settled /\ Ready /\ Works /\ OnArmed /\ (transfer_type = "PORT" => NoQueue)
      /\ job[j].pc \in Requests
  BY DEF Turning, Turn, Calm, Prepared, Request, Requests, Goals, TInv, ClientKeeps
<1>2. /\ job'[j].pc = "answer" /\ job'[j].goal = job[j].pc
      /\ job'[j].serial = sent + 1 /\ (job'[j].active => transfer_type = "PORT")
  BY <1>1, AfterRequest
<1> DEFINE verb == Verb(job[j].pc)
           cmd == [verb |-> verb, file |-> file(j), arg |-> 0, to |-> sent + 1]
<1>3. verb \in FileVerbs /\ Fits(verb, job'[j].goal)
  BY <1>1, <1>2 DEF Requests, Verb, FileVerbs, Fits
<1> HIDE DEF verb
<1>4. commands' = Append(commands, cmd) /\ cmd.verb = verb /\ cmd.to = sent + 1
  BY DEF Request, verb
<1>5. UNCHANGED <<replies, child, data_sock, port_sock, armed, transfer_type>>
  BY DEF Request, Turning, serverVars, object
<1> HIDE DEF cmd
<1>6. SendsOnly(cmd) /\ Mine(j)' /\ Orderly'
  BY <1>1, <1>2, <1>4, <1>5, CommandAlone
<1>7. Ready' /\ OnArmed' /\ (transfer_type' = "PORT" => NoQueue')
  BY <1>1, <1>5, ReadyStays, StaysPrepared DEF Turning
<1>8. Answers(j)'
  <2>1. Len(replies') = 0 /\ (\A t \in Transfers : ~Live(t)')
    BY <1>6 DEF SendsOnly
  <2>2. job'[j].active => NoQueue' /\ port_sock' # None
    BY <1>2, <1>5, <1>7 DEF NoQueue
  <2>3. \A n \in 1 .. Len(commands') : commands'[n].verb \in FileVerbs /\ Fits(commands'[n].verb, job'[j].goal)
    <3>1. \A n \in 1 .. Len(commands') : commands'[n] = cmd
      BY <1>6 DEF SendsOnly
    <3> QED
      BY <1>3, <1>4, <3>1 DEF Fits
  <2> QED
    BY <1>7, <2>1, <2>2, <2>3 DEF Answers, Fits
<1>9. Calm(j)' /\ Prepared(j)' /\ Asks(j)' /\ Moves(j)'
  BY <1>2 DEF Calm, Prepared, Asks, Moves, At, Goals, Requests
<1> QED
  BY <1>2, <1>6, <1>8, <1>9 DEF TakesTurn, Turn, Running

\* The client connects where the server listens: with no transfer to take the
\* socket over, that is the one that is armed.
LEMMA OfferedListens ==
  ASSUME NEW arg, Offered(arg) PROVE IF arg \in Listening THEN arg = armed /\ armed # 0 ELSE armed = 0
BY DEF Listening, Offered

LEMMA ReadPasvTurn ==
  ASSUME NEW j \in Jobs, Turning(j), ReadPasv(j, Quiet, Listening) PROVE TakesTurn(j)'
<1>1. /\ Free /\ Orderly /\ Running(j) /\ At(j, "pasv")
      /\ \A n \in 1 .. Len(replies) : replies[n].code # "150"
      /\ Ready \/ (replies # <<>> /\ replies[1].code = "227")
      /\ replies # <<>> /\ replies[1].code = "227" => Offered(replies[1].arg)
      /\ transfer_type = "PORT" => job[j].goal = "done"
  BY DEF Turning, Turn, Asks, ReadPasv, At, Running
<1>2. Works /\ Wires /\ job[j].goal \in Goals /\ data_sock \in Links \cup {None, Dead}
  BY <1>1 DEF Turning, TInv, ClientKeeps, Works, Objects
<1>3. PICK r \in Arrived :
        /\ read_response(j, r, Quiet)
        /\ IF r.code = "227" THEN Connect(r.arg, Listening)
           ELSE /\ link' = CloseLink(data_sock)
                /\ data_sock' = IF data_sock = None THEN None ELSE Dead
                /\ UNCHANGED transfer_type
  BY DEF ReadPasv
<1>4. UNCHANGED <<commands, child, armed>>
  BY DEF ReadPasv, Turning, serverVars
<1>5. Settled'
  BY <1>1, <1>3, <1>4, ReadSettles DEF Turning
<1>6. job'[j].pc = job[j].goal
  BY <1>2, AfterGoTo DEF ReadPasv, ModeSet
<1>7. /\ Ready'
      /\ data_sock' \in {armed, None, Dead}
      /\ transfer_type' = "PASV" \/ UNCHANGED transfer_type
  <2>1. r.code = "227" => Offered(r.arg)
    <3>1. r.code = "227" => replies # <<>> /\ r = replies[1]
      BY <1>2, <1>3 DEF read_response, NoReply, Wires
    <3> QED
      BY <1>1, <3>1
  <2>2. CASE r.code = "227" /\ r.arg \in Listening
    <3>1. r.arg = armed /\ r.arg \in Nat /\ Listening \in SUBSET Links
      <4>1. Listening \subseteq 1 .. MaxListeners
        BY ListeningTyped DEF Turning, TInv, ServerKeeps
      <4> QED
        BY <2>1, <2>2, <4>1, OfferedListens, Constants
    <3>2. link'[armed].server = "queued"
      BY <1>2, <1>3, <2>2, <3>1, ConnectGoesOn
    <3> QED
      BY <1>3, <1>4, <2>2, <3>1, <3>2 DEF Connect, Ready
  <2>3. CASE r.code = "227" /\ r.arg \notin Listening
    <3>1. data_sock' = Dead /\ UNCHANGED transfer_type
      BY <1>3, <2>3 DEF Connect
    <3>2. armed = 0
      BY <2>1, <2>3, OfferedListens
    <3> QED
      BY <1>4, <3>1, <3>2 DEF Ready
  <2>4. CASE r.code # "227"
    <3>1. data_sock' \in {None, Dead} /\ UNCHANGED transfer_type
      BY <1>3, <2>4
    <3>2. Ready
      BY <1>1, <1>3, <2>4 DEF read_response, Turning, TInv, Wires
    <3> QED
      BY <3>1, <3>2, ReadyStays DEF Turning
  <2> QED
    BY <2>2, <2>3, <2>4
<1>8. Prepared(j)'
  <2>1. OnArmed'
    BY <1>4, <1>7, Constants DEF OnArmed, None, Dead
  <2>2. job[j].goal # "done" => transfer_type' # "PORT"
    BY <1>1, <1>7
  <2> QED
    BY <1>6, <2>1, <2>2 DEF Prepared, Requests
<1> QED
  BY <1>2, <1>5, <1>6, <1>7, <1>8, CalmTurn

LEMMA ReadPortTurn ==
  ASSUME NEW j \in Jobs, Turning(j), ReadPort(j, Quiet) PROVE TakesTurn(j)'
<1>1. /\ Free /\ Orderly /\ Running(j) /\ Ready /\ data_sock \notin Links /\ NoQueue
      /\ \A n \in 1 .. Len(replies) : replies[n].code # "150"
  BY DEF Turning, Turn, Asks, ReadPort, At, Running
<1>2. Works /\ job[j].goal \in Goals
  BY <1>1 DEF Turning, TInv, ClientKeeps, Works
<1>3. UNCHANGED <<commands, child, link, data_sock, port_sock>>
  BY DEF ReadPort, Turning, serverVars
<1>4. Settled'
  BY <1>1, <1>3, ReadSettles DEF Turning, ReadPort
<1>5. job'[j].pc = job[j].goal
  BY <1>2, AfterGoTo DEF ReadPort, ModeSet
<1>6. Ready' /\ Prepared(j)'
  BY <1>1, <1>3, ReadyStays, QueuesStay DEF Turning, Prepared, OnArmed
<1> QED
  BY <1>2, <1>4, <1>5, <1>6, CalmTurn

LEMMA ReadRestTurn ==
  ASSUME NEW j \in Jobs, Turning(j), ReadRest(j, Quiet) PROVE TakesTurn(j)'
<1>1. /\ Free /\ Orderly /\ Ready /\ job[j].pc \in {"rested", "resumed"}
      /\ \A n \in 1 .. Len(replies) : replies[n].code # "150"
  BY DEF Turning, Turn, Asks, ReadRest
<1>2. UNCHANGED <<commands, child, data_sock, port_sock, armed, transfer_type>> /\ Works
  BY DEF ReadRest, Turning, serverVars, TInv, ClientKeeps
<1>3. Settled'
  BY <1>1, <1>2, ReadSettles DEF Turning, ReadRest
<1>4. job'[j].pc = IF At(j, "rested") THEN "retr" ELSE "mode"
  BY <1>2, AfterRest
<1>5. Ready'
  BY <1>1, ReadyStays DEF Turning
<1>6. Prepared(j)'
  <2>1. At(j, "rested") => OnArmed /\ (transfer_type = "PORT" => NoQueue)
    BY DEF At, Turning, Turn, Prepared
  <2>2. LinksGoOn
    BY DEF Turning
  <2> QED
    BY <1>2, <1>4, <2>1, <2>2, StaysPrepared DEF Prepared, Requests
<1> QED
  BY <1>3, <1>4, <1>5, <1>6, CalmTurn DEF Goals, Requests

\* A transfer that the client still has to do something for has begun.
LEMMA AnswerComes ==
  ASSUME TInv, NEW j \in Jobs, Turn(j), At(j, "answer"), Quiet, replies = <<>>
  PROVE  Free
<1> SUFFICES ASSUME NEW t \in Transfers, Live(t) PROVE FALSE
  BY DEF Free
<1>1. Started(j, t)
  BY DEF Turn, Answers
<1>2. child[t].pc # "streaming"
  BY <1>1 DEF Started
<1>3. WaitsForClient(t)
  BY DEF Quiet
<1> QED
  BY <1>1, <1>2, <1>3 DEF Started, WaitsForClient, Live

LEMMA ReadAnswerTurn ==
  ASSUME NEW j \in Jobs, Turning(j), ReadAnswer(j, Quiet) PROVE TakesTurn(j)'
<1>1. Orderly /\ Mine(j) /\ Ready /\ At(j, "answer") /\ TInv
      /\ (\A n \in 1 .. Len(replies) : replies[n].code = "150" => n = 1)
      /\ (job[j].active => port_sock # None)
  BY DEF Turning, Turn, Answers, ReadAnswer
<1>2. PICK r \in Arrived :
        /\ read_response(j, r, Quiet)
        /\ job'[j].goal = job[j].goal /\ job'[j].serial = job[j].serial
        /\ job'[j].port = port_sock /\ job'[j].response = {r.code}
        /\ job'[j].pc = IF job[j].active THEN "accept" ELSE "judge"
  BY <1>1, AfterAnswer DEF TInv, ClientKeeps
<1>3. UNCHANGED <<commands, child, link, data_sock, port_sock, armed>> /\ ~astray'
  BY DEF ReadAnswer, Turning, serverVars, object
<1>4. Ready'
  BY <1>1, <1>3 DEF Ready
<1>5. Calm(j)' /\ Prepared(j)' /\ Asks(j)' /\ Answers(j)'
  BY <1>2 DEF Calm, Prepared, Asks, Answers, At, Goals, Requests
<1>6. Len(replies) \in Nat /\ replies \in Seq(Answer)
  BY <1>1 DEF TInv, Wires
<1>7. CASE replies # <<>> /\ r.code = "150"
  <2>1. PICK n \in 1 .. Len(replies) : replies' = SubSeq(replies, n + 1, Len(replies))
    BY <1>2, <1>7 DEF read_response
  <2>2. /\ Len(replies') = Len(replies) - n
        /\ \A m \in 1 .. Len(replies) - n : replies'[m] = replies[n + m]
    BY <1>6, <2>1, Sequence
  <2>3. \A m \in 1 .. Len(replies') : n + m \in 1 .. Len(replies) /\ n + m # 1 /\ replies'[m] = replies[n + m]
    BY <1>6, <2>2
  <2>4. \A m \in 1 .. Len(replies') : replies'[m].code # "150"
    BY <1>1, <2>3
  <2>5. commands' = <<>> /\ Len(commands') = 0
    BY <1>1, <1>3, <1>7 DEF Orderly
  <2>6. Mine(j)'
    <3>1. \A m \in 1 .. Len(replies') : replies'[m].to = job'[j].serial
      BY <1>1, <1>2, <2>3 DEF Mine
    <3>2. \A t \in Transfers : Live(t)' => child'[t].to = job'[j].serial
      BY <1>1, <1>2, <1>3 DEF Mine, Live
    <3> QED
      BY <2>5, <3>1, <3>2 DEF Mine
  <2>7. Orderly'
    <3>1. \A m \in 1 .. Len(replies') : n + m = Len(replies) => m = Len(replies')
      <4>1. Len(replies') = Len(replies) - n
        BY <2>2
      <4> QED
        BY <1>6, <4>1
    <3>2. \A m \in 1 .. Len(replies') : replies'[m].code # "150" => m = Len(replies') /\ Free'
      BY <1>1, <1>3, <2>3, <3>1 DEF Orderly, Free, Live
    <3> QED
      BY <1>1, <1>3, <2>5, <3>2 DEF Orderly, Live
  <2>8. \A t \in Transfers : Live(t) => Begun(j, t)'
    <3> SUFFICES ASSUME NEW t \in Transfers, Live(t) PROVE Begun(j, t)'
      OBVIOUS
    <3>1. Started(j, t)
      BY <1>1 DEF Turning, Turn, Answers
    <3>2. child[t].pc = "streaming" /\ Fits(child[t].verb, job'[j].goal)
      BY <1>2, <1>7, <3>1 DEF Started
    <3>3. job'[j].pc = "accept" => \A c \in Links : Queue(c)' => child[t].conn = c
      BY <1>2, <1>3, <3>1 DEF Started, Queue
    <3>4. data_sock \in Links => data_sock = child[t].conn
      BY <3>1, <3>2 DEF Started
    <3> QED
      BY <1>2, <1>3, <3>2, <3>3, <3>4 DEF Begun, At
  <2>9. Moves(j)'
    <3>1. job'[j].response = {"150"} /\ (At(j, "accept")' => job'[j].port = port_sock' /\ port_sock' # None)
      BY <1>1, <1>2, <1>3, <1>7 DEF At
    <3>2. \A t \in Transfers : Live(t)' => Begun(j, t)'
      BY <1>3, <2>8 DEF Live
    <3>3. ~At(j, "recv")'
      BY <1>2 DEF At
    <3> QED
      BY <1>4, <2>4, <2>5, <3>1, <3>2, <3>3 DEF Moves
  <2> QED
    BY <1>2, <1>5, <2>6, <2>7, <2>9 DEF TakesTurn, Turn, Running
<1>8. CASE replies = <<>> \/ r.code # "150"
  <2>1. \A n \in 1 .. Len(replies) : replies[n].code # "150"
    <3>1. replies # <<>> => r = replies[1]
      BY <1>2, <1>6 DEF read_response
    <3>2. replies = <<>> => Len(replies) = 0
      BY <1>6
    <3> QED
      BY <1>1, <1>6, <1>8, <3>1, <3>2
  <2>2. Quiet /\ replies = <<>> => Free
    BY <1>1, AnswerComes DEF Turning
  <2>3. Settled'
    BY <1>1, <1>2, <1>3, <2>1, <2>2, ReadSettles
  <2>4. /\ Len(commands') = 0 /\ Len(replies') = 0 /\ commands' = <<>>
        /\ \A t \in Transfers : ~Live(t)'
    BY <2>3 DEF Settled, Free
  <2>5. Mine(j)' /\ Orderly'
    BY <2>3, <2>4 DEF Mine, Orderly, Settled
  <2>6. Moves(j)'
    <3>1. (At(j, "accept")' => job'[j].port = port_sock' /\ port_sock' # None) /\ ~At(j, "recv")'
      BY <1>1, <1>2, <1>3 DEF At
    <3> QED
      BY <1>4, <2>3, <2>4, <3>1 DEF Moves
  <2> QED
    BY <1>2, <1>5, <2>5, <2>6 DEF TakesTurn, Turn, Running
<1> QED
  BY <1>7, <1>8

\* While a transfer is on its way: what is said and done with the connection stays
\* in the hands of the job.
LEMMA MovingOn ==
  ASSUME NEW j \in Jobs, Turning(j), job[j].pc \in {"accept", "judge", "recv", "send"},
         job'[j].pc \in {"judge", "recv", "send", "last"},
         KeepsAnswer(j), job'[j].goal = job[j].goal, job'[j].serial = job[j].serial,
         UNCHANGED <<commands, replies>>,
         At(j, "recv")' => job[j].goal \in {"retr", "list"},
         \A t \in Transfers : Live(t) /\ Begun(j, t) =>
           /\ job'[j].pc # "last" => (data_sock' \in Links => data_sock' = child[t].conn)
           /\ At(j, "last")' /\ job[j].goal \in {"stor", "appe"} => link'[child[t].conn].client = "closed"
  PROVE  TakesTurn(j)'
<1>1. /\ Ready /\ commands = <<>> /\ Mine(j) /\ Orderly
      /\ \A n \in 1 .. Len(replies) : replies[n].code # "150"
      /\ job[j].response = {"150"} \/ Settled
      /\ \A t \in Transfers : Live(t) => Begun(j, t)
  BY DEF Turning, Turn, Moves
<1>2. UNCHANGED child
  BY DEF Turning, serverVars
<1>3. Ready'
  BY <1>1, ReadyStays DEF Turning
<1>4. Mine(j)' /\ Orderly'
  BY <1>1, <1>2 DEF Mine, Orderly, Free, Live
<1>5. job'[j].response = {"150"} \/ Settled'
  BY <1>1, <1>2 DEF KeepsAnswer, Settled, Free, Live
<1>6. \A t \in Transfers : Live(t)' => Begun(j, t)'
  BY <1>1, <1>2 DEF Begun, Live, At
<1>7. Moves(j)'
  BY <1>1, <1>3, <1>5, <1>6 DEF Moves, At
<1>8. Calm(j)' /\ Prepared(j)' /\ Asks(j)' /\ Answers(j)'
  BY DEF Calm, Prepared, Asks, Answers, At, Goals, Requests
<1> QED
  BY <1>4, <1>7, <1>8 DEF TakesTurn, Turn, Running

LEMMA AcceptDataTurn == ASSUME NEW j \in Jobs, Turning(j), AcceptData(j) PROVE TakesTurn(j)'
<1>1. At(j, "accept") /\ job[j].port = port_sock /\ port_sock # None /\ Works
  BY DEF Turning, Turn, Moves, AcceptData, At, TInv, ClientKeeps
<1>2. PICK c \in Links : Queue(c) /\ data_sock' = c
  BY <1>1 DEF AcceptData, Queue
<1>3. GoTo(j, "judge") /\ UNCHANGED <<commands, replies>>
  BY <1>1 DEF AcceptData
<1>4. /\ KeepsAnswer(j) /\ job'[j].pc = "judge" /\ job'[j].goal = job[j].goal
      /\ job'[j].serial = job[j].serial
  BY <1>1, <1>3, AfterGoTo
<1> QED
  BY <1>1, <1>2, <1>3, <1>4, MovingOn DEF Begun, At

\* A job that has nothing to accept on ends; it cannot come to that in its turn.
LEMMA AcceptNothingTurn == ASSUME NEW j \in Jobs, Turning(j), AcceptNothing(j) PROVE FALSE
BY DEF Turning, Turn, Moves, AcceptNothing, At

LEMMA JudgeTurn == ASSUME NEW j \in Jobs, Turning(j), Judge(j) PROVE TakesTurn(j)'
<1>1. Ready /\ Settled /\ Works
  <2>1. job[j].response # {"150"}
    BY DEF Judge
  <2> QED
    BY <2>1 DEF Turning, Turn, Moves, Judge, At, TInv, ClientKeeps
<1>2. UNCHANGED <<commands, replies>> /\ \E outcome : End(j, outcome)
  BY DEF Judge, Raise
<1>3. Settled' /\ Ready'
  BY <1>1, <1>2, ReadyStays DEF Turning, Settled
<1> QED
  BY <1>1, <1>2, <1>3, EndTurn

LEMMA GoOnTurn ==
  ASSUME NEW j \in Jobs, Turning(j), OpenLocal(j) \/ Proceed(j) PROVE TakesTurn(j)'
<1>1. At(j, "judge") /\ Works /\ UNCHANGED <<commands, replies, data_sock>>
  BY DEF OpenLocal, Proceed, wires, object, Turning, TInv, ClientKeeps
<1>2. /\ KeepsAnswer(j) /\ job'[j].goal = job[j].goal /\ job'[j].serial = job[j].serial
      /\ job'[j].pc \in {"recv", "send"} /\ (job'[j].pc = "recv" => job[j].goal \in {"retr", "list"})
  BY <1>1, AfterGoTo, AfterProceed DEF OpenLocal
<1> QED
  BY <1>1, <1>2, MovingOn DEF Begun, At

LEMMA RecvDataTurn == ASSUME NEW j \in Jobs, Turning(j), RecvData(j) PROVE TakesTurn(j)'
<1>1. At(j, "recv") /\ Works /\ UNCHANGED <<commands, replies, data_sock>>
  BY DEF RecvData, object, Turning, TInv, ClientKeeps
<1>2. /\ KeepsAnswer(j) /\ job'[j].goal = job[j].goal /\ job'[j].serial = job[j].serial
      /\ job'[j].pc = "recv" /\ job[j].goal \in {"retr", "list"}
  BY <1>1, AfterRecv DEF At, Turning, Turn, Moves
<1> QED
  BY <1>1, <1>2, MovingOn DEF Begun, At

LEMMA RecvEndTurn == ASSUME NEW j \in Jobs, Turning(j), RecvEnd(j) PROVE TakesTurn(j)'
<1>1. At(j, "recv") /\ Works /\ UNCHANGED <<commands, replies>> /\ GoTo(j, "last")
  BY DEF RecvEnd, Turning, TInv, ClientKeeps
<1>2. /\ KeepsAnswer(j) /\ job'[j].goal = job[j].goal /\ job'[j].serial = job[j].serial
      /\ job'[j].pc = "last" /\ job[j].goal \in {"retr", "list"}
  BY <1>1, AfterGoTo DEF At, Turning, Turn, Moves
<1> QED
  BY <1>1, <1>2, MovingOn DEF At

LEMMA SendDataTurn == ASSUME NEW j \in Jobs, Turning(j), SendData(j) PROVE TakesTurn(j)'
<1>1. At(j, "send") /\ Works /\ UNCHANGED <<commands, replies>> /\ GoTo(j, "last")
  BY DEF SendData, Turning, TInv, ClientKeeps
<1>2. /\ KeepsAnswer(j) /\ job'[j].goal = job[j].goal /\ job'[j].serial = job[j].serial
      /\ job'[j].pc = "last"
  BY <1>1, AfterGoTo
<1>3. data_sock \in Links /\ link'[data_sock].client = "closed"
  <2>1. link \in [Links -> Connection] /\ link[data_sock] \in Connection /\ data_sock \in Links
    BY DEF SendData, Connected, Turning, TInv, Wires
  <2> DEFINE from == IF job[j].goal = "appe" THEN job[j].size ELSE 0
             data == local[file(j)].data
             up == link[data_sock].up \o SubSeq(data, from + 1, Len(data))
  <2>2. link' = [link EXCEPT ![data_sock].client = "closed", ![data_sock].up = up]
    BY <2>1 DEF SendData
  <2> HIDE DEF up
  <2>3. link'[data_sock] = [link[data_sock] EXCEPT !.client = "closed", !.up = up]
    BY <2>1, <2>2
  <2> QED
    BY <2>1, <2>3 DEF Connection
<1>4. \A t \in Transfers : Begun(j, t) => link'[child[t].conn].client = "closed"
  BY <1>1, <1>3 DEF Begun, At
<1> QED
  BY <1>1, <1>2, <1>4, MovingOn DEF At

\* At the last reply of a transfer that stores the client has closed, so that the
\* server ends; one that sends ends of itself.
LEMMA LastComes ==
  ASSUME TInv, NEW j \in Jobs, Turn(j), At(j, "last"), Quiet
  PROVE  Free
<1> SUFFICES ASSUME NEW t \in Transfers, Live(t) PROVE FALSE
  BY DEF Free
<1>1. Begun(j, t) /\ child[t].verb \in FileVerbs
  BY DEF Turn, Moves, At, TInv, ServerKeeps, Forked
<1>2. WaitsForClient(t)
  BY DEF Quiet
<1> QED
  BY <1>1, <1>2 DEF Begun, WaitsForClient, Runs, Fits, At

LEMMA ReadLastTurn ==
  ASSUME NEW j \in Jobs, Turning(j),
         ReadLast(j, Quiet) \/ ReadLastStored(j, Quiet) \/ ReadListed(j, Quiet)
  PROVE  TakesTurn(j)'
<1>1. /\ At(j, "last") /\ Orderly /\ Ready /\ Works
      /\ \A n \in 1 .. Len(replies) : replies[n].code # "150"
  BY DEF Turning, Turn, Moves, ReadLast, ReadLastStored, ReadListed, At, TInv, ClientKeeps
<1>2. UNCHANGED <<commands, child>>
  BY DEF ReadLast, ReadLastStored, ReadListed, Turning, serverVars
<1>3. \E r \in Arrived : read_response(j, r, Quiet)
  BY DEF ReadLast, ReadLastStored, ReadListed
<1>4. Settled' /\ Ready'
  BY <1>1, <1>2, <1>3, LastComes, ReadSettles, ReadyStays DEF Turning
<1>5. \/ \E outcome : End(j, outcome)
      \/ \E goal : \E pc \in {"mode", "resume"} : job' = [job EXCEPT ![j].pc = pc, ![j].goal = goal]
  <2>1. CASE ReadLast(j, Quiet) \/ ReadLastStored(j, Quiet)
    BY <2>1 DEF ReadLast, ReadLastStored, Raise
  <2>2. CASE ReadListed(j, Quiet)
    <3>1. ASSUME job' = [job EXCEPT ![j].pc = IF Is(j, {"reget"}) THEN "resume" ELSE "mode",
                                    ![j].goal = "appe"]
          PROVE  \E goal : \E pc \in {"mode", "resume"} : job' = [job EXCEPT ![j].pc = pc, ![j].goal = goal]
      <4> DEFINE pc == IF Is(j, {"reget"}) THEN "resume" ELSE "mode"
      <4>1. pc \in {"mode", "resume"}
        OBVIOUS
      <4>2. job' = [job EXCEPT ![j].pc = pc, ![j].goal = "appe"]
        BY <3>1
      <4> HIDE DEF pc
      <4> QED
        BY <4>1, <4>2
    <3> QED
      BY <2>2, <3>1 DEF ReadListed, Raise
  <2> QED
    BY <2>1, <2>2
<1>6. job'[j].pc \in {"mode", "resume", "ended"}
  BY <1>1, <1>5, AfterEnd, AfterGoal
<1>7. Prepared(j)'
  BY <1>6 DEF Prepared, Requests
<1> QED
  BY <1>4, <1>6, <1>7, CalmTurn

LEMMA ClientTakesTurn ==
  ASSUME PoolSize = 1, TInv, OneRuns, PortsNew, Turns, NEW j \in Jobs, ClientRuns(j), ~astray'
  PROVE  Turns'
<1>1. /\ \A i \in Jobs \ {j} : job'[i] = job[i]
      /\ LinksGoOn /\ UNCHANGED serverVars
  BY OthersWait, ClientLinks DEF ClientRuns
<1>2. CASE \E c \in Commands : Start(j, c)
  <2>1. \A i \in Jobs : ~Running(i)
    BY <1>2, RoomForOne DEF Start
  <2>2. TakesTurn(j)'
    BY <1>1, <1>2, <2>1, StartTurn DEF Turns
  <2> QED
    BY <1>1, <2>1, <2>2, TurnsFollow
<1>3. CASE Running(j)
  <2>1. Turning(j)
    BY <1>1, <1>3 DEF Turning, Turns
  <2>2. ~Abandon(j)
    BY DEF Abandon
  <2>3. ~\E c \in Commands : Start(j, c)
    BY <1>3 DEF Start, At, Running
  <2>4. TakesTurn(j)'
    BY <2>1, <2>2, <2>3, SendPasvTurn, ReadPasvTurn, SendPortTurn, ReadPortTurn, DoneTurn, SendRestTurn,
      ReadRestTurn, RequestTurn, ReadAnswerTurn, AcceptDataTurn, AcceptNothingTurn, JudgeTurn,
      GoOnTurn, RecvDataTurn, RecvEndTurn, SendDataTurn, ReadLastTurn DEF ClientRuns, ClientStep
  <2> QED
    BY <1>1, <1>3, <2>4, TurnsFollow
<1> QED
  BY <1>2, <1>3, OthersWait

-----------------------------------------------------------------------------
(* The turn of the job that runs, step by step of the server.              *)

\* The command that is handled is the one the job has sent.
Asking == {"pasv", "port", "rested", "resumed", "answer"}

Handling(j, cmd) ==
  /\ TInv /\ OwnSockets /\ Turn(j) /\ job[j].pc \in Asking
  /\ cmd = commands[1] /\ Len(commands) = 1 /\ cmd.to = job[j].serial
  /\ replies = <<>> /\ Free
  /\ commands' = <<>> /\ UNCHANGED <<data_sock, port_sock, transfer_type, job>> /\ ~astray'

LEMMA HandlingStarts ==
  ASSUME TInv, OwnSockets, HandleCommand, ~astray', NEW j \in Jobs, Running(j), Turn(j),
         NEW cmd, Receive(cmd)
  PROVE  Handling(j, cmd)
<1>1. Len(commands) # 0 /\ cmd = commands[1] /\ (Len(commands) = 1 => commands' = <<>>)
  BY ReceivedIsSent
<1>2. Len(commands) = 1 /\ replies = <<>> /\ Free /\ commands # <<>>
  BY <1>1 DEF Turn, Orderly
<1>3. cmd.to = job[j].serial
  BY <1>1, <1>2 DEF Turn, Mine
<1>4. job[j].pc \in Asking
  <2>1. job[j].pc \in Points
    BY DEF TInv, ClientKeeps, Works, Work
  <2>2. job[j].pc \notin Goals \cup {"mode", "resume"}
    BY <1>2 DEF Turn, Calm, Settled
  <2>3. job[j].pc \notin {"accept", "judge", "recv", "send", "last"}
    BY <1>2 DEF Turn, Moves
  <2> QED
    BY <2>1, <2>2, <2>3 DEF Points, Reading, Asking, Running
<1> QED
  BY <1>1, <1>2, <1>3, <1>4 DEF Handling, HandleCommand, object

\* It is answered, or nothing is said, and no transfer is started.
LEMMA SaidTurn ==
  ASSUME NEW j \in Jobs, NEW cmd, Handling(j, cmd),
         UNCHANGED child, \A c \in Links : link'[c].client = link[c].client /\ link'[c].port = link[c].port,
         \/ UNCHANGED replies /\ Ready'
         \/ \E arg : \E code \in Codes \ {"150"} :
              Reply(cmd, code, arg) /\ (Ready' \/ (At(j, "pasv") /\ code = "227"))
              /\ (code = "227" => Offered(arg)'),
         At(j, "rested") => UNCHANGED armed
  PROVE  Turn(j)'
<1>1. \/ replies' = <<>> /\ Ready'
      \/ \E arg : \E code \in Codes \ {"150"} :
           /\ replies' = <<[code |-> code, arg |-> arg, to |-> job[j].serial]>>
           /\ Ready' \/ (At(j, "pasv") /\ code = "227")
           /\ code = "227" => Offered(arg)'
  <2>1. CASE UNCHANGED replies /\ Ready'
    BY <2>1 DEF Handling
  <2>2. ASSUME NEW code \in Codes \ {"150"}, NEW arg, Reply(cmd, code, arg)
        PROVE  replies' = <<[code |-> code, arg |-> arg, to |-> job[j].serial]>>
    <3> DEFINE answer == [code |-> code, arg |-> arg, to |-> job[j].serial]
    <3>1. replies' = Append(<<>>, answer)
      BY <2>2 DEF Reply, Handling
    <3> HIDE DEF answer
    <3>2. replies' = <<answer>>
      BY <3>1
    <3> QED
      BY <3>2 DEF answer
  <2> QED
    BY <2>1, <2>2
<1>2. /\ \A n \in 1 .. Len(replies') :
           /\ n = 1 /\ n = Len(replies') /\ replies'[n].code # "150" /\ replies'[n].to = job[j].serial
      /\ Ready' \/ (At(j, "pasv") /\ replies' # <<>> /\ replies'[1].code = "227")
      /\ replies' # <<>> /\ replies'[1].code = "227" => Offered(replies[1].arg)'
  <2>1. CASE replies' = <<>> /\ Ready'
    BY <2>1
  <2>2. CASE ~(replies' = <<>> /\ Ready')
    <3>1. PICK arg : \E code \in Codes \ {"150"} :
           /\ replies' = <<[code |-> code, arg |-> arg, to |-> job[j].serial]>>
           /\ Ready' \/ (At(j, "pasv") /\ code = "227")
           /\ code = "227" => Offered(arg)'
      BY <1>1, <2>2
    <3>2. PICK code \in Codes \ {"150"} :
           /\ replies' = <<[code |-> code, arg |-> arg, to |-> job[j].serial]>>
           /\ Ready' \/ (At(j, "pasv") /\ code = "227")
           /\ code = "227" => Offered(arg)'
      BY <3>1
    <3> DEFINE answer == [code |-> code, arg |-> arg, to |-> job[j].serial]
    <3>3. answer.code = code /\ answer.arg = arg /\ answer.to = job[j].serial
      OBVIOUS
    <3>4. replies' = <<answer>>
      BY <3>2
    <3> HIDE DEF answer
    <3>5. Len(replies') = 1 /\ replies'[1] = answer /\ replies' # <<>>
      BY <3>4
    <3> QED
      BY <3>2, <3>3, <3>5
  <2> QED
    BY <2>1, <2>2
<1>3. Free' /\ (\A t \in Transfers : ~Live(t)') /\ Len(commands') = 0 /\ commands' = <<>> /\ UNCHANGED job
  BY DEF Handling, Free, Live
<1>4. job[j].pc \in Asking /\ Turn(j)
  BY DEF Handling
<1>5. Mine(j)' /\ Orderly'
  BY <1>2, <1>3 DEF Mine, Orderly
<1>6. Calm(j)' /\ Moves(j)'
  BY <1>3, <1>4 DEF Calm, Moves, Asking, Goals, Requests, At
<1>7. NoQueue => NoQueue'
  BY DEF NoQueue, Queue, Handling
<1>8. Prepared(j)'
  BY <1>3, <1>4, <1>7 DEF Prepared, Turn, Asking, Requests, OnArmed, Handling, At
<1>9. Asks(j)'
  BY <1>2, <1>3, <1>4, <1>7 DEF Asks, Turn, Handling, At
<1>10. Answers(j)'
  BY <1>2, <1>3, <1>4 DEF Answers, Turn, Handling, At
<1> QED
  BY <1>5, <1>6, <1>8, <1>9, <1>10 DEF Turn

\* Closing the socket that was armed leaves the clients' ends alone.
LEMMA CloseArmedEnds ==
  ASSUME TInv, link' = CloseArmed \/ UNCHANGED link
  PROVE  \A c \in Links : link'[c].client = link[c].client /\ link'[c].port = link[c].port
<1>1. link \in [Links -> Connection]
  BY DEF TInv, Wires
<1>2. CASE armed # 0 /\ link' = [link EXCEPT ![armed].server = "closed"]
  BY <1>1, <1>2 DEF Connection
<1> QED
  BY <1>2 DEF CloseArmed

LEMMA PasvTurn == ASSUME NEW j \in Jobs, NEW cmd, Handling(j, cmd), Pasv(cmd) PROVE Turn(j)'
<1>1. At(j, "pasv") /\ Ready
  BY DEF Handling, Pasv, Turn, Asks, Answers, Asking, FileVerbs, At
<1>2. CASE Passive!Arm /\ link' = CloseArmed /\ Reply(cmd, "227", made')
  <2>1. Offered(made)'
    <3>1. made \in Nat /\ \A t \in Transfers : served[t] \in 0 .. made
      BY DEF Handling, TInv, ServerKeeps, Sockets, Passive!TypeOK
    <3>2. made' = made + 1 /\ armed' \in {0, made'} /\ UNCHANGED served
      BY <1>2 DEF Passive!Arm
    <3> QED
      BY <3>1, <3>2 DEF Offered
  <2>2. "227" \in Codes \ {"150"}
    BY DEF Codes
  <2> QED
    BY <1>1, <1>2, <2>1, <2>2, CloseArmedEnds, SaidTurn DEF Handling, Pasv, At
<1>3. CASE UNCHANGED <<armed, link, replies>>
  <2>1. Ready'
    BY <1>1, <1>3 DEF Ready
  <2> QED
    BY <1>3, <2>1, CloseArmedEnds, SaidTurn DEF Handling, Pasv
<1> QED
  BY <1>2, <1>3 DEF Pasv, Handling

LEMMA PortTurn == ASSUME NEW j \in Jobs, NEW cmd, Handling(j, cmd), Port(cmd) PROVE Turn(j)'
<1>1. ~At(j, "rested")
  BY DEF Handling, Port, Turn, Asks, At
<1>2. Ready'
  BY DEF Port, Passive!Drop, Ready
<1>3. "200" \in Codes \ {"150"}
  BY DEF Codes
<1> QED
  BY <1>1, <1>2, <1>3, CloseArmedEnds, SaidTurn DEF Handling, Port

\* REST, and what is refused.
LEMMA ToldTurn ==
  ASSUME NEW j \in Jobs, NEW cmd, Handling(j, cmd),
         NotLoggedIn(cmd) \/ Rest(cmd) \/ FileTransferForkFails(cmd)
  PROVE  Turn(j)'
<1>1. Ready
  BY DEF Handling, Turn, Asks, Answers, Asking, At
<1>2. UNCHANGED <<link, armed, child>>
  BY DEF NotLoggedIn, Rest, FileTransferForkFails, serverVars
<1>3. Ready'
  BY <1>1, <1>2 DEF Ready
<1>4. {"530", "350", "451"} \subseteq Codes \ {"150", "227"}
  BY DEF Codes
<1>5. \E arg : \E code \in Codes \ {"150", "227"} : Reply(cmd, code, arg)
  BY <1>4 DEF NotLoggedIn, Rest, FileTransferForkFails
<1> QED
  BY <1>2, <1>3, <1>5, CloseArmedEnds, SaidTurn DEF Handling

\* The transfer takes the socket to which the client, if it has connected, is.
LEMMA FileTransferTurn ==
  ASSUME NEW j \in Jobs, NEW cmd, Handling(j, cmd), FileTransfer(cmd) PROVE Turn(j)'
<1>1. cmd.verb \in FileVerbs /\ UNCHANGED <<replies, link>>
  BY DEF FileTransfer, FileVerbs
<1>2. At(j, "answer")
  BY <1>1 DEF Handling, Turn, Asks, Asking, At
<1>3. /\ Ready /\ OnArmed /\ (job[j].active => NoQueue /\ port_sock # None)
      /\ Fits(cmd.verb, job[j].goal)
  <2>1. Len(commands) = 1 /\ cmd = commands[1] /\ Answers(j)
    BY DEF Handling, Turn
  <2>2. commands # <<>> /\ 1 \in 1 .. Len(commands)
    BY <2>1
  <2> QED
    BY <1>2, <2>1, <2>2 DEF Answers
<1>4. PICK t \in Transfers, how \in Ways(mode) : NextTransfer(t) /\ Passive!Hand(t)
                             /\ child' = [child EXCEPT ![t] = Transferring(cmd, how)]
  BY DEF FileTransfer
<1>5. /\ child \in [Transfers -> Child] /\ served \in [Transfers -> 0 .. made]
      /\ armed # 0 => mode = "MODE_PASV"
  BY DEF Handling, TInv, ServerKeeps, Forked, Sockets, Passive!TypeOK, OwnSockets
<1>6. armed' = 0 /\ served'[t] = armed
  BY <1>4, <1>5 DEF Passive!Hand
<1>7. child'[t] = Transferring(cmd, how) /\ \A u \in Transfers \ {t} : child'[u] = child[u]
  BY <1>4, <1>5
<1>8. /\ child'[t].pc = "setup" /\ child'[t].verb = cmd.verb /\ child'[t].mode = how
      /\ child'[t].to = cmd.to
  <2> DEFINE offset == IF cmd.verb = "RETR" THEN last_sent_byte ELSE 0
  <2>1. child'[t] = [Unborn EXCEPT !.pc = "setup", !.verb = cmd.verb, !.file = cmd.file, !.mode = how,
                                   !.port = port_port, !.to = cmd.to, !.offset = offset]
    BY <1>7 DEF Transferring
  <2> HIDE DEF offset
  <2> QED
    BY <2>1 DEF Unborn
<1>9. \A u \in Transfers : Live(u)' => u = t
  BY <1>7 DEF Handling, Free, Live
<1>10. commands' = <<>> /\ Len(commands') = 0 /\ replies' = <<>> /\ Len(replies') = 0 /\ UNCHANGED job
  BY <1>1 DEF Handling
<1>11. Mine(j)' /\ Orderly'
  BY <1>8, <1>9, <1>10 DEF Mine, Orderly, Handling
<1>12. Started(j, t)'
  <2>1. child'[t].pc = "streaming" <=> replies' # <<>>
    BY <1>8, <1>10
  <2>2. served'[t] # 0 => link'[served'[t]].server = "queued"
    BY <1>1, <1>3, <1>6 DEF Ready
  <2>3. data_sock' \in Links => child'[t].mode # "MODE_PORT" /\ data_sock' = served'[t]
    BY <1>3, <1>5, <1>6, <1>8, Constants DEF OnArmed, Handling, Ways
  <2>4. job'[j].active => \A c \in Links : ~Queue(c)'
    BY <1>1, <1>3, <1>10 DEF NoQueue, Queue, Handling
  <2>5. Fits(child'[t].verb, job'[j].goal)
    BY <1>3, <1>8, <1>10
  <2> QED
    BY <1>8, <2>1, <2>2, <2>3, <2>4, <2>5 DEF Started
<1>13. Answers(j)'
  <2>1. Ready'
    BY <1>6 DEF Ready
  <2>2. job'[j].active => port_sock' # None
    BY <1>3, <1>10 DEF Handling
  <2> QED
    BY <1>9, <1>10, <1>12, <2>1, <2>2 DEF Answers
<1>14. Calm(j)' /\ Prepared(j)' /\ Asks(j)' /\ Moves(j)'
  BY <1>2, <1>10 DEF Calm, Prepared, Asks, Moves, At, Goals, Requests
<1> QED
  BY <1>11, <1>13, <1>14 DEF Turn

LEMMA HandleTakesTurn ==
  ASSUME TInv, OwnSockets, Turns, HandleCommand, ~astray' PROVE Turns'
<1>1. PICK n \in 1 .. Len(commands) :
        /\ Receive(commands[n])
        /\ \/ NotLoggedIn(commands[n])
           \/ loggedIn /\ (Pasv(commands[n]) \/ Port(commands[n]) \/ Rest(commands[n])
                           \/ FileTransfer(commands[n]) \/ FileTransferForkFails(commands[n]))
  BY DEF HandleCommand
<1> DEFINE cmd == commands[n]
<1> HIDE DEF cmd
<1>2. /\ Receive(cmd)
      /\ NotLoggedIn(cmd) \/ Pasv(cmd) \/ Port(cmd) \/ Rest(cmd) \/ FileTransfer(cmd)
         \/ FileTransferForkFails(cmd)
  BY <1>1 DEF cmd
<1>3. UNCHANGED job
  BY DEF HandleCommand
<1>4. ASSUME NEW j \in Jobs, Running(j) PROVE Turn(j)'
  <2>1. Turn(j)
    BY <1>4 DEF Turns
  <2>2. Handling(j, cmd)
    BY <1>2, <1>4, <2>1, HandlingStarts
  <2> QED
    BY <1>2, <2>2, PasvTurn, PortTurn, ToldTurn, FileTransferTurn
<1>5. \E j \in Jobs : Running(j)
  BY <1>1 DEF Receive, Turns, Settled
<1> QED
  BY <1>3, <1>4, <1>5 DEF Turns, Running

\* The transfer that runs is the only one, and a job waits for what it says.
Serving(j, t) ==
  /\ TInv /\ OwnSockets /\ Turn(j) /\ Live(t)
  /\ commands = <<>> /\ \A u \in Transfers : Live(u) => u = t
  /\ job[j].pc \in {"answer", "accept", "judge", "recv", "send", "last"}
  /\ UNCHANGED <<commands, data_sock, port_sock, transfer_type, job, armed, served>>

LEMMA ServingStarts ==
  ASSUME TInv, OwnSockets, NEW t \in Transfers, TransferStep(t), NEW j \in Jobs, Running(j), Turn(j)
  PROVE  Serving(j, t)
<1>1. Live(t) /\ UNCHANGED <<commands, data_sock, port_sock, transfer_type, job, armed, served>>
  BY TransferDoes DEF object
<1>2. ~Free
  BY <1>1 DEF Free
<1>3. commands = <<>> /\ \A u \in Transfers : Live(u) => u = t
  BY <1>1, <1>2 DEF Turn, Orderly
<1>4. job[j].pc \in {"answer", "accept", "judge", "recv", "send", "last"}
  <2>1. job[j].pc \in Points
    BY DEF TInv, ClientKeeps, Works, Work
  <2>2. job[j].pc \notin Goals \cup {"mode", "resume"}
    BY <1>2 DEF Turn, Calm, Settled
  <2>3. job[j].pc \notin {"pasv", "port", "rested", "resumed"}
    BY <1>2 DEF Turn, Asks
  <2> QED
    BY <2>1, <2>2, <2>3 DEF Points, Reading, Running
<1> QED
  BY <1>1, <1>3, <1>4 DEF Serving

\* What a reply more may be without the turn being lost.
LEMMA ServedTurn ==
  ASSUME NEW j \in Jobs, NEW t \in Transfers, Serving(j, t), Ready', OnlyChild(t),
         \A n \in 1 .. Len(replies') :
           /\ replies'[n].to = job[j].serial
           /\ replies'[n].code # "150" => n = Len(replies') /\ ~Live(t)'
           /\ At(j, "answer") /\ replies'[n].code = "150" => n = 1
           /\ ~At(j, "answer") => replies'[n].code # "150",
         Live(t)' => child'[t].to = job[j].serial,
         Live(t)' /\ At(j, "answer") => Started(j, t)',
         Live(t)' /\ ~At(j, "answer") => Begun(j, t)'
  PROVE  Turn(j)'
<1>1. /\ commands' = <<>> /\ Len(commands') = 0 /\ UNCHANGED job /\ Turn(j)
      /\ job[j].pc \in {"answer", "accept", "judge", "recv", "send", "last"}
  BY DEF Serving
<1>2. \A u \in Transfers : Live(u)' => u = t
  BY DEF Serving, OnlyChild, Live
<1>3. ~Live(t)' => Free'
  BY <1>2 DEF Free
<1>4. Mine(j)' /\ Orderly'
  BY <1>1, <1>2, <1>3 DEF Mine, Orderly
<1>5. Calm(j)' /\ Prepared(j)' /\ Asks(j)'
  BY <1>1 DEF Calm, Prepared, Asks, Goals, Requests, At
<1>6. Answers(j)'
  <2>1. At(j, "answer") => (job'[j].active => port_sock' # None)
    BY <1>1 DEF Turn, Answers, Serving
  <2> QED
    BY <1>1, <1>2, <2>1 DEF Answers, At
<1>7. Moves(j)'
  <2>1. CASE ~At(j, "answer")
    <3>1. job[j].response = {"150"}
      BY <1>1, <2>1 DEF Turn, Moves, At, Serving, Settled, Free
    <3>2. /\ At(j, "accept") => job[j].port = port_sock /\ port_sock # None
          /\ At(j, "recv") => job[j].goal \in {"retr", "list"}
      BY <1>1 DEF Turn, Moves, At
    <3>3. \A n \in 1 .. Len(replies') : replies'[n].code # "150"
      BY <2>1
    <3> QED
      BY <1>1, <1>2, <2>1, <3>1, <3>2, <3>3 DEF Moves, At, Serving
  <2> QED
    BY <1>1, <2>1 DEF Moves, At
<1> QED
  BY <1>4, <1>5, <1>6, <1>7 DEF Turn

\* While a transfer runs nothing but 150 has been said.
LEMMA SoFar ==
  ASSUME NEW j \in Jobs, NEW t \in Transfers, Serving(j, t)
  PROVE  /\ Ready /\ child[t].to = job[j].serial
         /\ \A n \in 1 .. Len(replies) : replies[n].to = job[j].serial /\ replies[n].code = "150"
         /\ At(j, "answer") => Started(j, t) /\ (\A n \in 1 .. Len(replies) : n = 1)
         /\ ~At(j, "answer") => Begun(j, t) /\ replies = <<>>
<1>1. Turn(j) /\ Live(t) /\ ~Free /\ replies \in Seq(Answer)
  BY DEF Serving, Free, TInv, Wires
<1>2. \A n \in 1 .. Len(replies) : replies[n].to = job[j].serial /\ replies[n].code = "150"
  BY <1>1 DEF Turn, Mine, Orderly
<1>3. Ready /\ child[t].to = job[j].serial
  BY <1>1 DEF Turn, Mine, Answers, Moves, Serving, At
<1>4. At(j, "answer") => Started(j, t) /\ (\A n \in 1 .. Len(replies) : n = 1)
  BY <1>1, <1>2 DEF Turn, Answers
<1>5. ~At(j, "answer") => Begun(j, t) /\ replies = <<>>
  <2>1. ~At(j, "answer") => Begun(j, t) /\ \A n \in 1 .. Len(replies) : replies[n].code # "150"
    BY <1>1 DEF Turn, Moves, Serving, At
  <2>2. replies # <<>> => 1 \in 1 .. Len(replies)
    BY <1>1, EmptySeq
  <2> QED
    BY <1>2, <2>1, <2>2
<1> QED
  BY <1>2, <1>3, <1>4, <1>5

\* One more reply, after those there are.
LEMMA SaysMore ==
  ASSUME NEW j \in Jobs, NEW t \in Transfers, Serving(j, t), NEW code, Says(t, code)
  PROVE  /\ Len(replies') = Len(replies) + 1 /\ Len(replies) \in Nat /\ replies' # <<>>
         /\ \A n \in 1 .. Len(replies) : replies'[n] = replies[n]
         /\ replies'[Len(replies')].code = code /\ replies'[Len(replies')].to = job[j].serial
<1> DEFINE answer == [code |-> code, arg |-> 0, to |-> child[t].to]
<1>1. replies' = Append(replies, answer) /\ answer.code = code /\ answer.to = child[t].to
  BY DEF Says, Reply
<1>2. replies \in Seq(Answer)
  BY DEF Serving, TInv, Wires
<1> HIDE DEF answer
<1>3. /\ Len(replies') = Len(replies) + 1 /\ Len(replies) \in Nat
      /\ \A n \in 1 .. Len(replies) : replies'[n] = replies[n]
      /\ replies'[Len(replies')] = answer
  BY <1>1, <1>2
<1>4. replies' # <<>>
  BY <1>3
<1> QED
  BY <1>1, <1>3, <1>4, SoFar

LEMMA ExitTurn ==
  ASSUME NEW j \in Jobs, NEW t \in Transfers, Serving(j, t), Exiting(t)
  PROVE  Turn(j)'
<1>1. TInv /\ OwnSockets /\ Live(t) /\ UNCHANGED armed
  BY DEF Serving
<1>2. ~Live(t)' /\ OnlyChild(t) /\ (armed # 0 => link'[armed] = link[armed])
  BY <1>1, ExitDoes DEF Exiting
<1>3. Ready'
  BY <1>1, <1>2, SoFar DEF Ready
<1>4. CASE UNCHANGED replies
  <2>1. ~At(j, "answer") => Len(replies) = 0
    BY SoFar
  <2> QED
    BY <1>2, <1>3, <1>4, <2>1, SoFar, ServedTurn
<1>5. CASE \E code \in Codes \ {"150"} : Says(t, code)
  <2>1. PICK code \in Codes \ {"150"} : Says(t, code)
    BY <1>5
  <2>2. /\ Len(replies') = Len(replies) + 1 /\ Len(replies) \in Nat
        /\ \A n \in 1 .. Len(replies) : replies'[n] = replies[n]
        /\ replies'[Len(replies')].code = code /\ replies'[Len(replies')].to = job[j].serial
    BY <2>1, SaysMore
  <2>3. ASSUME NEW n \in 1 .. Len(replies')
        PROVE  n = Len(replies') \/ n \in 1 .. Len(replies)
    BY <2>2
  <2>4. ~At(j, "answer") => Len(replies) = 0
    BY SoFar
  <2>5. \A n \in 1 .. Len(replies') :
           /\ replies'[n].to = job[j].serial
           /\ replies'[n].code # "150" => n = Len(replies') /\ ~Live(t)'
           /\ At(j, "answer") /\ replies'[n].code = "150" => n = 1
           /\ ~At(j, "answer") => replies'[n].code # "150"
    BY <1>2, <2>1, <2>2, <2>3, <2>4, SoFar
  <2> QED
    BY <1>2, <1>3, <2>5, ServedTurn
<1> QED
  BY <1>4, <1>5 DEF Exiting

LEMMA BeginningTurn ==
  ASSUME NEW j \in Jobs, NEW t \in Transfers, Serving(j, t), Beginning(t)
  PROVE  Turn(j)'
<1>1. /\ child[t].pc = "begin" /\ child'[t].pc = "streaming" /\ OnlyChild(t) /\ UNCHANGED link
      /\ child'[t].verb = child[t].verb /\ child'[t].conn = child[t].conn
      /\ child'[t].to = child[t].to /\ Says(t, "150")
  BY DEF Beginning
<1>2. At(j, "answer")
  BY <1>1, SoFar DEF Begun
<1>3. Started(j, t) /\ Ready
  BY <1>2, SoFar
<1>4. Len(replies) = 0
  <2>1. replies = <<>>
    BY <1>1, <1>3 DEF Started
  <2> QED
    BY <2>1
<1>5. /\ Len(replies') = 1 /\ replies' # <<>>
      /\ replies'[Len(replies')].code = "150" /\ replies'[Len(replies')].to = job[j].serial
  BY <1>1, <1>4, SaysMore
<1>6. UNCHANGED <<armed, data_sock, port_sock, job, served>>
  BY DEF Serving
<1>7. Ready'
  BY <1>1, <1>3, <1>6 DEF Ready
<1>8. Started(j, t)'
  <2>1. Fits(child'[t].verb, job'[j].goal)
    BY <1>1, <1>3, <1>6 DEF Started
  <2>2. data_sock' \in Links => data_sock' = child'[t].conn
    BY <1>1, <1>3, <1>6 DEF Started
  <2>3. job'[j].active => \A c \in Links : Queue(c)' => child'[t].conn = c
    BY <1>1, <1>3, <1>6 DEF Started, Queue
  <2> QED
    BY <1>1, <1>5, <2>1, <2>2, <2>3 DEF Started
<1>9. child'[t].to = job[j].serial
  BY <1>1, SoFar
<1> QED
  BY <1>1, <1>2, <1>5, <1>7, <1>8, <1>9, ServedTurn

\* The client's data connection becomes the transfer's.
LEMMA ConnectingTurn ==
  ASSUME NEW j \in Jobs, NEW t \in Transfers, Serving(j, t), Accepting(t) \/ Dialling(t)
  PROVE  Turn(j)'
<1>1. PICK c : Connecting(t, c) /\ ((c = served[t] /\ Accepting(t)) \/ (c = t /\ Dialling(t)))
  BY DEF Accepting, Dialling
<1>2. /\ child[t].pc = "setup" /\ child'[t].pc = "begin" /\ child'[t].verb = child[t].verb
      /\ child'[t].conn = c /\ child'[t].to = child[t].to
      /\ OnlyChild(t) /\ UNCHANGED replies
      /\ \A d \in Links \ {c} : link'[d] = link[d]
  BY <1>1 DEF Connecting
<1>3. At(j, "answer")
  BY <1>2, SoFar DEF Begun
<1>4. Started(j, t) /\ Ready
  BY <1>3, SoFar
<1>5. UNCHANGED <<armed, data_sock, port_sock, job, served>>
  BY DEF Serving
<1>6. Ready'
  <2>1. armed # 0 => armed # c /\ armed \in Links
    BY <1>1, ConnNotArmed DEF Serving
  <2> QED
    BY <1>2, <1>4, <1>5, <2>1 DEF Ready
<1>7. replies = <<>> /\ Len(replies') = 0 /\ replies' = <<>>
  <2>1. replies = <<>>
    BY <1>2, <1>4 DEF Started
  <2> QED
    BY <1>2, <2>1
<1>8. Started(j, t)'
  <2>1. Fits(child'[t].verb, job'[j].goal)
    BY <1>2, <1>4, <1>5 DEF Started
  <2>2. data_sock' \in Links => data_sock' = child'[t].conn
    <3>1. data_sock \in Links => child[t].mode # "MODE_PORT" /\ data_sock = served[t]
      BY <1>2, <1>4 DEF Started
    <3> QED
      BY <1>1, <1>2, <1>5, <3>1 DEF Dialling
  <2>3. job'[j].active => \A d \in Links : Queue(d)' => child'[t].conn = d
    <3> SUFFICES ASSUME job'[j].active, NEW d \in Links, Queue(d)', d # c PROVE FALSE
      BY <1>2
    <3>1. Queue(d)
      BY <1>2, <1>5 DEF Queue
    <3> QED
      BY <1>2, <1>4, <1>5, <3>1 DEF Started
  <2> QED
    BY <1>2, <1>7, <2>1, <2>2, <2>3 DEF Started
<1>9. child'[t].to = job[j].serial
  BY <1>2, SoFar
<1> QED
  BY <1>2, <1>3, <1>6, <1>7, <1>8, <1>9, ServedTurn

LEMMA StreamingTurn ==
  ASSUME NEW j \in Jobs, NEW t \in Transfers, Serving(j, t), Streaming(t)
  PROVE  Turn(j)'
<1>1. /\ UNCHANGED <<commands, replies, data_sock, port_sock, transfer_type, job, armed, served>>
      /\ \A u \in Transfers : SameChild(u)
      /\ \A c \in Links : SameEnds(c)
      /\ Turn(j) /\ TInv
  BY DEF Serving, Streaming
<1>2. /\ \A u \in Transfers : Live(u)' <=> Live(u)
      /\ \A u \in Transfers : Live(u)' => child'[u].to = child[u].to /\ child[u].conn \in Links \cup {0}
  <2>1. \A u \in Transfers : Live(u) => child[u].conn \in {0, served[u], u}
    BY DEF Serving, OwnSockets
  <2>2. \A u \in Transfers : served[u] \in Links \cup {0}
    <3>1. made \in 0 .. MaxListeners /\ \A u \in Transfers : served[u] \in 0 .. made
      BY <1>1 DEF TInv, ServerKeeps, Sockets, Passive!TypeOK
    <3> QED
      BY <3>1, Constants
  <2> QED
    BY <1>1, <2>1, <2>2, Constants DEF SameChild, Live
<1>3. \A c \in Links : Queue(c)' <=> Queue(c)
  BY <1>1 DEF SameEnds, Queue
<1>4. Free' <=> Free
  BY <1>2 DEF Free
<1>5. Ready => Ready'
  BY <1>1, ConnNotArmed DEF Ready, SameEnds, Serving
<1>6. Mine(j)' /\ Orderly'
  BY <1>1, <1>2, <1>4 DEF Turn, Mine, Orderly
<1>7. Calm(j)' /\ Prepared(j)' /\ Asks(j)'
  BY <1>1 DEF Serving, Calm, Prepared, Asks, Goals, Requests, At
<1>8. ASSUME Started(j, t), At(j, "answer") PROVE Started(j, t)'
  <2>1. child[t].pc = "streaming" /\ child'[t].pc = "streaming" /\ child'[t].conn = child[t].conn
        /\ child'[t].verb = child[t].verb
    BY <1>1 DEF Streaming, SameChild
  <2> QED
    BY <1>1, <1>3, <1>8, <2>1 DEF Started
<1>9. ASSUME Begun(j, t), ~At(j, "answer") PROVE Begun(j, t)'
  <2>1. child[t].pc = "streaming" /\ child'[t].pc = "streaming" /\ child'[t].conn = child[t].conn
        /\ child'[t].verb = child[t].verb /\ child[t].conn \in Links
    BY <1>1 DEF Streaming, SameChild, TInv, ServerKeeps, Forked
  <2>2. link'[child[t].conn].client = link[child[t].conn].client
    BY <1>1, <2>1 DEF SameEnds
  <2> QED
    BY <1>1, <1>3, <1>9, <2>1, <2>2 DEF Begun, At
<1>10. \A u \in Transfers : Live(u)' => u = t
  BY <1>2 DEF Serving
<1>11. Ready' /\ commands' = <<>> /\ Len(commands') = 0
  BY <1>1, <1>5, SoFar DEF Serving
<1>12. Answers(j)'
  BY <1>1, <1>8, <1>10, <1>11, SoFar DEF Turn, Answers, At
<1>13. Moves(j)'
  <2>1. Settled => Settled'
    BY <1>1, <1>4 DEF Settled
  <2> QED
    BY <1>1, <1>9, <1>10, <1>11, <2>1, SoFar DEF Turn, Moves, At
<1> QED
  BY <1>6, <1>7, <1>12, <1>13 DEF Turn

LEMMA TransferTakesTurn ==
  ASSUME TInv, OwnSockets, Turns, NEW t \in Transfers, TransferStep(t) PROVE Turns'
<1>1. Live(t) /\ UNCHANGED job
  BY TransferDoes
<1>2. ASSUME NEW j \in Jobs, Running(j) PROVE Turn(j)'
  <2>1. Turn(j)
    BY <1>2 DEF Turns
  <2>2. Serving(j, t)
    BY <1>2, <2>1, ServingStarts
  <2> QED
    BY <2>2, TransferDoes, ExitTurn, BeginningTurn, ConnectingTurn, StreamingTurn
<1>3. \E j \in Jobs : Running(j)
  BY <1>1 DEF Turns, Settled, Free
<1> QED
  BY <1>1, <1>2, <1>3 DEF Turns, Running

-----------------------------------------------------------------------------
(* The invariant.                                                          *)

LEMMA XInvStarts == Init => XInv
<1> SUFFICES ASSUME Init PROVE XInv
  OBVIOUS
<1>1. \A j \in Jobs : ~Running(j)
  BY DEF Init, ClientInit, Waiting, Running
<1>2. Free /\ \A t \in Transfers : child[t].port = 0 /\ ~Live(t)
  BY DEF Init, Unborn, Free, Live
<1>3. /\ port_sock = 0 /\ port_port = 0 /\ ports = 0 /\ armed = 0
      /\ commands = <<>> /\ replies = <<>> /\ Len(commands) = 0
      /\ \A c \in Links : link[c].port = 0
  BY DEF Init, ClientInit, Passive!Init, None, NoLink
<1>4. OneRuns
  BY <1>1 DEF OneRuns
<1>5. PortsNew /\ OwnSockets
  BY <1>2, <1>3 DEF PortsNew, OwnSockets
<1>6. Turns
  BY <1>1, <1>2, <1>3 DEF Turns, Settled, Ready
<1> QED
  BY <1>4, <1>5, <1>6, InitTyped DEF XInv

\* A reply that was left behind stays so.
LEMMA AstrayStays == ASSUME NEW j \in Jobs, ClientRuns(j), ~astray' PROVE ~astray
<1>1. ASSUME NEW r, read_response(j, r, Quiet) PROVE ~astray
  BY <1>1 DEF read_response
<1>2. CASE \/ (\E c \in Commands : Start(j, c)) \/ SendPasv(j) \/ SendPort(j) \/ Done(j)
           \/ SendRest(j) \/ Request(j) \/ RequestRefused(j)
           \/ AcceptData(j) \/ AcceptNothing(j) \/ Judge(j) \/ OpenLocal(j) \/ Proceed(j)
           \/ RecvData(j) \/ RecvEnd(j) \/ SendData(j)
  BY <1>2 DEF Start, SendPasv, SendPort, Done, SendRest, Request, RequestRefused, AcceptData,
    AcceptNothing, Judge, OpenLocal, Proceed, RecvData, RecvEnd, SendData
<1>3. CASE \/ ReadPasv(j, Quiet, Listening) \/ ReadPort(j, Quiet) \/ ReadRest(j, Quiet)
           \/ ReadAnswer(j, Quiet)
           \/ ReadLast(j, Quiet) \/ ReadLastStored(j, Quiet) \/ ReadListed(j, Quiet)
  BY <1>1, <1>3 DEF ReadPasv, ReadPort, ReadRest, ReadAnswer, ReadLast, ReadLastStored, ReadListed
<1>4. ~Abandon(j)
  BY DEF Abandon
<1> QED
  BY <1>2, <1>3, <1>4 DEF ClientRuns, ClientStep

LEMMA XInvStays == ASSUME PoolSize = 1, XInv, [Next]_vars PROVE XInv'
<1>1. TInv /\ TInv' /\ OneRuns /\ PortsNew /\ OwnSockets /\ (~astray => Turns)
  BY NextTyped DEF XInv
<1>2. CASE \E j \in Jobs : ClientRuns(j)
  <2>1. PICK j \in Jobs : ClientRuns(j)
    BY <1>2
  <2>2. OneRuns' /\ PortsNew'
    BY <1>1, <2>1, ClientOneRuns, ClientPortsNew
  <2>3. OwnSockets'
    BY <1>1, <2>1 DEF ClientRuns, serverVars, session, OwnSockets, Live
  <2>4. ~astray' => Turns'
    BY <1>1, <2>1, AstrayStays, ClientTakesTurn
  <2> QED
    BY <1>1, <2>2, <2>3, <2>4 DEF XInv
<1>3. CASE HandleCommand
  <2>1. UNCHANGED job /\ (astray => astray')
    BY <1>3, HandleAstray DEF HandleCommand
  <2> QED
    BY <1>1, <1>3, <2>1, ServerKeepsJobs, HandlePorts, HandleTakesTurn DEF XInv
<1>4. CASE \E t \in Transfers : TransferStep(t)
  <2>1. PICK t \in Transfers : TransferStep(t)
    BY <1>4
  <2>2. UNCHANGED <<job, astray>>
    BY <1>1, <2>1, TransferDoes
  <2> QED
    BY <1>1, <2>1, <2>2, ServerKeepsJobs, TransferPorts, TransferTakesTurn DEF XInv
<1>5. CASE UNCHANGED vars
  <2>1. /\ UNCHANGED <<commands, replies, link, data_sock, port_sock, transfer_type, job, ports, astray>>
        /\ UNCHANGED <<armed, served, mode, port_port, child>>
    BY <1>5 DEF vars, clientVars, wires, object, counters, serverVars, session
  <2>2. OneRuns' /\ PortsNew' /\ OwnSockets'
    BY <1>1, <2>1 DEF OneRuns, PortsNew, OwnSockets, Running, Is, Live
  <2>3. Turns => Turns'
    BY <2>1 DEF Turns, Turn, Mine, Orderly, Calm, Prepared, Asks, Answers, Moves, Settled, Ready, Free,
      Live, Running, At, OnArmed, NoQueue, Queue, Started, Begun, Offered
  <2> QED
    BY <1>1, <2>1, <2>2, <2>3 DEF XInv
<1> QED
  BY <1>2, <1>3, <1>4, <1>5 DEF Next

\* The reply a method takes for its answer is one, while one command runs at a time
\* and no reply was left behind.
LEMMA RepliesOwned == XInv => OwnReplies
<1> SUFFICES ASSUME XInv, NEW j \in Jobs, job[j].pc \in Reading, replies # <<>>, ~astray
             PROVE  Head(replies).to = job[j].serial
  BY DEF OwnReplies
<1>1. Running(j)
  BY DEF Reading, Running
<1>2. Mine(j)
  BY <1>1 DEF XInv, Turns, Turn
<1>3. replies \in Seq(Answer)
  BY DEF XInv, TInv, Wires
<1>4. 1 \in 1 .. Len(replies) /\ Head(replies) = replies[1]
  BY <1>3
<1> QED
  BY <1>2, <1>4 DEF Mine

\* OwnReplies: with one thread in the pool, what read_response hands to a method of
\* FTPClient answers the command that this method has sent, as long as no method
\* gave up on a reply, left one unread, or was told a port that is not the session's.
THEOREM RepliesAreOwn == PoolSize = 1 => (Spec => []OwnReplies)
<1> SUFFICES ASSUME PoolSize = 1 PROVE Spec => []OwnReplies
  OBVIOUS
<1>1. Init => XInv
  BY XInvStarts
<1>2. XInv /\ [Next]_vars => XInv'
  BY XInvStays
<1>3. XInv => OwnReplies
  BY RepliesOwned
<1> QED
  BY <1>1, <1>2, <1>3, PTL DEF Spec

-----------------------------------------------------------------------------
(* The data, with one command at a time.  A unit says where in which file  *)
(* it belongs, so that it can be said of each one under way that it is the *)
(* next that the other side lacks.                                         *)

Have(j) == Len(local[file(j)].data)
There(j) == Len(remote[file(j)].data)

\* What either side has of a file is the first part of one whole file.
Part(name, disk) ==
  /\ ~disk.exists => disk.data = <<>>
  /\ \A n \in 1 .. Len(disk.data) : disk.data[n] = Data(name, n)

Parts == \A name \in Files : Part(name, local[name]) /\ Part(name, remote[name])

\* Nothing comes down a connection before the server has accepted it, nothing goes
\* up it before the client has closed it, and a transfer keeps its end open.
TidyLink(l) ==
  /\ l.server \in {"none", "queued"} => l.down = <<>>
  /\ l.client # "closed" => l.up = <<>>

Clean ==
  /\ \A c \in Links : TidyLink(link[c])
  /\ \A t \in Transfers : child[t].pc \in {"begin", "streaming"} => link[child[t].conn].server = "open"
  /\ ~loggedIn => armed = 0

OpenSock == data_sock \in Links => link[data_sock].client = "open"

\* A client that could start a transfer has sent nothing on the armed socket: the
\* data of a refused STOR stays there, but ends that transfer_type.
Renewed == \E j \in Jobs : At(j, "pasv") /\ replies # <<>> /\ replies[1].code = "227"
Unloaded == transfer_type # "None" /\ armed # 0 => Renewed \/ link[armed].up = <<>>

\* The commands and the transfer are what the method at this point has asked for.
Awaits(j) == job[j].pc \in {"answer", "accept", "judge", "recv", "send", "last"}

Addressed(j) ==
  /\ job[j].pc \in Requests => job[j].goal = job[j].pc
  /\ At(j, "pasv") => \A n \in 1 .. Len(commands) : commands[n].verb = "PASV"
  /\ At(j, "pasv") /\ replies # <<>> /\ replies[1].code = "227" => armed \in {0, replies[1].arg}
  /\ At(j, "port") => \A n \in 1 .. Len(commands) : commands[n].verb = "PORT"
  /\ At(j, "port") /\ commands = <<>> => armed = 0
  /\ At(j, "answer") =>
       /\ transfer_type # "None"
       /\ \A n \in 1 .. Len(commands) :
            commands[n].verb = Verb(job[j].goal) /\ commands[n].file = file(j)
  /\ Awaits(j) =>
       /\ job[j].goal \in Requests
       /\ \A t \in Transfers : Live(t) => child[t].verb = Verb(job[j].goal) /\ child[t].file = file(j)
  /\ At(j, "accept") => job[j].active
  /\ At(j, "send") => job[j].goal \in {"stor", "appe"}

\* Where RETR is to begin: where the local file will end once it is opened.
From(j) == IF At(j, "recv") \/ job[j].keep = "ab" THEN Have(j) ELSE 0

RestSent(offset) ==
  /\ \A n \in 1 .. Len(commands) : commands[n].verb = "REST" /\ commands[n].arg = offset
  /\ commands = <<>> /\ loggedIn => last_sent_byte = offset

Restarts(j) ==
  /\ At(j, "rested") => RestSent(0)
  /\ At(j, "resumed") => RestSent(Have(j)) /\ write_type = "ab"
  /\ job[j].goal = "retr" =>
       /\ job[j].pc \in {"mode", "pasv", "port", "retr"} /\ loggedIn => last_sent_byte = From(j)
       /\ At(j, "answer") /\ commands # <<>> /\ loggedIn => last_sent_byte = From(j)
       /\ job[j].pc \in {"retr", "answer", "accept", "judge"} => write_type = job[j].keep

\* The remote size is what LIST has shown, and for APPE no more than the local one.
Sized(j) ==
  /\ job[j].goal = "appe" /\ job[j].pc \notin {"resume", "resumed", "last"} =>
       job[j].size = There(j) /\ There(j) <= Have(j)
  /\ job[j].goal = "list" /\ job[j].pc \in {"recv", "last"} => job[j].size \in {-1, There(j)}

Plan(j) == Addressed(j) /\ Restarts(j) /\ Sized(j)

\* The client's data connection, or the one it is about to accept.
Own(j, c) == c = data_sock \/ (job[j].active /\ job[j].pc \in {"answer", "accept"} /\ Queue(c))

Succeeded == replies # <<>> /\ replies[Len(replies)].code = "226"

\* RETR sends what follows the restart point, and says 226 when it has sent it all.
Follows(j, c) ==
  /\ \A n \in 1 .. Len(link[c].down) : link[c].down[n] = Data(file(j), From(j) + n)
  /\ Succeeded => From(j) + Len(link[c].down) = There(j)

Offset(j, t) ==
  /\ child[t].pc # "streaming" => child[t].offset = From(j)
  /\ child[t].pc = "begin" => link[child[t].conn].down = <<>>
  /\ child[t].pc = "streaming" =>
       remote[file(j)].exists /\ child[t].offset = From(j) + Len(link[child[t].conn].down)

Getting(j) ==
  job[j].goal = "retr" /\ job[j].pc \in {"answer", "accept", "judge", "recv"} =>
    /\ \A c \in Links : Own(j, c) => Follows(j, c)
    /\ \A t \in Transfers : Live(t) => Offset(j, t)
    /\ At(j, "recv") => local[file(j)].exists
    /\ Succeeded => remote[file(j)].exists

Got(j) ==
  job[j].goal = "retr" /\ At(j, "last") =>
    /\ Free /\ local[file(j)].exists
    /\ Succeeded => remote[file(j)].exists /\ Have(j) = There(j)

\* LIST sends the size of the file.
Listing(j) ==
  job[j].goal = "list" /\ job[j].pc \in {"answer", "accept", "judge", "recv"} =>
    \A c \in Links : Own(j, c) =>
      \A n \in 1 .. Len(link[c].down) : link[c].down[n] = Line(file(j), There(j))

\* A transfer that is to store has been sent nothing yet; and once the client has
\* sent its file, what has arrived and what has not make up that file.
Empties(j, t) ==
  /\ child[t].pc = "setup" /\ served[t] # 0 => link[served[t]].up = <<>>
  /\ child[t].pc # "setup" => link[child[t].conn].up = <<>>
  /\ child[t].pc = "streaming" => remote[file(j)].exists /\ (job[j].goal = "stor" => There(j) = 0)

Putting(j) ==
  job[j].goal \in {"stor", "appe"} /\ job[j].pc \in {"answer", "accept", "judge", "send"} =>
    /\ local[file(j)].exists
    /\ Succeeded => \A c \in Links : ~Own(j, c)
    /\ \A t \in Transfers : Live(t) => Empties(j, t)

Completes(j, t) ==
  /\ remote[file(j)].exists
  /\ There(j) + Len(link[child[t].conn].up) = Have(j)
  /\ \A n \in 1 .. Len(link[child[t].conn].up) :
       link[child[t].conn].up[n] = Data(file(j), There(j) + n)

Put(j) ==
  job[j].goal \in {"stor", "appe"} /\ At(j, "last") =>
    /\ local[file(j)].exists
    /\ Succeeded => remote[file(j)].exists /\ There(j) = Have(j)
    /\ \A t \in Transfers : Live(t) => Completes(j, t)

Cargo(j) == Getting(j) /\ Got(j) /\ Listing(j) /\ Putting(j) /\ Put(j)

Ordered == Parts /\ OpenSock /\ Unloaded /\ \A j \in Jobs : Running(j) => Plan(j) /\ Cargo(j)

YInv == XInv /\ Clean /\ (~astray /\ ~torn => Ordered)

-----------------------------------------------------------------------------
(* The data connections stay clean, however many commands run.             *)

\* Two transfers have no connection in common.
LEMMA EndsApart ==
  ASSUME TInv, OwnSockets, NEW t \in Transfers, NEW u \in Transfers, t # u, Live(t)
  PROVE  /\ Live(u) /\ child[t].conn # 0 => child[t].conn # child[u].conn
         /\ served[u] # 0 => child[t].conn # served[u]
         /\ armed # 0 => armed # child[t].conn
<1>1. /\ served[t] \in 0 .. MaxListeners /\ served[u] \in 0 .. MaxListeners
      /\ served[u] # 0 => served[u] # served[t]
      /\ served[t] # 0 => served[t] # served[u]
  <2>1. made \in 0 .. MaxListeners /\ served[t] \in 0 .. made /\ served[u] \in 0 .. made
    BY DEF TInv, ServerKeeps, Sockets, Passive!TypeOK
  <2> QED
    BY <2>1, Constants DEF TInv, ServerKeeps, Sockets, Passive!GivenOnce
<1>2. t \notin 1 .. MaxListeners /\ u \notin 1 .. MaxListeners
  BY FtpSystemAssumption DEF FtpSystemAssumption
<1>3. child[t].conn \in {0, served[t], t} /\ (Live(u) => child[u].conn \in {0, served[u], u})
  BY DEF OwnSockets
<1>4. t # 0 /\ u # 0 /\ MaxListeners \in Nat
  BY Constants
<1> QED
  BY <1>1, <1>2, <1>3, <1>4, ConnNotArmed

LEMMA ClosedTidy ==
  ASSUME Wires, NEW s, NEW c \in Links, TidyLink(link[c])
  PROVE  /\ TidyLink(CloseLink(s)[c])
         /\ link[c].server = "open" => CloseLink(s)[c].server = "open"
<1>1. CASE s \notin Links \/ c # s
  BY <1>1 DEF CloseLink, Wires
<1>2. CASE s \in Links /\ c = s
  <2>1. link[c] \in Connection
    BY DEF Wires
  <2>2. CloseLink(s)[c] = IF link[c].server = "closed" THEN NoLink
                          ELSE [link[c] EXCEPT !.client = "closed", !.down = <<>>]
    BY <1>2 DEF CloseLink, Wires
  <2>3. CASE link[c].server = "closed"
    BY <2>2, <2>3 DEF NoLink, TidyLink
  <2>4. CASE link[c].server # "closed"
    <3>1. CloseLink(s)[c] = [link[c] EXCEPT !.client = "closed", !.down = <<>>]
      BY <2>2, <2>4
    <3> HIDE DEF CloseLink
    <3>2. CloseLink(s)[c].client = "closed" /\ CloseLink(s)[c].down = <<>> /\ CloseLink(s)[c].server = link[c].server
      BY <2>1, <3>1 DEF Connection
    <3> QED
      BY <3>2 DEF TidyLink
  <2> QED
    BY <2>3, <2>4
<1> QED
  BY <1>1, <1>2

\* What a step of the client may do to the connections.
KeepsTidy(c) ==
  /\ TidyLink(link'[c])
  /\ link[c].server = "open" => link'[c].server = "open" \/ c \in Listening

LEMMA ClosingKeeps == ASSUME Wires, Clean, NEW s, link' = CloseLink(s) PROVE \A c \in Links : KeepsTidy(c)
BY ClosedTidy DEF KeepsTidy, Clean

LEMMA ConnectKeeps ==
  ASSUME Wires, Clean, Listening \in SUBSET Links, NEW l, Connect(l, Listening)
  PROVE  \A c \in Links : KeepsTidy(c)
<1>1. CASE l \notin Listening
  BY <1>1, ClosingKeeps DEF Connect
<1>2. CASE l \in Listening
  <2>1. link' = [CloseLink(data_sock) EXCEPT ![l] = [NoLink EXCEPT !.client = "open", !.server = "queued"]]
        /\ l \in Links
    BY <1>2 DEF Connect
  <2>2. CloseLink(data_sock) \in [Links -> Connection]
    BY ClosingTyped
  <2>3. link'[l] = [NoLink EXCEPT !.client = "open", !.server = "queued"]
        /\ \A c \in Links \ {l} : link'[c] = CloseLink(data_sock)[c]
    <3> HIDE DEF CloseLink
    <3> QED
      BY <2>1, <2>2
  <2>4. TidyLink(link'[l])
    BY <2>3 DEF NoLink, TidyLink
  <2>5. \A c \in Links \ {l} : KeepsTidy(c)
    BY <2>3, ClosedTidy DEF KeepsTidy, Clean
  <2> QED
    BY <1>2, <2>4, <2>5 DEF KeepsTidy
<1> QED
  BY <1>1, <1>2

LEMMA SendPortKeeps == ASSUME Wires, Clean, NEW j \in Jobs, SendPort(j) PROVE \A c \in Links : KeepsTidy(c)
<1> SUFFICES ASSUME NEW c \in Links PROVE KeepsTidy(c)
  OBVIOUS
<1> DEFINE old == CloseLink(data_sock)[c]
<1>1. link'[c] = IF old.client = "queued" /\ old.port = port_sock
                 THEN [old EXCEPT !.client = "closed"] ELSE old
  BY DEF SendPort, CloseQueued
<1>2. TidyLink(old) /\ (link[c].server = "open" => old.server = "open") /\ old \in Connection
  BY ClosedTidy, ClosingTyped DEF Clean
<1> HIDE DEF old
<1>3. /\ link'[c].server = old.server /\ link'[c].up = old.up /\ link'[c].down = old.down
      /\ link'[c].client \in {old.client, "closed"}
  BY <1>1, <1>2 DEF Connection
<1> QED
  BY <1>2, <1>3 DEF KeepsTidy, TidyLink

LEMMA PartsKeep ==
  ASSUME Wires, Clean, NEW c \in Links, NEW part,
         \/ link' = [link EXCEPT ![c].client = "open"] /\ link[c].client # "closed"
         \/ link' = [link EXCEPT ![c].client = "closed", ![c].up = part]
         \/ link' = [link EXCEPT ![c].down = part] /\ link[c].down # <<>>
  PROVE  \A d \in Links : KeepsTidy(d)
<1> SUFFICES ASSUME NEW d \in Links PROVE KeepsTidy(d)
  OBVIOUS
<1>1. link[d] \in Connection /\ TidyLink(link[d])
  BY DEF Wires, Clean
<1>2. CASE d # c
  BY <1>1, <1>2 DEF Wires, KeepsTidy
<1>3. CASE d = c
  <2>1. \/ link'[d] = [link[d] EXCEPT !.client = "open"] /\ link[d].client # "closed"
        \/ link'[d] = [link[d] EXCEPT !.client = "closed", !.up = part]
        \/ link'[d] = [link[d] EXCEPT !.down = part] /\ link[d].down # <<>>
    BY <1>3 DEF Wires
  <2>2. link'[d].server = link[d].server /\ TidyLink(link'[d])
    BY <1>1, <2>1 DEF Connection, TidyLink
  <2> QED
    BY <2>2 DEF KeepsTidy
<1> QED
  BY <1>2, <1>3

LEMMA ClientKeepsTidy ==
  ASSUME TInv, Clean, NEW j \in Jobs, ClientRuns(j) PROVE \A c \in Links : KeepsTidy(c)
<1>1. Wires /\ Objects /\ Listening \in SUBSET Links
  <2>1. Listening \subseteq 1 .. MaxListeners
    BY ListeningTyped DEF TInv, ServerKeeps
  <2> QED
    BY <2>1, Constants DEF TInv, ClientKeeps
<1>2. ASSUME UNCHANGED link PROVE \A c \in Links : KeepsTidy(c)
  BY <1>2 DEF KeepsTidy, Clean
<1>3. CASE \/ (\E c \in Commands : Start(j, c)) \/ SendPasv(j) \/ ReadPort(j, Quiet) \/ Done(j)
           \/ SendRest(j) \/ ReadRest(j, Quiet) \/ Request(j) \/ RequestRefused(j)
           \/ ReadAnswer(j, Quiet) \/ AcceptNothing(j) \/ OpenLocal(j) \/ Proceed(j)
           \/ ReadLast(j, Quiet) \/ ReadLastStored(j, Quiet) \/ ReadListed(j, Quiet)
  BY <1>2, <1>3 DEF Start, SendPasv, ReadPort, Done, SendRest, ReadRest, Request, RequestRefused,
    ReadAnswer, AcceptNothing, OpenLocal, Proceed, ReadLast, ReadLastStored, ReadListed, wires
<1>4. CASE ReadPasv(j, Quiet, Listening)
  <2>1. PICK r \in Arrived :
          IF r.code = "227" THEN Connect(r.arg, Listening) ELSE link' = CloseLink(data_sock)
    BY <1>4 DEF ReadPasv
  <2> QED
    BY <1>1, <2>1, ClosingKeeps, ConnectKeeps
<1>5. CASE SendPort(j)
  BY <1>1, <1>5, SendPortKeeps
<1>6. CASE Judge(j) \/ RecvEnd(j) \/ Abandon(j)
  BY <1>1, <1>2, <1>6, ClosingKeeps DEF Judge, RecvEnd, Abandon, CloseData
<1>7. CASE AcceptData(j)
  <2>1. PICK c \in Links : link' = [link EXCEPT ![c].client = "open"] /\ link[c].client # "closed"
    BY <1>7 DEF AcceptData
  <2> QED
    BY <1>1, <2>1, PartsKeep
<1>8. CASE RecvData(j)
  <2>1. /\ data_sock \in Links /\ link[data_sock].down # <<>>
        /\ link' = [link EXCEPT ![data_sock].down = Tail(link[data_sock].down)]
    BY <1>1, <1>8 DEF RecvData, Connected, Wires
  <2> QED
    BY <1>1, <2>1, PartsKeep
<1>9. CASE SendData(j)
  <2>1. data_sock \in Links /\ \E up : link' = [link EXCEPT ![data_sock].client = "closed", ![data_sock].up = up]
    BY <1>1, <1>9 DEF SendData, Connected, Wires
  <2> QED
    BY <1>1, <2>1, PartsKeep
<1> QED
  BY <1>3, <1>4, <1>5, <1>6, <1>7, <1>8, <1>9 DEF ClientRuns, ClientStep

\* No socket that takes connections is one of a transfer that has its own.
LEMMA ClientClean == ASSUME TInv, OwnSockets, Clean, NEW j \in Jobs, ClientRuns(j) PROVE Clean'
<1>1. \A c \in Links : KeepsTidy(c)
  BY ClientKeepsTidy
<1>2. UNCHANGED <<child, armed, loggedIn, served>>
  BY DEF ClientRuns, serverVars, session
<1>3. ASSUME NEW t \in Transfers, child[t].pc \in {"begin", "streaming"}
      PROVE  link'[child[t].conn].server = "open"
  <2>1. child[t].conn \in Links /\ Live(t) /\ child[t].conn # 0 /\ link[child[t].conn].server = "open"
    BY <1>3, Constants DEF TInv, ServerKeeps, Forked, Live, Clean
  <2>2. child[t].conn \notin Listening
    <3>1. armed # 0 => armed # child[t].conn
      BY <2>1, ConnNotArmed
    <3>2. ASSUME NEW u \in Transfers, child[u].pc \in {"setup", "exited"}
          PROVE  served[u] # 0 => served[u] # child[t].conn
      BY <1>3, <2>1, <3>2, EndsApart DEF Live
    <3> QED
      BY <3>1, <3>2 DEF Listening
  <2> QED
    BY <1>1, <2>1, <2>2 DEF KeepsTidy
<1> QED
  BY <1>1, <1>2, <1>3 DEF KeepsTidy, Clean
-----------------------------------------------------------------------------
(* What the steps of a transfer do to the data.                            *)

SameTask(t) ==
  child'[t].verb = child[t].verb /\ child'[t].file = child[t].file

\* It ends: a connection that the client has not closed brings what was on its way.
Leaves(t) ==
  /\ ~Live(t)' /\ OnlyChild(t)
  /\ \A c \in Links \ {child[t].conn} : link'[c] = link[c]
  /\ \A c \in Links : link[c].client # "closed" =>
       /\ link'[c].client = link[c].client /\ link'[c].port = link[c].port
       /\ link'[c].down = link[c].down
  /\ \A c \in Links : link[c].client = "closed" => link'[c].client \in {"closed", "none"}
  /\ \A c \in Links : TidyLink(link[c]) => TidyLink(link'[c])

LEMMA ExitLeaves == ASSUME TInv, NEW t \in Transfers, Exit(t) PROVE Leaves(t)
<1>1. child \in [Transfers -> Child] /\ link \in [Links -> Connection]
  BY DEF TInv, ServerKeeps, Forked, Wires
<1>2. child'[t] = [Unborn EXCEPT !.pc = "exited"] /\ OnlyChild(t)
  BY <1>1 DEF Exit, OnlyChild
<1>3. ~Live(t)'
  BY <1>2 DEF Unborn, Live
<1>4. \A c \in Links \ {child[t].conn} : link'[c] = link[c]
  BY <1>1 DEF Exit
<1>5. ASSUME NEW c \in Links, c = child[t].conn
      PROVE  /\ link[c].client # "closed" =>
                  /\ link'[c].client = link[c].client /\ link'[c].port = link[c].port
                  /\ link'[c].down = link[c].down
             /\ link[c].client = "closed" => link'[c].client = "none"
             /\ TidyLink(link'[c])
  <2>1. c # 0 /\ link[c] \in Connection
    BY <1>1, Constants
  <2>2. link'[c] = IF link[c].client = "closed" THEN NoLink
                   ELSE [link[c] EXCEPT !.server = "closed", !.up = <<>>]
    BY <1>1, <1>5, <2>1 DEF Exit
  <2>3. CASE link[c].client = "closed"
    <3>1. link'[c] = NoLink
      BY <2>2, <2>3
    <3> QED
      BY <2>3, <3>1 DEF NoLink, TidyLink
  <2>4. CASE link[c].client # "closed"
    <3>1. link'[c] = [link[c] EXCEPT !.server = "closed", !.up = <<>>]
      BY <2>2, <2>4
    <3>2. /\ link'[c].client = link[c].client /\ link'[c].port = link[c].port
          /\ link'[c].down = link[c].down /\ link'[c].up = <<>> /\ link'[c].server = "closed"
      BY <2>1, <3>1 DEF Connection
    <3> QED
      BY <2>4, <3>2 DEF TidyLink
  <2> QED
    BY <2>3, <2>4
<1>6. ASSUME NEW c \in Links
      PROVE  /\ link[c].client # "closed" =>
                  /\ link'[c].client = link[c].client /\ link'[c].port = link[c].port
                  /\ link'[c].down = link[c].down
             /\ link[c].client = "closed" => link'[c].client \in {"closed", "none"}
             /\ TidyLink(link[c]) => TidyLink(link'[c])
  <2>1. CASE c = child[t].conn
    BY <1>5, <2>1
  <2>2. CASE c # child[t].conn
    BY <1>4, <2>2
  <2> QED
    BY <2>1, <2>2
<1> QED
  BY <1>2, <1>3, <1>4, <1>6 DEF Leaves

\* It takes the connection that waits on its socket, or makes one to the client.
Joins(t, c) ==
  /\ child[t].pc = "setup" /\ child'[t].pc = "begin" /\ child'[t].conn = c /\ c \in Links
  /\ SameTask(t) /\ child'[t].offset = child[t].offset
  /\ OnlyChild(t) /\ UNCHANGED <<replies, remote>>
  /\ \A d \in Links \ {c} : link'[d] = link[d]
  /\ link'[c].server = "open"

Takes(t) ==
  /\ Joins(t, served[t]) /\ served[t] # 0 /\ link[served[t]].server = "queued"
  /\ link'[served[t]].client = link[served[t]].client /\ link'[served[t]].port = link[served[t]].port
  /\ link'[served[t]].up = link[served[t]].up /\ link'[served[t]].down = link[served[t]].down

Dials(t) ==
  /\ Joins(t, t) /\ child[t].mode = "MODE_PORT"
  /\ link'[t].up = <<>> /\ link'[t].down = <<>> /\ link'[t].client = "queued"

\* It gives up, whatever it says of it.
Quits(t) ==
  /\ Exit(t) /\ UNCHANGED remote
  /\ UNCHANGED replies \/ \E code \in Codes \ {"150", "226"} : Says(t, code)

LEMMA SetupCarries ==
  ASSUME TInv, NEW t \in Transfers, SetupDataConnection(t)
  PROVE  Takes(t) \/ Dials(t) \/ Quits(t)
<1>1. /\ child[t] \in Child /\ child \in [Transfers -> Child] /\ link \in [Links -> Connection]
      /\ child[t].pc = "setup" /\ t \in Links /\ served[t] \in Links \cup {0} /\ UNCHANGED remote
  <2>1. made \in 0 .. MaxListeners /\ served[t] \in 0 .. made
    BY DEF TInv, ServerKeeps, Sockets, Passive!TypeOK
  <2>2. served[t] \in Links \cup {0}
    BY <2>1, Constants
  <2> QED
    BY <2>2, Constants DEF SetupDataConnection, TInv, ServerKeeps, Forked, Wires
<1>2. ASSUME NEW c \in Links, child' = [child EXCEPT ![t].pc = "begin", ![t].conn = c]
      PROVE  /\ OnlyChild(t) /\ child'[t].pc = "begin" /\ SameTask(t) /\ child'[t].conn = c
             /\ child'[t].offset = child[t].offset
  BY <1>1, <1>2 DEF OnlyChild, Child, SameTask
<1>3. CASE /\ served[t] # 0 /\ link' = [link EXCEPT ![served[t]].server = "open"]
           /\ link[served[t]].server = "queued"
           /\ child' = [child EXCEPT ![t].pc = "begin", ![t].conn = served[t]]
           /\ UNCHANGED replies
  <2>1. served[t] \in Links /\ link[served[t]] \in Connection
    BY <1>1, <1>3
  <2>2. /\ link'[served[t]].client = link[served[t]].client
        /\ link'[served[t]].port = link[served[t]].port
        /\ link'[served[t]].up = link[served[t]].up
        /\ link'[served[t]].down = link[served[t]].down
        /\ link'[served[t]].server = "open"
        /\ \A d \in Links \ {served[t]} : link'[d] = link[d]
    BY <1>1, <1>3, <2>1 DEF Connection
  <2> QED
    BY <1>1, <1>2, <1>3, <2>1, <2>2 DEF Takes, Joins
<1>4. CASE /\ child[t].mode = "MODE_PORT" /\ UNCHANGED replies
           /\ link' = [link EXCEPT ![t] = [NoLink EXCEPT !.client = "queued", !.server = "open",
                                                        !.port = child[t].port]]
           /\ child' = [child EXCEPT ![t].pc = "begin", ![t].conn = t]
  <2> DEFINE port == child[t].port
  <2>1. link' = [link EXCEPT ![t] = [NoLink EXCEPT !.client = "queued", !.server = "open", !.port = port]]
    BY <1>4
  <2> HIDE DEF port
  <2>2. /\ link'[t].up = <<>> /\ link'[t].down = <<>> /\ link'[t].client = "queued"
        /\ link'[t].server = "open" /\ \A d \in Links \ {t} : link'[d] = link[d]
    BY <1>1, <2>1 DEF NoLink
  <2> QED
    BY <1>1, <1>2, <1>4, <2>2 DEF Dials, Joins
<1>5. CASE Exit(t) /\ Says(t, "425")
  BY <1>1, <1>5 DEF Quits, Codes
<1> QED
  BY <1>3, <1>4, <1>5 DEF SetupDataConnection

\* It begins: STOR empties the file, APPE sees to it that there is one.
Begins(t) ==
  /\ child[t].pc = "begin" /\ child'[t].pc = "streaming" /\ child'[t].conn = child[t].conn
  /\ SameTask(t) /\ child'[t].offset = child[t].offset
  /\ OnlyChild(t) /\ UNCHANGED link /\ Says(t, "150")
  /\ Content(t).exists \/ Runs(t, {"STOR", "APPE"})
  /\ \A name \in Files \ {child[t].file} : remote'[name] = remote[name]
  /\ remote'[child[t].file].exists
  /\ remote'[child[t].file].data = IF Runs(t, {"STOR"}) THEN <<>> ELSE Content(t).data

LEMMA BeginCarries ==
  ASSUME TInv, NEW t \in Transfers, Begin(t)
  PROVE  Begins(t) \/ Quits(t)
<1>1. /\ child[t] \in Child /\ child \in [Transfers -> Child] /\ child[t].pc = "begin"
      /\ child[t].file \in Files /\ remote \in [Files -> Disk]
  BY DEF Begin, TInv, ServerKeeps, Forked, Disks, Live
<1>2. CASE /\ Content(t).exists \/ Runs(t, {"STOR", "APPE"})
           /\ child' = [child EXCEPT ![t].pc = "streaming"] /\ Says(t, "150") /\ UNCHANGED link
           /\ remote' = [remote EXCEPT ![child[t].file] =
                IF Runs(t, {"STOR"}) THEN File(<<>>) ELSE [@ EXCEPT !.exists = TRUE]]
  <2>1. child'[t] = [child[t] EXCEPT !.pc = "streaming"] /\ OnlyChild(t)
    BY <1>1, <1>2 DEF OnlyChild
  <2>2. /\ child'[t].pc = "streaming" /\ SameTask(t) /\ child'[t].offset = child[t].offset
        /\ child'[t].conn = child[t].conn
    BY <1>1, <2>1 DEF Child, SameTask
  <2>3. /\ \A name \in Files \ {child[t].file} : remote'[name] = remote[name]
        /\ remote'[child[t].file] = IF Runs(t, {"STOR"}) THEN File(<<>>)
                                    ELSE [remote[child[t].file] EXCEPT !.exists = TRUE]
    BY <1>1, <1>2
  <2>4. remote'[child[t].file].exists
    <3>1. remote[child[t].file] \in Disk
      BY <1>1
    <3>2. CASE Runs(t, {"STOR"})
      BY <2>3, <3>2 DEF File
    <3>3. CASE ~Runs(t, {"STOR"})
      BY <2>3, <3>1, <3>3 DEF Disk
    <3> QED
      BY <3>2, <3>3
  <2>5. remote'[child[t].file].data = IF Runs(t, {"STOR"}) THEN <<>> ELSE Content(t).data
    <3>1. remote[child[t].file] \in Disk
      BY <1>1
    <3> QED
      BY <2>3, <3>1 DEF Disk, File, Content
  <2> QED
    BY <1>1, <1>2, <2>1, <2>2, <2>3, <2>4, <2>5 DEF Begins
<1>3. CASE (\E code \in Refusal(t) : Says(t, code)) /\ Exit(t) /\ UNCHANGED remote
  <2>1. Refusal(t) \subseteq Codes \ {"150", "226"}
    BY DEF Refusal, Codes
  <2> QED
    BY <1>3, <2>1 DEF Quits
<1> QED
  BY <1>2, <1>3 DEF Begin

\* It moves a unit of data,
Sends(t) ==
  /\ child[t].pc = "streaming" /\ child'[t].pc = "streaming" /\ child'[t].conn = child[t].conn
  /\ SameTask(t) /\ child'[t].offset = child[t].offset + 1
  /\ OnlyChild(t) /\ UNCHANGED <<replies, remote>>
  /\ Runs(t, {"RETR", "LIST"}) /\ Sendable(t) # <<>>
  /\ \A c \in Links : SameEnds(c) /\ link'[c].up = link[c].up
  /\ \A c \in Links \ {child[t].conn} : link'[c].down = link[c].down
  /\ link'[child[t].conn].down = Append(link[child[t].conn].down, Head(Sendable(t)))

Stores(t) ==
  /\ child[t].pc = "streaming" /\ UNCHANGED <<child, replies>>
  /\ Runs(t, {"STOR", "APPE"}) /\ link[child[t].conn].up # <<>>
  /\ \A name \in Files \ {child[t].file} : remote'[name] = remote[name]
  /\ remote'[child[t].file].exists = Content(t).exists
  /\ remote'[child[t].file].data = Append(Content(t).data, Head(link[child[t].conn].up))
  /\ \A c \in Links : SameEnds(c) /\ link'[c].down = link[c].down
  /\ \A c \in Links \ {child[t].conn} : link'[c].up = link[c].up
  /\ ~torn' => link'[child[t].conn].up = SubSeq(link[child[t].conn].up, 2, Len(link[child[t].conn].up))

\* or there is no more to move.
Finishes(t) ==
  /\ child[t].pc = "streaming" /\ Exit(t) /\ UNCHANGED remote /\ Says(t, "226")
  /\ \/ Runs(t, {"RETR", "LIST"}) /\ Sendable(t) = <<>> /\ ~TooFar(t)
     \/ Runs(t, {"STOR", "APPE"}) /\ link[child[t].conn].up = <<>> /\ link[child[t].conn].client = "closed"

LEMMA StreamOutCarries ==
  ASSUME TInv, NEW t \in Transfers, StreamOut(t) PROVE Sends(t) \/ Finishes(t) \/ Quits(t)
<1> DEFINE c == child[t].conn
<1>1. /\ child \in [Transfers -> Child] /\ link \in [Links -> Connection] /\ c \in Links
      /\ child[t].pc = "streaming" /\ Runs(t, {"RETR", "LIST"}) /\ UNCHANGED remote
  BY DEF StreamOut, TInv, ServerKeeps, Forked, Wires
<1>2. CASE /\ Sendable(t) # <<>> /\ UNCHANGED replies
           /\ link' = [link EXCEPT ![c].down = Append(link[c].down, Head(Sendable(t)))]
           /\ child' = [child EXCEPT ![t].offset = child[t].offset + 1]
  <2> DEFINE offset == child[t].offset + 1
             data == Append(link[c].down, Head(Sendable(t)))
  <2>1. child' = [child EXCEPT ![t].offset = offset] /\ link' = [link EXCEPT ![c].down = data]
    BY <1>2
  <2> HIDE DEF offset, data
  <2>2. /\ OnlyChild(t) /\ SameTask(t) /\ child'[t].offset = offset
        /\ child'[t].pc = child[t].pc /\ child'[t].conn = child[t].conn
    <3>1. child'[t] = [child[t] EXCEPT !.offset = offset] /\ child[t] \in Child /\ OnlyChild(t)
      BY <1>1, <2>1 DEF OnlyChild
    <3> QED
      BY <3>1 DEF Child, SameTask
  <2>3. \A d \in Links : SameEnds(d)
    BY <1>1, <2>1, PartSame
  <2>4. /\ link'[c].down = data /\ link'[c].up = link[c].up
        /\ \A d \in Links \ {c} : link'[d] = link[d]
    <3>1. link'[c] = [link[c] EXCEPT !.down = data] /\ link[c] \in Connection
          /\ \A d \in Links \ {c} : link'[d] = link[d]
      BY <1>1, <2>1
    <3> QED
      BY <3>1 DEF Connection
  <2> QED
    BY <1>1, <1>2, <2>2, <2>3, <2>4 DEF Sends, offset, data
<1>3. CASE Sendable(t) = <<>> /\ Exit(t) /\ Says(t, IF TooFar(t) THEN "551" ELSE "226")
  <2>1. CASE TooFar(t)
    BY <1>1, <1>3, <2>1 DEF Quits, Codes
  <2>2. CASE ~TooFar(t)
    BY <1>1, <1>3, <2>2 DEF Finishes
  <2> QED
    BY <2>1, <2>2
<1>4. CASE Exit(t) /\ (Says(t, "451") \/ Says(t, "426") \/ UNCHANGED replies)
  BY <1>1, <1>4 DEF Quits, Codes
<1> QED
  BY <1>2, <1>3, <1>4 DEF StreamOut

LEMMA StreamInCarries ==
  ASSUME TInv, NEW t \in Transfers, StreamIn(t) PROVE Stores(t) \/ Finishes(t) \/ Quits(t)
<1> DEFINE c == child[t].conn
           name == child[t].file
<1>1. /\ link \in [Links -> Connection] /\ c \in Links /\ remote \in [Files -> Disk] /\ name \in Files
      /\ child[t].pc = "streaming" /\ Runs(t, {"STOR", "APPE"})
  BY DEF StreamIn, TInv, ServerKeeps, Forked, Wires, Disks, Live
<1>2. CASE /\ link[c].up # <<>> /\ UNCHANGED <<child, replies>>
           /\ remote' = [remote EXCEPT ![name].data = Append(remote[name].data, Head(link[c].up))]
           /\ \E n \in 1 .. Len(link[c].up) :
                link' = [link EXCEPT ![c].up = SubSeq(link[c].up, n + 1, Len(link[c].up))] /\ torn' = (torn \/ n > 1)
  <2>0. PICK n \in 1 .. Len(link[c].up) :
          link' = [link EXCEPT ![c].up = SubSeq(link[c].up, n + 1, Len(link[c].up))] /\ torn' = (torn \/ n > 1)
    BY <1>2
  <2> DEFINE more == Append(remote[name].data, Head(link[c].up))
             rest == SubSeq(link[c].up, n + 1, Len(link[c].up))
  <2>1. remote' = [remote EXCEPT ![name].data = more] /\ link' = [link EXCEPT ![c].up = rest]
    BY <1>2, <2>0
  <2>5. ~torn' => rest = SubSeq(link[c].up, 2, Len(link[c].up))
    <3>1. torn' = (torn \/ n > 1)
      BY <2>0
    <3>2. ~torn' => ~(n > 1)
      BY <3>1, Zenon
    <3>3. link[c].up \in Seq(Units)
      BY <1>1 DEF Connection
    <3>4. ~torn' => n = 1
      BY <3>2, <3>3
    <3> QED
      BY <3>4 DEF rest
  <2> HIDE DEF more, rest
  <2>2. \A d \in Links : SameEnds(d)
    BY <1>1, <2>1, PartSame
  <2>3. /\ link'[c].up = rest /\ link'[c].down = link[c].down
        /\ \A d \in Links \ {c} : link'[d] = link[d]
    <3>1. link'[c] = [link[c] EXCEPT !.up = rest] /\ link[c] \in Connection
          /\ \A d \in Links \ {c} : link'[d] = link[d]
      BY <1>1, <2>1
    <3> QED
      BY <3>1 DEF Connection
  <2>4. /\ remote'[name].data = more /\ remote'[name].exists = remote[name].exists
        /\ \A other \in Files \ {name} : remote'[other] = remote[other]
    <3>1. remote'[name] = [remote[name] EXCEPT !.data = more] /\ remote[name] \in Disk
          /\ \A other \in Files \ {name} : remote'[other] = remote[other]
      BY <1>1, <2>1
    <3> QED
      BY <3>1 DEF Disk
  <2> QED
    BY <1>1, <1>2, <2>2, <2>3, <2>4, <2>5 DEF Stores, Content, more
<1>3. CASE link[c].up = <<>> /\ link[c].client = "closed" /\ Exit(t) /\ Says(t, "226") /\ UNCHANGED remote
  BY <1>1, <1>3 DEF Finishes
<1>4. CASE Exit(t) /\ UNCHANGED <<replies, remote>>
  BY <1>4 DEF Quits
<1> QED
  BY <1>2, <1>3, <1>4 DEF StreamIn

LEMMA TransferCarries ==
  ASSUME TInv, NEW t \in Transfers, TransferStep(t)
  PROVE  /\ Takes(t) \/ Dials(t) \/ Begins(t) \/ Sends(t) \/ Stores(t) \/ Finishes(t) \/ Quits(t)
         /\ Live(t) /\ UNCHANGED <<commands, object, local, job, counters, astray, made, armed, served, session>>
BY TransferDoes, SetupCarries, BeginCarries, StreamOutCarries, StreamInCarries DEF TransferStep

-----------------------------------------------------------------------------
(* The connections stay clean on the server's side.                        *)

LEMMA HandleClean == ASSUME TInv, OwnSockets, Clean, HandleCommand PROVE Clean'
<1>1. PICK n \in 1 .. Len(commands) :
        \/ NotLoggedIn(commands[n])
        \/ loggedIn /\ (Pasv(commands[n]) \/ Port(commands[n]) \/ Rest(commands[n])
                        \/ FileTransfer(commands[n]) \/ FileTransferForkFails(commands[n]))
  BY DEF HandleCommand
<1> DEFINE cmd == commands[n]
<1> HIDE DEF cmd
<1>2. link \in [Links -> Connection]
  BY DEF TInv, Wires
<1>3. CASE NotLoggedIn(cmd) \/ FileTransferForkFails(cmd) \/ Rest(cmd)
  BY <1>3 DEF NotLoggedIn, FileTransferForkFails, Rest, serverVars, session, Clean
<1>4. ASSUME link' = CloseArmed \/ UNCHANGED link, UNCHANGED <<child, loggedIn>>, loggedIn
      PROVE  Clean'
  <2>1. CASE armed # 0 /\ link' = [link EXCEPT ![armed].server = "closed"]
    <3>1. ASSUME NEW c \in Links PROVE TidyLink(link'[c])
      <4>1. link[c] \in Connection /\ TidyLink(link[c])
            /\ (link'[c] = link[c] \/ link'[c] = [link[c] EXCEPT !.server = "closed"])
        BY <1>2, <2>1 DEF Clean
      <4> QED
        BY <4>1 DEF Connection, TidyLink
    <3>2. ASSUME NEW t \in Transfers, child[t].pc \in {"begin", "streaming"}
          PROVE  link'[child[t].conn].server = "open"
      <4>1. armed # child[t].conn /\ child[t].conn \in Links
        BY <2>1, <3>2, ConnNotArmed DEF Live, TInv, ServerKeeps, Forked
      <4>2. link'[child[t].conn] = link[child[t].conn]
        BY <1>2, <2>1, <4>1
      <4> QED
        BY <3>2, <4>2 DEF Clean
    <3> QED
      BY <1>4, <3>1, <3>2 DEF Clean
  <2>2. CASE UNCHANGED link
    BY <1>4, <2>2 DEF Clean
  <2> QED
    BY <1>4, <2>1, <2>2 DEF CloseArmed
<1>5. CASE loggedIn /\ (Pasv(cmd) \/ Port(cmd))
  BY <1>4, <1>5 DEF Pasv, Port
<1>6. CASE FileTransfer(cmd)
  <2>1. PICK t \in Transfers, how \in Ways(mode) : NextTransfer(t) /\ Passive!Hand(t)
                               /\ child' = [child EXCEPT ![t] = Transferring(cmd, how)]
    BY <1>6 DEF FileTransfer
  <2>2. UNCHANGED link /\ armed' = 0
    BY <1>6, <2>1 DEF FileTransfer, Passive!Hand
  <2>3. child'[t] = Transferring(cmd, how) /\ \A u \in Transfers \ {t} : child'[u] = child[u]
    BY <2>1 DEF TInv, ServerKeeps, Forked
  <2>4. child'[t].pc = "setup"
    BY <2>3 DEF Transferring, Unborn
  <2> QED
    BY <2>2, <2>3, <2>4 DEF Clean
<1> QED
  BY <1>1, <1>3, <1>5, <1>6 DEF cmd

LEMMA TransferClean == ASSUME TInv, OwnSockets, Clean, NEW t \in Transfers, TransferStep(t) PROVE Clean'
<1>1. UNCHANGED <<armed, served, loggedIn>> /\ Live(t)
  BY TransferCarries DEF session
<1>2. ASSUME NEW u \in Transfers, child[u].pc \in {"begin", "streaming"}
      PROVE  child[u].conn \in Links /\ child[u].conn # 0 /\ link[child[u].conn].server = "open" /\ Live(u)
  BY <1>2, Constants DEF TInv, ServerKeeps, Forked, Clean, Live
<1>3. CASE Takes(t) \/ Dials(t)
  <2>1. PICK c \in Links : Joins(t, c) /\ ((Takes(t) /\ c = served[t]) \/ (Dials(t) /\ c = t))
    BY <1>3 DEF Takes, Dials, Joins
  <2>2. TidyLink(link'[c])
    <3>1. CASE Takes(t)
      BY <2>1, <3>1 DEF Takes, Joins, TidyLink, Clean
    <3>2. CASE Dials(t) /\ c = t
      BY <2>1, <3>2 DEF Dials, Joins, TidyLink
    <3> QED
      BY <2>1, <3>1, <3>2
  <2> QED
    BY <1>1, <1>2, <2>1, <2>2 DEF Joins, OnlyChild, Clean
<1>4. CASE Begins(t)
  BY <1>1, <1>4 DEF Begins, OnlyChild, Clean
<1>5. CASE Sends(t)
  <2>1. /\ \A c \in Links : SameEnds(c) /\ link'[c].up = link[c].up
        /\ \A c \in Links \ {child[t].conn} : link'[c].down = link[c].down
        /\ child[t].pc = "streaming" /\ child'[t].pc = "streaming" /\ child'[t].conn = child[t].conn
        /\ OnlyChild(t)
    BY <1>5 DEF Sends
  <2>2. \A c \in Links : TidyLink(link'[c])
    BY <1>2, <2>1 DEF TidyLink, SameEnds, Clean
  <2>3. \A u \in Transfers : child'[u].pc = child[u].pc /\ child'[u].conn = child[u].conn
    BY <2>1 DEF OnlyChild
  <2> QED
    BY <1>1, <1>2, <2>1, <2>2, <2>3 DEF SameEnds, Clean
<1>6. CASE Stores(t)
  <2>1. /\ \A c \in Links : SameEnds(c) /\ link'[c].down = link[c].down
        /\ \A c \in Links \ {child[t].conn} : link'[c].up = link[c].up
        /\ link[child[t].conn].up # <<>> /\ child[t].pc = "streaming" /\ UNCHANGED child
    BY <1>6 DEF Stores
  <2>2. \A c \in Links : TidyLink(link'[c])
    BY <1>2, <2>1 DEF TidyLink, SameEnds, Clean
  <2> QED
    BY <1>1, <1>2, <2>1, <2>2 DEF SameEnds, Clean
<1>7. CASE Exit(t)
  <2>1. Leaves(t)
    BY <1>7, ExitLeaves
  <2>2. ASSUME NEW u \in Transfers, child'[u].pc \in {"begin", "streaming"}
        PROVE  link'[child'[u].conn].server = "open"
    <3>1. u # t /\ child'[u] = child[u]
      BY <2>1, <2>2 DEF Leaves, OnlyChild, Live
    <3>2. child[u].conn # child[t].conn
      BY <1>1, <1>2, <2>2, <3>1, EndsApart
    <3> QED
      BY <1>2, <2>1, <2>2, <3>1, <3>2 DEF Leaves
  <2> QED
    BY <1>1, <2>1, <2>2 DEF Leaves, Clean
<1> QED
  BY <1>3, <1>4, <1>5, <1>6, <1>7, TransferCarries DEF Finishes, Quits
-----------------------------------------------------------------------------
(* What is under way is in order, step by step of the client up to where   *)
(* it asks for a transfer.                                                 *)

KeepsPlan(j) ==
  job'[j].file = job[j].file /\ job'[j].keep = job[j].keep /\ job'[j].size = job[j].size

LEMMA PlanKept ==
  ASSUME Works, NEW j \in Jobs,
         \/ \E pc : GoTo(j, pc)
         \/ \E pc, goal : job' = [job EXCEPT ![j].pc = pc, ![j].goal = goal]
         \/ \E verb, arg, pc : Send(j, verb, arg, pc)
         \/ Request(j)
         \/ ReadAnswer(j, Quiet)
  PROVE  KeepsPlan(j)
<1>1. job[j] \in Work /\ j \in DOMAIN job
  BY DEF Works
<1>2. CASE \E pc : GoTo(j, pc)
  <2>1. PICK pc : job'[j] = [job[j] EXCEPT !.pc = pc]
    BY <1>1, <1>2 DEF GoTo
  <2> QED
    BY <1>1, <2>1 DEF Work, KeepsPlan
<1>3. CASE \E pc, goal : job' = [job EXCEPT ![j].pc = pc, ![j].goal = goal]
  <2>1. PICK pc, goal : job' = [job EXCEPT ![j].pc = pc, ![j].goal = goal]
    BY <1>3
  <2>2. job'[j] = [job[j] EXCEPT !.pc = pc, !.goal = goal]
    BY <1>1, <2>1
  <2> QED
    BY <1>1, <2>2 DEF Work, KeepsPlan
<1>4. CASE \E verb, arg, pc : Send(j, verb, arg, pc)
  <2>1. PICK pc : job' = [job EXCEPT ![j].pc = pc, ![j].serial = sent + 1]
    BY <1>4 DEF Send
  <2> DEFINE serial == sent + 1
  <2>2. job'[j] = [job[j] EXCEPT !.pc = pc, !.serial = serial]
    BY <1>1, <2>1
  <2> HIDE DEF serial
  <2> QED
    BY <1>1, <2>2 DEF Work, KeepsPlan
<1>5. CASE Request(j)
  <2> DEFINE serial == sent + 1
             goal == job[j].pc
             active == transfer_type = "PORT"
  <2>1. job'[j] = [job[j] EXCEPT !.pc = "answer", !.goal = goal, !.serial = serial,
                                 !.active = active, !.response = {}]
    BY <1>1, <1>5 DEF Request
  <2> HIDE DEF serial, goal, active
  <2> QED
    BY <1>1, <2>1, Zenon DEF Work, KeepsPlan
<1>6. CASE ReadAnswer(j, Quiet)
  <2>1. PICK r \in Arrived :
          job' = [job EXCEPT ![j].pc = IF job[j].active THEN "accept" ELSE "judge",
                             ![j].response = {r.code}, ![j].port = port_sock]
    BY <1>6 DEF ReadAnswer
  <2> DEFINE pc == IF job[j].active THEN "accept" ELSE "judge"
             response == {r.code}
  <2>2. job'[j] = [job[j] EXCEPT !.pc = pc, !.response = response, !.port = port_sock]
    BY <1>1, <2>1
  <2> HIDE DEF pc, response
  <2> QED
    BY <1>1, <2>2 DEF Work, KeepsPlan
<1> QED
  BY <1>2, <1>3, <1>4, <1>5, <1>6

LEMMA SidesKept ==
  ASSUME NEW j, job'[j].file = job[j].file, UNCHANGED <<local, remote>>
  PROVE  Have(j)' = Have(j) /\ There(j)' = There(j)
BY DEF Have, There, file

AwaitPoints == {"answer", "accept", "judge", "recv", "send", "last"}

LEMMA NoCargo == ASSUME NEW j, job'[j].pc \notin AwaitPoints PROVE Cargo(j)'
BY DEF Cargo, Getting, Got, Listing, Putting, Put, At, AwaitPoints

\* What every step of a client's work may assume, and what is to be shown.
Working(j) ==
  /\ Turning(j) /\ OneRuns /\ Running(j) /\ Clean
  /\ Parts /\ OpenSock /\ Unloaded /\ Plan(j) /\ Cargo(j)
  /\ TInv' /\ TakesTurn(j)'

Worked(j) == OpenSock /\ Unloaded /\ (Running(j) => Plan(j) /\ Cargo(j))

\* Sockets and connections that nobody touches.
LEMMA NotRenewed == ASSUME OneRuns, NEW j \in Jobs, Running(j), ~At(j, "pasv") PROVE ~Renewed
BY DEF OneRuns, Renewed, At, Running

LEMMA ClosedUp ==
  ASSUME Wires, NEW s, NEW c \in Links, link[c].up = <<>> PROVE CloseLink(s)[c].up = <<>>
<1>1. CASE s \notin Links \/ c # s
  BY <1>1 DEF CloseLink, Wires
<1>2. CASE s \in Links /\ c = s
  <2>1. link[c] \in Connection
    BY DEF Wires
  <2>2. CloseLink(s)[c] = IF link[c].server = "closed" THEN NoLink
                          ELSE [link[c] EXCEPT !.client = "closed", !.down = <<>>]
    BY <1>2 DEF CloseLink, Wires
  <2> QED
    BY <2>1, <2>2 DEF NoLink, Connection
<1> QED
  BY <1>1, <1>2

\* What was loaded before a step that tells nothing new of a socket.
LEMMA StaysUnloaded ==
  ASSUME NEW j \in Jobs, Working(j), ~At(j, "pasv"),
         \/ transfer_type' = "None"
         \/ transfer_type # "None" /\ (armed # 0 /\ link[armed].up = <<>> => link'[armed].up = <<>>)
  PROVE  Unloaded'
<1>1. ~Renewed /\ UNCHANGED armed
  BY NotRenewed DEF Working, Turning, serverVars
<1> QED
  BY <1>1 DEF Unloaded, Working

LEMMA ArmedIsLink == ASSUME TInv PROVE armed # 0 => armed \in Links
BY Constants DEF TInv, ServerKeeps, Sockets, Passive!TypeOK

LEMMA SocksStay ==
  ASSUME NEW j \in Jobs, Working(j), ~At(j, "pasv"), UNCHANGED <<link, data_sock, transfer_type>>
  PROVE  OpenSock' /\ Unloaded'
<1>1. OpenSock'
  BY DEF Working, OpenSock
<1>2. Unloaded'
  BY StaysUnloaded DEF Working, Unloaded
<1> QED
  BY <1>1, <1>2

LEMMA SocksClosed ==
  ASSUME NEW j \in Jobs, Working(j), ~At(j, "pasv"), link' = CloseLink(data_sock), data_sock' \notin Links,
         transfer_type' \in {"None", transfer_type}
  PROVE  OpenSock' /\ Unloaded'
<1>1. armed # 0 /\ link[armed].up = <<>> => link'[armed].up = <<>>
  BY ArmedIsLink, ClosedUp DEF Working, Turning, TInv
<1>2. Unloaded'
  BY <1>1, StaysUnloaded DEF Unloaded
<1> QED
  BY <1>2 DEF OpenSock

LEMMA FromKept ==
  ASSUME NEW j, KeepsPlan(j), UNCHANGED <<local, remote>>, job[j].pc # "recv", job'[j].pc # "recv"
  PROVE  From(j)' = From(j)
BY SidesKept DEF KeepsPlan, From, At

\* PASV or PORT, and what the data connection is for.
LEMMA PlanCarried ==
  ASSUME NEW j \in Jobs, Plan(j), KeepsPlan(j), job'[j].goal = job[j].goal,
         UNCHANGED <<local, remote, loggedIn, last_sent_byte>>,
         job[j].pc \in {"mode", "pasv", "port"}, job'[j].pc \in {"pasv", "port"} \cup Goals,
         Addressed(j)', job'[j].pc = "retr" => write_type' = job[j].keep
  PROVE  Plan(j)'
<1>1. /\ Have(j)' = Have(j) /\ There(j)' = There(j) /\ From(j)' = From(j)
      /\ job'[j].keep = job[j].keep /\ job'[j].size = job[j].size
  BY SidesKept, FromKept DEF KeepsPlan, Goals, Requests
<1>2. job[j].goal = "retr" /\ loggedIn => last_sent_byte = From(j)
  BY DEF Plan, Restarts
<1>3. Restarts(j)'
  BY <1>1, <1>2 DEF Restarts, At, Goals, Requests
<1>4. Sized(j)'
  BY <1>1 DEF Plan, Sized, Goals, Requests
<1> QED
  BY <1>3, <1>4 DEF Plan

LEMMA FreshPlan ==
  ASSUME NEW j, job'[j].pc = "mode", job'[j].goal \in {"rest", "stor", "list", "done"}
  PROVE  Plan(j)' /\ Cargo(j)'
<1>1. Plan(j)'
  BY DEF Plan, Addressed, Restarts, Sized, At, Awaits, Requests
<1> QED
  BY <1>1, NoCargo DEF AwaitPoints

LEMMA EndWork ==
  ASSUME NEW j \in Jobs, Works, OpenSock', Unloaded', FallenBack(j) \/ (\E outcome : End(j, outcome))
  PROVE  Worked(j)'
<1>1. CASE FallenBack(j)
  <2>1. job'[j].pc = "mode" /\ job'[j].goal \in {"rest", "stor"}
    BY <1>1, AfterGoal DEF FallenBack
  <2> QED
    BY <2>1, FreshPlan DEF Worked
<1>2. CASE \E outcome : End(j, outcome)
  BY <1>2, AfterEnd DEF Worked
<1> QED
  BY <1>1, <1>2

LEMMA StartWork ==
  ASSUME TInv, OpenSock, Unloaded, \A i \in Jobs : ~Running(i), NEW j \in Jobs,
         \E c \in Commands : Start(j, c), UNCHANGED serverVars
  PROVE  Worked(j)'
<1>1. PICK c \in Commands : Start(j, c)
  OBVIOUS
<1>2. job'[j].pc = "mode" /\ job'[j].goal = Goal(c)
  <2> DEFINE goal == Goal(c)
  <2>1. job' = [job EXCEPT ![j].pc = "mode", ![j].cmd = c.cmd, ![j].file = c.file, ![j].goal = goal]
    BY <1>1 DEF Start
  <2> HIDE DEF goal
  <2>2. /\ job'[j] = [job[j] EXCEPT !.pc = "mode", !.cmd = c.cmd, !.file = c.file, !.goal = goal]
        /\ job[j] \in Work
    BY <2>1 DEF TInv, ClientKeeps, Works
  <2>3. job'[j].pc = "mode" /\ job'[j].goal = goal
    BY <2>2 DEF Work
  <2> QED
    BY <2>3 DEF goal
<1>3. Goal(c) \in {"rest", "stor", "list", "done"}
  BY DEF Goal
<1>4. UNCHANGED <<link, data_sock, transfer_type, armed>>
  BY <1>1 DEF Start, wires, object, serverVars
<1>5. ~Renewed
  BY DEF Renewed, At, Running
<1> QED
  BY <1>2, <1>3, <1>4, <1>5, FreshPlan DEF Worked, OpenSock, Unloaded

LEMMA DoneWork ==
  ASSUME NEW j \in Jobs, Working(j), Done(j) \/ RequestRefused(j) PROVE Worked(j)'
<1>1. ~At(j, "pasv") /\ UNCHANGED <<link, data_sock, transfer_type>> /\ Works
  BY DEF Done, RequestRefused, At, wires, object, Working, Turning, TInv, ClientKeeps
<1>2. FallenBack(j) \/ \E outcome : End(j, outcome)
  BY AfterRefused DEF Done
<1> QED
  BY <1>1, <1>2, SocksStay, EndWork

LEMMA SendPasvWork == ASSUME NEW j \in Jobs, Working(j), SendPasv(j) PROVE Worked(j)'
<1> DEFINE cmd == [verb |-> "PASV", file |-> file(j), arg |-> 0, to |-> sent + 1]
<1>1. Settled /\ At(j, "mode") /\ Works
  BY DEF Working, Turning, Turn, Calm, SendPasv, At, TInv, ClientKeeps
<1>2. /\ Send(j, "PASV", 0, "pasv")
      /\ UNCHANGED <<replies, child, link, data_sock, transfer_type, local, remote, loggedIn, last_sent_byte>>
  BY DEF SendPasv, Working, Turning, serverVars, session, object
<1>3. job'[j].pc = "pasv" /\ job'[j].goal = job[j].goal /\ job'[j].serial = sent + 1 /\ KeepsPlan(j)
  BY <1>1, <1>2, AfterSend, PlanKept
<1>4. commands' = Append(commands, cmd) /\ cmd.verb = "PASV" /\ cmd.to = sent + 1
  BY <1>2 DEF Send
<1> HIDE DEF cmd
<1>5. SendsOnly(cmd)
  BY <1>1, <1>2, <1>3, <1>4, CommandAlone
<1>6. Addressed(j)'
  BY <1>3, <1>4, <1>5 DEF Addressed, At, SendsOnly, Awaits, Requests
<1>7. Plan(j)'
  BY <1>1, <1>2, <1>3, <1>6, PlanCarried DEF At, Working
<1>8. Cargo(j)'
  BY <1>3, NoCargo DEF AwaitPoints
<1> QED
  BY <1>1, <1>2, <1>7, <1>8, SocksStay DEF Worked, At

LEMMA SendPortWork == ASSUME NEW j \in Jobs, Working(j), SendPort(j) PROVE Worked(j)'
<1> DEFINE cmd == [verb |-> "PORT", file |-> file(j), arg |-> ports + 1, to |-> sent + 1]
<1>1. Settled /\ At(j, "mode") /\ Works /\ Wires
  BY DEF Working, Turning, Turn, Calm, SendPort, At, TInv, ClientKeeps
<1>2. /\ Send(j, "PORT", ports + 1, "port")
      /\ UNCHANGED <<replies, child, transfer_type, local, remote, loggedIn, last_sent_byte, armed>>
  BY DEF SendPort, Working, Turning, serverVars, session
<1>3. job'[j].pc = "port" /\ job'[j].goal = job[j].goal /\ job'[j].serial = sent + 1 /\ KeepsPlan(j)
  BY <1>1, <1>2, AfterSend, PlanKept
<1>4. commands' = Append(commands, cmd) /\ cmd.verb = "PORT" /\ cmd.to = sent + 1
  BY <1>2 DEF Send
<1> HIDE DEF cmd
<1>5. SendsOnly(cmd) /\ commands' # <<>>
  <2>1. SendsOnly(cmd)
    BY <1>1, <1>2, <1>3, <1>4, CommandAlone
  <2> QED
    BY <2>1 DEF SendsOnly
<1>6. Addressed(j)'
  BY <1>3, <1>4, <1>5 DEF Addressed, At, SendsOnly, Awaits, Requests
<1>7. Plan(j)'
  BY <1>1, <1>2, <1>3, <1>6, PlanCarried DEF At, Working
<1>8. Cargo(j)'
  BY <1>3, NoCargo DEF AwaitPoints
<1>9. armed # 0 /\ link[armed].up = <<>> => link'[armed].up = <<>>
  <2> SUFFICES ASSUME armed # 0, link[armed].up = <<>> PROVE link'[armed].up = <<>>
    OBVIOUS
  <2>1. armed \in Links
    BY ArmedIsLink DEF Working, Turning
  <2> DEFINE old == CloseLink(data_sock)[armed]
  <2>2. old \in Connection /\ old.up = <<>>
    BY <1>1, <2>1, ClosingTyped, ClosedUp
  <2>3. link'[armed] = IF old.client = "queued" /\ old.port = port_sock
                       THEN [old EXCEPT !.client = "closed"] ELSE old
    BY <2>1 DEF SendPort, CloseQueued
  <2> HIDE DEF old
  <2> QED
    BY <2>2, <2>3 DEF Connection
<1>10. data_sock' \notin Links
  BY Constants DEF SendPort, None, Dead
<1>11. OpenSock'
  BY <1>10 DEF OpenSock
<1>12. Unloaded'
  <2>1. transfer_type' = transfer_type /\ ~At(j, "pasv")
    BY <1>1, <1>2 DEF At
  <2> QED
    BY <1>9, <2>1, StaysUnloaded DEF Unloaded
<1> QED
  BY <1>7, <1>8, <1>11, <1>12 DEF Worked

LEMMA ReadPasvWork ==
  ASSUME NEW j \in Jobs, Working(j), ReadPasv(j, Quiet, Listening) PROVE Worked(j)'
<1>1. /\ Free /\ At(j, "pasv") /\ Works /\ Wires /\ job[j].goal \in Goals /\ Addressed(j)
      /\ data_sock \in Links \cup {None, Dead} /\ replies \in Seq(Answer)
  BY DEF Working, Turning, Turn, Asks, ReadPasv, At, TInv, ClientKeeps, Works, Wires, Objects, Plan
<1>2. PICK r \in Arrived :
        /\ read_response(j, r, Quiet)
        /\ IF r.code = "227" THEN Connect(r.arg, Listening)
           ELSE /\ link' = CloseLink(data_sock)
                /\ data_sock' = IF data_sock = None THEN None ELSE Dead
                /\ UNCHANGED transfer_type
  BY DEF ReadPasv
<1>3. /\ UNCHANGED <<local, remote, loggedIn, last_sent_byte, armed>>
      /\ job'[j].pc = job[j].goal /\ job'[j].goal = job[j].goal /\ KeepsPlan(j)
      /\ job[j].goal = "retr" => write_type' = job[j].keep
  BY <1>1, AfterGoTo, PlanKept DEF ReadPasv, ModeSet, Working, Turning, serverVars, session
<1>4. Addressed(j)' /\ Cargo(j)'
  BY <1>1, <1>3, NoCargo DEF Addressed, At, Awaits, Goals, Requests, AwaitPoints
<1>5. Plan(j)'
  BY <1>1, <1>3, <1>4, PlanCarried DEF At, Working
<1>6. replies # <<>> => r = replies[1]
  BY <1>1, <1>2 DEF read_response
<1>7. replies = <<>> => r.code = "None"
  BY <1>2 DEF read_response, NoReply
<1>8. armed # 0 => armed \in Links
  BY ArmedIsLink DEF Working, Turning
<1>9. r.code = "227" => Offered(r.arg)
  <2>1. replies # <<>> /\ replies[1].code = "227" => Offered(replies[1].arg)
    BY <1>1 DEF Working, Turning, Turn, Asks
  <2> QED
    BY <1>6, <1>7, <2>1
<1>10. CASE r.code = "227" /\ r.arg \in Listening
  <2>1. r.arg = armed /\ armed \in Links /\ data_sock' = armed
        /\ link' = [CloseLink(data_sock) EXCEPT ![armed] = [NoLink EXCEPT !.client = "open", !.server = "queued"]]
    BY <1>2, <1>8, <1>9, <1>10, OfferedListens DEF Connect
  <2>2. CloseLink(data_sock) \in [Links -> Connection]
    BY <1>1, ClosingTyped
  <2>3. link'[armed] = [NoLink EXCEPT !.client = "open", !.server = "queued"]
    <3> HIDE DEF CloseLink
    <3> QED
      BY <2>1, <2>2
  <2>4. link'[armed].client = "open" /\ link'[armed].up = <<>>
    BY <2>3 DEF NoLink
  <2> QED
    BY <1>3, <1>4, <1>5, <2>1, <2>4 DEF Worked, OpenSock, Unloaded
<1>11. CASE r.code = "227" /\ r.arg \notin Listening
  <2>1. data_sock' \notin Links
    BY <1>2, <1>11, Constants DEF Connect, Dead
  <2>3. armed = 0
    BY <1>9, <1>11, OfferedListens
  <2> QED
    BY <1>3, <1>4, <1>5, <2>1, <2>3 DEF Worked, OpenSock, Unloaded
<1>12. CASE r.code # "227"
  <2>1. data_sock' \notin Links /\ UNCHANGED transfer_type /\ link' = CloseLink(data_sock)
    BY <1>2, <1>12, Constants DEF None, Dead
  <2>2. ~Renewed
    BY <1>6, <1>12 DEF Working, OneRuns, Renewed, At, Running
  <2>3. transfer_type' # "None" /\ armed' # 0 => link'[armed'].up = <<>>
    BY <1>1, <1>3, <1>8, <2>1, <2>2, ClosedUp DEF Working, Unloaded
  <2> QED
    BY <1>4, <1>5, <2>1, <2>3 DEF Worked, OpenSock, Unloaded
<1> QED
  BY <1>10, <1>11, <1>12

LEMMA ReadPortWork == ASSUME NEW j \in Jobs, Working(j), ReadPort(j, Quiet) PROVE Worked(j)'
<1>1. At(j, "port") /\ Works /\ job[j].goal \in Goals /\ Addressed(j)
  BY DEF Working, Turning, ReadPort, At, TInv, ClientKeeps, Works, Plan
<1>2. /\ UNCHANGED <<commands, local, remote, loggedIn, last_sent_byte, armed, link, data_sock>>
      /\ job'[j].pc = job[j].goal /\ job'[j].goal = job[j].goal /\ KeepsPlan(j)
      /\ job[j].goal = "retr" => write_type' = job[j].keep
  BY <1>1, AfterGoTo, PlanKept DEF ReadPort, ModeSet, Working, Turning, serverVars, session
<1>3. Addressed(j)' /\ Cargo(j)'
  BY <1>1, <1>2, NoCargo DEF Addressed, At, Awaits, Goals, Requests, AwaitPoints
<1>4. Plan(j)'
  BY <1>1, <1>2, <1>3, PlanCarried DEF At, Working
<1>5. Settled'
  BY <1>1, <1>2 DEF Working, TakesTurn, Turn, Calm, Settled, Running, Goals, Requests
<1>6. armed = 0
  BY <1>1, <1>2, <1>5 DEF Settled, Addressed
<1> QED
  BY <1>2, <1>3, <1>4, <1>6 DEF Worked, OpenSock, Unloaded, Working

LEMMA SendRestWork == ASSUME NEW j \in Jobs, Working(j), SendRest(j) PROVE Worked(j)'
<1>1. Settled /\ Works /\ job[j].pc \in {"rest", "resume"}
  BY DEF Working, Turning, Turn, Calm, SendRest, Goals, TInv, ClientKeeps
<1>2. PICK arg : /\ arg = IF At(j, "rest") THEN 0 ELSE Have(j)
                 /\ Send(j, "REST", arg, IF At(j, "rest") THEN "rested" ELSE "resumed")
  BY DEF SendRest, Have
<1> DEFINE pc == IF At(j, "rest") THEN "rested" ELSE "resumed"
           cmd == [verb |-> "REST", file |-> file(j), arg |-> arg, to |-> sent + 1]
<1>3. Send(j, "REST", arg, pc)
  BY <1>2
<1>4. pc \in {"rested", "resumed"} /\ (pc = "rested" <=> At(j, "rest"))
  OBVIOUS
<1> HIDE DEF pc
<1>5. job'[j].pc = pc /\ job'[j].goal = job[j].goal /\ job'[j].serial = sent + 1 /\ KeepsPlan(j)
  BY <1>1, <1>3, AfterSend, PlanKept
<1>6. /\ commands' = Append(commands, cmd) /\ cmd.verb = "REST" /\ cmd.to = sent + 1 /\ cmd.arg = arg
      /\ write_type' = "ab"
      /\ UNCHANGED <<replies, child, link, data_sock, transfer_type, local, remote, loggedIn, last_sent_byte>>
  BY <1>3 DEF Send, SendRest, Working, Turning, serverVars, session
<1> HIDE DEF cmd
<1>7. SendsOnly(cmd) /\ commands' # <<>>
  <2>1. SendsOnly(cmd)
    BY <1>1, <1>5, <1>6, CommandAlone
  <2> QED
    BY <2>1 DEF SendsOnly
<1>8. Have(j)' = Have(j) /\ There(j)' = There(j)
  BY <1>5, <1>6, SidesKept DEF KeepsPlan
<1>9. RestSent(arg)'
  BY <1>6, <1>7 DEF RestSent, SendsOnly
<1>10. Plan(j)'
  <2>1. Addressed(j)'
    BY <1>4, <1>5 DEF Addressed, At, Awaits, Requests
  <2>2. Restarts(j)'
    <3>1. At(j, "rested")' => RestSent(0)'
      BY <1>2, <1>4, <1>5, <1>9 DEF At
    <3>2. At(j, "resumed")' => RestSent(Have(j))' /\ write_type' = "ab"
      BY <1>2, <1>4, <1>5, <1>6, <1>8, <1>9 DEF At
    <3> QED
      BY <1>4, <1>5, <3>1, <3>2 DEF Restarts, At
  <2>3. Sized(j)'
    BY <1>1, <1>4, <1>5, <1>8 DEF Working, Plan, Sized, At, KeepsPlan
  <2> QED
    BY <2>1, <2>2, <2>3 DEF Plan
<1>11. Cargo(j)'
  BY <1>4, <1>5, NoCargo DEF AwaitPoints
<1> QED
  BY <1>1, <1>6, <1>10, <1>11, SocksStay DEF Worked, At

LEMMA AfterRestPlan ==
  ASSUME Works, NEW j \in Jobs, ReadRest(j, Quiet)
  PROVE  job'[j].file = job[j].file /\ job'[j].keep = write_type'
<1> DEFINE pc == IF At(j, "rested") THEN "retr" ELSE "mode"
           keep == write_type'
<1>1. job' = [job EXCEPT ![j].pc = pc, ![j].goal = "retr", ![j].keep = keep]
  BY DEF ReadRest
<1> HIDE DEF pc, keep
<1>2. job'[j].file = job[j].file /\ job'[j].keep = keep
  <2>1. job'[j] = [job[j] EXCEPT !.pc = pc, !.goal = "retr", !.keep = keep] /\ job[j] \in Work
    BY <1>1 DEF Works
  <2> QED
    BY <2>1 DEF Work
<1> QED
  BY <1>2 DEF keep

LEMMA ReadRestWork == ASSUME NEW j \in Jobs, Working(j), ReadRest(j, Quiet) PROVE Worked(j)'
<1>1. Works /\ job[j].pc \in {"rested", "resumed"} /\ Restarts(j)
  BY DEF Working, Turning, ReadRest, TInv, ClientKeeps, Plan
<1>2. /\ job'[j].pc = (IF At(j, "rested") THEN "retr" ELSE "mode") /\ job'[j].goal = "retr"
      /\ job'[j].file = job[j].file /\ job'[j].keep = write_type'
      /\ write_type' = IF At(j, "rested") THEN "wb" ELSE write_type
  BY <1>1, AfterRest, AfterRestPlan DEF ReadRest
<1>3. UNCHANGED <<commands, link, data_sock, transfer_type, local, remote, loggedIn, last_sent_byte>>
  BY DEF ReadRest, Working, Turning, serverVars, session
<1>4. commands = <<>>
  BY <1>2, <1>3 DEF Working, TakesTurn, Turn, Calm, Settled, Running, Goals, Requests
<1>5. Have(j)' = Have(j)
  BY <1>2, <1>3, SidesKept
<1>6. loggedIn => last_sent_byte = From(j)'
  <2>1. CASE At(j, "rested")
    <3>1. From(j)' = 0
      BY <1>2, <2>1 DEF From, At
    <3> QED
      BY <1>1, <1>4, <2>1, <3>1 DEF Restarts, RestSent
  <2>2. CASE ~At(j, "rested")
    <3>1. write_type = "ab" /\ RestSent(Have(j))
      BY <1>1, <2>2 DEF Restarts, At
    <3>2. From(j)' = Have(j)
      BY <1>2, <1>5, <2>2, <3>1 DEF From
    <3> QED
      BY <1>4, <3>1, <3>2 DEF RestSent
  <2> QED
    BY <2>1, <2>2
<1>7. Plan(j)'
  <2>1. Addressed(j)' /\ Sized(j)'
    BY <1>2 DEF Addressed, Sized, At, Awaits, Requests
  <2>2. Restarts(j)'
    BY <1>2, <1>3, <1>6 DEF Restarts, At
  <2> QED
    BY <2>1, <2>2 DEF Plan
<1>8. Cargo(j)'
  BY <1>2, NoCargo DEF AwaitPoints
<1> QED
  BY <1>1, <1>3, <1>7, <1>8, SocksStay DEF Worked, At
-----------------------------------------------------------------------------
(* The transfer itself, step by step of the client.                        *)

\* What is under way stays in order while the client has touched no data.
LEMMA CargoStays ==
  ASSUME TInv, NEW j \in Jobs, Cargo(j), job'[j].file = job[j].file, job'[j].goal = job[j].goal,
         UNCHANGED <<child, served, remote>>,
         {job[j].pc, job'[j].pc} \subseteq {"answer", "accept", "judge", "recv", "send"},
         "send" \in {job[j].pc, job'[j].pc} => job[j].goal \in {"stor", "appe"},
         "recv" \in {job[j].pc, job'[j].pc} => job[j].goal \in {"retr", "list"},
         job[j].goal = "retr" =>
           From(j)' = From(j) /\ (At(j, "recv")' => local'[file(j)].exists),
         local[file(j)].exists => local'[file(j)].exists,
         \A c \in Links : Own(j, c)' => Own(j, c),
         \A c \in Links : link'[c].up = link[c].up /\ link'[c].down = link[c].down,
         Succeeded' => Succeeded
  PROVE  Cargo(j)'
<1>1. file(j)' = file(j) /\ There(j)' = There(j) /\ \A t \in Transfers : Live(t)' = Live(t)
  BY DEF file, There, Live
<1>2. Getting(j) /\ Listing(j) /\ Putting(j)
  BY DEF Cargo
<1>3. ASSUME NEW t \in Transfers, Live(t)
      PROVE  /\ child[t].pc \in {"setup", "begin", "streaming"}
             /\ child[t].pc # "setup" => child[t].conn \in Links
             /\ served[t] # 0 => served[t] \in Links
  <2>1. child[t].pc \in {"setup", "begin", "streaming"} /\ (child[t].pc # "setup" => child[t].conn \in Links)
    BY <1>3 DEF TInv, ServerKeeps, Forked, Child, Live
  <2>2. made \in 0 .. MaxListeners /\ served[t] \in 0 .. made
    BY DEF TInv, ServerKeeps, Sockets, Passive!TypeOK
  <2>3. served[t] # 0 => served[t] \in Links
    BY <2>2, Constants
  <2> QED
    BY <2>1, <2>3
<1>4. Getting(j)'
  <2> SUFFICES ASSUME job'[j].goal = "retr", job'[j].pc \in {"answer", "accept", "judge", "recv"}
               PROVE  /\ \A c \in Links : Own(j, c)' => Follows(j, c)'
                      /\ \A t \in Transfers : Live(t)' => Offset(j, t)'
                      /\ At(j, "recv")' => local'[file(j)'].exists
                      /\ Succeeded' => remote'[file(j)'].exists
    BY DEF Getting
  <2>1. /\ \A c \in Links : Own(j, c) => Follows(j, c)
        /\ \A t \in Transfers : Live(t) => Offset(j, t)
        /\ Succeeded => remote[file(j)].exists
        /\ From(j)' = From(j)
    BY <1>2 DEF Getting
  <2>2. ASSUME NEW c \in Links, Own(j, c)' PROVE Follows(j, c)'
    BY <1>1, <2>1, <2>2 DEF Follows
  <2>3. ASSUME NEW t \in Transfers, Live(t)' PROVE Offset(j, t)'
    BY <1>1, <1>3, <2>1, <2>3 DEF Offset
  <2> QED
    BY <1>1, <2>1, <2>2, <2>3
<1>5. Listing(j)'
  BY <1>1, <1>2 DEF Listing
<1>6. Putting(j)'
  <2> SUFFICES ASSUME job'[j].goal \in {"stor", "appe"}, job'[j].pc \in {"answer", "accept", "judge", "send"}
               PROVE  /\ local'[file(j)'].exists
                      /\ Succeeded' => \A c \in Links : ~Own(j, c)'
                      /\ \A t \in Transfers : Live(t)' => Empties(j, t)'
    BY DEF Putting
  <2>1. /\ local[file(j)].exists
        /\ Succeeded => \A c \in Links : ~Own(j, c)
        /\ \A t \in Transfers : Live(t) => Empties(j, t)
    BY <1>2 DEF Putting
  <2>2. ASSUME NEW t \in Transfers, Live(t)' PROVE Empties(j, t)'
    BY <1>1, <1>3, <2>1, <2>2 DEF Empties
  <2> QED
    BY <1>1, <2>1, <2>2
<1> QED
  BY <1>4, <1>5, <1>6 DEF Cargo, Got, Put, At

LEMMA PlanAwaits ==
  ASSUME NEW j \in Jobs, Plan(j), Awaits(j), ~At(j, "last"),
         job'[j].file = job[j].file, job'[j].goal = job[j].goal,
         job'[j].keep = job[j].keep, UNCHANGED <<child, remote>>,
         job'[j].pc \in {"accept", "judge", "recv", "send", "last"},
         At(j, "accept")' => job'[j].active,
         At(j, "send")' => job[j].goal \in {"stor", "appe"},
         job'[j].pc \in {"accept", "judge"} =>
           write_type' = write_type /\ job[j].pc \in {"answer", "accept", "judge"},
         job[j].goal = "appe" => job'[j].size = job[j].size /\ UNCHANGED local,
         job[j].goal = "list" /\ job'[j].pc \in {"recv", "last"} => job'[j].size \in {-1, There(j)}
  PROVE  Plan(j)'
<1>1. file(j)' = file(j) /\ There(j)' = There(j) /\ \A t \in Transfers : Live(t)' = Live(t)
  BY DEF file, There, Live
<1>2. Addressed(j) /\ Restarts(j) /\ Sized(j)
  BY DEF Plan
<1>3. Addressed(j)'
  BY <1>1, <1>2 DEF Addressed, At, Awaits, Requests
<1>4. Restarts(j)'
  BY <1>2 DEF Restarts, At
<1>5. Sized(j)'
  <2>1. job[j].goal = "appe" => Have(j)' = Have(j)
    BY <1>1 DEF Have
  <2>2. Awaits(j) /\ job[j].goal = "appe" /\ ~At(j, "last") => job[j].size = There(j) /\ There(j) <= Have(j)
    BY <1>2 DEF Sized, Awaits, At
  <2> QED
    BY <1>1, <2>1, <2>2 DEF Sized, At, Awaits
<1> QED
  BY <1>3, <1>4, <1>5 DEF Plan

\* Of the replies read_response leaves the last ones.
LEMMA ReadsOn ==
  ASSUME TInv, NEW j \in Jobs, NEW r, read_response(j, r, Quiet), Succeeded' PROVE Succeeded
<1>1. replies \in Seq(Answer)
  BY DEF TInv, Wires
<1>2. CASE UNCHANGED replies
  BY <1>2 DEF Succeeded
<1>3. CASE \E n \in 1 .. Len(replies) : replies' = SubSeq(replies, n + 1, Len(replies))
  <2>1. PICK n \in 1 .. Len(replies) : replies' = SubSeq(replies, n + 1, Len(replies))
    BY <1>3
  <2>2. /\ Len(replies') = Len(replies) - n
        /\ \A m \in 1 .. Len(replies) - n : replies'[m] = replies[n + m]
        /\ replies' \in Seq(Answer)
    BY <1>1, <2>1, Sequence
  <2>3. Len(replies') # 0 /\ Len(replies') \in Nat /\ Len(replies) \in Nat
    BY <1>1, <2>2 DEF Succeeded
  <2>4. replies'[Len(replies')] = replies[Len(replies)]
    BY <2>2, <2>3
  <2> QED
    BY <2>3, <2>4 DEF Succeeded
<1> QED
  BY <1>2, <1>3 DEF read_response

LEMMA RequestWork == ASSUME NEW j \in Jobs, Working(j), Request(j) PROVE Worked(j)'
<1> DEFINE cmd == [verb |-> Verb(job[j].pc), file |-> file(j), arg |-> 0, to |-> sent + 1]
<1>1. /\ Settled /\ Ready /\ OnArmed /\ (transfer_type = "PORT" => NoQueue)
      /\ job[j].pc \in Requests /\ job[j].goal = job[j].pc
      /\ Works /\ Plan(j) /\ Clean /\ transfer_type # "None" /\ HasFile(j)
  BY DEF Working, Turning, Turn, Calm, Prepared, Request, Goals, Requests, TInv, ClientKeeps, Plan,
    Addressed
<1>2. /\ job'[j].pc = "answer" /\ job'[j].goal = job[j].goal /\ job'[j].serial = sent + 1
      /\ (job'[j].active => transfer_type = "PORT") /\ KeepsPlan(j)
  BY <1>1, AfterRequest, PlanKept
<1>3. /\ commands' = Append(commands, cmd) /\ cmd.verb = Verb(job[j].goal) /\ cmd.file = file(j)
      /\ cmd.to = sent + 1
      /\ UNCHANGED <<replies, child, link, data_sock, port_sock, transfer_type, write_type, local, remote,
                     loggedIn, last_sent_byte, served>>
  BY <1>1 DEF Request, Working, Turning, serverVars, session, object
<1> HIDE DEF cmd
<1>4. SendsOnly(cmd)
  BY <1>1, <1>2, <1>3, CommandAlone
<1>5. ~Succeeded' /\ \A t \in Transfers : ~Live(t)'
  BY <1>4 DEF SendsOnly, Succeeded
<1>6. Have(j)' = Have(j) /\ There(j)' = There(j) /\ file(j)' = file(j) /\ From(j)' = From(j)
  BY <1>1, <1>2, <1>3, SidesKept, FromKept DEF KeepsPlan, file, Requests
<1>7. Plan(j)'
  <2>1. Addressed(j)'
    BY <1>1, <1>2, <1>3, <1>4, <1>6 DEF Addressed, At, Awaits, Requests, SendsOnly
  <2>2. Restarts(j)'
    BY <1>1, <1>2, <1>3, <1>6 DEF Plan, Restarts, At, KeepsPlan
  <2>3. Sized(j)'
    BY <1>1, <1>2, <1>6 DEF Plan, Sized, KeepsPlan, Requests
  <2> QED
    BY <2>1, <2>2, <2>3 DEF Plan
<1>8. ASSUME NEW c \in Links, Own(j, c)' PROVE link'[c].down = <<>>
  <2>1. CASE c = data_sock
    <3>1. data_sock = armed /\ armed # 0
      BY <1>1, <2>1, Constants DEF OnArmed
    <3> QED
      BY <1>1, <1>3, <2>1, <3>1 DEF Ready, Clean, TidyLink
  <2>2. CASE c # data_sock
    BY <1>1, <1>2, <1>3, <1>8, <2>2 DEF Own, NoQueue, Queue
  <2> QED
    BY <2>1, <2>2
<1>9. Getting(j)'
  <2>1. ASSUME NEW c \in Links, Own(j, c)' PROVE Follows(j, c)'
    <3>1. Len(link'[c].down) = 0
      BY <1>8, <2>1
    <3> QED
      BY <1>5, <3>1 DEF Follows
  <2> QED
    BY <1>2, <1>5, <2>1 DEF Getting, At
<1>10. Listing(j)'
  <2>1. ASSUME NEW c \in Links, Own(j, c)' PROVE Len(link'[c].down) = 0
    BY <1>8, <2>1
  <2> QED
    BY <2>1 DEF Listing
<1>11. Putting(j)'
  BY <1>1, <1>2, <1>3, <1>5, <1>6 DEF Putting, HasFile
<1>12. Cargo(j)'
  BY <1>2, <1>9, <1>10, <1>11 DEF Cargo, Got, Put, At
<1>13. ~At(j, "pasv")
  BY <1>1 DEF At, Requests
<1> QED
  BY <1>3, <1>7, <1>12, <1>13, SocksStay DEF Worked

LEMMA ReadAnswerWork == ASSUME NEW j \in Jobs, Working(j), ReadAnswer(j, Quiet) PROVE Worked(j)'
<1>1. At(j, "answer") /\ Works /\ Plan(j) /\ Cargo(j) /\ TInv /\ Awaits(j) /\ ~At(j, "pasv")
  BY DEF Working, Turning, ReadAnswer, At, TInv, ClientKeeps, Awaits
<1>2. PICK r : /\ read_response(j, r, Quiet)
               /\ Keeps(j) /\ job'[j].goal = job[j].goal
               /\ job'[j].pc = IF job[j].active THEN "accept" ELSE "judge"
  BY <1>1, AfterAnswer
<1>3. KeepsPlan(j)
  BY <1>1, PlanKept
<1>4. UNCHANGED <<link, data_sock, port_sock, transfer_type, write_type, local, remote, child, served>>
  BY DEF ReadAnswer, object, Working, Turning, serverVars
<1>5. From(j)' = From(j)
  BY <1>1, <1>2, <1>3, <1>4, FromKept DEF At
<1>6. \A c \in Links : Own(j, c)' => Own(j, c)
  BY <1>1, <1>2, <1>4 DEF Own, Queue, Keeps, At
<1>7. Succeeded' => Succeeded
  BY <1>1, <1>2, ReadsOn
<1>8. Cargo(j)'
  BY <1>1, <1>2, <1>3, <1>4, <1>5, <1>6, <1>7, CargoStays DEF KeepsPlan, At
<1>9. Plan(j)'
  BY <1>1, <1>2, <1>3, <1>4, PlanAwaits DEF KeepsPlan, At, Keeps
<1> QED
  BY <1>1, <1>4, <1>8, <1>9, SocksStay DEF Worked

LEMMA AcceptDataWork == ASSUME NEW j \in Jobs, Working(j), AcceptData(j) PROVE Worked(j)'
<1>1. /\ At(j, "accept") /\ Works /\ Plan(j) /\ Cargo(j) /\ TInv /\ Awaits(j) /\ ~At(j, "pasv")
      /\ job[j].active /\ Wires
  BY DEF Working, Turning, AcceptData, At, TInv, ClientKeeps, Awaits, Plan, Addressed
<1>2. job[j].port = port_sock /\ port_sock # None
  BY <1>1 DEF Working, Turning, Turn, Moves, At
<1>3. PICK c \in Links :
        /\ link[c].client = "queued" /\ link[c].port = port_sock
        /\ link' = [link EXCEPT ![c].client = "open"]
        /\ data_sock' = c
  BY <1>2 DEF AcceptData
<1>4. job' = [job EXCEPT ![j].pc = "judge"]
  BY <1>2 DEF AcceptData, GoTo
<1>5. job'[j].pc = "judge" /\ job'[j].goal = job[j].goal /\ KeepsPlan(j)
  BY <1>1, <1>4, AfterGoTo, PlanKept DEF GoTo
<1>6. UNCHANGED <<replies, transfer_type, write_type, local, remote, child, served, armed>>
  BY DEF AcceptData, Working, Turning, serverVars
<1>7. /\ \A d \in Links : link'[d].up = link[d].up /\ link'[d].down = link[d].down
      /\ link'[c].client = "open"
  <2>1. ASSUME NEW d \in Links PROVE link'[d].up = link[d].up /\ link'[d].down = link[d].down
    <3>1. link[d] \in Connection /\ link'[d] \in {link[d], [link[d] EXCEPT !.client = "open"]}
      BY <1>1, <1>3 DEF Wires
    <3> QED
      BY <3>1 DEF Connection
  <2>2. link'[c].client = "open"
    <3>1. link[c] \in Connection /\ link'[c] = [link[c] EXCEPT !.client = "open"]
      BY <1>1, <1>3 DEF Wires
    <3> QED
      BY <3>1 DEF Connection
  <2> QED
    BY <2>1, <2>2
<1>8. \A d \in Links : Own(j, d)' => Own(j, d)
  BY <1>1, <1>3, <1>5 DEF Own, Queue, At
<1>9. From(j)' = From(j)
  BY <1>1, <1>5, <1>6, FromKept DEF At
<1>10. Cargo(j)'
  BY <1>1, <1>5, <1>6, <1>7, <1>8, <1>9, CargoStays DEF KeepsPlan, At, Succeeded
<1>11. Plan(j)'
  BY <1>1, <1>5, <1>6, PlanAwaits DEF KeepsPlan, At
<1>12. OpenSock'
  BY <1>3, <1>7 DEF OpenSock
<1>13. Unloaded'
  <2>1. armed # 0 /\ link[armed].up = <<>> => link'[armed].up = <<>>
    BY <1>1, <1>7, ArmedIsLink
  <2> QED
    BY <1>1, <1>6, <2>1, StaysUnloaded DEF Unloaded
<1> QED
  BY <1>10, <1>11, <1>12, <1>13 DEF Worked

LEMMA JudgeWork == ASSUME NEW j \in Jobs, Working(j), Judge(j) PROVE Worked(j)'
<1>1. ~At(j, "pasv") /\ Works
  BY DEF Judge, At, Working, Turning, TInv, ClientKeeps
<1>2. CASE Raise(j) /\ UNCHANGED <<link, object>>
  BY <1>1, <1>2, SocksStay, EndWork DEF object, Raise
<1>3. CASE CloseData /\ transfer_type' = "None" /\ End(j, "error")
  <2>1. data_sock' \notin Links
    BY <1>3, Constants DEF CloseData, None
  <2>2. OpenSock' /\ Unloaded'
    BY <1>1, <1>3, <2>1, SocksClosed DEF CloseData
  <2> QED
    BY <1>1, <1>3, <2>2, EndWork
<1> QED
  BY <1>2, <1>3 DEF Judge

LEMMA OpenLocalWork == ASSUME NEW j \in Jobs, Working(j), OpenLocal(j) PROVE Worked(j)'
<1>1. /\ At(j, "judge") /\ job[j].goal = "retr" /\ Works /\ Plan(j) /\ Cargo(j) /\ TInv /\ Awaits(j)
      /\ ~At(j, "pasv") /\ file(j) \in Files
  BY DEF Working, Turning, OpenLocal, At, TInv, ClientKeeps, Awaits, Works
<1>2. /\ job'[j].pc = "recv" /\ job'[j].goal = job[j].goal /\ KeepsPlan(j)
  BY <1>1, AfterGoTo, PlanKept DEF OpenLocal
<1>3. UNCHANGED <<link, data_sock, port_sock, transfer_type, write_type, replies, remote, child, served>>
  BY DEF OpenLocal, wires, object, Working, Turning, serverVars
<1>4. write_type = job[j].keep /\ job[j].keep \in {"wb", "ab"}
  BY <1>1 DEF Plan, Restarts, Works, Work, At
<1>5. local'[file(j)] = File(IF write_type = "wb" THEN <<>> ELSE local[file(j)].data)
  BY <1>1 DEF OpenLocal, TInv, Disks
<1>6. local'[file(j)].exists /\ local'[file(j)].data = IF write_type = "wb" THEN <<>> ELSE local[file(j)].data
  BY <1>5 DEF File
<1>7. file(j)' = file(j)
  BY <1>2 DEF KeepsPlan, file
<1>8. From(j)' = From(j)
  <2>1. From(j)' = Have(j)'
    BY <1>2 DEF From, At
  <2>2. CASE write_type = "wb"
    BY <1>1, <1>4, <1>6, <1>7, <2>1, <2>2 DEF From, At, Have
  <2>3. CASE write_type = "ab"
    BY <1>1, <1>4, <1>6, <1>7, <2>1, <2>3 DEF From, At, Have
  <2> QED
    BY <1>4, <2>2, <2>3
<1>9. \A c \in Links : Own(j, c)' => Own(j, c)
  BY <1>2, <1>3 DEF Own
<1>10. Cargo(j)'
  BY <1>1, <1>2, <1>3, <1>6, <1>8, <1>9, CargoStays DEF KeepsPlan, At, Succeeded
<1>11. Plan(j)'
  BY <1>1, <1>2, <1>3, PlanAwaits DEF KeepsPlan, At
<1> QED
  BY <1>1, <1>3, <1>10, <1>11, SocksStay DEF Worked

LEMMA ProceedWork == ASSUME NEW j \in Jobs, Working(j), Proceed(j) PROVE Worked(j)'
<1>1. /\ At(j, "judge") /\ job[j].goal # "retr" /\ Works /\ Plan(j) /\ Cargo(j) /\ TInv /\ Awaits(j)
      /\ ~At(j, "pasv") /\ job[j].goal \in Requests
  BY DEF Working, Turning, Proceed, At, TInv, ClientKeeps, Awaits, Plan, Addressed
<1>2. /\ job'[j].pc = (IF job[j].goal = "list" THEN "recv" ELSE "send") /\ job'[j].goal = job[j].goal
  BY <1>1, AfterProceed
<1>3. /\ job'[j].file = job[j].file /\ job'[j].keep = job[j].keep
      /\ job'[j].size = IF job[j].goal = "list" THEN -1 ELSE job[j].size
  <2> DEFINE pc == IF job[j].goal = "list" THEN "recv" ELSE "send"
             size == IF job[j].goal = "list" THEN -1 ELSE job[j].size
  <2>1. job' = [job EXCEPT ![j].pc = pc, ![j].size = size]
    BY <1>1 DEF Proceed, Works
  <2> HIDE DEF pc, size
  <2>2. job'[j] = [job[j] EXCEPT !.pc = pc, !.size = size] /\ job[j] \in Work
    BY <1>1, <2>1 DEF Works
  <2>3. job'[j].file = job[j].file /\ job'[j].keep = job[j].keep /\ job'[j].size = size
    BY <2>2 DEF Work
  <2> QED
    BY <2>3 DEF size
<1>4. UNCHANGED <<link, data_sock, port_sock, transfer_type, write_type, replies, local, remote, child, served>>
  BY DEF Proceed, wires, object, Working, Turning, serverVars
<1>5. \A c \in Links : Own(j, c)' => Own(j, c)
  BY <1>2, <1>4 DEF Own
<1>6. Cargo(j)'
  BY <1>1, <1>2, <1>3, <1>4, <1>5, CargoStays DEF At, Succeeded, Requests
<1>7. Plan(j)'
  BY <1>1, <1>2, <1>3, <1>4, PlanAwaits DEF At, Requests
<1> QED
  BY <1>1, <1>4, <1>6, <1>7, SocksStay DEF Worked

\* While its data is received or sent, a transfer that runs is at the other end of
\* the client's connection.
LEMMA OtherEnd ==
  ASSUME NEW j \in Jobs, TInv, Turn(j), Clean, job[j].pc \in {"recv", "send"}, data_sock \in Links,
         NEW t \in Transfers, Live(t)
  PROVE  child[t].pc = "streaming" /\ child[t].conn = data_sock /\ link[data_sock].server = "open"
BY DEF Turn, Moves, Begun, Clean

LEMMA RecvDataWork == ASSUME NEW j \in Jobs, Working(j), RecvData(j) PROVE Worked(j)'
<1> DEFINE c == data_sock
           down == link[c].down
<1>1. /\ At(j, "recv") /\ Works /\ Plan(j) /\ Cargo(j) /\ TInv /\ Awaits(j) /\ ~At(j, "pasv")
      /\ file(j) \in Files /\ c \in Links /\ link[c].client = "open"
      /\ down \in Seq(Units) /\ down # <<>> /\ Turn(j) /\ Clean
      /\ link \in [Links -> Connection] /\ link[c] \in Connection
  <2>1. link \in [Links -> Connection] /\ c \in Links
    BY DEF Working, Turning, RecvData, TInv, Wires, Connected
  <2>2. down \in Seq(Units) /\ link[c] \in Connection
    BY <2>1 DEF Connection
  <2> QED
    BY <2>1, <2>2 DEF Working, Turning, RecvData, At, TInv, ClientKeeps, Awaits, Works, Connected
<1>2. job[j].goal \in {"retr", "list"}
  BY <1>1 DEF Turn, Moves, At
<1>3. /\ job'[j].pc = "recv" /\ job'[j].goal = job[j].goal /\ job'[j].active = job[j].active
      /\ job'[j].file = job[j].file /\ job'[j].keep = job[j].keep
      /\ job[j].goal = "retr" => job'[j].size = job[j].size
  <2>1. CASE job[j].goal = "retr"
    BY <1>1, <2>1 DEF RecvData, At
  <2>2. CASE job[j].goal # "retr"
    <3>1. PICK size : job' = [job EXCEPT ![j].size = size]
      BY <2>2 DEF RecvData
    <3>2. job'[j] = [job[j] EXCEPT !.size = size] /\ job[j] \in Work
      BY <1>1, <3>1 DEF Works
    <3> QED
      BY <1>1, <2>2, <3>2 DEF Work, At
  <2> QED
    BY <2>1, <2>2
<1>4. UNCHANGED <<data_sock, port_sock, transfer_type, write_type, replies, remote, child, served, armed>>
  BY DEF RecvData, object, Working, Turning, serverVars
<1>5. /\ link'[c].down = Tail(down) /\ link'[c].client = link[c].client
      /\ \A d \in Links : link'[d].up = link[d].up
  <2> DEFINE rest == Tail(down)
  <2>1. link' = [link EXCEPT ![c].down = rest]
    BY <1>1 DEF RecvData
  <2> HIDE DEF rest
  <2>2. link'[c] = [link[c] EXCEPT !.down = rest] /\ \A d \in Links \ {c} : link'[d] = link[d]
    BY <1>1, <2>1
  <2>3. link'[c].down = rest /\ link'[c].client = link[c].client /\ link'[c].up = link[c].up
    BY <1>1, <2>2 DEF Connection
  <2> QED
    BY <2>2, <2>3 DEF rest
<1>6. /\ Len(Tail(down)) = Len(down) - 1 /\ Len(down) \in Nat /\ Len(down) >= 1
      /\ \A n \in 1 .. Len(down) - 1 : Tail(down)[n] = down[n + 1]
      /\ Head(down) = down[1]
  BY <1>1
<1>7. OpenSock' /\ Unloaded'
  <2>1. OpenSock'
    BY <1>1, <1>4, <1>5 DEF OpenSock
  <2>2. armed # 0 => armed \in Links
    BY <1>1, ArmedIsLink
  <2>3. ~Renewed
    BY <1>1, NotRenewed DEF Working
  <2>4. Unloaded'
    BY <1>4, <1>5, <2>2, <2>3 DEF Working, Unloaded
  <2> QED
    BY <2>1, <2>4
<1>8. file(j)' = file(j) /\ There(j)' = There(j) /\ \A t \in Transfers : Live(t)' = Live(t)
  BY <1>3, <1>4 DEF file, There, Live
<1>9. \A d \in Links : Own(j, d)' => d = c
  BY <1>3, <1>4 DEF Own
<1>10. Own(j, c)
  BY DEF Own
<1> HIDE DEF c, down
<1>11. CASE job[j].goal = "retr"
  <2>1. Getting(j)
    BY <1>1 DEF Cargo
  <2>2. /\ \A n \in 1 .. Len(down) : down[n] = Data(file(j), From(j) + n)
        /\ Succeeded => From(j) + Len(down) = There(j)
    BY <1>1, <1>10, <1>11, <2>1 DEF Getting, Follows, At, down
  <2>3. local[file(j)].exists /\ (Succeeded => remote[file(j)].exists)
    BY <1>1, <1>11, <2>1 DEF Getting, At
  <2>4. From(j) = Have(j) /\ From(j)' = Have(j)'
    BY <1>1, <1>3 DEF From, At
  <2>5. local'[file(j)].exists = local[file(j)].exists /\ Have(j)' = Have(j) + 1 /\ Have(j) \in Nat
    <3> DEFINE unit == Head(down)
               more == Append(local[file(j)].data, unit)
    <3>1. /\ local' = [local EXCEPT ![file(j)].data = more]
          /\ local \in [Files -> Disk] /\ local[file(j)] \in Disk
      BY <1>1, <1>11 DEF RecvData, TInv, Disks, c, down
    <3>2. local[file(j)].data \in Seq(Units) /\ Head(down) \in Units
      <4>1. Head(down) \in Units
        BY <1>1
      <4> QED
        BY <3>1, <4>1 DEF Disk
    <3>3. Len(more) = Have(j) + 1 /\ Have(j) \in Nat
      BY <3>2 DEF Have
    <3> HIDE DEF more
    <3>4. local'[file(j)] = [local[file(j)] EXCEPT !.data = more]
      BY <1>1, <3>1
    <3>5. local'[file(j)].data = more /\ local'[file(j)].exists = local[file(j)].exists
      BY <3>1, <3>4 DEF Disk
    <3> QED
      BY <1>8, <3>3, <3>5 DEF Have
  <2>6. Follows(j, c)'
    <3>1. ASSUME NEW n \in 1 .. Len(down) - 1 PROVE Tail(down)[n] = Data(file(j), From(j) + 1 + n)
      <4>1. n + 1 \in 1 .. Len(down) /\ From(j) + (n + 1) = From(j) + 1 + n
        BY <1>6, <2>4, <2>5
      <4> QED
        BY <1>6, <2>2, <4>1
    <3>2. From(j)' = From(j) + 1
      BY <2>4, <2>5
    <3>3. From(j) + 1 + (Len(down) - 1) = From(j) + Len(down)
      BY <1>6, <2>4, <2>5
    <3>4. link'[c'].down = Tail(down) /\ Succeeded' = Succeeded
      BY <1>4, <1>5 DEF c, Succeeded
    <3> QED
      BY <1>6, <1>8, <2>2, <3>1, <3>2, <3>3, <3>4 DEF Follows
  <2>7. ASSUME NEW t \in Transfers, Live(t) PROVE Offset(j, t)'
    <3>1. child[t].pc = "streaming" /\ child[t].conn = c
      BY <1>1, <2>7, OtherEnd DEF At, c
    <3>2. Offset(j, t)
      BY <1>1, <1>11, <2>1, <2>7 DEF Getting, At
    <3>3. remote[file(j)].exists /\ child[t].offset = From(j) + Len(down)
      BY <3>1, <3>2 DEF Offset, down
    <3>4. child[t].offset = From(j)' + Len(Tail(down))
      BY <1>6, <2>4, <2>5, <3>3
    <3> QED
      BY <1>4, <1>5, <1>8, <3>1, <3>3, <3>4 DEF Offset, c
  <2>8. Getting(j)'
    <3>1. \A d \in Links : Own(j, d)' => Follows(j, d)'
      BY <1>4, <1>9, <2>6 DEF c
    <3>2. Succeeded' => remote'[file(j)'].exists
      BY <1>4, <1>8, <2>3 DEF Succeeded
    <3> QED
      BY <1>8, <2>3, <2>5, <2>7, <3>1, <3>2 DEF Getting
  <2>9. Cargo(j)'
    BY <1>3, <1>11, <2>8 DEF Cargo, Got, Listing, Putting, Put, At
  <2>10. Plan(j)'
    BY <1>1, <1>3, <1>4, <1>11, PlanAwaits DEF At
  <2> QED
    BY <1>7, <2>9, <2>10 DEF Worked
<1>12. CASE job[j].goal = "list"
  <2>1. \A n \in 1 .. Len(down) : down[n] = Line(file(j), There(j))
    BY <1>1, <1>10, <1>12 DEF Cargo, Listing, At, down
  <2>2. \A n \in 1 .. Len(Tail(down)) : Tail(down)[n] = Line(file(j), There(j))
    <3>1. ASSUME NEW n \in 1 .. Len(down) - 1 PROVE n + 1 \in 1 .. Len(down)
      BY <1>6
    <3> QED
      BY <1>6, <2>1, <3>1
  <2>3. job'[j].size = There(j)
    <3>1. Head(down) = Line(file(j), There(j))
      BY <1>6, <2>1
    <3> DEFINE unit == Head(down)
               size == IF unit.is = "line" /\ unit.of = file(j) THEN unit.n ELSE job[j].size
    <3>2. size = There(j)
      BY <3>1 DEF Line
    <3>3. job' = [job EXCEPT ![j].size = size]
      BY <1>1, <1>12 DEF RecvData, Works, c, down
    <3> HIDE DEF size
    <3>4. job'[j] = [job[j] EXCEPT !.size = size] /\ job[j] \in Work
      BY <1>1, <3>3 DEF Works
    <3> QED
      BY <3>2, <3>4 DEF Work
  <2>4. Listing(j)'
    BY <1>4, <1>5, <1>8, <1>9, <2>2 DEF Listing, c
  <2>5. Cargo(j)'
    BY <1>3, <1>12, <2>4 DEF Cargo, Getting, Got, Putting, Put, At
  <2>6. UNCHANGED local
    BY <1>12 DEF RecvData
  <2>7. Plan(j)'
    BY <1>1, <1>3, <1>4, <1>12, <2>3, <2>6, PlanAwaits DEF At
  <2> QED
    BY <1>7, <2>5, <2>7 DEF Worked
<1> QED
  BY <1>2, <1>11, <1>12

LEMMA RecvEndWork == ASSUME NEW j \in Jobs, Working(j), RecvEnd(j) PROVE Worked(j)'
<1>1. /\ At(j, "recv") /\ Works /\ Plan(j) /\ Cargo(j) /\ TInv /\ Awaits(j) /\ ~At(j, "pasv")
      /\ data_sock \in Links /\ link[data_sock].down = <<>> /\ link[data_sock].server = "closed"
      /\ Turn(j) /\ Clean
  BY DEF Working, Turning, RecvEnd, Connected, At, TInv, ClientKeeps, Awaits
<1>2. job[j].goal \in {"retr", "list"}
  BY <1>1 DEF Turn, Moves, At
<1>3. job'[j].pc = "last" /\ job'[j].goal = job[j].goal /\ KeepsPlan(j)
  BY <1>1, AfterGoTo, PlanKept DEF RecvEnd
<1>4. /\ UNCHANGED <<write_type, replies, local, remote, child, served>>
      /\ link' = CloseLink(data_sock) /\ data_sock' = None /\ transfer_type' \in {"None", transfer_type}
  BY DEF RecvEnd, CloseData, Working, Turning, serverVars
<1>5. OpenSock' /\ Unloaded'
  <2>1. data_sock' \notin Links
    BY <1>4, Constants DEF None
  <2> QED
    BY <1>1, <1>4, <2>1, SocksClosed
<1>6. Free
  <2> SUFFICES ASSUME NEW t \in Transfers, Live(t) PROVE FALSE
    BY DEF Free
  <2>1. link[data_sock].server = "open"
    BY <1>1, OtherEnd DEF At
  <2> QED
    BY <1>1, <2>1
<1>7. file(j)' = file(j) /\ Have(j)' = Have(j) /\ There(j)' = There(j) /\ Free'
  BY <1>3, <1>4, <1>6, SidesKept DEF KeepsPlan, file, Free, Live
<1>8. Got(j)'
  <2> SUFFICES ASSUME job[j].goal = "retr"
               PROVE  local[file(j)].exists /\ (Succeeded => remote[file(j)].exists /\ Have(j) = There(j))
    BY <1>3, <1>4, <1>7 DEF Got, Succeeded
  <2>1. Getting(j) /\ Own(j, data_sock)
    BY <1>1 DEF Cargo, Own
  <2>2. Follows(j, data_sock) /\ local[file(j)].exists /\ (Succeeded => remote[file(j)].exists)
    BY <1>1, <2>1 DEF Getting, At
  <2>3. From(j) = Have(j) /\ Have(j) \in Nat
    <3>1. file(j) \in Files
      BY <1>1 DEF Works, Running, At
    <3>2. local[file(j)].data \in Seq(Units)
      BY <1>1, <3>1 DEF TInv, Disks, Disk
    <3> QED
      BY <1>1, <3>2 DEF From, At, Have
  <2>4. Len(link[data_sock].down) = 0
    BY <1>1
  <2> QED
    BY <2>2, <2>3, <2>4 DEF Follows
<1>9. Cargo(j)'
  BY <1>2, <1>3, <1>8 DEF Cargo, Getting, Listing, Putting, Put, At
<1>10. job[j].goal = "list" => job'[j].size \in {-1, There(j)}
  BY <1>1, <1>3 DEF Plan, Sized, At, KeepsPlan
<1>11. Plan(j)'
  BY <1>1, <1>2, <1>3, <1>4, <1>10, PlanAwaits DEF KeepsPlan, At
<1> QED
  BY <1>5, <1>9, <1>11 DEF Worked

\* What the client sends is the rest of a file.
LEMMA RestOf ==
  ASSUME NEW S, NEW s \in Seq(S), NEW n \in 0 .. Len(s)
  PROVE  /\ SubSeq(s, n + 1, Len(s)) \in Seq(S) /\ Len(SubSeq(s, n + 1, Len(s))) = Len(s) - n
         /\ \A m \in 1 .. Len(s) - n : SubSeq(s, n + 1, Len(s))[m] = s[n + m]
<1>1. \A a, b \in 0 .. Len(s) :
        a <= b => /\ SubSeq(s, a + 1, b) \in Seq(S) /\ Len(SubSeq(s, a + 1, b)) = b - a
                  /\ \A m \in 1 .. b - a : SubSeq(s, a + 1, b)[m] = s[a + m]
  OBVIOUS
<1>2. Len(s) \in 0 .. Len(s) /\ n <= Len(s)
  OBVIOUS
<1> QED
  BY <1>1, <1>2

LEMMA SendDataWork == ASSUME NEW j \in Jobs, Working(j), SendData(j) PROVE Worked(j)'
<1> DEFINE c == data_sock
           name == file(j)
           from == IF job[j].goal = "appe" THEN job[j].size ELSE 0
           data == local[name].data
           rest == SubSeq(data, from + 1, Len(data))
<1>1. /\ At(j, "send") /\ Works /\ Plan(j) /\ Cargo(j) /\ TInv /\ Awaits(j) /\ Parts
      /\ name \in Files /\ c \in Links /\ Turn(j) /\ Clean /\ link[c].client = "open"
  BY DEF Working, Turning, SendData, Connected, At, TInv, ClientKeeps, Awaits, Works
<1>2. job[j].goal \in {"stor", "appe"}
  BY <1>1 DEF Plan, Addressed
<1>3. job'[j].pc = "last" /\ job'[j].goal = job[j].goal /\ KeepsPlan(j)
  BY <1>1, AfterGoTo, PlanKept DEF SendData
<1>4. /\ UNCHANGED <<replies, local, remote, child, served>>
      /\ data_sock' = None /\ transfer_type' = "None"
      /\ link' = [link EXCEPT ![c].client = "closed", ![c].up = link[c].up \o rest]
  BY <1>1 DEF SendData, Working, Turning, serverVars, TInv, Wires
<1>5. OpenSock' /\ Unloaded'
  <2>1. data_sock' \notin Links
    BY <1>4, Constants DEF None
  <2> QED
    BY <1>4, <2>1 DEF OpenSock, Unloaded
<1>6. data \in Seq(Units) /\ Have(j) = Len(data) /\ Len(data) \in Nat
  <2>1. local[name] \in Disk
    BY <1>1 DEF TInv, Disks
  <2>2. data \in Seq(Units)
    BY <2>1 DEF Disk
  <2> QED
    BY <2>2 DEF Have
<1>7. link[c].up = <<>>
  BY <1>1 DEF Clean, TidyLink
<1>8. Putting(j) /\ Own(j, c)
  BY <1>1 DEF Cargo, Own
<1>9. local[name].exists /\ ~Succeeded /\ \A t \in Transfers : Live(t) => Empties(j, t)
  BY <1>1, <1>2, <1>8 DEF Putting, At
<1>10. file(j)' = name /\ Have(j)' = Have(j) /\ There(j)' = There(j)
  BY <1>3, <1>4, SidesKept DEF KeepsPlan, file
<1> HIDE DEF c, name, data
<1>11. ASSUME NEW t \in Transfers, Live(t) PROVE Completes(j, t)'
  <2>1. child[t].pc = "streaming" /\ child[t].conn = c
    BY <1>1, <1>11, OtherEnd DEF At, c
  <2>2. remote[name].exists /\ (job[j].goal = "stor" => There(j) = 0)
    BY <1>9, <1>11, <2>1 DEF Empties, name
  <2>3. from = There(j) /\ from \in 0 .. Len(data)
    <3>1. There(j) \in Nat
      <4>1. remote[name].data \in Seq(Units)
        BY <1>1 DEF TInv, Disks, Disk
      <4> QED
        BY <4>1 DEF There, name
    <3>2. CASE job[j].goal = "appe"
      <4>1. job[j].size = There(j) /\ There(j) <= Have(j)
        BY <1>1, <3>2 DEF Plan, Sized, At
      <4> QED
        BY <1>6, <3>1, <3>2, <4>1
    <3>3. CASE job[j].goal = "stor"
      BY <1>6, <2>2, <3>3
    <3> QED
      BY <1>2, <3>2, <3>3
  <2> HIDE DEF from
  <2>4. /\ rest \in Seq(Units) /\ Len(rest) = Len(data) - from
        /\ \A m \in 1 .. Len(data) - from : rest[m] = data[from + m]
    BY <1>6, <2>3, RestOf
  <2>5. link'[c].up = rest
    <3> HIDE DEF rest
    <3>1. <<>> \o rest = rest
      BY <2>4
    <3>2. link' = [link EXCEPT ![c].client = "closed", ![c].up = rest]
      BY <1>4, <1>7, <3>1
    <3>3. link'[c] = [link[c] EXCEPT !.client = "closed", !.up = rest] /\ link[c] \in Connection
      BY <1>1, <3>2 DEF TInv, Wires
    <3> QED
      BY <3>3 DEF Connection
  <2>6. \A n \in 1 .. Len(rest) : rest[n] = Data(name, from + n)
    <3> SUFFICES ASSUME NEW n \in 1 .. Len(rest) PROVE rest[n] = Data(name, from + n)
      OBVIOUS
    <3>1. n \in 1 .. Len(data) - from /\ from + n \in 1 .. Len(data)
      BY <1>6, <2>3, <2>4
    <3>2. data[from + n] = Data(name, from + n)
      BY <1>1, <3>1 DEF Parts, Part, data
    <3> QED
      BY <2>4, <3>1, <3>2
  <2>7. There(j) + Len(rest) = Have(j)
    BY <1>6, <2>3, <2>4
  <2> QED
    BY <1>4, <1>10, <2>1, <2>2, <2>3, <2>5, <2>6, <2>7 DEF Completes
<1>12. Put(j)'
  <2>1. \A t \in Transfers : Live(t)' => Completes(j, t)'
    BY <1>4, <1>11 DEF Live
  <2>2. local'[file(j)'].exists /\ ~Succeeded'
    BY <1>4, <1>9, <1>10 DEF Succeeded, name
  <2> QED
    BY <2>1, <2>2 DEF Put
<1>13. Cargo(j)'
  BY <1>2, <1>3, <1>12 DEF Cargo, Getting, Got, Listing, Putting, At
<1>14. Plan(j)'
  BY <1>1, <1>2, <1>3, <1>4, PlanAwaits DEF KeepsPlan, At
<1> QED
  BY <1>5, <1>13, <1>14 DEF Worked

LEMMA ReadLastWork ==
  ASSUME NEW j \in Jobs, Working(j), ReadLast(j, Quiet) \/ ReadLastStored(j, Quiet) PROVE Worked(j)'
<1>1. /\ ~At(j, "pasv") /\ Works /\ UNCHANGED <<link, data_sock, transfer_type>>
      /\ \E outcome : End(j, outcome)
  BY DEF ReadLast, ReadLastStored, Raise, At, object, Working, Turning, TInv, ClientKeeps
<1> QED
  BY <1>1, SocksStay, EndWork

LEMMA ReadListedWork == ASSUME NEW j \in Jobs, Working(j), ReadListed(j, Quiet) PROVE Worked(j)'
<1>1. /\ At(j, "last") /\ job[j].goal = "list" /\ Works /\ Plan(j) /\ ~At(j, "pasv") /\ Running(j)
      /\ UNCHANGED <<link, data_sock, local, remote>>
  BY DEF ReadListed, At, Working, Turning, TInv, ClientKeeps, serverVars
<1>2. PICK r : 
        \/ Raise(j) /\ transfer_type' \in {"None", transfer_type}
        \/ End(j, "ok") /\ transfer_type' = "None"
        \/ /\ r.code = "226" => job[j].size # -1
           /\ \/ job' = [job EXCEPT ![j].pc = "mode", ![j].goal = Fallback(j)]
              \/ /\ r.code = "226" /\ Resumes(j)
                 /\ job' = [job EXCEPT ![j].pc = IF Is(j, {"reget"}) THEN "resume" ELSE "mode",
                                      ![j].goal = "appe"]
           /\ transfer_type' = "None"
  BY DEF ReadListed
<1>3. OpenSock' /\ Unloaded'
  <2>1. OpenSock'
    BY <1>1 DEF OpenSock, Working
  <2>2. transfer_type' \in {"None", transfer_type}
    BY <1>2
  <2>3. Unloaded'
    BY <1>1, <2>2, StaysUnloaded DEF Unloaded
  <2> QED
    BY <2>1, <2>3
<1>4. CASE (\E outcome : End(j, outcome)) \/ job' = [job EXCEPT ![j].pc = "mode", ![j].goal = Fallback(j)]
  <2>1. FallenBack(j) \/ \E outcome : End(j, outcome)
    BY <1>4 DEF FallenBack, Fallback
  <2> QED
    BY <1>1, <1>3, <2>1, EndWork
<1>5. CASE /\ job[j].size # -1 /\ Resumes(j)
           /\ job' = [job EXCEPT ![j].pc = IF Is(j, {"reget"}) THEN "resume" ELSE "mode", ![j].goal = "appe"]
  <2> DEFINE pc == IF Is(j, {"reget"}) THEN "resume" ELSE "mode"
  <2>1. job' = [job EXCEPT ![j].pc = pc, ![j].goal = "appe"] /\ pc \in {"mode", "resume"}
    BY <1>5
  <2>2. pc = "mode" => Have(j) > job[j].size
    BY <1>5 DEF Resumes, Have, Is
  <2> HIDE DEF pc
  <2>3. job'[j].pc = pc /\ job'[j].goal = "appe" /\ KeepsPlan(j)
    BY <1>1, <2>1, AfterGoal, PlanKept
  <2>4. Have(j)' = Have(j) /\ There(j)' = There(j)
    BY <1>1, <2>3, SidesKept DEF KeepsPlan
  <2>5. job[j].size = There(j)
    BY <1>1, <1>5 DEF Plan, Sized, At
  <2>6. pc = "mode" => There(j) <= Have(j)
    <3>1. Have(j) \in Nat /\ There(j) \in Nat
      <4>1. file(j) \in Files
        BY <1>1 DEF Works
      <4>2. local[file(j)].data \in Seq(Units) /\ remote[file(j)].data \in Seq(Units)
        BY <4>1 DEF Working, Turning, TInv, Disks, Disk
      <4> QED
        BY <4>2 DEF Have, There
    <3> QED
      BY <2>2, <2>5, <3>1
  <2>7. Plan(j)'
    <3>1. Addressed(j)' /\ Restarts(j)'
      BY <2>1, <2>3 DEF Addressed, Restarts, At, Awaits, Requests
    <3>2. Sized(j)'
      BY <2>1, <2>3, <2>4, <2>5, <2>6 DEF Sized, KeepsPlan
    <3> QED
      BY <3>1, <3>2 DEF Plan
  <2>8. Cargo(j)'
    BY <2>1, <2>3, NoCargo DEF AwaitPoints
  <2> QED
    BY <1>3, <2>7, <2>8 DEF Worked
<1> QED
  BY <1>2, <1>4, <1>5 DEF Raise

\* What either side has stays a part of the whole file.
LEMMA PartsStay ==
  ASSUME Parts, UNCHANGED remote, NEW name \in Files,
         \A other \in Files \ {name} : local'[other] = local[other], Part(name, local'[name])
  PROVE  Parts'
BY DEF Parts

LEMMA ClientParts == ASSUME NEW j \in Jobs, Working(j), ClientRuns(j), ~Abandon(j) PROVE Parts'
<1>1. TInv /\ Works /\ Parts /\ UNCHANGED remote /\ file(j) \in Files /\ local \in [Files -> Disk]
      /\ local[file(j)] \in Disk /\ Part(file(j), local[file(j)])
  BY DEF Working, Turning, TInv, ClientKeeps, Works, serverVars, Disks, Parts
<1>2. CASE UNCHANGED local
  BY <1>1, <1>2 DEF Parts
<1>3. CASE OpenLocal(j)
  <2> DEFINE data == IF write_type = "wb" THEN <<>> ELSE local[file(j)].data
  <2>1. local' = [local EXCEPT ![file(j)] = File(data)]
    BY <1>1, <1>3 DEF OpenLocal
  <2>2. \A n \in 1 .. Len(data) : data[n] = Data(file(j), n)
    BY <1>1 DEF Part
  <2> HIDE DEF data
  <2>3. local'[file(j)] = File(data) /\ \A other \in Files \ {file(j)} : local'[other] = local[other]
    BY <1>1, <2>1
  <2>4. Part(file(j), local'[file(j)])
    BY <2>2, <2>3 DEF Part, File
  <2> QED
    BY <1>1, <2>3, <2>4, PartsStay
<1>4. CASE RecvData(j) /\ job[j].goal = "retr"
  <2> DEFINE down == link[data_sock].down
             had == local[file(j)].data
             more == Append(had, Head(down))
  <2>1. /\ data_sock \in Links /\ At(j, "recv") /\ down # <<>>
        /\ local' = [local EXCEPT ![file(j)].data = more]
    BY <1>1, <1>4 DEF RecvData, Connected
  <2>2. Own(j, data_sock) /\ Getting(j)
    BY DEF Own, Working, Cargo
  <2>3. Follows(j, data_sock) /\ local[file(j)].exists /\ From(j) = Have(j)
    BY <1>4, <2>1, <2>2 DEF Getting, From, At
  <2>4. down \in Seq(Units) /\ had \in Seq(Units)
    BY <1>1, <2>1 DEF TInv, Wires, Connection, Disk
  <2>5. 1 \in 1 .. Len(down) /\ Head(down) = down[1]
    BY <2>1, <2>4
  <2>6. Head(down) = Data(file(j), Len(had) + 1)
    BY <2>3, <2>5 DEF Follows, Have
  <2>7. \A n \in 1 .. Len(had) : had[n] = Data(file(j), n)
    BY <1>1 DEF Part
  <2>8. Head(down) \in Units
    BY <2>1, <2>4
  <2> DEFINE unit == Head(down)
  <2> HIDE DEF unit, had
  <2>9. \A n \in 1 .. Len(Append(had, unit)) : Append(had, unit)[n] = Data(file(j), n)
    <3>1. /\ Len(Append(had, unit)) = Len(had) + 1 /\ Len(had) \in Nat
          /\ Append(had, unit)[Len(had) + 1] = unit
          /\ \A n \in 1 .. Len(had) : Append(had, unit)[n] = had[n]
      BY <2>4, <2>8 DEF unit
    <3>2. unit = Data(file(j), Len(had) + 1)
      BY <2>6 DEF unit
    <3> QED
      BY <2>7, <3>1, <3>2
  <2>10. more = Append(had, unit)
    BY DEF unit, had
  <2> HIDE DEF more
  <2>11. local'[file(j)] = [local[file(j)] EXCEPT !.data = more]
         /\ \A other \in Files \ {file(j)} : local'[other] = local[other]
    BY <1>1, <2>1
  <2>12. local'[file(j)].data = more /\ local'[file(j)].exists = local[file(j)].exists
    BY <1>1, <2>11 DEF Disk
  <2>13. Part(file(j), local'[file(j)])
    BY <2>3, <2>9, <2>10, <2>12 DEF Part
  <2> QED
    BY <1>1, <2>11, <2>13, PartsStay
<1>5. CASE local' = [local EXCEPT ![file(j)] = NoFile]
  <2>1. local'[file(j)] = NoFile /\ \A other \in Files \ {file(j)} : local'[other] = local[other]
    BY <1>1, <1>5
  <2>2. Part(file(j), NoFile)
    BY DEF Part, NoFile
  <2> QED
    BY <1>1, <2>1, <2>2, PartsStay
<1>6. \/ UNCHANGED local \/ OpenLocal(j) \/ (RecvData(j) /\ job[j].goal = "retr")
      \/ local' = [local EXCEPT ![file(j)] = NoFile]
  BY DEF ClientRuns, ClientStep, Start, SendPasv, ReadPasv, SendPort, ReadPort, Done, SendRest, ReadRest,
    Request, RequestRefused, ReadAnswer, AcceptData, AcceptNothing, Judge, Proceed, RecvData, RecvEnd,
    SendData, ReadLast, ReadLastStored, ReadListed
<1> QED
  BY <1>2, <1>3, <1>4, <1>5, <1>6

LEMMA OrderFollows ==
  ASSUME OneRuns, NEW j \in Jobs, Running(j) \/ \A i \in Jobs : ~Running(i),
         \A i \in Jobs \ {j} : job'[i] = job[i], Parts', Worked(j)'
  PROVE  Ordered'
<1>1. ASSUME NEW i \in Jobs, i # j PROVE ~Running(i)'
  BY <1>1 DEF OneRuns, Running
<1> QED
  BY <1>1 DEF Ordered, Worked

LEMMA ClientWorks == ASSUME NEW j \in Jobs, Working(j), ClientRuns(j) PROVE Worked(j)' /\ ~Abandon(j)
<1>1. ~Abandon(j) /\ ~AcceptNothing(j)
  BY AcceptNothingTurn DEF Abandon, Working, Turning
<1>2. \A c : ~Start(j, c)
  BY DEF Start, At, Working, Running
<1> HIDE DEF Start
<1>3. CASE \/ SendPasv(j) \/ ReadPasv(j, Quiet, Listening) \/ SendPort(j) \/ ReadPort(j, Quiet) \/ Done(j)
           \/ SendRest(j) \/ ReadRest(j, Quiet) \/ Request(j) \/ RequestRefused(j)
  BY <1>1, <1>3, SendPasvWork, ReadPasvWork, SendPortWork, ReadPortWork, DoneWork, SendRestWork,
    ReadRestWork, RequestWork
<1>4. CASE \/ ReadAnswer(j, Quiet) \/ AcceptData(j) \/ Judge(j) \/ OpenLocal(j) \/ Proceed(j)
           \/ RecvData(j) \/ RecvEnd(j) \/ SendData(j)
           \/ ReadLast(j, Quiet) \/ ReadLastStored(j, Quiet) \/ ReadListed(j, Quiet)
  BY <1>1, <1>4, ReadAnswerWork, AcceptDataWork, JudgeWork, OpenLocalWork, ProceedWork, RecvDataWork,
    RecvEndWork, SendDataWork, ReadLastWork, ReadListedWork
<1> QED
  BY <1>1, <1>2, <1>3, <1>4 DEF ClientRuns, ClientStep

LEMMA ClientOrders ==
  ASSUME PoolSize = 1, XInv, Clean, Ordered, ~astray, NEW j \in Jobs, ClientRuns(j), ~astray'
  PROVE  Ordered'
<1>1. TInv /\ OneRuns /\ PortsNew /\ Turns /\ TInv' /\ Turns' /\ UNCHANGED serverVars
  BY ClientTyped, ClientTakesTurn DEF XInv, ClientRuns
<1>2. \A i \in Jobs \ {j} : job'[i] = job[i]
  BY <1>1, OthersWait
<1>3. CASE Running(j)
  <2>1. TakesTurn(j)'
    <3>1. ASSUME NEW i \in Jobs, i # j PROVE ~Running(i)'
      BY <1>1, <1>2, <1>3, <3>1 DEF OneRuns, Running
    <3> QED
      BY <1>1, <3>1 DEF Turns, TakesTurn
  <2>2. LinksGoOn
    BY <1>1, ClientLinks
  <2>3. Working(j)
    BY <1>1, <1>3, <2>1, <2>2 DEF Working, Turning, Turns, Ordered
  <2>4. Worked(j)' /\ Parts'
    BY <2>3, ClientWorks, ClientParts
  <2> QED
    BY <1>1, <1>2, <1>3, <2>4, OrderFollows
<1>4. CASE ~Running(j)
  <2>1. PICK c \in Commands : Start(j, c)
    BY <1>1, <1>4, OthersWait
  <2>2. \A i \in Jobs : ~Running(i)
    BY <1>1, <2>1, RoomForOne DEF Start
  <2>3. Worked(j)'
    BY <1>1, <2>1, <2>2, StartWork DEF Ordered
  <2>4. Parts'
    BY <1>1, <2>1 DEF Start, serverVars, Ordered, Parts
  <2> QED
    BY <1>1, <1>2, <2>2, <2>3, <2>4, OrderFollows
<1> QED
  BY <1>3, <1>4
-----------------------------------------------------------------------------
(* What is under way is in order, step by step of the server.              *)

\* What every command that is handled may assume.
Ordering(j, cmd) ==
  /\ Handling(j, cmd) /\ OneRuns /\ Running(j) /\ Clean
  /\ Parts /\ OpenSock /\ Unloaded /\ Plan(j) /\ Cargo(j)
  /\ UNCHANGED <<write_type, local>>

\* One command only fits each point.
LEMMA Expected ==
  ASSUME NEW j \in Jobs, NEW cmd, Ordering(j, cmd)
  PROVE  /\ At(j, "pasv") => cmd.verb = "PASV"
         /\ At(j, "port") => cmd.verb = "PORT"
         /\ job[j].pc \in {"rested", "resumed"} => cmd.verb = "REST"
         /\ At(j, "rested") => cmd.arg = 0
         /\ At(j, "resumed") => cmd.arg = Have(j)
         /\ At(j, "answer") => cmd.verb \in FileVerbs /\ cmd.verb = Verb(job[j].goal) /\ cmd.file = file(j)
<1>1. 1 \in 1 .. Len(commands) /\ cmd = commands[1] /\ Answers(j)
  BY DEF Ordering, Handling, Turn
<1>2. Addressed(j) /\ Restarts(j)
  BY DEF Ordering, Plan
<1> QED
  BY <1>1, <1>2 DEF Addressed, Restarts, RestSent, Answers, At

\* It is answered, or nothing is said, and no transfer is started.
LEMMA SaidWork ==
  ASSUME NEW j \in Jobs, NEW cmd, Ordering(j, cmd), UNCHANGED <<child, served, remote>>,
         link' = CloseArmed \/ UNCHANGED link, At(j, "answer") => UNCHANGED link,
         UNCHANGED replies \/ \E arg : \E code \in Codes \ {"226"} : Reply(cmd, code, arg),
         At(j, "pasv") /\ replies' # <<>> /\ replies'[1].code = "227" => armed' \in {0, replies'[1].arg},
         At(j, "port") => armed' = 0,
         job[j].pc \in {"pasv", "port"} /\ loggedIn' => loggedIn /\ UNCHANGED last_sent_byte,
         job[j].pc \in {"rested", "resumed"} /\ loggedIn' => last_sent_byte' = cmd.arg,
         Unloaded'
  PROVE  Worked(j)'
<1>1. /\ commands' = <<>> /\ Len(commands') = 0 /\ replies = <<>> /\ job[j].pc \in Asking /\ TInv /\ Free
      /\ UNCHANGED <<data_sock, port_sock, transfer_type, write_type, local, job>>
      /\ Plan(j) /\ Cargo(j) /\ OpenSock
  BY DEF Ordering, Handling
<1>2. file(j)' = file(j) /\ Have(j)' = Have(j) /\ There(j)' = There(j) /\ From(j)' = From(j)
      /\ \A t \in Transfers : ~Live(t)'
  BY <1>1 DEF file, Have, There, From, At, Free, Live
<1>3. Addressed(j)'
  BY <1>1, <1>2 DEF Plan, Addressed, At, Awaits, Requests, Asking
<1>4. Restarts(j)'
  <2>1. At(j, "rested") => RestSent(0)'
    BY <1>1, Expected DEF RestSent, At
  <2>2. At(j, "resumed") => RestSent(Have(j))' /\ write_type' = "ab"
    BY <1>1, <1>2, Expected DEF RestSent, At, Plan, Restarts
  <2>3. job[j].goal = "retr" =>
          /\ job[j].pc \in {"mode", "pasv", "port", "retr"} /\ loggedIn' => last_sent_byte' = From(j)
          /\ job[j].pc \in {"retr", "answer", "accept", "judge"} => write_type = job[j].keep
    BY <1>1 DEF Plan, Restarts, Asking
  <2> QED
    BY <1>1, <1>2, <2>1, <2>2, <2>3 DEF Restarts, At
<1>5. Sized(j)'
  BY <1>1, <1>2 DEF Plan, Sized
<1>6. Cargo(j)'
  <2>1. CASE At(j, "answer")
    <3>1. Succeeded' => Succeeded
      <4>1. CASE UNCHANGED replies
        BY <4>1 DEF Succeeded
      <4>2. CASE \E arg : \E code \in Codes \ {"226"} : Reply(cmd, code, arg)
        <5>1. PICK arg : \E code \in Codes \ {"226"} : Reply(cmd, code, arg)
          BY <4>2
        <5>2. PICK code \in Codes \ {"226"} : replies' = <<[code |-> code, arg |-> arg, to |-> cmd.to]>>
          BY <1>1, <5>1 DEF Reply
        <5>3. Len(replies') = 1 /\ replies'[1].code = code
          BY <5>2
        <5> QED
          BY <5>3 DEF Succeeded
      <4> QED
        BY <4>1, <4>2
    <3>2. UNCHANGED link /\ \A c \in Links : Own(j, c)' => Own(j, c)
      BY <1>1, <2>1 DEF Own, Queue, At
    <3> QED
      BY <1>1, <1>2, <2>1, <3>1, <3>2, CargoStays DEF At
  <2>2. CASE ~At(j, "answer")
    <3>1. job'[j].pc \notin AwaitPoints
      BY <1>1, <2>2 DEF At, Asking, AwaitPoints
    <3> QED
      BY <3>1, NoCargo
  <2> QED
    BY <2>1, <2>2
<1>7. OpenSock'
  BY <1>1, CloseArmedEnds DEF OpenSock
<1> QED
  BY <1>3, <1>4, <1>5, <1>6, <1>7 DEF Worked, Plan

LEMMA PasvWork == ASSUME NEW j \in Jobs, NEW cmd, Ordering(j, cmd), loggedIn, Pasv(cmd) PROVE Worked(j)'
<1>1. At(j, "pasv") /\ replies = <<>> /\ UNCHANGED <<job, transfer_type>>
  <2>1. cmd.verb = "PASV" /\ job[j].pc \in Asking /\ replies = <<>> /\ UNCHANGED <<job, transfer_type>>
    BY DEF Pasv, Ordering, Handling
  <2> QED
    BY <2>1, Expected DEF At, Asking, FileVerbs
<1>2. UNCHANGED <<child, remote, loggedIn, last_sent_byte, served>>
  BY DEF Pasv, Passive!Arm
<1>3. CASE Passive!Arm /\ link' = CloseArmed /\ Reply(cmd, "227", made')
  <2>1. replies' = <<[code |-> "227", arg |-> made', to |-> cmd.to]>>
    BY <1>1, <1>3 DEF Reply
  <2>2. replies' # <<>> /\ replies'[1].code = "227" /\ replies'[1].arg = made'
    BY <2>1
  <2>3. armed' \in {0, replies'[1].arg}
    BY <1>3, <2>2 DEF Passive!Arm
  <2>4. Unloaded'
    BY <1>1, <2>2 DEF Unloaded, Renewed, At
  <2>5. "227" \in Codes \ {"226"}
    BY DEF Codes
  <2> QED
    BY <1>1, <1>2, <1>3, <2>3, <2>4, <2>5, SaidWork DEF At
<1>4. CASE UNCHANGED <<made, armed, served, mode, link, replies>>
  <2>1. Unloaded'
    BY <1>1, <1>4 DEF Ordering, Unloaded, Renewed, At
  <2> QED
    BY <1>1, <1>2, <1>4, <2>1, SaidWork DEF At
<1> QED
  BY <1>3, <1>4 DEF Pasv, Ordering, Handling

LEMMA PortWork == ASSUME NEW j \in Jobs, NEW cmd, Ordering(j, cmd), loggedIn, Port(cmd) PROVE Worked(j)'
<1>1. At(j, "port")
  <2>1. cmd.verb = "PORT" /\ job[j].pc \in Asking
    BY DEF Port, Ordering, Handling
  <2> QED
    BY <2>1, Expected DEF At, Asking, FileVerbs
<1>2. UNCHANGED <<child, remote, loggedIn, last_sent_byte, served>> /\ armed' = 0
  BY DEF Port, Passive!Drop
<1>3. Unloaded' /\ "200" \in Codes \ {"226"}
  BY <1>2 DEF Unloaded, Codes
<1> QED
  BY <1>1, <1>2, <1>3, SaidWork DEF At, Port

\* REST, and what is refused.
LEMMA ToldWork ==
  ASSUME NEW j \in Jobs, NEW cmd, Ordering(j, cmd),
         NotLoggedIn(cmd) \/ (loggedIn /\ (Rest(cmd) \/ FileTransferForkFails(cmd)))
  PROVE  Worked(j)'
<1>1. UNCHANGED <<link, child, remote, loggedIn, served, armed>>
  BY DEF NotLoggedIn, Rest, FileTransferForkFails, serverVars, session
<1>2. replies = <<>> /\ UNCHANGED <<job, transfer_type>> /\ Clean
  BY DEF Ordering, Handling
<1>3. Unloaded'
  BY <1>1, <1>2 DEF Ordering, Unloaded, Renewed
<1>4. {"530", "350", "451"} \subseteq Codes \ {"226"}
  BY DEF Codes
<1>5. PICK arg : \E code \in {"530", "350", "451"} : Reply(cmd, code, arg)
  BY DEF NotLoggedIn, Rest, FileTransferForkFails
<1>6. replies' # <<>> => replies'[1].code # "227"
  <2>1. PICK code \in {"530", "350", "451"} : replies' = <<[code |-> code, arg |-> arg, to |-> cmd.to]>>
    BY <1>2, <1>5 DEF Reply
  <2> QED
    BY <2>1
<1>7. At(j, "port") => armed' = 0
  <2>1. At(j, "port") => cmd.verb = "PORT"
    BY Expected
  <2>2. cmd.verb = "PORT" => ~loggedIn
    BY DEF NotLoggedIn, Rest, FileTransferForkFails
  <2> QED
    BY <1>1, <1>2, <2>1, <2>2 DEF Clean
<1>8. job[j].pc \in {"pasv", "port"} /\ loggedIn' => loggedIn /\ UNCHANGED last_sent_byte
  <2>1. job[j].pc \in {"pasv", "port"} => cmd.verb \in {"PASV", "PORT"}
    BY Expected DEF At
  <2>2. cmd.verb \in {"PASV", "PORT"} => ~loggedIn
    BY DEF NotLoggedIn, Rest, FileTransferForkFails
  <2> QED
    BY <1>1, <2>1, <2>2
<1>9. job[j].pc \in {"rested", "resumed"} /\ loggedIn' => last_sent_byte' = cmd.arg
  <2>1. job[j].pc \in {"rested", "resumed"} => cmd.verb = "REST"
    BY Expected
  <2>2. cmd.verb = "REST" /\ loggedIn => last_sent_byte' = cmd.arg
    BY DEF NotLoggedIn, Rest, FileTransferForkFails
  <2> QED
    BY <1>1, <2>1, <2>2
<1> QED
  BY <1>1, <1>3, <1>4, <1>5, <1>6, <1>7, <1>8, <1>9, SaidWork

\* The transfer gets what the client has asked for, and a connection with nothing on it.
LEMMA FileTransferWork ==
  ASSUME NEW j \in Jobs, NEW cmd, Ordering(j, cmd), loggedIn, FileTransfer(cmd) PROVE Worked(j)'
<1>1. /\ cmd.verb \in FileVerbs /\ UNCHANGED <<replies, link, remote>>
      /\ commands' = <<>> /\ Len(commands') = 0 /\ commands # <<>> /\ replies = <<>>
      /\ job[j].pc \in Asking /\ TInv /\ Free /\ Plan(j) /\ Cargo(j) /\ OpenSock /\ Unloaded
      /\ UNCHANGED <<data_sock, port_sock, transfer_type, write_type, local, job>>
  <2>1. cmd.verb \in FileVerbs /\ UNCHANGED <<replies, link, remote>>
    BY DEF FileTransfer, FileVerbs
  <2>2. commands' = <<>> /\ Len(commands') = 0 /\ commands # <<>>
    <3>1. commands' = <<>> /\ Len(commands) = 1
      BY DEF Ordering, Handling
    <3> QED
      BY <3>1
  <2> QED
    BY <2>1, <2>2 DEF Ordering, Handling
<1>2. At(j, "answer") /\ cmd.verb = Verb(job[j].goal) /\ cmd.file = file(j)
  BY <1>1, Expected DEF At, Asking, FileVerbs
<1>3. PICK t \in Transfers, how \in Ways(mode) : NextTransfer(t) /\ Passive!Hand(t)
                             /\ child' = [child EXCEPT ![t] = Transferring(cmd, how)]
  BY DEF FileTransfer
<1>4. armed' = 0 /\ served'[t] = armed
  BY <1>1, <1>3 DEF Passive!Hand, TInv, ServerKeeps, Sockets, Passive!TypeOK
<1>5. child'[t] = Transferring(cmd, how) /\ \A u \in Transfers \ {t} : child'[u] = child[u]
  BY <1>1, <1>3 DEF TInv, ServerKeeps, Forked
<1>6. /\ child'[t].pc = "setup" /\ child'[t].verb = cmd.verb /\ child'[t].file = cmd.file
      /\ cmd.verb = "RETR" => child'[t].offset = last_sent_byte
  <2> DEFINE offset == IF cmd.verb = "RETR" THEN last_sent_byte ELSE 0
  <2>1. child'[t] = [Unborn EXCEPT !.pc = "setup", !.verb = cmd.verb, !.file = cmd.file, !.mode = how,
                                   !.port = port_port, !.to = cmd.to, !.offset = offset]
    BY <1>5 DEF Transferring
  <2> HIDE DEF offset
  <2>2. /\ child'[t].pc = "setup" /\ child'[t].verb = cmd.verb /\ child'[t].file = cmd.file
        /\ child'[t].offset = offset
    BY <2>1 DEF Unborn
  <2> QED
    BY <2>2 DEF offset
<1>7. \A u \in Transfers : Live(u)' => u = t
  BY <1>1, <1>5 DEF Free, Live
<1>8. file(j)' = file(j) /\ Have(j)' = Have(j) /\ There(j)' = There(j) /\ From(j)' = From(j)
  BY <1>1 DEF file, Have, There, From, At
<1>9. job[j].goal \in Requests
  BY <1>1, <1>2 DEF Plan, Addressed, Awaits, At
<1>10. Plan(j)'
  <2>1. Addressed(j)'
    BY <1>1, <1>2, <1>6, <1>7, <1>8 DEF Plan, Addressed, At, Awaits, Requests
  <2>2. Restarts(j)'
    BY <1>1, <1>2 DEF Plan, Restarts, At
  <2>3. Sized(j)'
    BY <1>1, <1>8 DEF Plan, Sized
  <2> QED
    BY <2>1, <2>2, <2>3 DEF Plan
<1>11. ~Succeeded' /\ \A c \in Links : Own(j, c)' = Own(j, c)
  BY <1>1 DEF Own, Queue, Succeeded
<1>12. Getting(j)'
  <2> SUFFICES ASSUME job[j].goal = "retr"
               PROVE  /\ \A c \in Links : Own(j, c)' => Follows(j, c)'
                      /\ \A u \in Transfers : Live(u)' => Offset(j, u)'
    BY <1>1, <1>2, <1>11 DEF Getting, At
  <2>1. \A c \in Links : Own(j, c) => Follows(j, c)
    BY <1>1, <1>2 DEF Cargo, Getting, At
  <2>2. ASSUME NEW c \in Links, Own(j, c)' PROVE Follows(j, c)'
    BY <1>1, <1>8, <1>11, <2>1, <2>2 DEF Follows
  <2>3. cmd.verb = "RETR"
    BY <1>2 DEF Verb
  <2>4. last_sent_byte = From(j)
    BY <1>1, <1>2 DEF Plan, Restarts, At
  <2>5. Offset(j, t)'
    BY <1>6, <1>8, <2>3, <2>4 DEF Offset
  <2> QED
    BY <1>7, <2>2, <2>5
<1>13. Listing(j)'
  BY <1>1, <1>2, <1>8, <1>11 DEF Cargo, Listing, At
<1>14. Putting(j)'
  <2> SUFFICES ASSUME job[j].goal \in {"stor", "appe"}
               PROVE  local[file(j)].exists /\ \A u \in Transfers : Live(u)' => Empties(j, u)'
    BY <1>1, <1>2, <1>8, <1>11 DEF Putting, At
  <2>1. local[file(j)].exists
    BY <1>1, <1>2 DEF Cargo, Putting, At
  <2>2. armed # 0 => link[armed].up = <<>>
    <3>1. transfer_type # "None"
      BY <1>1, <1>2 DEF Plan, Addressed
    <3> QED
      BY <1>1, <3>1 DEF Unloaded, Renewed
  <2>3. Empties(j, t)'
    BY <1>1, <1>4, <1>6, <2>2 DEF Empties
  <2> QED
    BY <1>7, <2>1, <2>3
<1>15. Cargo(j)'
  BY <1>1, <1>2, <1>12, <1>13, <1>14 DEF Cargo, Got, Put, At
<1>16. OpenSock' /\ Unloaded'
  BY <1>1, <1>4 DEF OpenSock, Unloaded
<1> QED
  BY <1>10, <1>15, <1>16 DEF Worked

LEMMA HandleOrders ==
  ASSUME XInv, Clean, Ordered, ~astray, HandleCommand, ~astray' PROVE Ordered'
<1>1. TInv /\ OneRuns /\ OwnSockets /\ Turns
  BY DEF XInv
<1>2. PICK n \in 1 .. Len(commands) :
        /\ Receive(commands[n])
        /\ \/ NotLoggedIn(commands[n])
           \/ loggedIn /\ (Pasv(commands[n]) \/ Port(commands[n]) \/ Rest(commands[n])
                           \/ FileTransfer(commands[n]) \/ FileTransferForkFails(commands[n]))
  BY DEF HandleCommand
<1> DEFINE cmd == commands[n]
<1> HIDE DEF cmd
<1>3. /\ Receive(cmd)
      /\ NotLoggedIn(cmd) \/ (loggedIn /\ (Pasv(cmd) \/ Port(cmd) \/ Rest(cmd) \/ FileTransfer(cmd)
                                           \/ FileTransferForkFails(cmd)))
  BY <1>2 DEF cmd
<1>4. UNCHANGED <<job, local, write_type>>
  BY DEF HandleCommand, object
<1>5. PICK j \in Jobs : Running(j)
  BY <1>1, <1>2 DEF Receive, Turns, Settled
<1>6. Handling(j, cmd)
  BY <1>1, <1>3, <1>5, HandlingStarts DEF Turns
<1>7. Ordering(j, cmd)
  BY <1>1, <1>4, <1>5, <1>6 DEF Ordering, Ordered
<1>8. Worked(j)'
  BY <1>3, <1>7, PasvWork, PortWork, ToldWork, FileTransferWork
<1>9. UNCHANGED remote
  BY <1>3 DEF NotLoggedIn, Pasv, Port, Rest, FileTransfer, FileTransferForkFails, serverVars
<1>10. Parts'
  BY <1>4, <1>9 DEF Ordered, Parts
<1> QED
  BY <1>1, <1>4, <1>5, <1>8, <1>10, OrderFollows

\* What every step of a transfer may assume.
Carrying(j, t) ==
  /\ Serving(j, t) /\ OneRuns /\ Running(j) /\ Clean
  /\ Parts /\ OpenSock /\ Unloaded /\ Plan(j) /\ Cargo(j)
  /\ UNCHANGED <<write_type, local, loggedIn, last_sent_byte>> /\ ~torn'

\* The transfer does what the job has asked for, and nothing has been said but 150.
LEMMA Carries ==
  ASSUME NEW j \in Jobs, NEW t \in Transfers, Carrying(j, t)
  PROVE  /\ child[t].verb = Verb(job[j].goal) /\ child[t].file = file(j)
         /\ job[j].goal \in Requests /\ job[j].pc \in AwaitPoints /\ ~Succeeded
         /\ ~(job[j].goal = "retr" /\ At(j, "last"))
         /\ At(j, "recv") => job[j].goal \in {"retr", "list"}
         /\ child[t].pc = "streaming" =>
              \A c \in Links : Own(j, c) /\ ~At(j, "last") => c = child[t].conn
         /\ child[t].pc # "streaming" => At(j, "answer")
<1>1. Live(t) /\ Addressed(j) /\ Awaits(j) /\ Got(j) /\ job[j].pc \in AwaitPoints /\ Turn(j)
      /\ replies \in Seq(Answer)
  BY DEF Carrying, Serving, Plan, Awaits, Cargo, AwaitPoints, TInv, Wires
<1>2. /\ child[t].verb = Verb(job[j].goal) /\ child[t].file = file(j) /\ job[j].goal \in Requests
      /\ At(j, "send") => job[j].goal \in {"stor", "appe"}
  BY <1>1 DEF Addressed
<1>3. ~Succeeded
  <2>1. \A n \in 1 .. Len(replies) : replies[n].code = "150"
    BY SoFar DEF Carrying
  <2>2. replies # <<>> => Len(replies) \in 1 .. Len(replies)
    BY <1>1
  <2> QED
    BY <2>1, <2>2 DEF Succeeded
<1>4. ~(job[j].goal = "retr" /\ At(j, "last"))
  BY <1>1 DEF Got, Free
<1>5. At(j, "recv") => job[j].goal \in {"retr", "list"}
  BY <1>1 DEF Turn, Moves, At
<1>6. /\ At(j, "answer") => Started(j, t)
      /\ ~At(j, "answer") => Begun(j, t)
  BY SoFar DEF Carrying
<1>7. ASSUME child[t].pc = "streaming", NEW c \in Links, Own(j, c), ~At(j, "last")
      PROVE  c = child[t].conn
  <2>1. CASE At(j, "answer")
    BY <1>6, <1>7, <2>1 DEF Started, Own
  <2>2. CASE ~At(j, "answer")
    BY <1>1, <1>6, <1>7, <2>2 DEF Begun, Own, At, AwaitPoints
  <2> QED
    BY <2>1, <2>2
<1> QED
  BY <1>1, <1>2, <1>3, <1>4, <1>5, <1>6, <1>7 DEF Begun

\* Its own sockets stay the client's, and what it is to send has not been touched.
LEMMA Carried ==
  ASSUME NEW j \in Jobs, NEW t \in Transfers, Carrying(j, t),
         \A u \in Transfers : Live(u)' => Live(u) /\ SameTask(u),
         job[j].goal = "list" \/ (job[j].goal = "appe" /\ ~At(j, "last")) => There(j)' = There(j),
         data_sock \in Links => link'[data_sock].client = link[data_sock].client,
         armed # 0 => link'[armed].up = link[armed].up,
         Cargo(j)'
  PROVE  Worked(j)'
<1>1. /\ UNCHANGED <<commands, data_sock, port_sock, transfer_type, job, armed, write_type, local>>
      /\ commands' = <<>> /\ Len(commands') = 0 /\ Plan(j) /\ OpenSock /\ Unloaded
      /\ job[j].pc \in AwaitPoints /\ job[j].goal \in Requests
  BY Carries DEF Carrying, Serving
<1>2. file(j)' = file(j) /\ Have(j)' = Have(j)
  BY <1>1 DEF file, Have
<1>3. Addressed(j)'
  BY <1>1, <1>2 DEF Plan, Addressed, At, Awaits, AwaitPoints, Requests, SameTask
<1>4. Restarts(j)'
  BY <1>1 DEF Plan, Restarts, At, AwaitPoints
<1>5. Sized(j)'
  BY <1>1, <1>2 DEF Plan, Sized, At, AwaitPoints
<1>6. OpenSock'
  BY <1>1 DEF OpenSock
<1>7. Unloaded'
  <2>1. ~Renewed /\ ~Renewed'
    <3>1. ~At(j, "pasv")
      BY <1>1 DEF At, AwaitPoints
    <3> QED
      BY <1>1, <3>1 DEF Carrying, OneRuns, Renewed, At, Running
  <2> QED
    BY <1>1, <2>1 DEF Unloaded
<1> QED
  BY <1>3, <1>4, <1>5, <1>6, <1>7 DEF Worked, Plan

LEMMA CarryFrom ==
  ASSUME NEW j \in Jobs, NEW t \in Transfers, Carrying(j, t)
  PROVE  file(j)' = file(j) /\ Have(j)' = Have(j) /\ From(j)' = From(j)
<1>1. UNCHANGED <<job, local>>
  BY DEF Carrying, Serving
<1>2. file(j)' = file(j) /\ Have(j)' = Have(j)
  BY <1>1 DEF file, Have
<1> QED
  BY <1>1, <1>2 DEF From, At

LEMMA TakesWork ==
  ASSUME NEW j \in Jobs, NEW t \in Transfers, Carrying(j, t), Takes(t) PROVE Worked(j)'
<1> DEFINE c == served[t]
<1>1. /\ child[t].pc = "setup" /\ child'[t].pc = "begin" /\ child'[t].conn = c /\ c \in Links
      /\ SameTask(t) /\ child'[t].offset = child[t].offset /\ OnlyChild(t)
      /\ UNCHANGED <<replies, remote>> /\ c # 0 /\ link[c].server = "queued"
      /\ \A d \in Links : /\ link'[d].client = link[d].client /\ link'[d].port = link[d].port
                          /\ link'[d].up = link[d].up /\ link'[d].down = link[d].down
  BY DEF Takes, Joins
<1> HIDE DEF c
<1>2. /\ At(j, "answer") /\ Cargo(j) /\ ~Succeeded /\ Clean /\ TInv
      /\ Live(t) /\ \A u \in Transfers : Live(u) => u = t
      /\ UNCHANGED <<data_sock, port_sock, transfer_type, job, local, armed, served>>
  BY <1>1, Carries DEF Carrying, Serving
<1>3. file(j)' = file(j) /\ From(j)' = From(j) /\ There(j)' = There(j) /\ ~Succeeded'
  BY <1>1, <1>2, CarryFrom DEF There, Succeeded
<1>4. \A u \in Transfers : Live(u)' => u = t
  BY <1>2, <1>1 DEF OnlyChild, Live
<1>5. \A d \in Links : Own(j, d)' => Own(j, d)
  BY <1>1, <1>2 DEF Own, Queue
<1>6. link'[c].down = <<>>
  BY <1>1, <1>2 DEF Clean, TidyLink
<1>7. Getting(j)'
  <2> SUFFICES ASSUME job[j].goal = "retr"
               PROVE  /\ \A d \in Links : Own(j, d)' => Follows(j, d)'
                      /\ \A u \in Transfers : Live(u)' => Offset(j, u)'
    BY <1>2, <1>3 DEF Getting, At
  <2>1. (\A d \in Links : Own(j, d) => Follows(j, d)) /\ Offset(j, t)
    BY <1>2 DEF Cargo, Getting, At
  <2>2. ASSUME NEW d \in Links, Own(j, d)' PROVE Follows(j, d)'
    BY <1>1, <1>3, <1>5, <2>1, <2>2 DEF Follows
  <2>3. Offset(j, t)'
    BY <1>1, <1>3, <1>6, <2>1 DEF Offset
  <2> QED
    BY <1>4, <2>2, <2>3
<1>8. Listing(j)'
  BY <1>1, <1>2, <1>3, <1>5 DEF Cargo, Listing, At
<1>9. Putting(j)'
  <2> SUFFICES ASSUME job[j].goal \in {"stor", "appe"}
               PROVE  local[file(j)].exists /\ \A u \in Transfers : Live(u)' => Empties(j, u)'
    BY <1>2, <1>3 DEF Putting, At
  <2>1. local[file(j)].exists /\ Empties(j, t)
    BY <1>2 DEF Cargo, Putting, At
  <2>2. link'[c].up = <<>>
    BY <1>1, <2>1 DEF Empties, c
  <2>3. Empties(j, t)'
    BY <1>1, <2>2 DEF Empties
  <2> QED
    BY <1>4, <2>1, <2>3
<1>10. Cargo(j)'
  BY <1>2, <1>7, <1>8, <1>9 DEF Cargo, Got, Put, At
<1> QED
  BY <1>1, <1>2, <1>3, <1>4, <1>10, ArmedIsLink, Carried

LEMMA DialsWork ==
  ASSUME NEW j \in Jobs, NEW t \in Transfers, Carrying(j, t), Dials(t) PROVE Worked(j)'
<1>1. /\ child[t].pc = "setup" /\ child'[t].pc = "begin" /\ child'[t].conn = t /\ t \in Links
      /\ SameTask(t) /\ child'[t].offset = child[t].offset /\ OnlyChild(t)
      /\ UNCHANGED <<replies, remote>> /\ child[t].mode = "MODE_PORT"
      /\ \A d \in Links \ {t} : link'[d] = link[d]
      /\ link'[t].up = <<>> /\ link'[t].down = <<>>
  BY DEF Dials, Joins
<1>2. /\ At(j, "answer") /\ Cargo(j) /\ ~Succeeded /\ TInv /\ OwnSockets
      /\ Live(t) /\ \A u \in Transfers : Live(u) => u = t
      /\ UNCHANGED <<data_sock, port_sock, transfer_type, job, local, armed, served>>
  BY <1>1, Carries DEF Carrying, Serving
<1>3. file(j)' = file(j) /\ From(j)' = From(j) /\ There(j)' = There(j) /\ ~Succeeded'
  BY <1>1, <1>2, CarryFrom DEF There, Succeeded
<1>4. \A u \in Transfers : Live(u)' => u = t
  BY <1>2, <1>1 DEF OnlyChild, Live
<1>5. data_sock \notin Links
  <2>1. Started(j, t)
    BY <1>2, SoFar DEF Carrying
  <2> QED
    BY <1>1, <2>1 DEF Started
<1>6. \A d \in Links \ {t} : Own(j, d)' => Own(j, d)
  BY <1>1, <1>2 DEF Own, Queue
<1>7. Getting(j)'
  <2> SUFFICES ASSUME job[j].goal = "retr"
               PROVE  /\ \A d \in Links : Own(j, d)' => Follows(j, d)'
                      /\ \A u \in Transfers : Live(u)' => Offset(j, u)'
    BY <1>2, <1>3 DEF Getting, At
  <2>1. (\A d \in Links : Own(j, d) => Follows(j, d)) /\ Offset(j, t)
    BY <1>2 DEF Cargo, Getting, At
  <2>2. ASSUME NEW d \in Links \ {t}, Own(j, d)' PROVE Follows(j, d)'
    BY <1>1, <1>3, <1>6, <2>1, <2>2 DEF Follows
  <2>3. Follows(j, t)'
    <3>1. Len(link'[t].down) = 0
      BY <1>1
    <3> QED
      BY <1>3, <3>1 DEF Follows
  <2>4. Offset(j, t)'
    BY <1>1, <1>3, <2>1 DEF Offset
  <2> QED
    BY <1>4, <2>2, <2>3, <2>4
<1>8. Listing(j)'
  <2> SUFFICES ASSUME job[j].goal = "list", NEW d \in Links, Own(j, d)', NEW n \in 1 .. Len(link'[d].down)
               PROVE  link'[d].down[n] = Line(file(j), There(j))
    BY <1>2, <1>3 DEF Listing, At
  <2>1. d # t
    <3>1. Len(link'[t].down) = 0
      BY <1>1
    <3> QED
      BY <3>1
  <2> QED
    BY <1>1, <1>2, <1>6, <2>1 DEF Cargo, Listing, At
<1>9. Putting(j)'
  <2> SUFFICES ASSUME job[j].goal \in {"stor", "appe"}
               PROVE  local[file(j)].exists /\ \A u \in Transfers : Live(u)' => Empties(j, u)'
    BY <1>2, <1>3 DEF Putting, At
  <2>1. local[file(j)].exists
    BY <1>2 DEF Cargo, Putting, At
  <2>2. Empties(j, t)'
    BY <1>1 DEF Empties
  <2> QED
    BY <1>4, <2>1, <2>2
<1>10. Cargo(j)'
  BY <1>2, <1>7, <1>8, <1>9 DEF Cargo, Got, Put, At
<1>11. armed # 0 => link'[armed].up = link[armed].up
  BY <1>1, <1>2, ConnNotArmed
<1> QED
  BY <1>1, <1>2, <1>3, <1>4, <1>5, <1>10, <1>11, Carried

LEMMA BeginsWork ==
  ASSUME NEW j \in Jobs, NEW t \in Transfers, Carrying(j, t), Begins(t) PROVE Worked(j)'
<1>1. /\ child[t].pc = "begin" /\ child'[t].pc = "streaming" /\ child'[t].conn = child[t].conn
      /\ SameTask(t) /\ child'[t].offset = child[t].offset /\ OnlyChild(t)
      /\ UNCHANGED link /\ Says(t, "150") /\ remote'[child[t].file].exists
      /\ remote'[child[t].file].data = IF Runs(t, {"STOR"}) THEN <<>> ELSE Content(t).data
  BY DEF Begins
<1>2. /\ At(j, "answer") /\ Cargo(j) /\ TInv
      /\ child[t].verb = Verb(job[j].goal) /\ child[t].file = file(j) /\ job[j].goal \in Requests
      /\ Live(t) /\ \A u \in Transfers : Live(u) => u = t
      /\ UNCHANGED <<data_sock, port_sock, transfer_type, job, local, armed, served>>
  BY <1>1, Carries DEF Carrying, Serving
<1>3. file(j)' = file(j) /\ From(j)' = From(j) /\ ~Succeeded'
  <2>1. replies'[Len(replies')].code = "150"
    BY <1>1, SaysMore DEF Carrying
  <2> QED
    BY <2>1, CarryFrom DEF Succeeded
<1>4. /\ remote'[file(j)'].exists
      /\ job[j].goal = "stor" => There(j)' = 0
      /\ job[j].goal # "stor" => There(j)' = There(j)
  <2>1. Runs(t, {"STOR"}) <=> job[j].goal = "stor"
    BY <1>2 DEF Runs, Verb, Requests
  <2> QED
    BY <1>1, <1>2, <1>3, <2>1 DEF There, Content
<1>5. \A u \in Transfers : Live(u)' => u = t
  BY <1>2, <1>1 DEF OnlyChild, Live
<1>6. \A d \in Links : Own(j, d)' => Own(j, d)
  BY <1>1, <1>2 DEF Own, Queue
<1>7. Getting(j)'
  <2> SUFFICES ASSUME job[j].goal = "retr"
               PROVE  /\ \A d \in Links : Own(j, d)' => Follows(j, d)'
                      /\ \A u \in Transfers : Live(u)' => Offset(j, u)'
    BY <1>2, <1>3 DEF Getting, At
  <2>1. (\A d \in Links : Own(j, d) => Follows(j, d)) /\ Offset(j, t)
    BY <1>2 DEF Cargo, Getting, At
  <2>2. ASSUME NEW d \in Links, Own(j, d)' PROVE Follows(j, d)'
    BY <1>1, <1>3, <1>6, <2>1, <2>2 DEF Follows
  <2>3. Offset(j, t)'
    <3>1. From(j) \in Nat
      BY <1>1, <1>2, <2>1 DEF Offset, TInv, ServerKeeps, Forked, Child
    <3>2. Len(link'[child'[t].conn].down) = 0 /\ child'[t].offset = From(j)
      BY <1>1, <2>1 DEF Offset
    <3> QED
      BY <1>1, <1>3, <1>4, <3>1, <3>2 DEF Offset
  <2> QED
    BY <1>5, <2>2, <2>3
<1>8. Listing(j)'
  BY <1>1, <1>2, <1>3, <1>4, <1>6 DEF Cargo, Listing, At
<1>9. Putting(j)'
  <2> SUFFICES ASSUME job[j].goal \in {"stor", "appe"}
               PROVE  local[file(j)].exists /\ \A u \in Transfers : Live(u)' => Empties(j, u)'
    BY <1>2, <1>3 DEF Putting, At
  <2>1. local[file(j)].exists /\ Empties(j, t)
    BY <1>2 DEF Cargo, Putting, At
  <2>2. Empties(j, t)'
    BY <1>1, <1>2, <1>4, <2>1 DEF Empties
  <2> QED
    BY <1>5, <2>1, <2>2
<1>10. Cargo(j)'
  BY <1>2, <1>7, <1>8, <1>9 DEF Cargo, Got, Put, At
<1>11. \A u \in Transfers : Live(u)' => Live(u) /\ SameTask(u)
  BY <1>1, <1>2, <1>5
<1> QED
  BY <1>1, <1>4, <1>10, <1>11, Carried

\* What RETR still has to send, and the first of it.
LEMMA RestFrom ==
  ASSUME NEW S, NEW s \in Seq(S), NEW n \in Nat
  PROVE  /\ SubSeq(s, n + 1, Len(s)) # <<>> => n + 1 \in 1 .. Len(s) /\ Head(SubSeq(s, n + 1, Len(s))) = s[n + 1]
         /\ SubSeq(s, n + 1, Len(s)) = <<>> => n >= Len(s)
<1>1. CASE n < Len(s)
  <2>1. n \in 0 .. Len(s) /\ n + 1 \in 1 .. Len(s) /\ 1 \in 1 .. Len(s) - n
    BY <1>1
  <2> DEFINE rest == SubSeq(s, n + 1, Len(s))
  <2>2. rest \in Seq(S) /\ Len(rest) = Len(s) - n /\ rest[1] = s[n + 1]
    BY <2>1, RestOf
  <2> HIDE DEF rest
  <2>3. rest # <<>> /\ Head(rest) = rest[1]
    BY <1>1, <2>2
  <2> QED
    BY <2>1, <2>2, <2>3 DEF rest
<1>2. CASE n >= Len(s)
  <2>1. \A a, b \in Nat : a > b => SubSeq(s, a, b) = <<>>
    OBVIOUS
  <2>2. SubSeq(s, n + 1, Len(s)) = <<>>
    BY <1>2, <2>1
  <2> QED
    BY <1>2, <2>2
<1> QED
  BY <1>1, <1>2

LEMMA AppendedUnits ==
  ASSUME NEW S, NEW s \in Seq(S), NEW unit \in S
  PROVE  /\ Len(Append(s, unit)) = Len(s) + 1 /\ Len(s) \in Nat
         /\ Append(s, unit)[Len(s) + 1] = unit
         /\ \A n \in 1 .. Len(s) : Append(s, unit)[n] = s[n]
OBVIOUS

LEMMA SendsWork ==
  ASSUME NEW j \in Jobs, NEW t \in Transfers, Carrying(j, t), Sends(t) PROVE Worked(j)'
<1> DEFINE c == child[t].conn
           unit == Head(Sendable(t))
           down == link[c].down
<1>1. /\ child[t].pc = "streaming" /\ child'[t].pc = "streaming" /\ child'[t].conn = c
      /\ SameTask(t) /\ child'[t].offset = child[t].offset + 1 /\ OnlyChild(t)
      /\ UNCHANGED <<replies, remote>> /\ Runs(t, {"RETR", "LIST"}) /\ Sendable(t) # <<>>
      /\ \A d \in Links : /\ link'[d].client = link[d].client /\ link'[d].port = link[d].port
                          /\ link'[d].up = link[d].up
      /\ \A d \in Links \ {c} : link'[d].down = link[d].down
      /\ link'[c].down = Append(down, unit)
  BY DEF Sends, SameEnds
<1>2. /\ job[j].pc \in AwaitPoints /\ Cargo(j) /\ ~Succeeded /\ TInv /\ Parts
      /\ child[t].verb = Verb(job[j].goal) /\ child[t].file = file(j) /\ job[j].goal \in Requests
      /\ ~(job[j].goal = "retr" /\ At(j, "last"))
      /\ Live(t) /\ \A u \in Transfers : Live(u) => u = t
      /\ UNCHANGED <<data_sock, port_sock, transfer_type, job, local, armed, served>>
  BY Carries DEF Carrying, Serving
<1>3. /\ c \in Links /\ down \in Seq(Units) /\ file(j) \in Files /\ child[t].offset \in Nat
      /\ remote[file(j)].data \in Seq(Units)
  <2>1. c \in Links /\ file(j) \in Files /\ child[t].offset \in Nat
    BY <1>1, <1>2, ChildFacts DEF Child
  <2> QED
    BY <1>2, <2>1 DEF TInv, Wires, Connection, Disks, Disk
<1>4. job[j].goal \in {"retr", "list"} /\ (job[j].goal = "retr" <=> Runs(t, {"RETR"}))
  BY <1>1, <1>2 DEF Runs, Verb, Requests
<1>5. file(j)' = file(j) /\ From(j)' = From(j) /\ There(j)' = There(j) /\ ~Succeeded'
  BY <1>1, <1>2, CarryFrom DEF There, Succeeded
<1>6. \A u \in Transfers : Live(u)' => u = t
  BY <1>1, <1>2 DEF OnlyChild, Live
<1>7. \A d \in Links : Own(j, d)' => Own(j, d)
  BY <1>1, <1>2 DEF Own, Queue
<1>8. CASE job[j].goal = "retr"
  <2>1. child[t].offset + 1 \in 1 .. There(j) /\ unit = remote[file(j)].data[child[t].offset + 1]
    <3>1. Sendable(t) = SubSeq(remote[file(j)].data, child[t].offset + 1, Len(remote[file(j)].data))
      BY <1>2, <1>4, <1>8 DEF Sendable, Content
    <3> QED
      BY <1>1, <1>3, <3>1, RestFrom DEF There
  <2>2. unit = Data(file(j), child[t].offset + 1) /\ unit \in Units
    BY <1>2, <1>3, <2>1 DEF Parts, Part, There
  <2>3. /\ \A d \in Links : Own(j, d) /\ ~At(j, "last") => Follows(j, d)
        /\ Offset(j, t) /\ (At(j, "recv") => local[file(j)].exists)
    BY <1>2, <1>8 DEF Cargo, Getting, AwaitPoints, At, Carrying, Plan, Addressed
  <2>4. remote[file(j)].exists /\ child[t].offset = From(j) + Len(down) /\ From(j) \in Nat
    <3>1. Len(local[file(j)].data) \in Nat
      BY <1>2, <1>3 DEF TInv, Disks, Disk
    <3> QED
      BY <1>1, <2>3, <3>1 DEF Offset, From, Have
  <2> HIDE DEF unit, down
  <2>5. /\ Len(Append(down, unit)) = Len(down) + 1 /\ Len(down) \in Nat
        /\ Append(down, unit)[Len(down) + 1] = unit
        /\ \A n \in 1 .. Len(down) : Append(down, unit)[n] = down[n]
    BY <1>3, <2>2, AppendedUnits
  <2>6. unit = Data(file(j), From(j) + (Len(down) + 1))
    <3>1. child[t].offset + 1 = From(j) + (Len(down) + 1)
      BY <2>4, <2>5
    <3> QED
      BY <2>2, <3>1
  <2>7. ASSUME NEW d \in Links, Own(j, d)', ~At(j, "last") PROVE Follows(j, d)'
    <3>1. Follows(j, d)
      BY <1>7, <2>3, <2>7
    <3>2. CASE d = c
      <4>1. \A n \in 1 .. Len(Append(down, unit)) : Append(down, unit)[n] = Data(file(j), From(j) + n)
        BY <2>5, <2>6, <3>1, <3>2 DEF Follows, down
      <4> QED
        BY <1>1, <1>5, <3>2, <4>1 DEF Follows
    <3>3. CASE d # c
      BY <1>1, <1>5, <3>1, <3>3 DEF Follows
    <3> QED
      BY <3>2, <3>3
  <2>8. Offset(j, t)'
    <3>1. child'[t].offset = From(j) + Len(Append(down, unit))
      BY <1>1, <2>4, <2>5
    <3> QED
      BY <1>1, <1>5, <2>4, <3>1 DEF Offset
  <2>9. Getting(j)'
    BY <1>2, <1>5, <1>6, <2>3, <2>7, <2>8 DEF Getting, At
  <2> QED
    <3>1. Cargo(j)'
      BY <1>2, <1>8, <2>9 DEF Cargo, Got, Listing, Putting, Put, At
    <3>2. \A u \in Transfers : Live(u)' => Live(u) /\ SameTask(u)
      BY <1>1, <1>2, <1>6
    <3> QED
      BY <1>1, <1>2, <1>5, <3>1, <3>2, ArmedIsLink, Carried
<1>9. CASE job[j].goal = "list"
  <2>1. unit = Line(file(j), There(j))
    <3>1. Sendable(t) = <<Line(file(j), There(j))>>
      BY <1>1, <1>2, <1>4, <1>9 DEF Sendable, Content, There
    <3> QED
      BY <3>1
  <2>2. unit \in Units
    <3>1. There(j) \in Nat
      BY <1>3 DEF There
    <3> QED
      BY <1>3, <2>1, <3>1 DEF Line, Units
  <2> HIDE DEF unit, down
  <2>3. /\ Len(Append(down, unit)) = Len(down) + 1 /\ Len(down) \in Nat
        /\ Append(down, unit)[Len(down) + 1] = unit
        /\ \A n \in 1 .. Len(down) : Append(down, unit)[n] = down[n]
    BY <1>3, <2>2, AppendedUnits
  <2>4. Listing(j)'
    <3> SUFFICES ASSUME job[j].pc \in {"answer", "accept", "judge", "recv"}, NEW d \in Links, Own(j, d)'
                 PROVE  \A n \in 1 .. Len(link'[d].down) : link'[d].down[n] = Line(file(j), There(j))
      BY <1>2, <1>5 DEF Listing
    <3>1. \A n \in 1 .. Len(link[d].down) : link[d].down[n] = Line(file(j), There(j))
      BY <1>2, <1>7, <1>9 DEF Cargo, Listing
    <3>2. CASE d = c
      <4> DEFINE line == Line(file(j), There(j))
      <4>1. \A n \in 1 .. Len(down) : down[n] = line
        BY <3>1, <3>2 DEF down
      <4>2. unit = line
        BY <2>1
      <4> HIDE DEF line
      <4>3. \A n \in 1 .. Len(Append(down, unit)) : Append(down, unit)[n] = line
        BY <2>3, <4>1, <4>2
      <4>4. link'[d].down = Append(down, unit)
        BY <1>1, <3>2
      <4> QED
        BY <4>3, <4>4 DEF line
    <3>3. CASE d # c
      BY <1>1, <3>1, <3>3
    <3> QED
      BY <3>2, <3>3
  <2> QED
    <3>1. Cargo(j)'
      BY <1>2, <1>9, <2>4 DEF Cargo, Getting, Got, Putting, Put
    <3>2. \A u \in Transfers : Live(u)' => Live(u) /\ SameTask(u)
      BY <1>1, <1>2, <1>6
    <3> QED
      BY <1>1, <1>2, <1>5, <3>1, <3>2, ArmedIsLink, Carried
<1> QED
  BY <1>4, <1>8, <1>9

LEMMA StoresWork ==
  ASSUME NEW j \in Jobs, NEW t \in Transfers, Carrying(j, t), Stores(t)
  PROVE  Worked(j)' /\ Part(child[t].file, remote'[child[t].file])
<1> DEFINE c == child[t].conn
           up == link[c].up
           had == remote[file(j)].data
           unit == Head(up)
           left == SubSeq(up, 2, Len(up))
<1>1. /\ child[t].pc = "streaming" /\ UNCHANGED <<child, replies>>
      /\ Runs(t, {"STOR", "APPE"}) /\ up # <<>>
      /\ \A d \in Links : /\ link'[d].client = link[d].client /\ link'[d].port = link[d].port
                          /\ link'[d].down = link[d].down
      /\ \A d \in Links \ {c} : link'[d].up = link[d].up
      /\ link'[c].up = left
  BY DEF Stores, SameEnds, Carrying
<1>2. /\ job[j].pc \in AwaitPoints /\ Cargo(j) /\ ~Succeeded /\ TInv /\ OwnSockets /\ Parts
      /\ child[t].verb = Verb(job[j].goal) /\ child[t].file = file(j) /\ job[j].goal \in Requests
      /\ At(j, "recv") => job[j].goal \in {"retr", "list"}
      /\ Live(t) /\ \A u \in Transfers : Live(u) => u = t
      /\ UNCHANGED <<data_sock, port_sock, transfer_type, job, local, armed, served>>
  BY Carries DEF Carrying, Serving
<1>3. /\ c \in Links /\ up \in Seq(Units) /\ file(j) \in Files /\ had \in Seq(Units)
      /\ remote'[file(j)].exists = remote[file(j)].exists /\ remote'[file(j)].data = Append(had, unit)
  <2>1. c \in Links /\ file(j) \in Files
    BY <1>1, <1>2, ChildFacts
  <2> QED
    BY <1>2, <2>1 DEF Stores, Content, TInv, Wires, Connection, Disks, Disk
<1>4. job[j].goal \in {"stor", "appe"}
  BY <1>1, <1>2 DEF Runs, Verb, Requests
<1>5. At(j, "last")
  <2> SUFFICES ASSUME ~At(j, "last") PROVE FALSE
    OBVIOUS
  <2>1. Empties(j, t)
    BY <1>2, <1>4 DEF Cargo, Putting, AwaitPoints, At
  <2> QED
    BY <1>1, <2>1 DEF Empties
<1>6. local[file(j)].exists /\ Completes(j, t)
  BY <1>2, <1>4, <1>5 DEF Cargo, Put
<1>7. /\ unit = Data(file(j), Len(had) + 1) /\ unit \in Units
      /\ Len(left) = Len(up) - 1 /\ Len(up) \in Nat /\ Len(up) >= 1
      /\ \A n \in 1 .. Len(up) - 1 : left[n] = up[n + 1]
  <2>1. /\ unit = up[1] /\ 1 \in 1 .. Len(up) /\ unit \in Units
        /\ Len(left) = Len(up) - 1 /\ Len(up) \in Nat /\ Len(up) >= 1
        /\ \A n \in 1 .. Len(up) - 1 : left[n] = up[n + 1]
    <3>1. Len(up) \in Nat /\ 1 \in 1 .. Len(up)
      BY <1>1, <1>3
    <3>2. /\ Len(SubSeq(up, 1 + 1, Len(up))) = Len(up) - 1 /\ Head(up) = up[1] /\ Head(up) \in Units
          /\ \A n \in 1 .. Len(up) - 1 : SubSeq(up, 1 + 1, Len(up))[n] = up[1 + n]
      BY <1>3, <3>1, Sequence
    <3> QED
      BY <3>1, <3>2
  <2> QED
    BY <1>6, <2>1 DEF Completes, There
<1> HIDE DEF unit, up, had, left
<1>8. /\ Len(Append(had, unit)) = Len(had) + 1 /\ Len(had) \in Nat
      /\ Append(had, unit)[Len(had) + 1] = unit
      /\ \A n \in 1 .. Len(had) : Append(had, unit)[n] = had[n]
  BY <1>3, <1>7, AppendedUnits
<1>9. file(j)' = file(j) /\ Have(j)' = Have(j) /\ There(j)' = There(j) + 1 /\ There(j) = Len(had) /\ ~Succeeded'
  BY <1>1, <1>2, <1>3, <1>8, CarryFrom DEF There, Succeeded, had
<1>10. Completes(j, t)'
  <2>1. There(j) + Len(up) = Have(j) /\ remote[file(j)].exists
        /\ \A n \in 1 .. Len(up) : up[n] = Data(file(j), There(j) + n)
    BY <1>6 DEF Completes, up
  <2>2. There(j) + 1 + Len(left) = Have(j)
    <3> DEFINE there == There(j)
               have == Have(j)
    <3>1. there \in Nat
      BY <1>8, <1>9
    <3>2. there + Len(up) = have
      BY <2>1
    <3> HIDE DEF there, have
    <3>3. there + 1 + Len(left) = have
      <4> DEFINE size == Len(up)
                 rest == Len(left)
      <4>1. rest = size - 1 /\ size \in Nat /\ there + size = have
        BY <1>7, <3>2
      <4> HIDE DEF size, rest
      <4>2. there + 1 + rest = have
        BY <3>1, <4>1
      <4> QED
        BY <4>2 DEF rest
    <3> QED
      BY <3>3 DEF there, have
  <2>3. ASSUME NEW n \in 1 .. Len(left) PROVE left[n] = Data(file(j), There(j) + 1 + n)
    <3>1. n \in 1 .. Len(up) - 1 /\ n + 1 \in 1 .. Len(up) /\ There(j) + (n + 1) = There(j) + 1 + n
      <4> DEFINE there == There(j)
                 size == Len(up)
                 rest == Len(left)
      <4>1. there \in Nat
        BY <1>8, <1>9
      <4>2. rest = size - 1 /\ size \in Nat
        BY <1>7
      <4>3. n \in 1 .. rest
        OBVIOUS
      <4> HIDE DEF there, size, rest
      <4>4. n \in 1 .. size - 1 /\ n + 1 \in 1 .. size /\ there + (n + 1) = there + 1 + n
        BY <4>1, <4>2, <4>3
      <4> QED
        BY <4>4 DEF there, size
    <3>2. left[n] = up[n + 1]
      BY <1>7, <3>1
    <3>3. up[n + 1] = Data(file(j), There(j) + (n + 1))
      BY <2>1, <3>1
    <3> QED
      BY <3>1, <3>2, <3>3
  <2> QED
    BY <1>1, <1>3, <1>9, <2>1, <2>2, <2>3 DEF Completes
<1>11. Cargo(j)'
  <2>1. Put(j)'
    BY <1>1, <1>2, <1>6, <1>9, <1>10 DEF Put, Live
  <2> QED
    BY <1>2, <1>4, <1>5, <2>1 DEF Cargo, Getting, Got, Listing, Putting, At
<1>12. armed # 0 => link'[armed].up = link[armed].up
  BY <1>1, <1>2, ConnNotArmed
<1>13. Worked(j)'
  <2>1. \A u \in Transfers : Live(u)' => Live(u) /\ SameTask(u)
    BY <1>1 DEF Live, SameTask
  <2> QED
    BY <1>1, <1>4, <1>5, <1>11, <1>12, <2>1, Carried
<1>14. Part(file(j), remote'[file(j)])
  <2>1. remote[file(j)].exists
    BY <1>6 DEF Completes
  <2>2. \A n \in 1 .. Len(had) : had[n] = Data(file(j), n)
    BY <1>2, <1>3 DEF Parts, Part, had
  <2>3. \A n \in 1 .. Len(Append(had, unit)) : Append(had, unit)[n] = Data(file(j), n)
    BY <1>7, <1>8, <2>2
  <2> QED
    BY <1>3, <2>1, <2>3 DEF Part
<1> QED
  BY <1>2, <1>13, <1>14

\* A transfer that ends takes nothing of the client's data connection with it.
LEMMA LeavesOwn ==
  ASSUME NEW j \in Jobs, NEW t \in Transfers, Carrying(j, t), Exit(t)
  PROVE  /\ \A u \in Transfers : ~Live(u)'
         /\ data_sock \in Links => link'[data_sock].client = link[data_sock].client
         /\ armed # 0 => link'[armed].up = link[armed].up
         /\ \A d \in Links : Own(j, d)' =>
              Own(j, d) /\ link[d].client # "closed" /\ link'[d].down = link[d].down
<1>1. /\ TInv /\ OwnSockets /\ OpenSock /\ Live(t) /\ \A u \in Transfers : Live(u) => u = t
      /\ UNCHANGED <<data_sock, port_sock, job, armed>>
  BY DEF Carrying, Serving
<1>2. Leaves(t)
  BY <1>1, ExitLeaves
<1>3. \A u \in Transfers : ~Live(u)'
  BY <1>1, <1>2 DEF Leaves, OnlyChild, Live
<1>4. data_sock \in Links => link[data_sock].client = "open"
  BY <1>1 DEF OpenSock
<1>5. armed # 0 => link'[armed].up = link[armed].up
  BY <1>1, <1>2, ConnNotArmed DEF Leaves
<1>6. ASSUME NEW d \in Links, Own(j, d)'
      PROVE  Own(j, d) /\ link[d].client # "closed" /\ link'[d].down = link[d].down
  <2>1. CASE d = data_sock
    BY <1>1, <1>2, <1>4, <2>1 DEF Own, Leaves
  <2>2. CASE d # data_sock
    <3>1. link'[d].client = "queued" /\ Queue(d)' /\ job[j].active /\ job[j].pc \in {"answer", "accept"}
      BY <1>1, <1>6, <2>2 DEF Own, Queue
    <3>2. link[d].client # "closed"
      BY <1>2, <3>1 DEF Leaves
    <3>3. link'[d].client = link[d].client /\ link'[d].port = link[d].port /\ link'[d].down = link[d].down
      BY <1>2, <3>2 DEF Leaves
    <3> QED
      BY <1>1, <3>1, <3>2, <3>3 DEF Own, Queue
  <2> QED
    BY <2>1, <2>2
<1> QED
  BY <1>2, <1>3, <1>4, <1>5, <1>6 DEF Leaves

\* It may say 226 only when all has been moved.
Moved(j, t) ==
  /\ child[t].pc = "streaming"
  /\ job[j].goal = "retr" => child[t].offset = There(j)
  /\ job[j].goal \in {"stor", "appe"} =>
       link[child[t].conn].up = <<>> /\ link[child[t].conn].client = "closed"

LEMMA LeavesWork ==
  ASSUME NEW j \in Jobs, NEW t \in Transfers, Carrying(j, t), Exit(t), UNCHANGED remote,
         Succeeded' => Moved(j, t)
  PROVE  Worked(j)'
<1>1. /\ \A u \in Transfers : ~Live(u)'
      /\ data_sock \in Links => link'[data_sock].client = link[data_sock].client
      /\ armed # 0 => link'[armed].up = link[armed].up
      /\ \A d \in Links : Own(j, d)' =>
           Own(j, d) /\ link[d].client # "closed" /\ link'[d].down = link[d].down
  BY LeavesOwn
<1>2. /\ job[j].pc \in AwaitPoints /\ Cargo(j) /\ TInv /\ Live(t) /\ job[j].goal \in Requests
      /\ child[t].file = file(j) /\ ~(job[j].goal = "retr" /\ At(j, "last"))
      /\ UNCHANGED <<job, local>>
  BY Carries DEF Carrying, Serving
<1>3. file(j)' = file(j) /\ Have(j)' = Have(j) /\ From(j)' = From(j) /\ There(j)' = There(j)
      /\ remote'[file(j)] = remote[file(j)] /\ local'[file(j)] = local[file(j)]
  BY <1>2, CarryFrom DEF There
<1>4. child[t].pc = "streaming" => \A c \in Links : Own(j, c) /\ ~At(j, "last") => c = child[t].conn
  BY Carries
<1>5. Getting(j)'
  <2> SUFFICES ASSUME job[j].goal = "retr", job[j].pc \in {"answer", "accept", "judge", "recv"}
               PROVE  /\ \A c \in Links : Own(j, c)' => Follows(j, c)'
                      /\ At(j, "recv") => local[file(j)].exists
                      /\ Succeeded' => remote[file(j)].exists
    BY <1>1, <1>2, <1>3 DEF Getting, At
  <2>1. /\ \A c \in Links : Own(j, c) => Follows(j, c)
        /\ Offset(j, t) /\ (At(j, "recv") => local[file(j)].exists)
    BY <1>2 DEF Cargo, Getting
  <2>2. ASSUME NEW c \in Links, Own(j, c)' PROVE Follows(j, c)'
    <3>1. Own(j, c) /\ link'[c].down = link[c].down /\ Follows(j, c)
      BY <1>1, <2>1, <2>2
    <3>2. Succeeded' => From(j) + Len(link[c].down) = There(j)
      <4> SUFFICES ASSUME Succeeded' PROVE From(j) + Len(link[c].down) = There(j)
        OBVIOUS
      <4>1. child[t].pc = "streaming" /\ child[t].offset = There(j)
        BY DEF Moved
      <4>2. c = child[t].conn
        BY <1>4, <3>1, <4>1 DEF At
      <4> QED
        BY <2>1, <4>1, <4>2 DEF Offset
    <3>3. (\A n \in 1 .. Len(link[c].down) : link[c].down[n] = Data(file(j), From(j) + n))'
      BY <1>3, <3>1 DEF Follows
    <3>4. (From(j) + Len(link[c].down) = There(j))' <=> From(j) + Len(link[c].down) = There(j)
      BY <1>3, <3>1
    <3> QED
      BY <3>2, <3>3, <3>4 DEF Follows
  <2>3. Succeeded' => remote[file(j)].exists
    BY <2>1 DEF Moved, Offset
  <2> QED
    BY <2>1, <2>2, <2>3
<1>6. Listing(j)'
  <2> SUFFICES ASSUME job[j].goal = "list", job[j].pc \in {"answer", "accept", "judge", "recv"},
                      NEW c \in Links, Own(j, c)'
               PROVE  \A n \in 1 .. Len(link'[c].down) : link'[c].down[n] = Line(file(j), There(j))
    BY <1>2, <1>3 DEF Listing
  <2> QED
    BY <1>1, <1>2 DEF Cargo, Listing
<1>7. Putting(j)'
  <2> SUFFICES ASSUME job[j].goal \in {"stor", "appe"}, job[j].pc \in {"answer", "accept", "judge", "send"}
               PROVE  local[file(j)].exists /\ (Succeeded' => \A c \in Links : ~Own(j, c)')
    BY <1>1, <1>2, <1>3 DEF Putting
  <2>1. local[file(j)].exists
    BY <1>2 DEF Cargo, Putting
  <2>2. ASSUME Succeeded', NEW c \in Links, Own(j, c)' PROVE FALSE
    <3>1. Own(j, c) /\ link[c].client # "closed"
      BY <1>1, <2>2
    <3>2. child[t].pc = "streaming" /\ link[child[t].conn].client = "closed"
      BY <2>2 DEF Moved
    <3>3. c = child[t].conn
      BY <1>4, <3>1, <3>2 DEF At
    <3> QED
      BY <3>1, <3>2, <3>3
  <2> QED
    BY <2>1, <2>2
<1>8. Put(j)'
  <2> SUFFICES ASSUME job[j].goal \in {"stor", "appe"}, At(j, "last")
               PROVE  local[file(j)].exists /\ (Succeeded' => remote[file(j)].exists /\ There(j) = Have(j))
    BY <1>1, <1>2, <1>3 DEF Put, At
  <2>1. local[file(j)].exists /\ Completes(j, t)
    BY <1>2 DEF Cargo, Put
  <2>2. ASSUME Succeeded' PROVE There(j) = Have(j)
    <3>1. Len(link[child[t].conn].up) = 0
      BY <2>2 DEF Moved
    <3>2. There(j) \in Nat
      <4>1. remote[file(j)].data \in Seq(Units)
        BY <1>2, ChildFacts DEF TInv, Disks, Disk
      <4> QED
        BY <4>1 DEF There
    <3>3. There(j) + 0 = Have(j)
      BY <2>1, <3>1 DEF Completes
    <3> QED
      BY <3>2, <3>3
  <2> QED
    BY <2>1, <2>2 DEF Completes
<1>9. Cargo(j)'
  BY <1>2, <1>3, <1>5, <1>6, <1>7, <1>8 DEF Cargo, Got, At
<1> QED
  BY <1>1, <1>3, <1>9, Carried

LEMMA FinishesWork ==
  ASSUME NEW j \in Jobs, NEW t \in Transfers, Carrying(j, t), Finishes(t) PROVE Worked(j)'
<1>1. /\ child[t].pc = "streaming" /\ Exit(t) /\ UNCHANGED remote
      /\ \/ Runs(t, {"RETR", "LIST"}) /\ Sendable(t) = <<>> /\ ~TooFar(t)
         \/ Runs(t, {"STOR", "APPE"}) /\ link[child[t].conn].up = <<>> /\ link[child[t].conn].client = "closed"
  BY DEF Finishes
<1>2. /\ TInv /\ Live(t) /\ job[j].goal \in Requests
      /\ child[t].verb = Verb(job[j].goal) /\ child[t].file = file(j)
  BY Carries DEF Carrying, Serving
<1>3. ASSUME job[j].goal = "retr" PROVE child[t].offset = There(j)
  <2>1. Runs(t, {"RETR"}) /\ ~Runs(t, {"STOR", "APPE"})
    BY <1>2, <1>3 DEF Runs, Verb, Requests
  <2>2. child[t].offset \in Nat /\ remote[file(j)].data \in Seq(Units)
    BY <1>2, ChildFacts DEF Child, TInv, Disks, Disk
  <2>3. SubSeq(remote[file(j)].data, child[t].offset + 1, Len(remote[file(j)].data)) = <<>>
    BY <1>1, <1>2, <2>1 DEF Sendable, Content
  <2>4. child[t].offset >= There(j)
    BY <2>2, <2>3, RestFrom DEF There
  <2>5. ~(child[t].offset > There(j))
    BY <1>1, <1>2, <2>1 DEF TooFar, Content, There
  <2> DEFINE there == There(j)
             offset == child[t].offset
  <2>6. offset \in Nat /\ there \in Nat /\ offset >= there /\ ~(offset > there)
    BY <2>2, <2>4, <2>5 DEF There
  <2> HIDE DEF there, offset
  <2>7. offset = there
    BY <2>6
  <2> QED
    BY <2>7 DEF there, offset
<1>4. ASSUME job[j].goal \in {"stor", "appe"}
      PROVE  link[child[t].conn].up = <<>> /\ link[child[t].conn].client = "closed"
  <2>1. ~Runs(t, {"RETR", "LIST"})
    BY <1>2, <1>4 DEF Runs, Verb, Requests
  <2> QED
    BY <1>1, <2>1
<1> QED
  BY <1>1, <1>3, <1>4, LeavesWork DEF Moved

LEMMA QuitsWork ==
  ASSUME NEW j \in Jobs, NEW t \in Transfers, Carrying(j, t), Quits(t) PROVE Worked(j)'
<1>1. Exit(t) /\ UNCHANGED remote
  BY DEF Quits
<1>2. ~Succeeded'
  <2>1. CASE UNCHANGED replies
    BY <2>1, Carries DEF Succeeded
  <2>2. CASE \E code \in Codes \ {"150", "226"} : Says(t, code)
    <3>1. PICK code \in Codes \ {"150", "226"} : Says(t, code)
      BY <2>2
    <3>2. replies'[Len(replies')].code = code
      BY <3>1, SaysMore DEF Carrying
    <3> QED
      BY <3>1, <3>2 DEF Succeeded
  <2> QED
    BY <2>1, <2>2 DEF Quits
<1> QED
  BY <1>1, <1>2, LeavesWork

\* Whatever a transfer does, what the server has stays a part of the whole file.
LEMMA TransferParts ==
  ASSUME NEW j \in Jobs, NEW t \in Transfers, Carrying(j, t),
         Takes(t) \/ Dials(t) \/ Begins(t) \/ Sends(t) \/ Stores(t) \/ Finishes(t) \/ Quits(t)
  PROVE  Parts'
<1>1. Parts /\ UNCHANGED local
  BY DEF Carrying
<1>2. CASE Takes(t) \/ Dials(t) \/ Sends(t) \/ Finishes(t) \/ Quits(t)
  BY <1>1, <1>2 DEF Takes, Dials, Joins, Sends, Finishes, Quits, Parts
<1>3. CASE Begins(t)
  <2>1. /\ \A name \in Files \ {child[t].file} : remote'[name] = remote[name]
        /\ remote'[child[t].file].exists
        /\ remote'[child[t].file].data = IF Runs(t, {"STOR"}) THEN <<>> ELSE remote[child[t].file].data
    BY <1>3 DEF Begins, Content
  <2>2. child[t].file \in Files
    BY ChildFacts DEF Carrying, Serving
  <2>3. Part(child[t].file, remote'[child[t].file])
    BY <1>1, <2>1, <2>2 DEF Parts, Part
  <2> QED
    BY <1>1, <2>1, <2>3 DEF Parts
<1>4. CASE Stores(t)
  <2>1. Part(child[t].file, remote'[child[t].file])
    BY <1>4, StoresWork
  <2>2. \A name \in Files \ {child[t].file} : remote'[name] = remote[name]
    BY <1>4 DEF Stores
  <2> QED
    BY <1>1, <2>1, <2>2 DEF Parts
<1> QED
  BY <1>2, <1>3, <1>4

LEMMA TransferOrders ==
  ASSUME XInv, Clean, Ordered, ~astray, NEW t \in Transfers, TransferStep(t), ~torn' PROVE Ordered'
<1>1. TInv /\ OneRuns /\ OwnSockets /\ Turns
  BY DEF XInv
<1>2. /\ Takes(t) \/ Dials(t) \/ Begins(t) \/ Sends(t) \/ Stores(t) \/ Finishes(t) \/ Quits(t)
      /\ Live(t) /\ UNCHANGED <<local, job, write_type, loggedIn, last_sent_byte>>
  BY <1>1, TransferCarries DEF object, session
<1>3. PICK j \in Jobs : Running(j)
  BY <1>1, <1>2 DEF Turns, Settled, Free
<1>4. Carrying(j, t)
  BY <1>1, <1>2, <1>3, ServingStarts DEF Turns, Ordered, Carrying
<1>5. Worked(j)'
  BY <1>2, <1>4, TakesWork, DialsWork, BeginsWork, SendsWork, StoresWork, FinishesWork, QuitsWork
<1>6. Parts'
  BY <1>2, <1>4, TransferParts
<1> QED
  BY <1>1, <1>2, <1>3, <1>5, <1>6, OrderFollows

-----------------------------------------------------------------------------
(* The invariant of the data.                                              *)

LEMMA WholePart ==
  ASSUME NEW name \in Files, NEW size \in Nat
  PROVE  Part(name, IF size = 0 THEN NoFile ELSE File(Whole(name, size)))
<1>1. Part(name, NoFile)
  <2>1. Len(NoFile.data) = 0
    BY DEF NoFile
  <2> QED
    BY <2>1 DEF Part, NoFile
<1>2. Part(name, File(Whole(name, size)))
  <2>1. Whole(name, size) \in Seq(Units) /\ \A n \in 1 .. size : Whole(name, size)[n] = Data(name, n)
    <3>1. \A n \in 1 .. size : Data(name, n) \in Units
      BY DEF Data, Units
    <3> QED
      BY <3>1 DEF Whole
  <2>2. Len(Whole(name, size)) = size
    BY <2>1 DEF Whole
  <2> DEFINE whole == Whole(name, size)
  <2>3. \A n \in 1 .. Len(whole) : whole[n] = Data(name, n)
    BY <2>1, <2>2
  <2> HIDE DEF whole
  <2>4. File(whole).data = whole /\ File(whole).exists
    BY DEF File
  <2>5. Part(name, File(whole))
    BY <2>3, <2>4 DEF Part
  <2> QED
    BY <2>5 DEF whole
<1> QED
  BY <1>1, <1>2

LEMMA YInvStarts == Init => YInv
<1> SUFFICES ASSUME Init PROVE YInv
  OBVIOUS
<1>1. XInv
  BY XInvStarts
<1>2. \A j \in Jobs : ~Running(j)
  BY DEF Init, ClientInit, Waiting, Running
<1>3. Clean
  <2>1. \A c \in Links : TidyLink(link[c])
    BY DEF Init, ClientInit, NoLink, TidyLink
  <2>2. \A t \in Transfers : child[t].pc = "unborn"
    BY DEF Init, Unborn
  <2> QED
    BY <2>1, <2>2 DEF Clean, Init, Passive!Init
<1>4. Parts
  <2>1. ASSUME NEW name \in Files PROVE Part(name, local[name]) /\ Part(name, remote[name])
    <3>1. Local[name] \in Nat /\ Remote[name] \in Nat
      BY FtpSystemAssumption DEF FtpSystemAssumption
    <3>2. /\ local[name] = IF Local[name] = 0 THEN NoFile ELSE File(Whole(name, Local[name]))
          /\ remote[name] = IF Remote[name] = 0 THEN NoFile ELSE File(Whole(name, Remote[name]))
      BY DEF Init
    <3> QED
      BY <3>1, <3>2, WholePart
  <2> QED
    BY <2>1 DEF Parts
<1>5. OpenSock /\ Unloaded
  <2>1. data_sock \notin Links /\ armed = 0
    BY Constants DEF Init, ClientInit, Passive!Init, None
  <2> QED
    BY <2>1 DEF OpenSock, Unloaded
<1> QED
  BY <1>1, <1>2, <1>3, <1>4, <1>5 DEF YInv, Ordered

LEMMA StutterOrders == ASSUME Clean, UNCHANGED vars PROVE Clean' /\ (Ordered => Ordered')
<1>1. /\ UNCHANGED <<commands, replies, link, data_sock, port_sock, transfer_type, write_type, job, local, remote>>
      /\ UNCHANGED <<armed, served, child, loggedIn, last_sent_byte>>
  BY DEF vars, clientVars, wires, object, counters, serverVars, session
<1>2. Clean'
  BY <1>1 DEF Clean
<1>3. (Parts => Parts') /\ (OpenSock => OpenSock') /\ (Unloaded => Unloaded')
  BY <1>1 DEF Parts, OpenSock, Unloaded, Renewed, At
<1>4. ASSUME NEW j \in Jobs
      PROVE  (Running(j)' => Running(j)) /\ (Plan(j) => Plan(j)') /\ (Cargo(j) => Cargo(j)')
  <2>1. /\ file(j)' = file(j) /\ Have(j)' = Have(j) /\ There(j)' = There(j) /\ From(j)' = From(j)
        /\ Succeeded' = Succeeded /\ Running(j)' = Running(j)
        /\ \A t \in Transfers : Live(t)' = Live(t)
        /\ \A c \in Links : Own(j, c)' = Own(j, c)
    BY <1>1 DEF file, Have, There, From, At, Succeeded, Running, Live, Own, Queue
  <2>2. Addressed(j) => Addressed(j)'
    BY <1>1, <2>1 DEF Addressed, At, Awaits
  <2>3. Restarts(j) => Restarts(j)'
    BY <1>1, <2>1 DEF Restarts, RestSent, At
  <2>4. Sized(j) => Sized(j)'
    BY <1>1, <2>1 DEF Sized
  <2>5. Getting(j) => Getting(j)'
    BY <1>1, <2>1 DEF Getting, Follows, Offset, At
  <2>6. (Got(j) => Got(j)') /\ (Listing(j) => Listing(j)')
    BY <1>1, <2>1 DEF Got, Listing, At, Free
  <2>7. (Putting(j) => Putting(j)') /\ (Put(j) => Put(j)')
    BY <1>1, <2>1 DEF Putting, Put, Empties, Completes, At
  <2> QED
    BY <2>1, <2>2, <2>3, <2>4, <2>5, <2>6, <2>7 DEF Plan, Cargo
<1> QED
  BY <1>2, <1>3, <1>4 DEF Ordered

\* A command writes to no file.
LEMMA HandleTears == ASSUME HandleCommand PROVE UNCHANGED torn
<1>1. PICK n \in 1 .. Len(commands) :
        \/ NotLoggedIn(commands[n]) \/ Pasv(commands[n]) \/ Port(commands[n]) \/ Rest(commands[n])
        \/ FileTransfer(commands[n]) \/ FileTransferForkFails(commands[n])
  BY DEF HandleCommand
<1> QED
  BY <1>1 DEF NotLoggedIn, Pasv, Port, Rest, FileTransfer, FileTransferForkFails, serverVars

LEMMA TransferTears == ASSUME NEW t \in Transfers, TransferStep(t) PROVE torn => torn'
<1>1. UNCHANGED torn \/ \E n : torn' = (torn \/ n > 1)
  BY DEF TransferStep, StreamIn
<1> QED
  BY <1>1, Zenon

LEMMA YInvStays == ASSUME PoolSize = 1, YInv, [Next]_vars PROVE YInv'
<1>1. XInv /\ XInv' /\ TInv /\ OwnSockets /\ Clean /\ (~astray /\ ~torn => Ordered)
  BY XInvStays DEF YInv, XInv
<1>2. CASE \E j \in Jobs : ClientRuns(j)
  <2>1. PICK j \in Jobs : ClientRuns(j)
    BY <1>2
  <2>2. Clean'
    BY <1>1, <2>1, ClientClean
  <2>3. ~astray' /\ ~torn' => Ordered'
    BY <1>1, <2>1, AstrayStays, ClientOrders DEF ClientRuns, serverVars
  <2> QED
    BY <1>1, <2>2, <2>3 DEF YInv
<1>3. CASE HandleCommand
  <2>1. (astray => astray') /\ UNCHANGED torn
    BY <1>3, HandleAstray, HandleTears
  <2>2. Clean'
    BY <1>1, <1>3, HandleClean
  <2> QED
    BY <1>1, <1>3, <2>1, <2>2, HandleOrders DEF YInv
<1>4. CASE \E t \in Transfers : TransferStep(t)
  <2>1. PICK t \in Transfers : TransferStep(t)
    BY <1>4
  <2>2. UNCHANGED astray /\ (torn => torn')
    BY <1>1, <2>1, TransferDoes, TransferTears
  <2>3. Clean'
    BY <1>1, <2>1, TransferClean
  <2> QED
    BY <1>1, <2>1, <2>2, <2>3, TransferOrders DEF YInv
<1>5. CASE UNCHANGED vars
  <2>1. UNCHANGED <<astray, torn>>
    BY <1>5 DEF vars, clientVars, serverVars
  <2> QED
    BY <1>1, <1>5, <2>1, StutterOrders DEF YInv
<1> QED
  BY <1>2, <1>3, <1>4, <1>5 DEF Next

-----------------------------------------------------------------------------
(* What get, reget, put and reput deliver.                                 *)

\* Two files that are parts of the same whole and of one length are the same.
LEMMA SamePart ==
  ASSUME NEW name, NEW a \in Disk, NEW b \in Disk, Part(name, a), Part(name, b),
         a.exists, b.exists, Len(a.data) = Len(b.data)
  PROVE  a = b
<1>1. /\ a = [exists |-> a.exists, data |-> a.data] /\ b = [exists |-> b.exists, data |-> b.data]
      /\ a.data \in Seq(Units) /\ b.data \in Seq(Units)
  BY DEF Disk
<1>2. a.data = b.data
  <2> DEFINE s == a.data
             u == b.data
  <2>1. /\ s \in Seq(Units) /\ u \in Seq(Units) /\ Len(s) = Len(u)
        /\ \A n \in 1 .. Len(s) : s[n] = Data(name, n)
        /\ \A n \in 1 .. Len(u) : u[n] = Data(name, n)
    BY <1>1 DEF Part
  <2> HIDE DEF s, u
  <2>2. \A n \in 1 .. Len(s) : s[n] = u[n]
    BY <2>1
  <2>3. s = u
    BY <2>1, <2>2
  <2> QED
    BY <2>3 DEF s, u
<1>3. a.exists = b.exists
  BY Zenon DEF Disk
<1> QED
  BY <1>1, <1>2, <1>3

\* At the last reply of a method, a 226 is the end of its transfer.
LEMMA LastSucceeds ==
  ASSUME XInv, ~astray, NEW j \in Jobs, At(j, "last"), NEW r, read_response(j, r, Quiet),
         r.code # "None", "226" \in job[j].response \cup {r.code}
  PROVE  Succeeded
<1>1. Turn(j) /\ replies \in Seq(Answer)
  <2>1. Running(j)
    BY DEF At, Running
  <2> QED
    BY <2>1 DEF XInv, Turns, TInv, Wires
<1>2. replies # <<>> /\ r = Head(replies)
  BY DEF read_response, NoReply
<1>3. 1 \in 1 .. Len(replies) /\ r = replies[1]
  BY <1>1, <1>2
<1>4. job[j].response = {"150"}
  BY <1>1, <1>2 DEF Turn, Moves, At, Settled
<1>5. r.code = "226"
  BY <1>4
<1>6. Len(replies) = 1
  BY <1>1, <1>3, <1>5 DEF Turn, Orderly
<1> QED
  BY <1>2, <1>3, <1>5, <1>6 DEF Succeeded

Gets ==
  \A j \in Jobs :
    ReadLast(j, Quiet) /\ job'[j].outcome = "ok" /\ ~astray /\ ~torn => local'[file(j)] = remote[file(j)]

LEMMA LastGets == ASSUME YInv PROVE Gets
<1> SUFFICES ASSUME NEW j \in Jobs, ReadLast(j, Quiet), job'[j].outcome = "ok", ~astray, ~torn
             PROVE  local'[file(j)] = remote[file(j)]
  BY DEF Gets
<1>1. XInv /\ TInv /\ Ordered /\ At(j, "last") /\ job[j].goal = "retr" /\ Running(j) /\ job \in [Jobs -> Work]
  BY DEF YInv, XInv, ReadLast, At, Running, TInv, ClientKeeps, Works
<1>2. ASSUME NEW outcome, End(j, outcome) PROVE outcome = "ok"
  <2>1. job'[j] = [Waiting EXCEPT !.pc = "ended", !.outcome = outcome]
    BY <1>1, <1>2 DEF End
  <2> QED
    BY <2>1 DEF Waiting
<1>3. PICK r \in Arrived :
        /\ read_response(j, r, Quiet)
        /\ \/ r.code = "None" /\ Raise(j) /\ UNCHANGED <<local, write_type>>
           \/ /\ r.code # "None" /\ "226" \notin job[j].response \cup {r.code}
              /\ local' = [local EXCEPT ![file(j)] = NoFile]
              /\ End(j, "error") /\ UNCHANGED write_type
           \/ /\ "226" \in job[j].response \cup {r.code} /\ r.code # "None"
              /\ End(j, "ok") /\ write_type' = "wb" /\ UNCHANGED local
  BY DEF ReadLast
<1>4. r.code # "None" /\ "226" \in job[j].response \cup {r.code} /\ UNCHANGED local
  BY <1>2, <1>3 DEF Raise
<1>5. Succeeded
  BY <1>1, <1>3, <1>4, LastSucceeds
<1>6. /\ local[file(j)].exists /\ remote[file(j)].exists /\ Have(j) = There(j)
      /\ file(j) \in Files /\ Parts
  <2>1. Got(j) /\ Parts /\ file(j) \in Files
    BY <1>1 DEF Ordered, Cargo, TInv, ClientKeeps, Works
  <2> QED
    BY <1>1, <1>5, <2>1 DEF Got
<1>7. local[file(j)] \in Disk /\ remote[file(j)] \in Disk
  BY <1>1, <1>6 DEF TInv, Disks
<1>8. local[file(j)] = remote[file(j)]
  BY <1>6, <1>7, SamePart DEF Parts, Have, There
<1> QED
  BY <1>4, <1>8

Puts ==
  \A j \in Jobs :
    ReadLastStored(j, Quiet) /\ job'[j].outcome = "226" /\ ~astray /\ ~torn => remote[file(j)] = local[file(j)]

LEMMA LastPuts == ASSUME YInv PROVE Puts
<1> SUFFICES ASSUME NEW j \in Jobs, ReadLastStored(j, Quiet), job'[j].outcome = "226", ~astray, ~torn
             PROVE  remote[file(j)] = local[file(j)]
  BY DEF Puts
<1>1. /\ XInv /\ TInv /\ Ordered /\ At(j, "last") /\ job[j].goal \in {"stor", "appe"}
      /\ Running(j) /\ job \in [Jobs -> Work]
  BY DEF YInv, XInv, ReadLastStored, At, Running, TInv, ClientKeeps, Works
<1>2. ASSUME NEW outcome, End(j, outcome) PROVE outcome = "226"
  <2>1. job'[j] = [Waiting EXCEPT !.pc = "ended", !.outcome = outcome]
    BY <1>1, <1>2 DEF End
  <2> QED
    BY <2>1 DEF Waiting
<1>3. PICK r \in Arrived :
        /\ read_response(j, r, Quiet)
        /\ IF "None" \in job[j].response \cup {r.code} THEN Raise(j)
           ELSE End(j, IF "226" \in job[j].response \cup {r.code} THEN "226" ELSE "ok")
  BY DEF ReadLastStored
<1>4. r.code # "None" /\ "226" \in job[j].response \cup {r.code}
  BY <1>2, <1>3 DEF Raise
<1>5. Succeeded
  BY <1>1, <1>3, <1>4, LastSucceeds
<1>6. /\ local[file(j)].exists /\ remote[file(j)].exists /\ Have(j) = There(j)
      /\ file(j) \in Files /\ Parts
  <2>1. Put(j) /\ Parts /\ file(j) \in Files
    BY <1>1 DEF Ordered, Cargo, TInv, ClientKeeps, Works
  <2> QED
    BY <1>1, <1>5, <2>1 DEF Put
<1>7. local[file(j)] \in Disk /\ remote[file(j)] \in Disk
  BY <1>1, <1>6 DEF TInv, Disks
<1> QED
  BY <1>6, <1>7, SamePart DEF Parts, Have, There

LEMMA YInvHolds == PoolSize = 1 => (Spec => []YInv)
<1> SUFFICES ASSUME PoolSize = 1 PROVE Spec => []YInv
  OBVIOUS
<1>1. Init => YInv
  BY YInvStarts
<1>2. YInv /\ [Next]_vars => YInv'
  BY YInvStays
<1> QED
  BY <1>1, <1>2, PTL DEF Spec

\* GetDelivers: with one thread in the pool, a retrieve or reget of session.py that
\* reads a 226 for its last reply and so returns a reply has on the client's disk the
\* file that the server has, resumed or not, active or passive, whatever the replies
\* before were, as long as the client has not gone astray and no write() of the server
\* has stored less than it was given.
THEOREM GetsDeliver == PoolSize = 1 => (Spec => GetDelivers)
<1> SUFFICES ASSUME PoolSize = 1 PROVE Spec => GetDelivers
  OBVIOUS
<1>1. Spec => []YInv
  BY YInvHolds
<1>2. YInv => Gets
  BY LastGets
<1>3. [][Gets]_vars => GetDelivers
  BY PTL DEF GetDelivers, Gets
<1> QED
  BY <1>1, <1>2, <1>3, PTL

\* PutDelivers: with one thread in the pool, a store or reput of session.py that is told
\* 226 has left the server a file like the one on the client's disk, on the same two
\* conditions: STOR emptied it or APPE went on where LIST said it ended, and no unit was
\* lost with a socket closed early.  Without the second the 226 shows nothing, for
\* receive_file goes on after a write() that stored less than it was given.
THEOREM PutsDeliver == PoolSize = 1 => (Spec => PutDelivers)
<1> SUFFICES ASSUME PoolSize = 1 PROVE Spec => PutDelivers
  OBVIOUS
<1>1. Spec => []YInv
  BY YInvHolds
<1>2. YInv => Puts
  BY LastPuts
<1>3. [][Puts]_vars => PutDelivers
  BY PTL DEF PutDelivers, Puts
<1> QED
  BY <1>1, <1>2, <1>3, PTL
=============================================================================
