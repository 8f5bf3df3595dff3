------------------------------- MODULE Transfer -------------------------------
(***************************************************************************)
(* The transfer processes at work on one path of the server's disk:        *)
(* handle_retr, handle_stor and handle_appe (commands.c) with send_file,   *)
(* receive_file and get_file_size (utils.c), while other sessions DELE it. *)
(*                                                                         *)
(* Nothing in the server locks a file, so each system call that looks at   *)
(* the disk is a step of its own: the path is resolved four times by RETR, *)
(* and its content is read and written one buffer at a time.  A file is an *)
(* inode; the path leads to one, or to none, and an inode that DELE has    *)
(* unlinked lives on in the processes that opened it.                      *)
(***************************************************************************)
EXTENDS Integers, Sequences

CONSTANTS
  Transfers,     \* the transfer processes, from whatever sessions
  Ops,           \* the commands they may run: "RETR", "STOR", "APPE"
  BUFFER_SIZE,   \* units of data read or received at a time
  OldSize,       \* units in the file that is there at the start
  UploadSize,    \* units a client has to upload
  Offsets        \* restart points

ASSUME TransferAssumption ==
  /\ Ops \subseteq {"RETR", "STOR", "APPE"}
  /\ BUFFER_SIZE \in Nat \ {0}
  /\ OldSize \in Nat
  /\ UploadSize \in Nat
  /\ Offsets \subseteq Nat
  /\ {"old", "none", "hole"} \cap Transfers = {}

VARIABLES
  path,       \* the inode the path leads to, or NoFile
  file,       \* the content of each inode
  proc,       \* the transfer processes
  disturbed   \* history: what others did, since t opened it, to t's inode

vars == <<path, file, proc, disturbed>>

NoFile == "none"
Inodes == Transfers \cup {"old"}     \* named for the transfer that creates them

\* A unit of data carries whose it is and its place there.
Unit(owner, n) == [of |-> owner, at |-> n]
Hole == Unit("hole", 0)
Units == [of : Inodes \cup {"hole"}, at : Nat]
Old == [n \in 1 .. OldSize |-> Unit("old", n)]

Kinds == {"appended", "overwritten", "removed"}
Steps == {"start", "open", "check", "measure", "sending", "receiving", "exited"}
Replies == {"", "226", "426", "450", "451", "500", "550", "551"}

Init ==
  /\ path \in {"old", NoFile}
  /\ file = [i \in Inodes |-> IF i = "old" THEN Old ELSE <<>>]
  /\ proc \in [Transfers ->
        [pc : {"start"}, op : Ops, offset : Offsets, inode : {NoFile}, count : {0},
         pos : {0}, taken : {0}, moved : {<<>>}, reply : {""}]]
  /\ \A t \in Transfers : proc[t].op # "RETR" => proc[t].offset = 0   \* they ignore it
  /\ disturbed = [t \in Transfers |-> {}]

-----------------------------------------------------------------------------
At(t, pc) == proc[t].pc = pc
Runs(t, op) == proc[t].op = op
Content(t) == file[proc[t].inode]
Lesser(m, n) == IF m < n THEN m ELSE n

\* What get_file_size says of the path, which need not lead to t's inode.
FileSize == IF path = NoFile THEN -1 ELSE Len(file[path])

GoTo(t, pc) == proc' = [proc EXCEPT ![t].pc = pc]
End(t, reply) == proc' = [proc EXCEPT ![t].pc = "exited", ![t].reply = reply]

\* Process t does this to inode i: everyone else who has it open is disturbed.
Disturb(t, i, kind) ==
  disturbed' = [u \in Transfers |->
    IF u # t /\ proc[u].inode = i THEN disturbed[u] \cup {kind} ELSE disturbed[u]]

DiskAlone == UNCHANGED <<path, file, disturbed>>

\* No file name, or one that leads out of the root (is_path_safe).
RefuseName(t) ==
  /\ At(t, "start")
  /\ \E reply \in {"500", "550"} : End(t, reply)
  /\ DiskAlone

-----------------------------------------------------------------------------
(* RETR.                                                                   *)

StatFile(t) ==
  /\ At(t, "start") /\ Runs(t, "RETR")
  /\ IF path = NoFile THEN End(t, "550") ELSE GoTo(t, "open")
  /\ DiskAlone

\* open() and the 150 reply, or one of open()'s errors.
OpenToRead(t) ==
  /\ At(t, "open")
  /\ \/ /\ path # NoFile
        /\ proc' = [proc EXCEPT ![t].pc = "check", ![t].inode = path]
     \/ path = NoFile /\ End(t, "550")
     \/ path # NoFile /\ \E reply \in {"450", "550"} : End(t, reply)
  /\ DiskAlone

CheckOffset(t) ==
  /\ At(t, "check")
  /\ IF FileSize - proc[t].offset < 0 THEN End(t, "551") ELSE GoTo(t, "measure")
  /\ DiskAlone

\* Fault: the restart point is counted with, but not sought.
MeasureUnsought(t) ==
  /\ At(t, "measure")
  /\ proc' = [proc EXCEPT ![t].pc = "sending", ![t].count = FileSize - proc[t].offset]
  /\ DiskAlone

\* Fault: the two arguments, what to skip and what to send, are swapped.
MeasureSwapped(t) ==
  /\ At(t, "measure")
  /\ proc' = [proc EXCEPT ![t].pc = "sending", ![t].pos = FileSize - proc[t].offset,
                          ![t].count = proc[t].offset]
  /\ DiskAlone

\* lseek(), and the second get_file_size, for send_file's count.
Measure(t) ==
  /\ At(t, "measure")
  /\ proc' = [proc EXCEPT ![t].pc = "sending", ![t].pos = proc[t].offset,
                          ![t].count = FileSize - proc[t].offset]
  /\ DiskAlone

\* send_file's loop: it goes on while read() finds data and less than count
\* units have been sent, and ends otherwise.
EndOfFile(t) == proc[t].pos >= Len(Content(t))
MoreToSend(t) == At(t, "sending") /\ Len(proc[t].moved) < proc[t].count /\ ~EndOfFile(t)

\* Fault: no break at the end of the file.
AllCounted(t) == At(t, "sending") /\ Len(proc[t].moved) >= proc[t].count

AllSent(t) == At(t, "sending") /\ (Len(proc[t].moved) >= proc[t].count \/ EndOfFile(t))

\* A whole buffer is read and sent, even where that is more than count asks for.
SendChunk(t) ==
  /\ MoreToSend(t)
  /\ LET next == Lesser(proc[t].pos + BUFFER_SIZE, Len(Content(t))) IN
       proc' = [proc EXCEPT ![t].pos = next,
                            ![t].moved = @ \o SubSeq(Content(t), proc[t].pos + 1, next)]
  /\ DiskAlone

\* The client is gone: send() says so, or SIGPIPE ends the process.
SendFails(t) ==
  /\ MoreToSend(t)
  /\ \E reply \in {"426", "451", ""} : End(t, reply)
  /\ DiskAlone

SendDone(t) ==
  /\ AllSent(t)
  /\ End(t, "226")
  /\ DiskAlone

-----------------------------------------------------------------------------
(* STOR and APPE.                                                          *)

\* open() for writing leads to the path's inode, creating one if there is none.
Target(t) == IF path = NoFile THEN t ELSE path
Receiving(t) == proc' = [proc EXCEPT ![t].pc = "receiving", ![t].inode = Target(t)]

\* Fault: no O_TRUNC.
OpenToStoreOver(t) ==
  /\ At(t, "start") /\ Runs(t, "STOR")
  /\ Receiving(t) /\ path' = Target(t)
  /\ UNCHANGED <<file, disturbed>>

\* O_CREAT and O_TRUNC, then the 150 reply.
OpenToStore(t) ==
  /\ At(t, "start") /\ Runs(t, "STOR")
  /\ Receiving(t) /\ path' = Target(t)
  /\ file' = [file EXCEPT ![Target(t)] = <<>>]
  /\ Disturb(t, Target(t), "overwritten")

\* O_CREAT and O_APPEND, then the 150 reply.
OpenToAppend(t) ==
  /\ At(t, "start") /\ Runs(t, "APPE")
  /\ Receiving(t) /\ path' = Target(t)
  /\ UNCHANGED <<file, disturbed>>

OpenToWriteFails(t) ==
  /\ At(t, "start") /\ proc[t].op \in {"STOR", "APPE"}
  /\ \E reply \in {"450", "550"} : End(t, reply)
  /\ DiskAlone

\* What write() makes of a file: past its end it leaves a hole.
Written(content, pos, chunk) ==
  [n \in 1 .. (IF pos + Len(chunk) > Len(content) THEN pos + Len(chunk) ELSE Len(content)) |->
     IF n \in pos + 1 .. pos + Len(chunk) THEN chunk[n - pos]
     ELSE IF n <= Len(content) THEN content[n] ELSE Hole]

\* Fault: no O_APPEND, every writer keeps an offset of its own.
ReceiveChunkAtOffset(t) ==
  /\ At(t, "receiving")
  /\ \E received \in 1 .. Lesser(BUFFER_SIZE, UploadSize - proc[t].taken) :
       LET chunk == [n \in 1 .. received |-> Unit(t, proc[t].taken + n)] IN
         /\ file' = [file EXCEPT ![proc[t].inode] = Written(@, proc[t].pos, chunk)]
         /\ proc' = [proc EXCEPT ![t].pos = @ + received, ![t].taken = @ + received,
                                 ![t].moved = @ \o chunk]
         /\ Disturb(t, proc[t].inode, IF Runs(t, "APPE") THEN "appended" ELSE "overwritten")
  /\ UNCHANGED path

\* recv() returns what has arrived, and write() may store less than it is given
\* (a disk almost full): receive_file counts what was stored, and goes on.
ReceiveChunk(t) ==
  /\ At(t, "receiving")
  /\ \E received \in 1 .. Lesser(BUFFER_SIZE, UploadSize - proc[t].taken) :
     \E stored \in 1 .. received :
       LET chunk == [n \in 1 .. stored |-> Unit(t, proc[t].taken + n)]
           pos == IF Runs(t, "APPE") THEN Len(Content(t)) ELSE proc[t].pos
       IN /\ file' = [file EXCEPT ![proc[t].inode] = Written(@, pos, chunk)]
          /\ proc' = [proc EXCEPT ![t].pos = pos + stored, ![t].taken = @ + received,
                                  ![t].moved = @ \o chunk]
          /\ Disturb(t, proc[t].inode, IF Runs(t, "APPE") THEN "appended" ELSE "overwritten")
  /\ UNCHANGED path

\* write() or recv() fails; the error message goes to the data connection.
ReceiveFails(t) ==
  /\ At(t, "receiving")
  /\ End(t, "")
  /\ DiskAlone

\* The client has closed its side, having sent all of it or not.
ReceiveDone(t) ==
  /\ At(t, "receiving")
  /\ End(t, "226")
  /\ DiskAlone

-----------------------------------------------------------------------------
\* Another session's DELE, or an RMD above it, unlinks the path.
HandleDele ==
  /\ path # NoFile
  /\ path' = NoFile
  /\ disturbed' = [u \in Transfers |->
       IF proc[u].inode = path THEN disturbed[u] \cup {"removed"} ELSE disturbed[u]]
  /\ UNCHANGED <<file, proc>>

TransferStep(t) ==
  \/ RefuseName(t)
  \/ StatFile(t) \/ OpenToRead(t) \/ CheckOffset(t) \/ Measure(t)
  \/ SendChunk(t) \/ SendFails(t) \/ SendDone(t)
  \/ OpenToStore(t) \/ OpenToAppend(t) \/ OpenToWriteFails(t)
  \/ ReceiveChunk(t) \/ ReceiveFails(t) \/ ReceiveDone(t)

Next == (\E t \in Transfers : TransferStep(t)) \/ HandleDele

\* The kernel runs every process, and a client that is connected reads or
\* writes its data or goes away.
Fairness == \A t \in Transfers : WF_vars(TransferStep(t))

Spec == Init /\ [][Next]_vars
FairSpec == Spec /\ Fairness

-----------------------------------------------------------------------------
(* Properties.                                                             *)

ProcRecord ==
  [pc : Steps, op : Ops, offset : Offsets \cup {0}, inode : Inodes \cup {NoFile}, count : Int,
   pos : Nat, taken : 0 .. UploadSize, moved : Seq(Units), reply : Replies]

\* Every process and every inode has the types of the C variables.
TypeOK ==
  /\ path \in Inodes \cup {NoFile}
  /\ file \in [Inodes -> Seq(Units)]
  /\ proc \in [Transfers -> ProcRecord]
  /\ disturbed \in [Transfers -> SUBSET Kinds]

\* What RETR has sent is one contiguous piece of the file it opened, from the
\* restart point on, however others append to that file or unlink it meanwhile.
\* A 226 covers at least the size measured if the path still led there, and all
\* of the file if nobody touched it.
RetrDeliversFile ==
  \A t \in Transfers :
    Runs(t, "RETR") /\ proc[t].inode # NoFile /\ "overwritten" \notin disturbed[t] =>
      /\ \A n \in 1 .. Len(proc[t].moved) :
           /\ proc[t].offset + n <= Len(Content(t))
           /\ proc[t].moved[n] = Content(t)[proc[t].offset + n]
      /\ proc[t].reply = "226" /\ disturbed[t] \subseteq {"appended"} =>
           /\ Len(proc[t].moved) >= proc[t].count
           /\ disturbed[t] = {} => proc[t].offset + Len(proc[t].moved) = Len(Content(t))

\* Where t's units are in its file.
Places(t) == {n \in 1 .. Len(Content(t)) : Content(t)[n].of = t}

\* Appends lose nothing of each other: unless someone stores over the file, it
\* holds every unit APPE counted as stored and no other of its units, each once and
\* in the order received, and an old file still starts with what it held.
AppeKeepsAll ==
  /\ \A t \in Transfers :
       Runs(t, "APPE") /\ proc[t].inode # NoFile /\ "overwritten" \notin disturbed[t] =>
         /\ {Content(t)[n] : n \in Places(t)} = {proc[t].moved[n] : n \in 1 .. Len(proc[t].moved)}
         /\ \A m, n \in Places(t) : m < n => Content(t)[m].at < Content(t)[n].at
  /\ (\A t \in Transfers : Runs(t, "STOR") => proc[t].inode # "old") =>
       SubSeq(file["old"], 1, OldSize) = Old

\* A file nobody else touches is exactly what STOR has written, nothing of the
\* old content left behind, and the path leads to it.
StorReplacesFile ==
  \A t \in Transfers :
    Runs(t, "STOR") /\ proc[t].inode # NoFile /\ disturbed[t] = {} =>
      Content(t) = proc[t].moved /\ path = proc[t].inode

\* Every transfer ends, whatever others do to its file: send_file stops at the
\* end of a file that has shrunk below the size it measured.
TransferEnds == \A t \in Transfers : <>At(t, "exited")

\* What commands.c says where it answers 226 to a RETR, "Successfully sent the
\* file": as much was sent as the file was measured to hold, and all the rest of it
\* if others have at most unlinked it meanwhile.
CompleteMeansSent ==
  \A t \in Transfers :
    Runs(t, "RETR") /\ proc[t].reply = "226" =>
      /\ Len(proc[t].moved) >= proc[t].count
      /\ disturbed[t] \subseteq {"removed"} =>
           proc[t].offset + Len(proc[t].moved) = Len(Content(t))
=============================================================================
