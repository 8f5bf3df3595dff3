---------------------------- MODULE TransferProofs ----------------------------
(***************************************************************************)
(* What RETR has sent is of the file it opened, STOR and APPE lose nothing *)
(* of what they store, for any transfers, sizes, buffers and offsets.      *)
(***************************************************************************)
EXTENDS Transfer, TLAPS

\* What a transfer has by the point it is at.
Phase(t) ==
  /\ proc[t].pc \in {"start", "open"} =>
       /\ proc[t].inode = NoFile /\ proc[t].moved = <<>>
       /\ proc[t].pos = 0 /\ proc[t].taken = 0
  /\ At(t, "open") => Runs(t, "RETR")
  /\ proc[t].pc \in {"check", "measure", "sending"} => Runs(t, "RETR") /\ proc[t].inode \in Inodes
  /\ proc[t].pc \in {"check", "measure"} => proc[t].moved = <<>>
  /\ At(t, "receiving") => proc[t].op \in {"STOR", "APPE"} /\ proc[t].inode \in Inodes
  /\ ~At(t, "exited") => proc[t].reply = ""

\* The path leads to what a transfer has opened, until it is removed.
Linked(t) ==
  proc[t].inode # NoFile /\ "removed" \notin disturbed[t] => path = proc[t].inode

\* What was sent is what the file has from the restart point on.
SentIsThere(t) ==
  \A n \in 1 .. Len(proc[t].moved) :
    /\ proc[t].offset + n <= Len(Content(t))
    /\ proc[t].moved[n] = Content(t)[proc[t].offset + n]

\* A RETR knows its count: exactly what the file has left if nobody touched it,
\* and no more than that if others appended to it only.
Counted(t) == At(t, "sending") \/ proc[t].reply = "226"

Reads(t) ==
  Runs(t, "RETR") /\ proc[t].inode # NoFile /\ "overwritten" \notin disturbed[t] =>
    /\ SentIsThere(t)
    /\ At(t, "sending") => proc[t].pos = proc[t].offset + Len(proc[t].moved)
    /\ disturbed[t] \subseteq {"appended"} =>
         /\ Counted(t) => proc[t].offset + proc[t].count <= Len(Content(t))
         /\ proc[t].reply = "226" => Len(proc[t].moved) >= proc[t].count
    /\ disturbed[t] = {} =>
         /\ At(t, "measure") \/ Counted(t) => proc[t].offset <= Len(Content(t))
         /\ Counted(t) => proc[t].offset + proc[t].count = Len(Content(t))
         /\ proc[t].reply = "226" => proc[t].offset + Len(proc[t].moved) = Len(Content(t))

Stores(t) ==
  Runs(t, "STOR") /\ proc[t].inode # NoFile =>
    /\ At(t, "receiving") => proc[t].pos = Len(proc[t].moved)
    /\ disturbed[t] = {} => Content(t) = proc[t].moved

\* The units t's file has of t, and those t has stored there.
Held(t) == {Content(t)[n] : n \in Places(t)}
Moved(t) == {proc[t].moved[n] : n \in 1 .. Len(proc[t].moved)}

Appends(t) ==
  Runs(t, "APPE") /\ proc[t].inode # NoFile /\ "overwritten" \notin disturbed[t] =>
    /\ Held(t) = Moved(t)
    /\ \A m, n \in Places(t) : m < n => Content(t)[m].at < Content(t)[n].at

\* A transfer's units are in its own file, and come before those it has yet to take.
Owns(t) ==
  \A i \in Inodes : \A n \in 1 .. Len(file[i]) :
    file[i][n].of = t => i = proc[t].inode /\ file[i][n].at <= proc[t].taken

OldKept ==
  (\A t \in Transfers : Runs(t, "STOR") => proc[t].inode # "old") =>
    Len(file["old"]) >= OldSize /\ \A n \in 1 .. OldSize : file["old"][n] = Old[n]

Alike(t) == Phase(t) /\ Linked(t) /\ Reads(t) /\ Stores(t) /\ Appends(t) /\ Owns(t)

IInv == TypeOK /\ (\A t \in Transfers : Alike(t)) /\ OldKept

-----------------------------------------------------------------------------
(* Files.                                                                  *)

LEMMA Constants ==
  /\ BUFFER_SIZE \in Nat /\ BUFFER_SIZE > 0 /\ OldSize \in Nat /\ UploadSize \in Nat
  /\ Offsets \subseteq Nat
  /\ NoFile \notin Inodes /\ "old" \in Inodes /\ Transfers \subseteq Inodes
  /\ "old" \notin Transfers /\ "hole" \notin Transfers
BY TransferAssumption DEF TransferAssumption, NoFile, Inodes

LEMMA OldTyped == /\ Old \in Seq(Units) /\ Len(Old) = OldSize
                  /\ \A n \in 1 .. OldSize : Old[n].of = "old"
<1>1. \A n \in 1 .. OldSize : Unit("old", n) \in Units /\ Unit("old", n).of = "old"
  BY Constants DEF Unit, Units
<1> QED
  BY <1>1, Constants DEF Old

\* What write() makes of a file, unit by unit.
LEMMA WrittenFacts ==
  ASSUME NEW content \in Seq(Units), NEW pos \in Nat, NEW chunk \in Seq(Units)
  PROVE  /\ Written(content, pos, chunk) \in Seq(Units)
         /\ Len(Written(content, pos, chunk)) =
              IF pos + Len(chunk) > Len(content) THEN pos + Len(chunk) ELSE Len(content)
         /\ \A n \in 1 .. Len(Written(content, pos, chunk)) :
              /\ n \in pos + 1 .. pos + Len(chunk) =>
                   Written(content, pos, chunk)[n] = chunk[n - pos]
              /\ n \notin pos + 1 .. pos + Len(chunk) /\ n <= Len(content) =>
                   Written(content, pos, chunk)[n] = content[n]
              /\ n \notin pos + 1 .. pos + Len(chunk) /\ n > Len(content) =>
                   Written(content, pos, chunk)[n] = Hole
<1> DEFINE size == IF pos + Len(chunk) > Len(content) THEN pos + Len(chunk) ELSE Len(content)
           at(n) == IF n \in pos + 1 .. pos + Len(chunk) THEN chunk[n - pos]
                    ELSE IF n <= Len(content) THEN content[n] ELSE Hole
<1>1. size \in Nat /\ Hole \in Units
  BY DEF Hole, Unit, Units
<1>2. \A n \in 1 .. size : at(n) \in Units
  BY <1>1
<1>3. Written(content, pos, chunk) = [n \in 1 .. size |-> at(n)]
  BY DEF Written
<1> HIDE DEF size, at
<1>4. Written(content, pos, chunk) \in Seq(Units) /\ Len(Written(content, pos, chunk)) = size
  BY <1>1, <1>2, <1>3
<1>5. \A n \in 1 .. size : Written(content, pos, chunk)[n] = at(n)
  BY <1>3
<1> QED
  BY <1>4, <1>5 DEF size, at

\* At its end, write() leaves what the file has and adds the chunk.
LEMMA WrittenAtEnd ==
  ASSUME NEW content \in Seq(Units), NEW chunk \in Seq(Units)
  PROVE  /\ Len(Written(content, Len(content), chunk)) = Len(content) + Len(chunk)
         /\ \A n \in 1 .. Len(content) : Written(content, Len(content), chunk)[n] = content[n]
         /\ \A n \in 1 .. Len(chunk) : Written(content, Len(content), chunk)[Len(content) + n] = chunk[n]
         /\ Written(content, Len(content), chunk) = content \o chunk
<1> DEFINE written == Written(content, Len(content), chunk)
<1>1. Len(content) \in Nat /\ Len(chunk) \in Nat
  OBVIOUS
<1>2. written \in Seq(Units) /\ Len(written) = Len(content) + Len(chunk)
  BY <1>1, WrittenFacts
<1>3. \A n \in 1 .. Len(content) : written[n] = content[n]
  BY <1>1, <1>2, WrittenFacts
<1>4. ASSUME NEW n \in 1 .. Len(chunk) PROVE written[Len(content) + n] = chunk[n]
  <2>1. /\ Len(content) + n \in Len(content) + 1 .. Len(content) + Len(chunk)
        /\ Len(content) + n \in 1 .. Len(written) /\ Len(content) + n - Len(content) = n
    BY <1>1, <1>2
  <2> QED
    BY <1>1, <2>1, WrittenFacts
<1> HIDE DEF written
<1>5. written = content \o chunk
  BY <1>1, <1>2, <1>3, <1>4
<1> QED
  BY <1>2, <1>3, <1>4, <1>5 DEF written

-----------------------------------------------------------------------------
(* The steps that leave the disk alone.                                    *)

LEMMA InitInv == Init => IInv
<1> SUFFICES ASSUME Init PROVE IInv
  OBVIOUS
<1>1. path \in {"old", NoFile} /\ file = [i \in Inodes |-> IF i = "old" THEN Old ELSE <<>>]
      /\ disturbed = [t \in Transfers |-> {}]
  BY Zenon DEF Init
<1>2. proc \in [Transfers ->
        [pc : {"start"}, op : Ops, offset : Offsets, inode : {NoFile}, count : {0},
         pos : {0}, taken : {0}, moved : {<<>>}, reply : {""}]]
  BY Zenon DEF Init
<1>3. ASSUME NEW t \in Transfers
      PROVE  /\ proc[t].pc = "start" /\ proc[t].inode = NoFile /\ proc[t].moved = <<>>
             /\ proc[t].pos = 0 /\ proc[t].taken = 0 /\ proc[t].reply = ""
  BY <1>2
<1>4. ASSUME NEW t \in Transfers PROVE proc[t] \in ProcRecord
  <2> DEFINE fresh ==
               [pc : {"start"}, op : Ops, offset : Offsets, inode : {NoFile}, count : {0},
                pos : {0}, taken : {0}, moved : {<<>>}, reply : {""}]
  <2>1. {"start"} \subseteq Steps /\ {""} \subseteq Replies
    BY DEF Steps, Replies
  <2>2. {0} \subseteq Int /\ {0} \subseteq Nat /\ {0} \subseteq 0 .. UploadSize
    BY Constants
  <2>3. {<<>>} \subseteq Seq(Units)
    OBVIOUS
  <2>4. Offsets \subseteq Offsets \cup {0} /\ {NoFile} \subseteq Inodes \cup {NoFile}
    OBVIOUS
  <2>5. proc[t] \in fresh
    BY <1>2
  <2>6. fresh \subseteq ProcRecord
    BY <2>1, <2>2, <2>3, <2>4, Zenon DEF ProcRecord
  <2> QED
    BY <2>5, <2>6
<1>5. TypeOK
  <2>1. proc \in [Transfers -> ProcRecord]
    <3>1. proc = [t \in Transfers |-> proc[t]]
      BY <1>2
    <3> QED
      BY <3>1, <1>4
  <2>2. file \in [Inodes -> Seq(Units)]
    <3>1. <<>> \in Seq(Units)
      OBVIOUS
    <3> QED
      BY <1>1, <3>1, OldTyped
  <2>3. disturbed \in [Transfers -> SUBSET Kinds]
    BY <1>1
  <2> QED
    BY <1>1, <2>1, <2>2, <2>3, Constants DEF TypeOK
<1>6. ASSUME NEW t \in Transfers PROVE Phase(t) /\ Linked(t) /\ Reads(t) /\ Stores(t) /\ Appends(t)
  BY <1>3 DEF Phase, At, Linked, Reads, Stores, Appends
<1>7. ASSUME NEW t \in Transfers PROVE Owns(t)
  <2>1. ASSUME NEW i \in Inodes, NEW n \in 1 .. Len(file[i]) PROVE file[i][n].of # t
    <3>1. CASE i = "old"
      BY <1>1, <3>1, OldTyped, Constants
    <3>2. CASE i # "old"
      <4>1. Len(file[i]) = 0
        BY <1>1, <3>2
      <4> QED
        BY <4>1
    <3> QED
      BY <3>1, <3>2
  <2> QED
    BY <2>1 DEF Owns
<1>8. OldKept
  <2>1. file["old"] = Old
    BY <1>1, Constants
  <2> QED
    BY <2>1, OldTyped, Constants DEF OldKept
<1> QED
  BY <1>5, <1>6, <1>7, <1>8 DEF IInv, Alike

\* A transfer to which nothing happened but disturbance keeps what holds of it.
LEMMA SameFile ==
  ASSUME NEW u \in Transfers, Phase(u), Reads(u), Stores(u), Appends(u),
         proc'[u] = proc[u], proc[u].inode # NoFile => file'[proc[u].inode] = file[proc[u].inode],
         disturbed[u] \subseteq disturbed'[u]
  PROVE  Phase(u)' /\ Reads(u)' /\ Stores(u)' /\ Appends(u)'
<1>1. Phase(u)'
  BY DEF Phase, At, Runs
<1>2. CASE proc[u].inode = NoFile
  BY <1>1, <1>2 DEF Reads, Stores, Appends
<1>3. CASE proc[u].inode # NoFile
  <2>1. Content(u)' = Content(u) /\ Places(u)' = Places(u) /\ Held(u)' = Held(u) /\ Moved(u)' = Moved(u)
    BY <1>3 DEF Content, Places, Held, Moved
  <2>2. disturbed'[u] = {} => disturbed[u] = {}
    OBVIOUS
  <2>3. disturbed'[u] \subseteq {"appended"} => disturbed[u] \subseteq {"appended"}
    OBVIOUS
  <2>4. "overwritten" \notin disturbed'[u] => "overwritten" \notin disturbed[u]
    OBVIOUS
  <2>5. SentIsThere(u) => SentIsThere(u)'
    BY <2>1 DEF SentIsThere
  <2>6. Reads(u)'
    BY <2>1, <2>2, <2>3, <2>4, <2>5 DEF Reads, Runs, At, Counted
  <2>7. Stores(u)' /\ Appends(u)'
    BY <2>1, <2>2, <2>4 DEF Stores, Appends, Runs, At
  <2> QED
    BY <1>1, <2>6, <2>7
<1> QED
  BY <1>2, <1>3

\* One transfer moves on by itself: nothing changes for the others.
LEMMA AloneInv ==
  ASSUME IInv, NEW t \in Transfers, NEW record \in ProcRecord,
         proc' = [proc EXCEPT ![t] = record], DiskAlone,
         record.op = proc[t].op, record.taken = proc[t].taken,
         record.inode = proc[t].inode \/ (proc[t].inode = NoFile /\ record.op # "STOR"),
         Phase(t)', Linked(t)', Reads(t)', Stores(t)', Appends(t)'
  PROVE  IInv'
<1>1. proc'[t] = record /\ \A u \in Transfers : u # t => proc'[u] = proc[u]
  BY DEF IInv, TypeOK
<1>2. TypeOK'
  BY DEF IInv, TypeOK, DiskAlone
<1>3. ASSUME NEW u \in Transfers, u # t PROVE Alike(u)'
  <2>1. Phase(u)' /\ Reads(u)' /\ Stores(u)' /\ Appends(u)'
    BY <1>1, <1>3, SameFile DEF IInv, Alike, DiskAlone
  <2>2. Linked(u)' /\ Owns(u)'
    BY <1>1, <1>3 DEF IInv, Alike, Linked, Owns, DiskAlone
  <2> QED
    BY <2>1, <2>2 DEF Alike
<1>4. Owns(t)'
  <2>1. ASSUME NEW i \in Inodes, NEW n \in 1 .. Len(file[i]), file[i][n].of = t
        PROVE  i = proc'[t].inode /\ file[i][n].at <= proc'[t].taken
    <3>1. i = proc[t].inode /\ file[i][n].at <= proc[t].taken
      BY <2>1 DEF IInv, Alike, Owns
    <3>2. i # NoFile
      BY Constants
    <3> QED
      BY <1>1, <3>1, <3>2
  <2> QED
    BY <2>1 DEF Owns, DiskAlone
<1>5. OldKept'
  <2>1. file' = file
    BY DEF DiskAlone
  <2>2. ASSUME \A u \in Transfers : Runs(u, "STOR")' => proc'[u].inode # "old",
               NEW u \in Transfers, Runs(u, "STOR")
        PROVE  proc[u].inode # "old"
    BY <1>1, <2>2 DEF Runs
  <2> QED
    BY <2>1, <2>2 DEF IInv, OldKept
<1> QED
  BY <1>2, <1>3, <1>4, <1>5 DEF IInv, Alike

\* A transfer is at a step, and what it has there is typed.
LEMMA Typed ==
  ASSUME IInv, NEW t \in Transfers
  PROVE  /\ proc[t] \in ProcRecord /\ proc[t].offset \in Nat /\ proc[t].pos \in Nat
         /\ proc[t].taken \in Nat /\ proc[t].count \in Int /\ proc[t].moved \in Seq(Units)
         /\ Len(proc[t].moved) \in Nat
         /\ proc[t].inode # NoFile => /\ proc[t].inode \in Inodes /\ Content(t) \in Seq(Units)
                                      /\ Len(Content(t)) \in Nat
         /\ FileSize \in Int
<1>1. proc[t] \in ProcRecord
  BY DEF IInv, TypeOK
<1>2. /\ proc[t].offset \in Nat /\ proc[t].pos \in Nat
      /\ proc[t].taken \in Nat /\ proc[t].count \in Int /\ proc[t].moved \in Seq(Units)
      /\ proc[t].inode \in Inodes \cup {NoFile}
  <2>1. /\ proc[t].offset \in Offsets \cup {0} /\ proc[t].pos \in Nat
        /\ proc[t].taken \in 0 .. UploadSize /\ proc[t].count \in Int
        /\ proc[t].moved \in Seq(Units) /\ proc[t].inode \in Inodes \cup {NoFile}
    BY <1>1 DEF ProcRecord
  <2>2. 0 .. UploadSize \subseteq Nat /\ Offsets \cup {0} \subseteq Nat
    BY Constants
  <2> QED
    BY <2>1, <2>2
<1>3. proc[t].inode # NoFile => Content(t) \in Seq(Units)
  BY <1>2 DEF IInv, TypeOK, Content
<1>4. FileSize \in Int
  <2>1. path # NoFile => file[path] \in Seq(Units)
    BY DEF IInv, TypeOK
  <2> QED
    BY <2>1 DEF FileSize
<1> QED
  BY <1>1, <1>2, <1>3, <1>4

\* A transfer that ends keeps what it had: only its reply may claim more.
LEMMA EndInv ==
  ASSUME IInv, NEW t \in Transfers, NEW reply \in Replies, End(t, reply), DiskAlone,
         Reads(t)'
  PROVE  IInv'
<1> DEFINE record == [proc[t] EXCEPT !.pc = "exited", !.reply = reply]
<1>1. record \in ProcRecord
  BY Typed DEF ProcRecord, Steps
<1>2. proc' = [proc EXCEPT ![t] = record]
  BY DEF End
<1>3. proc'[t] = record
  BY <1>2 DEF IInv, TypeOK
<1>4. /\ record.pc = "exited" /\ record.op = proc[t].op /\ record.inode = proc[t].inode
      /\ record.taken = proc[t].taken /\ record.moved = proc[t].moved
  BY Typed DEF ProcRecord
<1> HIDE DEF record
<1>5. Phase(t)' /\ Linked(t)'
  BY <1>3, <1>4 DEF IInv, Alike, Phase, Linked, At, DiskAlone
<1>6. Content(t)' = Content(t) /\ Places(t)' = Places(t) /\ Held(t)' = Held(t) /\ Moved(t)' = Moved(t)
  BY <1>3, <1>4 DEF Content, Places, Held, Moved, DiskAlone
<1>7. Stores(t)' /\ Appends(t)'
  <2>1. disturbed' = disturbed /\ ~At(t, "receiving")' /\ proc'[t].op = proc[t].op
    BY <1>3, <1>4 DEF At, DiskAlone
  <2>2. Stores(t)'
    BY <1>3, <1>4, <1>6, <2>1 DEF IInv, Alike, Stores, Runs
  <2>3. Appends(t)'
    BY <1>3, <1>4, <1>6, <2>1 DEF IInv, Alike, Appends, Runs
  <2> QED
    BY <2>2, <2>3
<1> QED
  BY <1>1, <1>2, <1>4, <1>5, <1>7, AloneInv

\* One that fails, or is not a RETR, claims nothing.
LEMMA FailInv ==
  ASSUME IInv, NEW t \in Transfers, NEW reply \in Replies, End(t, reply), DiskAlone,
         reply # "226" \/ ~Runs(t, "RETR")
  PROVE  IInv'
<1>1. /\ proc'[t].pc = "exited" /\ proc'[t].reply = reply /\ proc'[t].op = proc[t].op
      /\ proc'[t].inode = proc[t].inode /\ proc'[t].moved = proc[t].moved
      /\ proc'[t].offset = proc[t].offset
  BY Typed DEF IInv, TypeOK, End, ProcRecord
<1>2. SentIsThere(t)' <=> SentIsThere(t)
  BY <1>1 DEF SentIsThere, Content, DiskAlone
<1>3. Reads(t)'
  BY <1>1, <1>2 DEF IInv, Alike, Reads, Counted, At, Runs, DiskAlone
<1> QED
  BY <1>3, EndInv

LEMMA RefusesInv ==
  ASSUME IInv, NEW t \in Transfers,
         RefuseName(t) \/ SendFails(t) \/ OpenToWriteFails(t) \/ ReceiveFails(t) \/ ReceiveDone(t)
  PROVE  IInv'
<1>1. CASE RefuseName(t)
  BY <1>1, FailInv DEF RefuseName, Replies
<1>2. CASE SendFails(t)
  BY <1>2, FailInv DEF SendFails, Replies
<1>3. CASE OpenToWriteFails(t)
  BY <1>3, FailInv DEF OpenToWriteFails, Replies
<1>4. CASE ReceiveFails(t)
  BY <1>4, FailInv DEF ReceiveFails, Replies
<1>5. CASE ReceiveDone(t)
  <2>1. ~Runs(t, "RETR")
    BY <1>5 DEF ReceiveDone, IInv, Alike, Phase, Runs
  <2> QED
    BY <1>5, <2>1, FailInv DEF ReceiveDone, Replies
<1> QED
  BY <1>1, <1>2, <1>3, <1>4, <1>5

\* Going on to a next step before anything is sent.
LEMMA GoToInv ==
  ASSUME IInv, NEW t \in Transfers, NEW pc \in {"open", "measure"}, GoTo(t, pc), DiskAlone,
         Runs(t, "RETR"),
         pc = "open" => At(t, "start"),
         pc = "measure" => At(t, "check"),
         pc = "measure" /\ disturbed[t] = {} => proc[t].offset <= Len(Content(t))
  PROVE  IInv'
<1> DEFINE record == [proc[t] EXCEPT !.pc = pc]
<1>1. record \in ProcRecord
  BY Typed DEF ProcRecord, Steps
<1>2. proc' = [proc EXCEPT ![t] = record]
  BY DEF GoTo
<1>3. proc'[t] = record
  BY <1>2 DEF IInv, TypeOK
<1>4. /\ record.pc = pc /\ record.op = proc[t].op /\ record.inode = proc[t].inode
      /\ record.taken = proc[t].taken /\ record.moved = proc[t].moved
      /\ record.pos = proc[t].pos /\ record.offset = proc[t].offset
      /\ record.reply = proc[t].reply /\ record.count = proc[t].count
  BY Typed DEF ProcRecord
<1> HIDE DEF record
<1>5. Phase(t)' /\ Linked(t)'
  BY <1>3, <1>4 DEF IInv, Alike, Phase, Linked, At, Runs, DiskAlone
<1>6. /\ Content(t)' = Content(t) /\ Places(t)' = Places(t) /\ Held(t)' = Held(t)
      /\ Moved(t)' = Moved(t) /\ (SentIsThere(t)' <=> SentIsThere(t))
  BY <1>3, <1>4 DEF Content, Places, Held, Moved, SentIsThere, DiskAlone
<1>7. Stores(t)' /\ Appends(t)'
  BY <1>3, <1>4, <1>6 DEF IInv, Alike, Stores, Appends, At, Runs, DiskAlone
<1>8. proc[t].reply # "226"
  BY DEF IInv, Alike, Phase, At
<1>9. Reads(t)'
  BY <1>3, <1>4, <1>6, <1>8 DEF IInv, Alike, Reads, Counted, At, Runs, DiskAlone
<1> QED
  BY <1>1, <1>2, <1>4, <1>5, <1>7, <1>9, AloneInv

LEMMA StatFileInv ==
  ASSUME IInv, NEW t \in Transfers, StatFile(t)
  PROVE  IInv'
<1>1. CASE path = NoFile
  BY <1>1, FailInv DEF StatFile, Replies
<1>2. CASE path # NoFile
  BY <1>2, GoToInv DEF StatFile
<1> QED
  BY <1>1, <1>2

LEMMA CheckOffsetInv ==
  ASSUME IInv, NEW t \in Transfers, CheckOffset(t)
  PROVE  IInv'
<1>1. CASE FileSize - proc[t].offset < 0
  BY <1>1, FailInv DEF CheckOffset, Replies
<1>2. CASE ~(FileSize - proc[t].offset < 0)
  <2>1. Runs(t, "RETR") /\ proc[t].inode \in Inodes
    BY DEF CheckOffset, IInv, Alike, Phase, At
  <2>2. ASSUME disturbed[t] = {} PROVE proc[t].offset <= Len(Content(t))
    <3>1. path = proc[t].inode /\ path # NoFile
      BY <2>1, <2>2, Constants DEF IInv, Alike, Linked
    <3>2. FileSize = Len(Content(t))
      BY <3>1 DEF FileSize, Content
    <3> QED
      BY <1>2, <3>2, <2>1, Constants, Typed
  <2>3. GoTo(t, "measure") /\ At(t, "check") /\ DiskAlone
    BY <1>2 DEF CheckOffset
  <2> QED
    BY <2>1, <2>2, <2>3, GoToInv
<1> QED
  BY <1>1, <1>2

LEMMA NothingSent ==
  ASSUME NEW t \in Transfers, proc'[t].moved = <<>>
  PROVE  SentIsThere(t)' /\ Len(proc'[t].moved) = 0
<1>1. Len(proc'[t].moved) = 0
  OBVIOUS
<1> QED
  BY <1>1 DEF SentIsThere

LEMMA OpenToReadInv ==
  ASSUME IInv, NEW t \in Transfers, OpenToRead(t)
  PROVE  IInv'
<1>1. CASE path = NoFile /\ End(t, "550")
  BY <1>1, FailInv DEF OpenToRead, Replies
<1>2. CASE path # NoFile /\ \E reply \in {"450", "550"} : End(t, reply)
  BY <1>2, FailInv DEF OpenToRead, Replies
<1>3. CASE path # NoFile /\ proc' = [proc EXCEPT ![t].pc = "check", ![t].inode = path]
  <2> DEFINE record == [proc[t] EXCEPT !.pc = "check", !.inode = path]
  <2>1. path \in Inodes /\ Runs(t, "RETR") /\ proc[t].inode = NoFile /\ proc[t].moved = <<>>
        /\ proc[t].reply = ""
    BY <1>3 DEF OpenToRead, IInv, TypeOK, Alike, Phase, At
  <2>2. record \in ProcRecord
    BY <2>1, Typed DEF ProcRecord, Steps
  <2>3. proc' = [proc EXCEPT ![t] = record]
    BY <1>3
  <2>4. proc'[t] = record
    BY <2>3 DEF IInv, TypeOK
  <2>5. /\ record.pc = "check" /\ record.op = proc[t].op /\ record.inode = path
        /\ record.taken = proc[t].taken /\ record.moved = proc[t].moved
        /\ record.reply = proc[t].reply
    BY Typed DEF ProcRecord
  <2> HIDE DEF record
  <2>6. DiskAlone
    BY DEF OpenToRead
  <2>7. Phase(t)' /\ Linked(t)'
    BY <2>1, <2>4, <2>5, <2>6 DEF Phase, Linked, At, Runs, DiskAlone
  <2>8. SentIsThere(t)'
    BY <2>1, <2>4, <2>5, NothingSent
  <2>9. Reads(t)' /\ Stores(t)' /\ Appends(t)'
    BY <2>1, <2>4, <2>5, <2>8 DEF Reads, Stores, Appends, Counted, At, Runs
  <2> QED
    BY <2>1, <2>2, <2>3, <2>5, <2>6, <2>7, <2>9, AloneInv DEF Runs
<1> QED
  BY <1>1, <1>2, <1>3 DEF OpenToRead

\* If the path still leads to t's file, what was measured is that file's size.
LEMMA MeasuresOwnFile ==
  ASSUME IInv, NEW t \in Transfers, proc[t].inode \in Inodes, "removed" \notin disturbed[t]
  PROVE  FileSize = Len(Content(t))
<1>1. path = proc[t].inode /\ path # NoFile
  BY Constants DEF IInv, Alike, Linked
<1> QED
  BY <1>1 DEF FileSize, Content

LEMMA MeasureInv ==
  ASSUME IInv, NEW t \in Transfers, Measure(t)
  PROVE  IInv'
<1> DEFINE left == FileSize - proc[t].offset
           record == [proc[t] EXCEPT !.pc = "sending", !.pos = proc[t].offset, !.count = left]
<1>1. At(t, "measure") /\ DiskAlone /\ proc' = [proc EXCEPT ![t] = record]
  BY DEF Measure
<1>2. Runs(t, "RETR") /\ proc[t].inode \in Inodes /\ proc[t].moved = <<>> /\ proc[t].reply = ""
  BY <1>1 DEF IInv, Alike, Phase, At
<1>3. left \in Int /\ proc[t].offset \in Nat
  BY Typed
<1>4. record \in ProcRecord
  <2> HIDE DEF left
  <2> QED
    BY <1>3, Typed DEF ProcRecord, Steps
<1>5. proc'[t] = record
  BY <1>1 DEF IInv, TypeOK
<1>6. /\ record.pc = "sending" /\ record.op = proc[t].op /\ record.inode = proc[t].inode
      /\ record.taken = proc[t].taken /\ record.moved = proc[t].moved
      /\ record.offset = proc[t].offset /\ record.pos = proc[t].offset
      /\ record.count = left /\ record.reply = proc[t].reply
  <2> HIDE DEF left
  <2> QED
    BY Typed DEF ProcRecord
<1> HIDE DEF record, left
<1>7. Phase(t)' /\ Linked(t)'
  BY <1>1, <1>2, <1>5, <1>6 DEF IInv, Alike, Phase, Linked, At, Runs, DiskAlone
<1>8. SentIsThere(t)' /\ Len(proc'[t].moved) = 0
  BY <1>2, <1>5, <1>6, NothingSent
<1>9. Content(t)' = Content(t) /\ disturbed' = disturbed /\ Len(Content(t)) \in Nat
  BY <1>1, <1>2, <1>5, <1>6, Constants, Typed DEF Content, DiskAlone
<1>10. ASSUME "overwritten" \notin disturbed[t] PROVE Reads(t)'
  <2>1. proc'[t].pos = proc'[t].offset + Len(proc'[t].moved)
    BY <1>3, <1>5, <1>6, <1>8
  <2>2. ASSUME disturbed[t] \subseteq {"appended"}
        PROVE  proc'[t].offset + proc'[t].count = Len(Content(t))
    <3>1. FileSize = Len(Content(t))
      BY <1>2, <2>2, MeasuresOwnFile
    <3>2. proc'[t].offset = proc[t].offset /\ proc'[t].count = FileSize - proc[t].offset
      BY <1>5, <1>6 DEF left
    <3> QED
      BY <1>3, <1>9, <3>1, <3>2
  <2>3. ASSUME disturbed[t] = {} PROVE proc[t].offset <= Len(Content(t))
    BY <1>1, <1>2, <2>3, Constants DEF IInv, Alike, Reads
  <2>4. /\ proc'[t].pc = "sending" /\ proc'[t].reply # "226"
        /\ proc'[t].offset = proc[t].offset /\ proc'[t].offset \in Nat /\ proc'[t].count \in Int
    BY <1>2, <1>3, <1>5, <1>6
  <2>5. disturbed[t] \subseteq {"appended"} => proc'[t].offset + proc'[t].count <= Len(Content(t))
    BY <1>9, <2>2
  <2>6. disturbed[t] = {} => disturbed[t] \subseteq {"appended"}
    OBVIOUS
  <2> QED
    BY <1>8, <1>9, <2>1, <2>2, <2>3, <2>4, <2>5, <2>6 DEF Reads, At, Counted
<1>11. Reads(t)'
  BY <1>9, <1>10 DEF Reads
<1>12. Stores(t)' /\ Appends(t)'
  BY <1>2, <1>5, <1>6 DEF Stores, Appends, Runs
<1> QED
  BY <1>1, <1>4, <1>6, <1>7, <1>11, <1>12, AloneInv

Join(new, s, c) ==
  /\ new \in Seq(Units) /\ Len(new) = Len(s) + Len(c)
  /\ \A n \in 1 .. Len(s) : new[n] = s[n]
  /\ \A n \in 1 .. Len(c) : new[Len(s) + n] = c[n]

LEMMA Joined ==
  ASSUME NEW s \in Seq(Units), NEW c \in Seq(Units)
  PROVE  Join(s \o c, s, c)
<1>1. Len(s) \in Nat /\ Len(c) \in Nat
  OBVIOUS
<1>2. s \o c \in Seq(Units) /\ Len(s \o c) = Len(s) + Len(c)
  OBVIOUS
<1>3. \A n \in 1 .. Len(s) : (s \o c)[n] = s[n]
  BY <1>1
<1>4. \A n \in 1 .. Len(c) : (s \o c)[Len(s) + n] = c[n]
  BY <1>1
<1> QED
  BY <1>2, <1>3, <1>4 DEF Join

\* What one buffer adds to what was sent.
Grown(sent, content, pos, next) == sent \o SubSeq(content, pos + 1, next)

GrownBy(new, sent, content, pos, next) ==
  /\ new \in Seq(Units) /\ Len(new) = Len(sent) + (next - pos)
  /\ \A n \in 1 .. Len(sent) : new[n] = sent[n]
  /\ \A n \in 1 .. next - pos : new[Len(sent) + n] = content[pos + n]

LEMMA GrownFacts ==
  ASSUME NEW content \in Seq(Units), NEW sent \in Seq(Units), NEW pos \in Nat, NEW next \in Nat,
         pos < next, next <= Len(content)
  PROVE  GrownBy(Grown(sent, content, pos, next), sent, content, pos, next)
<1> DEFINE chunk == SubSeq(content, pos + 1, next)
<1>1. chunk \in Seq(Units) /\ Len(chunk) = next - pos
  OBVIOUS
<1>2. \A n \in 1 .. next - pos : chunk[n] = content[pos + n]
  OBVIOUS
<1>3. Grown(sent, content, pos, next) = sent \o chunk
  BY DEF Grown
<1> HIDE DEF chunk
<1>4. /\ sent \o chunk \in Seq(Units) /\ Len(sent \o chunk) = Len(sent) + Len(chunk)
      /\ \A n \in 1 .. Len(sent) : (sent \o chunk)[n] = sent[n]
      /\ \A n \in 1 .. Len(chunk) : (sent \o chunk)[Len(sent) + n] = chunk[n]
  BY <1>1, Joined DEF Join
<1>5. \A n \in 1 .. next - pos : (sent \o chunk)[Len(sent) + n] = content[pos + n]
  BY <1>1, <1>2, <1>4
<1> QED
  BY <1>1, <1>3, <1>4, <1>5 DEF GrownBy

LEMMA PlaceInChunk ==
  ASSUME NEW offset \in Nat, NEW pos \in Nat, NEW next \in Nat, NEW before \in Nat, NEW len \in Nat,
         NEW n \in 1 .. len, len = before + (next - pos), pos = offset + before
  PROVE  /\ offset + n <= next
         /\ n > before => /\ n - before \in 1 .. next - pos /\ before + (n - before) = n
                          /\ pos + (n - before) = offset + n
         /\ n <= before => n \in 1 .. before
OBVIOUS

LEMMA SendChunkInv ==
  ASSUME IInv, NEW t \in Transfers, SendChunk(t)
  PROVE  IInv'
<1> DEFINE next == Lesser(proc[t].pos + BUFFER_SIZE, Len(Content(t)))
           sent == Grown(proc[t].moved, Content(t), proc[t].pos, next)
           record == [proc[t] EXCEPT !.pos = next, !.moved = sent]
<1>1. At(t, "sending") /\ DiskAlone /\ proc' = [proc EXCEPT ![t] = record]
      /\ ~(proc[t].pos >= Len(Content(t)))
  BY DEF SendChunk, MoreToSend, EndOfFile, Grown
<1>2. Runs(t, "RETR") /\ proc[t].inode \in Inodes /\ proc[t].inode # NoFile /\ proc[t].reply = ""
  BY <1>1, Constants DEF IInv, Alike, Phase, At
<1>3. /\ proc[t].offset \in Nat /\ proc[t].pos \in Nat /\ proc[t].moved \in Seq(Units)
      /\ Len(proc[t].moved) \in Nat /\ Content(t) \in Seq(Units) /\ Len(Content(t)) \in Nat
  BY <1>2, Typed
<1>4. next \in Nat /\ proc[t].pos < next /\ next <= Len(Content(t))
  BY <1>1, <1>3, Constants DEF Lesser
<1> HIDE DEF next
<1>5. /\ sent \in Seq(Units) /\ Len(sent) = Len(proc[t].moved) + (next - proc[t].pos)
      /\ \A n \in 1 .. Len(proc[t].moved) : sent[n] = proc[t].moved[n]
      /\ \A n \in 1 .. next - proc[t].pos :
           sent[Len(proc[t].moved) + n] = Content(t)[proc[t].pos + n]
  <2>1. GrownBy(sent, proc[t].moved, Content(t), proc[t].pos, next)
    BY <1>3, <1>4, GrownFacts
  <2> HIDE DEF sent
  <2> QED
    BY <2>1 DEF GrownBy
<1> HIDE DEF sent
<1>6. record \in ProcRecord
  BY <1>4, <1>5, Typed DEF ProcRecord
<1>7. proc'[t] = record
  BY <1>1 DEF IInv, TypeOK
<1>8. /\ record.pc = proc[t].pc /\ record.op = proc[t].op /\ record.inode = proc[t].inode
      /\ record.taken = proc[t].taken /\ record.moved = sent /\ record.pos = next
      /\ record.offset = proc[t].offset /\ record.count = proc[t].count
      /\ record.reply = proc[t].reply
  BY Typed DEF ProcRecord
<1> HIDE DEF record
<1>9. Phase(t)' /\ Linked(t)'
  BY <1>1, <1>2, <1>7, <1>8 DEF IInv, Alike, Phase, Linked, At, Runs, DiskAlone
<1>10. Content(t)' = Content(t) /\ disturbed' = disturbed
  BY <1>1, <1>7, <1>8 DEF Content, DiskAlone
<1>11. ASSUME "overwritten" \notin disturbed[t] PROVE Reads(t)'
  <2>1. SentIsThere(t) /\ proc[t].pos = proc[t].offset + Len(proc[t].moved)
    BY <1>1, <1>2, <1>11 DEF IInv, Alike, Reads
  <2>2. next = proc[t].offset + Len(sent)
    <3>1. Len(sent) = Len(proc[t].moved) + (next - proc[t].pos)
      BY <1>5
    <3> DEFINE offset == proc[t].offset
               pos == proc[t].pos
               before == Len(proc[t].moved)
    <3>2. offset \in Nat /\ next \in Nat /\ before \in Nat /\ pos = offset + before
      BY <1>3, <1>4, <2>1
    <3>3. Len(sent) = before + (next - pos)
      BY <3>1
    <3> HIDE DEF offset, pos, before
    <3>4. next = offset + Len(sent)
      BY <3>2, <3>3
    <3> QED
      BY <3>4 DEF offset
  <2>3. ASSUME NEW n \in 1 .. Len(sent)
        PROVE  /\ proc[t].offset + n <= Len(Content(t))
               /\ sent[n] = Content(t)[proc[t].offset + n]
    <3> DEFINE before == Len(proc[t].moved)
    <3>1. Len(sent) \in Nat
      BY <1>5
    <3>2. /\ proc[t].offset + n <= next
          /\ n > before => /\ n - before \in 1 .. next - proc[t].pos /\ before + (n - before) = n
                           /\ proc[t].pos + (n - before) = proc[t].offset + n
          /\ n <= before => n \in 1 .. before
      <4> DEFINE offset == proc[t].offset
                 pos == proc[t].pos
                 len == Len(sent)
      <4>1. /\ offset \in Nat /\ pos \in Nat /\ next \in Nat /\ before \in Nat
            /\ len \in Nat /\ n \in 1 .. len
        BY <1>3, <1>4, <3>1
      <4>2. len = before + (next - pos) /\ pos = offset + before
        BY <1>5, <2>1
      <4> HIDE DEF before, offset, pos, len
      <4>3. /\ offset + n <= next
            /\ n > before => /\ n - before \in 1 .. next - pos /\ before + (n - before) = n
                             /\ pos + (n - before) = offset + n
            /\ n <= before => n \in 1 .. before
        BY <4>1, <4>2, PlaceInChunk
      <4> QED
        BY <4>3 DEF offset, pos
    <3>3. proc[t].offset + n <= Len(Content(t))
      BY <1>3, <1>4, <3>1, <3>2
    <3>4. ASSUME n > before PROVE sent[n] = Content(t)[proc[t].offset + n]
      <4>1. sent[before + (n - before)] = Content(t)[proc[t].pos + (n - before)]
        BY <1>5, <3>2, <3>4, Zenon
      <4> QED
        BY <3>2, <3>4, <4>1, Zenon
    <3>5. ASSUME n <= before PROVE sent[n] = Content(t)[proc[t].offset + n]
      BY <1>5, <2>1, <3>2, <3>5 DEF SentIsThere
    <3>6. n > before \/ n <= before
      BY <1>3, <3>1
    <3> QED
      BY <3>3, <3>4, <3>5, <3>6
  <2>4. SentIsThere(t)'
    BY <1>7, <1>8, <1>10, <2>3 DEF SentIsThere
  <2> QED
    BY <1>1, <1>2, <1>7, <1>8, <1>10, <2>2, <2>4 DEF IInv, Alike, Reads, At, Counted, Runs
<1>12. Reads(t)'
  BY <1>10, <1>11 DEF Reads
<1>13. Stores(t)' /\ Appends(t)'
  BY <1>2, <1>7, <1>8 DEF Stores, Appends, Runs
<1> QED
  BY <1>1, <1>6, <1>8, <1>9, <1>12, <1>13, AloneInv

\* A 226 is given when all was sent that was counted, or that the file has.
LEMMA SendDoneInv ==
  ASSUME IInv, NEW t \in Transfers, SendDone(t)
  PROVE  IInv'
<1>1. /\ At(t, "sending") /\ DiskAlone /\ End(t, "226")
      /\ Len(proc[t].moved) >= proc[t].count \/ proc[t].pos >= Len(Content(t))
  BY DEF SendDone, AllSent, EndOfFile
<1>2. Runs(t, "RETR") /\ proc[t].inode \in Inodes /\ proc[t].inode # NoFile
  BY <1>1, Constants DEF IInv, Alike, Phase, At
<1>3. /\ proc[t].offset \in Nat /\ proc[t].pos \in Nat /\ proc[t].count \in Int
      /\ Len(proc[t].moved) \in Nat /\ Len(Content(t)) \in Nat
  BY <1>2, Typed
<1>4. /\ proc'[t].pc = "exited" /\ proc'[t].reply = "226" /\ proc'[t].op = proc[t].op
      /\ proc'[t].inode = proc[t].inode /\ proc'[t].moved = proc[t].moved
      /\ proc'[t].offset = proc[t].offset /\ proc'[t].count = proc[t].count
  BY <1>1, Typed DEF IInv, TypeOK, End, ProcRecord
<1>5. Content(t)' = Content(t) /\ disturbed' = disturbed
  BY <1>1, <1>4 DEF Content, DiskAlone
<1>6. ASSUME "overwritten" \notin disturbed[t] PROVE Reads(t)'
  <2>1. SentIsThere(t) /\ proc[t].pos = proc[t].offset + Len(proc[t].moved)
    BY <1>1, <1>2, <1>6 DEF IInv, Alike, Reads
  <2>2. SentIsThere(t)'
    BY <1>4, <1>5, <2>1 DEF SentIsThere
  <2>3. proc[t].offset + Len(proc[t].moved) <= Len(Content(t))
        \/ (Len(proc[t].moved) = 0 /\ proc[t].pos = proc[t].offset)
    BY <1>3, <2>1 DEF SentIsThere
  <2>4. ASSUME disturbed[t] \subseteq {"appended"}
        PROVE  proc[t].offset + proc[t].count <= Len(Content(t))
               /\ Len(proc[t].moved) >= proc[t].count
    BY <1>1, <1>2, <1>3, <1>6, <2>1, <2>4 DEF IInv, Alike, Reads, Counted
  <2>5. ASSUME disturbed[t] = {}
        PROVE  proc[t].offset + proc[t].count = Len(Content(t)) /\ proc[t].offset <= Len(Content(t))
    BY <1>1, <1>2, <2>5 DEF IInv, Alike, Reads, Counted
  <2>6. disturbed[t] = {} => proc[t].offset + Len(proc[t].moved) = Len(Content(t))
    BY <1>3, <2>3, <2>4, <2>5
  <2> QED
    BY <1>4, <1>5, <2>2, <2>4, <2>5, <2>6 DEF Reads, At, Counted
<1>7. Reads(t)'
  BY <1>5, <1>6 DEF Reads
<1> QED
  BY <1>1, <1>7, EndInv DEF Replies

-----------------------------------------------------------------------------
(* The steps that change the disk.                                         *)

LEMMA HandleDeleInv ==
  ASSUME IInv, HandleDele
  PROVE  IInv'
<1>1. /\ path' = NoFile /\ path # NoFile /\ file' = file /\ proc' = proc
      /\ disturbed' = [u \in Transfers |->
           IF proc[u].inode = path THEN disturbed[u] \cup {"removed"} ELSE disturbed[u]]
  BY DEF HandleDele
<1>2. TypeOK'
  <2>1. disturbed' \in [Transfers -> SUBSET Kinds]
    BY <1>1 DEF IInv, TypeOK, Kinds
  <2> QED
    BY <1>1, <2>1 DEF IInv, TypeOK
<1>3. ASSUME NEW u \in Transfers PROVE Alike(u)'
  <2>1. disturbed[u] \subseteq disturbed'[u]
        /\ (proc[u].inode = path => "removed" \in disturbed'[u])
    BY <1>1
  <2>2. Phase(u)' /\ Reads(u)' /\ Stores(u)' /\ Appends(u)'
    BY <1>1, <2>1, SameFile DEF IInv, Alike
  <2>3. Linked(u)'
    BY <1>1, <2>1 DEF IInv, Alike, Linked
  <2>4. Owns(u)'
    BY <1>1 DEF IInv, Alike, Owns
  <2> QED
    BY <2>2, <2>3, <2>4 DEF Alike
<1>4. OldKept'
  BY <1>1 DEF IInv, OldKept, Runs
<1> QED
  BY <1>2, <1>3, <1>4 DEF IInv

\* What opening a file to write it does to the process.
LEMMA ReceivingFacts ==
  ASSUME IInv, NEW t \in Transfers, At(t, "start"), Receiving(t), path' = Target(t)
  PROVE  /\ Target(t) \in Inodes /\ Target(t) # NoFile /\ path' = Target(t)
         /\ proc[t].inode = NoFile
         /\ proc' \in [Transfers -> ProcRecord]
         /\ \A u \in Transfers : u # t => proc'[u] = proc[u]
         /\ \A u \in Transfers : proc'[u].op = proc[u].op
         /\ proc'[t].pc = "receiving" /\ proc'[t].inode = Target(t)
         /\ proc'[t].moved = <<>> /\ proc'[t].pos = 0 /\ proc'[t].reply = ""
         /\ proc'[t].taken = proc[t].taken
<1> DEFINE record == [proc[t] EXCEPT !.pc = "receiving", !.inode = Target(t)]
<1>1. Target(t) \in Inodes
  BY Constants DEF IInv, TypeOK, Target
<1>2. proc[t].inode = NoFile /\ proc[t].moved = <<>> /\ proc[t].pos = 0 /\ proc[t].reply = ""
  BY DEF IInv, Alike, Phase, At
<1>3. proc' = [proc EXCEPT ![t] = record]
  BY DEF Receiving
<1> HIDE DEF Target
<1>4. record \in ProcRecord
  BY <1>1, Typed DEF ProcRecord, Steps
<1>5. /\ record.pc = "receiving" /\ record.op = proc[t].op /\ record.inode = Target(t)
      /\ record.taken = proc[t].taken /\ record.moved = proc[t].moved
      /\ record.pos = proc[t].pos /\ record.reply = proc[t].reply
  BY Typed DEF ProcRecord
<1> HIDE DEF record
<1>6. proc \in [Transfers -> ProcRecord]
  BY DEF IInv, TypeOK
<1>7. /\ proc' \in [Transfers -> ProcRecord] /\ proc'[t] = record
      /\ \A u \in Transfers : u # t => proc'[u] = proc[u]
  BY <1>3, <1>4, <1>6
<1>8. \A u \in Transfers : proc'[u].op = proc[u].op
  BY <1>5, <1>7
<1> QED
  BY <1>1, <1>2, <1>5, <1>7, <1>8, Constants

\* Opening leaves the links of the others: there was a file, and it is the same.
LEMMA ReceivingLinks ==
  ASSUME IInv, NEW t \in Transfers, At(t, "start"), Receiving(t), path' = Target(t),
         NEW u \in Transfers, "removed" \in disturbed[u] => "removed" \in disturbed'[u]
  PROVE  Linked(u)'
<1>1. CASE u = t
  BY <1>1, ReceivingFacts DEF Linked
<1>2. CASE u # t
  <2>1. proc'[u] = proc[u] /\ path' = Target(t)
    BY <1>2, ReceivingFacts
  <2>2. proc[u].inode # NoFile /\ "removed" \notin disturbed[u] => path = proc[u].inode
    BY DEF IInv, Alike, Linked
  <2> QED
    BY <2>1, <2>2 DEF Linked, Target
<1> QED
  BY <1>1, <1>2

\* Before it opens a file, a transfer has no unit anywhere.
LEMMA NothingOwned ==
  ASSUME IInv, NEW t \in Transfers, proc[t].inode = NoFile,
         NEW i \in Inodes, NEW n \in 1 .. Len(file[i])
  PROVE  file[i][n].of # t
BY Constants DEF IInv, Alike, Owns

LEMMA OpenToAppendInv ==
  ASSUME IInv, NEW t \in Transfers, OpenToAppend(t)
  PROVE  IInv'
<1>1. /\ At(t, "start") /\ Runs(t, "APPE") /\ Receiving(t) /\ path' = Target(t)
      /\ file' = file /\ disturbed' = disturbed
  BY DEF OpenToAppend
<1>2. /\ Target(t) \in Inodes /\ Target(t) # NoFile /\ proc[t].inode = NoFile
      /\ proc' \in [Transfers -> ProcRecord]
      /\ \A u \in Transfers : u # t => proc'[u] = proc[u]
      /\ \A u \in Transfers : proc'[u].op = proc[u].op
      /\ proc'[t].pc = "receiving" /\ proc'[t].inode = Target(t)
      /\ proc'[t].moved = <<>> /\ proc'[t].pos = 0 /\ proc'[t].reply = ""
  BY <1>1, ReceivingFacts
<1>3. TypeOK'
  BY <1>1, <1>2 DEF IInv, TypeOK
<1>4. \A u \in Transfers : Linked(u)'
  BY <1>1, ReceivingLinks
<1>5. ASSUME NEW u \in Transfers, u # t PROVE Alike(u)'
  <2>1. Phase(u)' /\ Reads(u)' /\ Stores(u)' /\ Appends(u)'
    BY <1>1, <1>2, <1>5, SameFile DEF IInv, Alike
  <2>2. Owns(u)'
    BY <1>1, <1>2, <1>5 DEF IInv, Alike, Owns
  <2> QED
    BY <1>4, <2>1, <2>2 DEF Alike
<1>6. Alike(t)'
  <2>1. Phase(t)' /\ Reads(t)' /\ Stores(t)'
    BY <1>1, <1>2 DEF Phase, Reads, Stores, At, Runs
  <2>2. \A n \in 1 .. Len(file[Target(t)]) : file[Target(t)][n].of # t
    BY <1>2, NothingOwned
  <2>3. Content(t)' = file[Target(t)]
    BY <1>1, <1>2 DEF Content
  <2>4. Places(t)' = {}
    BY <2>2, <2>3 DEF Places
  <2>5. Held(t)' = {}
    BY <2>4 DEF Held
  <2>6. Moved(t)' = {}
    <3>1. Len(proc'[t].moved) = 0
      BY <1>2
    <3> QED
      BY <3>1 DEF Moved
  <2>7. Appends(t)'
    BY <2>4, <2>5, <2>6 DEF Appends
  <2>8. Owns(t)'
    BY <1>1, <1>2, NothingOwned DEF Owns
  <2> QED
    BY <1>4, <2>1, <2>7, <2>8 DEF Alike
<1>7. OldKept'
  <2>1. ASSUME NEW u \in Transfers, Runs(u, "STOR") PROVE Runs(u, "STOR")' /\ proc'[u] = proc[u]
    BY <1>1, <1>2, <2>1 DEF Runs
  <2> QED
    BY <1>1, <2>1 DEF IInv, OldKept
<1> QED
  BY <1>3, <1>5, <1>6, <1>7 DEF IInv

\* One whose file is stored over has nothing more to claim of it, and one whose
\* file is another keeps its own.
LEMMA StoredOver ==
  ASSUME NEW u \in Transfers, Phase(u), Reads(u), Stores(u), Appends(u), NEW i,
         proc'[u] = proc[u], proc[u].inode # NoFile /\ proc[u].inode # i =>
           file'[proc[u].inode] = file[proc[u].inode],
         disturbed'[u] = IF proc[u].inode = i THEN disturbed[u] \cup {"overwritten"} ELSE disturbed[u]
  PROVE  Phase(u)' /\ Reads(u)' /\ Stores(u)' /\ Appends(u)'
<1>1. CASE proc[u].inode # i
  BY <1>1, SameFile
<1>2. CASE proc[u].inode = i
  <2>1. "overwritten" \in disturbed'[u]
    BY <1>2
  <2>2. Phase(u)'
    BY DEF Phase, At, Runs
  <2>3. Reads(u)' /\ Appends(u)'
    BY <2>1 DEF Reads, Appends
  <2>4. Stores(u)'
    BY <2>1 DEF Stores, At, Runs
  <2> QED
    BY <2>2, <2>3, <2>4
<1> QED
  BY <1>1, <1>2

LEMMA OpenToStoreInv ==
  ASSUME IInv, NEW t \in Transfers, OpenToStore(t)
  PROVE  IInv'
<1>1. /\ At(t, "start") /\ Runs(t, "STOR") /\ Receiving(t) /\ path' = Target(t)
      /\ file' = [file EXCEPT ![Target(t)] = <<>>]
      /\ disturbed' = [u \in Transfers |->
           IF u # t /\ proc[u].inode = Target(t) THEN disturbed[u] \cup {"overwritten"}
           ELSE disturbed[u]]
  BY DEF OpenToStore, Disturb
<1>2. /\ Target(t) \in Inodes /\ Target(t) # NoFile /\ proc[t].inode = NoFile
      /\ proc' \in [Transfers -> ProcRecord]
      /\ \A u \in Transfers : u # t => proc'[u] = proc[u]
      /\ \A u \in Transfers : proc'[u].op = proc[u].op
      /\ proc'[t].pc = "receiving" /\ proc'[t].inode = Target(t)
      /\ proc'[t].moved = <<>> /\ proc'[t].pos = 0 /\ proc'[t].reply = ""
  BY <1>1, ReceivingFacts
<1>3. /\ file \in [Inodes -> Seq(Units)] /\ disturbed \in [Transfers -> SUBSET Kinds]
      /\ file'[Target(t)] = <<>> /\ \A i \in Inodes : i # Target(t) => file'[i] = file[i]
  BY <1>1, <1>2 DEF IInv, TypeOK
<1>4. TypeOK'
  <2>1. file' \in [Inodes -> Seq(Units)]
    <3>1. <<>> \in Seq(Units)
      OBVIOUS
    <3> QED
      BY <1>1, <1>3, <3>1
  <2>2. disturbed' \in [Transfers -> SUBSET Kinds]
    BY <1>1, <1>3 DEF Kinds
  <2> QED
    BY <1>1, <1>2, <2>1, <2>2 DEF TypeOK
<1>5. \A u \in Transfers : Linked(u)'
  <2>1. \A u \in Transfers : "removed" \in disturbed[u] => "removed" \in disturbed'[u]
    BY <1>1
  <2> QED
    BY <1>1, <2>1, ReceivingLinks
<1>6. \A i \in Inodes, n \in Nat : n \in 1 .. Len(file'[i]) => i # Target(t) /\ file'[i] = file[i]
  <2>1. Len(file'[Target(t)]) = 0
    BY <1>3
  <2> QED
    BY <1>3, <2>1
<1>7. ASSUME NEW u \in Transfers, u # t PROVE Alike(u)'
  <2>1. proc'[u] = proc[u] /\ disturbed'[u] =
          IF proc[u].inode = Target(t) THEN disturbed[u] \cup {"overwritten"} ELSE disturbed[u]
    BY <1>1, <1>2, <1>7
  <2>2. proc[u].inode # NoFile /\ proc[u].inode # Target(t) =>
          file'[proc[u].inode] = file[proc[u].inode]
    BY <1>3, Typed
  <2>3. Phase(u)' /\ Reads(u)' /\ Stores(u)' /\ Appends(u)'
    BY <2>1, <2>2, StoredOver DEF IInv, Alike
  <2>4. Owns(u)'
    <3>1. Owns(u)
      BY DEF IInv, Alike
    <3> QED
      BY <1>6, <2>1, <3>1 DEF Owns
  <2> QED
    BY <1>5, <2>3, <2>4 DEF Alike
<1>8. Alike(t)'
  <2>1. Phase(t)' /\ Reads(t)' /\ Appends(t)'
    BY <1>1, <1>2 DEF Phase, Reads, Appends, At, Runs
  <2>2. Len(proc'[t].moved) = 0
    BY <1>2
  <2>3. Content(t)' = <<>>
    BY <1>2, <1>3 DEF Content
  <2>4. Stores(t)'
    BY <1>2, <2>2, <2>3 DEF Stores
  <2>5. Owns(t)'
    <3>1. ASSUME NEW i \in Inodes, NEW n \in 1 .. Len(file'[i]) PROVE file'[i][n].of # t
      <4>1. file'[i] = file[i]
        BY <1>6
      <4> QED
        BY <1>2, <4>1, NothingOwned
    <3> QED
      BY <3>1 DEF Owns
  <2> QED
    BY <1>5, <2>1, <2>4, <2>5 DEF Alike
<1>9. OldKept'
  <2> SUFFICES ASSUME \A u \in Transfers : Runs(u, "STOR")' => proc'[u].inode # "old"
               PROVE  Len(file'["old"]) >= OldSize
                      /\ \A n \in 1 .. OldSize : file'["old"][n] = Old[n]
    BY DEF OldKept
  <2>1. Target(t) # "old"
    BY <1>1, <1>2 DEF Runs
  <2>2. ASSUME NEW u \in Transfers, Runs(u, "STOR") PROVE proc[u].inode # "old"
    BY <1>2, <2>2, Constants DEF Runs
  <2>3. file'["old"] = file["old"]
    BY <1>3, <2>1, Constants
  <2> QED
    BY <2>2, <2>3 DEF IInv, OldKept
<1> QED
  BY <1>4, <1>7, <1>8, <1>9 DEF IInv

\* What t stores of a buffer, and where it puts it.
Chunk(t, stored) == [n \in 1 .. stored |-> Unit(t, proc[t].taken + n)]
Spot(t) == IF Runs(t, "APPE") THEN Len(Content(t)) ELSE proc[t].pos

LEMMA ChunkFacts ==
  ASSUME IInv, NEW t \in Transfers, NEW stored \in Nat
  PROVE  /\ Chunk(t, stored) \in Seq(Units) /\ Len(Chunk(t, stored)) = stored
         /\ \A n \in 1 .. stored :
              Chunk(t, stored)[n].of = t /\ Chunk(t, stored)[n].at = proc[t].taken + n
<1>1. proc[t].taken \in Nat
  BY Typed
<1>2. ASSUME NEW n \in 1 .. stored
      PROVE  /\ Unit(t, proc[t].taken + n) \in Units
             /\ Unit(t, proc[t].taken + n).of = t /\ Unit(t, proc[t].taken + n).at = proc[t].taken + n
  <2>1. proc[t].taken + n \in Nat
    BY <1>1
  <2> QED
    BY <2>1, Constants DEF Unit, Units
<1>3. Chunk(t, stored) \in Seq(Units) /\ Len(Chunk(t, stored)) = stored
  BY <1>2 DEF Chunk
<1>4. \A n \in 1 .. stored : Chunk(t, stored)[n] = Unit(t, proc[t].taken + n)
  BY DEF Chunk
<1> QED
  BY <1>2, <1>3, <1>4

\* Every unit of a file that was written to is of the chunk, was there, or is a hole.
LEMMA UnitsWritten ==
  ASSUME NEW content \in Seq(Units), NEW pos \in Nat, NEW chunk \in Seq(Units),
         NEW n \in 1 .. Len(Written(content, pos, chunk))
  PROVE  \/ \E k \in 1 .. Len(chunk) : Written(content, pos, chunk)[n] = chunk[k]
         \/ n \in 1 .. Len(content) /\ Written(content, pos, chunk)[n] = content[n]
         \/ Written(content, pos, chunk)[n] = Hole
<1>1. Len(content) \in Nat /\ Len(chunk) \in Nat /\ n \in Nat /\ n >= 1
  BY WrittenFacts
<1>2. CASE n \in pos + 1 .. pos + Len(chunk)
  <2>1. n - pos \in 1 .. Len(chunk)
    BY <1>1, <1>2
  <2>2. Written(content, pos, chunk)[n] = chunk[n - pos]
    BY <1>2, WrittenFacts
  <2> QED
    BY <2>1, <2>2
<1>3. CASE n \notin pos + 1 .. pos + Len(chunk)
  BY <1>1, <1>3, WrittenFacts
<1> QED
  BY <1>2, <1>3

\* What one receipt does, with the amounts that are its to choose.
Receipt(t, received, stored) ==
  /\ At(t, "receiving") /\ proc[t].op \in {"STOR", "APPE"}
  /\ proc[t].inode \in Inodes /\ proc[t].inode # NoFile
  /\ received \in Nat /\ stored \in Nat /\ 1 <= stored /\ stored <= received
  /\ proc[t].taken + received <= UploadSize
  /\ path' = path
  /\ \A i \in Inodes : i # proc[t].inode => file'[i] = file[i]
  /\ file'[proc[t].inode] = Written(Content(t), Spot(t), Chunk(t, stored))
  /\ \A u \in Transfers : u # t => proc'[u] = proc[u]
  /\ proc'[t].pc = proc[t].pc /\ proc'[t].op = proc[t].op /\ proc'[t].inode = proc[t].inode
  /\ proc'[t].reply = proc[t].reply
  /\ proc'[t].pos = Spot(t) + stored /\ proc'[t].taken = proc[t].taken + received
  /\ proc'[t].moved = proc[t].moved \o Chunk(t, stored)
  /\ disturbed'[t] = disturbed[t]
  /\ \A u \in Transfers : u # t =>
       disturbed'[u] = IF proc[u].inode = proc[t].inode
                       THEN disturbed[u] \cup {IF Runs(t, "APPE") THEN "appended" ELSE "overwritten"}
                       ELSE disturbed[u]

LEMMA SpotFacts ==
  ASSUME IInv, NEW t \in Transfers, proc[t].inode \in Inodes
  PROVE  Spot(t) \in Nat /\ Content(t) \in Seq(Units) /\ Len(Content(t)) \in Nat
<1>1. /\ proc[t].pos \in Nat /\ Content(t) \in Seq(Units) /\ Len(Content(t)) \in Nat
  BY Constants, Typed
<1> QED
  BY <1>1 DEF Spot

LEMMA ReceiptIs ==
  ASSUME IInv, NEW t \in Transfers, ReceiveChunk(t)
  PROVE  TypeOK' /\ \E received, stored \in Nat : Receipt(t, received, stored)
<1>1. At(t, "receiving") /\ proc[t].op \in {"STOR", "APPE"} /\ proc[t].inode \in Inodes
      /\ proc[t].inode # NoFile /\ path' = path
  BY Constants DEF ReceiveChunk, IInv, Alike, Phase, At
<1> DEFINE Keeps(received, stored) ==
        /\ file' = [file EXCEPT ![proc[t].inode] = Written(@, Spot(t), Chunk(t, stored))]
        /\ proc' = [proc EXCEPT ![t].pos = Spot(t) + stored, ![t].taken = @ + received,
                                ![t].moved = @ \o Chunk(t, stored)]
        /\ Disturb(t, proc[t].inode, IF Runs(t, "APPE") THEN "appended" ELSE "overwritten")
<1>2. PICK received \in 1 .. Lesser(BUFFER_SIZE, UploadSize - proc[t].taken) :
        \E stored \in 1 .. received : Keeps(received, stored)
  BY DEF ReceiveChunk, Chunk, Spot
<1>3. PICK stored \in 1 .. received : Keeps(received, stored)
  BY <1>2
<1>4. proc[t].taken \in Nat /\ proc[t].moved \in Seq(Units) /\ proc[t] \in ProcRecord
  BY Typed
<1>5. /\ received \in Nat /\ stored \in Nat /\ 1 <= stored /\ stored <= received
      /\ proc[t].taken + received <= UploadSize
  BY <1>4, Constants DEF Lesser
<1>6. Spot(t) \in Nat /\ Content(t) \in Seq(Units)
  BY <1>1, SpotFacts
<1> DEFINE chunk == Chunk(t, stored)
           written == Written(Content(t), Spot(t), chunk)
           pos == Spot(t) + stored
           taken == proc[t].taken + received
           moved == proc[t].moved \o chunk
           record == [proc[t] EXCEPT !.pos = pos, !.taken = taken, !.moved = moved]
           kind == IF Runs(t, "APPE") THEN "appended" ELSE "overwritten"
<1>7. chunk \in Seq(Units)
  BY <1>5, ChunkFacts
<1>8. written \in Seq(Units)
  BY <1>6, <1>7, WrittenFacts
<1>9. pos \in Nat /\ taken \in 0 .. UploadSize
  BY <1>4, <1>5, <1>6, Constants
<1>10. moved \in Seq(Units)
  BY <1>4, <1>7, Joined DEF Join
<1>11. proc' = [proc EXCEPT ![t] = record]
  BY <1>3
<1>12. file' = [file EXCEPT ![proc[t].inode] = written]
  BY <1>3 DEF Content
<1>13. disturbed' = [u \in Transfers |->
         IF u # t /\ proc[u].inode = proc[t].inode THEN disturbed[u] \cup {kind} ELSE disturbed[u]]
  BY <1>3 DEF Disturb
<1>14. kind \in Kinds
  BY DEF Kinds
<1> HIDE DEF chunk, written, pos, taken, moved, kind
<1>15. record \in ProcRecord
  BY <1>4, <1>9, <1>10 DEF ProcRecord
<1>16. /\ record.pc = proc[t].pc /\ record.op = proc[t].op /\ record.inode = proc[t].inode
       /\ record.reply = proc[t].reply /\ record.pos = pos /\ record.taken = taken
       /\ record.moved = moved
  BY <1>4 DEF ProcRecord
<1> HIDE DEF record
<1>17. /\ path \in Inodes \cup {NoFile} /\ file \in [Inodes -> Seq(Units)]
       /\ proc \in [Transfers -> ProcRecord] /\ disturbed \in [Transfers -> SUBSET Kinds]
  BY DEF IInv, TypeOK
<1>18. /\ proc' \in [Transfers -> ProcRecord] /\ proc'[t] = record
       /\ \A u \in Transfers : u # t => proc'[u] = proc[u]
  BY <1>11, <1>15, <1>17
<1>19. /\ file' \in [Inodes -> Seq(Units)] /\ file'[proc[t].inode] = written
       /\ \A i \in Inodes : i # proc[t].inode => file'[i] = file[i]
  BY <1>1, <1>8, <1>12, <1>17
<1>20. /\ disturbed' \in [Transfers -> SUBSET Kinds] /\ disturbed'[t] = disturbed[t]
       /\ \A u \in Transfers : u # t =>
            disturbed'[u] = IF proc[u].inode = proc[t].inode THEN disturbed[u] \cup {kind}
                            ELSE disturbed[u]
  BY <1>13, <1>14, <1>17
<1>21. TypeOK'
  BY <1>1, <1>17, <1>18, <1>19, <1>20 DEF TypeOK
<1>22. Receipt(t, received, stored)
  BY <1>1, <1>5, <1>16, <1>18, <1>19, <1>20 DEF Receipt, chunk, written, pos, taken, moved, kind
<1> QED
  BY <1>5, <1>21, <1>22

\* The file after a receipt: its new units are t's, the others were there or are
\* holes; and APPE, which writes at the end, leaves all the file had.
FileAfter(t, received, stored, i) ==
  /\ file[i] \in Seq(Units) /\ Len(file[i]) \in Nat
  /\ file'[i] \in Seq(Units) /\ Len(file'[i]) \in Nat
  /\ \A n \in 1 .. Len(file'[i]) :
       \/ file'[i][n].of = t /\ file'[i][n].at <= proc[t].taken + received
       \/ n \in 1 .. Len(file[i]) /\ file'[i][n] = file[i][n]
       \/ file'[i][n].of = "hole"
  /\ Spot(t) = Len(file[i]) =>
       /\ Len(file'[i]) = Len(file[i]) + stored
       /\ \A n \in 1 .. Len(file[i]) : file'[i][n] = file[i][n]
       /\ \A n \in 1 .. stored : file'[i][Len(file[i]) + n] = Chunk(t, stored)[n]
       /\ file'[i] = file[i] \o Chunk(t, stored)

LEMMA ReceiptFile ==
  ASSUME IInv, NEW t \in Transfers, NEW received \in Nat, NEW stored \in Nat,
         Receipt(t, received, stored), NEW i, i = proc[t].inode
  PROVE  FileAfter(t, received, stored, i)
<1>1. /\ file'[i] = Written(file[i], Spot(t), Chunk(t, stored)) /\ proc[t].inode \in Inodes
      /\ file[i] = Content(t) /\ stored <= received
  BY DEF Receipt, Content
<1>2. Spot(t) \in Nat /\ file[i] \in Seq(Units) /\ Len(file[i]) \in Nat
  BY <1>1, SpotFacts
<1>3. /\ Chunk(t, stored) \in Seq(Units) /\ Len(Chunk(t, stored)) = stored
      /\ \A n \in 1 .. stored :
           Chunk(t, stored)[n].of = t /\ Chunk(t, stored)[n].at = proc[t].taken + n
  BY ChunkFacts
<1>4. file'[i] \in Seq(Units) /\ Len(file'[i]) \in Nat
  BY <1>1, <1>2, <1>3, WrittenFacts
<1>5. ASSUME NEW n \in 1 .. Len(file'[i])
      PROVE  \/ file'[i][n].of = t /\ file'[i][n].at <= proc[t].taken + received
             \/ n \in 1 .. Len(file[i]) /\ file'[i][n] = file[i][n]
             \/ file'[i][n].of = "hole"
  <2>1. \/ \E k \in 1 .. stored : file'[i][n] = Chunk(t, stored)[k]
        \/ n \in 1 .. Len(file[i]) /\ file'[i][n] = file[i][n]
        \/ file'[i][n] = Hole
    BY <1>1, <1>2, <1>3, <1>5, UnitsWritten
  <2>2. CASE \E k \in 1 .. stored : file'[i][n] = Chunk(t, stored)[k]
    <3>1. PICK k \in 1 .. stored : file'[i][n] = Chunk(t, stored)[k]
      BY <2>2
    <3>2. proc[t].taken + k <= proc[t].taken + received
      BY <1>1, Typed
    <3> QED
      BY <1>3, <3>1, <3>2
  <2>3. CASE file'[i][n] = Hole
    BY <2>3 DEF Hole, Unit
  <2> QED
    BY <2>1, <2>2, <2>3
<1>6. ASSUME Spot(t) = Len(file[i])
      PROVE  /\ Len(file'[i]) = Len(file[i]) + stored
             /\ \A n \in 1 .. Len(file[i]) : file'[i][n] = file[i][n]
             /\ \A n \in 1 .. stored : file'[i][Len(file[i]) + n] = Chunk(t, stored)[n]
             /\ file'[i] = file[i] \o Chunk(t, stored)
  <2> DEFINE content == file[i]
             chunk == Chunk(t, stored)
  <2>1. /\ file'[i] = Written(content, Len(content), chunk)
        /\ content \in Seq(Units) /\ chunk \in Seq(Units) /\ Len(chunk) = stored
    BY <1>1, <1>2, <1>3, <1>6
  <2> HIDE DEF content, chunk
  <2>2. /\ Len(file'[i]) = Len(content) + stored
        /\ \A n \in 1 .. Len(content) : file'[i][n] = content[n]
        /\ \A n \in 1 .. stored : file'[i][Len(content) + n] = chunk[n]
        /\ file'[i] = content \o chunk
    BY <2>1, WrittenAtEnd
  <2> QED
    BY <2>2 DEF content, chunk
<1> QED
  BY <1>2, <1>4, <1>5, <1>6 DEF FileAfter

\* Who owns what after a receipt.
LEMMA ReceiptOwns ==
  ASSUME IInv, NEW t \in Transfers, NEW received \in Nat, NEW stored \in Nat,
         Receipt(t, received, stored), NEW u \in Transfers
  PROVE  Owns(u)'
<1> SUFFICES ASSUME NEW i \in Inodes, NEW n \in 1 .. Len(file'[i]), file'[i][n].of = u
             PROVE  i = proc'[u].inode /\ file'[i][n].at <= proc'[u].taken
  BY DEF Owns
<1>1. /\ proc'[u].inode = proc[u].inode
      /\ u # t => proc'[u].taken = proc[u].taken
      /\ u = t => proc'[u].taken = proc[t].taken + received
  BY DEF Receipt
<1>2. proc[u].taken \in Nat /\ u # "hole"
  BY Typed, Constants
<1>3. ASSUME n \in 1 .. Len(file[i]), file'[i][n] = file[i][n]
      PROVE  i = proc'[u].inode /\ file'[i][n].at <= proc'[u].taken
  <2>1. i = proc[u].inode /\ file[i][n].at <= proc[u].taken
    BY <1>3 DEF IInv, Alike, Owns
  <2>2. file[i][n].at \in Nat
    <3>1. file[i][n] \in Units
      BY <1>3 DEF IInv, TypeOK
    <3> QED
      BY <3>1 DEF Units
  <2>3. file[i][n].at <= proc'[u].taken
    BY <1>1, <1>2, <2>1, <2>2
  <2> QED
    BY <1>1, <1>3, <2>1, <2>3
<1>4. CASE i # proc[t].inode
  BY <1>3, <1>4 DEF Receipt
<1>5. CASE i = proc[t].inode
  <2>1. \/ file'[i][n].of = t /\ file'[i][n].at <= proc[t].taken + received
        \/ n \in 1 .. Len(file[i]) /\ file'[i][n] = file[i][n]
        \/ file'[i][n].of = "hole"
    BY <1>5, ReceiptFile DEF FileAfter
  <2> QED
    BY <1>1, <1>2, <1>3, <1>5, <2>1
<1> QED
  BY <1>4, <1>5

\* Others keep what holds of them: their file is another, was stored over, or has
\* more at its end.
LEMMA ReceiptOthers ==
  ASSUME IInv, NEW t \in Transfers, NEW received \in Nat, NEW stored \in Nat,
         Receipt(t, received, stored), NEW u \in Transfers, u # t
  PROVE  Phase(u)' /\ Reads(u)' /\ Stores(u)' /\ Appends(u)'
<1>1. proc'[u] = proc[u]
  BY DEF Receipt
<1>2. Phase(u) /\ Reads(u) /\ Stores(u) /\ Appends(u)
  BY DEF IInv, Alike
<1>3. proc[u].inode # NoFile /\ proc[u].inode # proc[t].inode => file'[proc[u].inode] = file[proc[u].inode]
  BY Typed DEF Receipt
<1>4. CASE ~Runs(t, "APPE")
  <2>1. disturbed'[u] = IF proc[u].inode = proc[t].inode THEN disturbed[u] \cup {"overwritten"}
                        ELSE disturbed[u]
    BY <1>4 DEF Receipt
  <2> QED
    BY <1>1, <1>2, <1>3, <2>1, StoredOver
<1>5. CASE Runs(t, "APPE") /\ proc[u].inode # proc[t].inode
  <2>1. disturbed'[u] = disturbed[u]
    BY <1>5 DEF Receipt
  <2> QED
    BY <1>1, <1>2, <1>3, <1>5, <2>1, SameFile
<1>6. CASE Runs(t, "APPE") /\ proc[u].inode = proc[t].inode
  <2>1. disturbed'[u] = disturbed[u] \cup {"appended"}
    BY <1>6 DEF Receipt
  <2>2. Content(u) = file[proc[t].inode] /\ Content(u)' = file'[proc[t].inode]
    BY <1>1, <1>6 DEF Content
  <2>3. Spot(t) = Len(file[proc[t].inode])
    BY <1>6 DEF Spot, Content
  <2>4. /\ Len(Content(u)) \in Nat /\ Len(Content(u)') = Len(Content(u)) + stored
        /\ \A n \in 1 .. Len(Content(u)) : Content(u)'[n] = Content(u)[n]
        /\ \A n \in 1 .. Len(Content(u)') :
             \/ Content(u)'[n].of = t
             \/ n \in 1 .. Len(Content(u)) /\ Content(u)'[n] = Content(u)[n]
             \/ Content(u)'[n].of = "hole"
    <3> DEFINE i == proc[t].inode
    <3>1. /\ Len(file[i]) \in Nat
          /\ \A n \in 1 .. Len(file'[i]) :
               \/ file'[i][n].of = t
               \/ n \in 1 .. Len(file[i]) /\ file'[i][n] = file[i][n]
               \/ file'[i][n].of = "hole"
          /\ Spot(t) = Len(file[i]) =>
               /\ Len(file'[i]) = Len(file[i]) + stored
               /\ \A n \in 1 .. Len(file[i]) : file'[i][n] = file[i][n]
      <4>1. FileAfter(t, received, stored, i)
        BY ReceiptFile
      <4> HIDE DEF i
      <4> QED
        BY <4>1 DEF FileAfter
    <3> QED
      BY <2>2, <2>3, <3>1, Zenon
  <2>5. Phase(u)'
    BY <1>1, <1>2 DEF Phase, At, Runs
  <2>6. Stores(u)'
    BY <1>1, <1>2, <2>1 DEF Stores, At, Runs
  <2>7. SentIsThere(u) => SentIsThere(u)'
    <3> SUFFICES ASSUME SentIsThere(u), NEW n \in 1 .. Len(proc[u].moved)
                 PROVE  /\ proc[u].offset + n <= Len(Content(u)')
                        /\ proc[u].moved[n] = Content(u)'[proc[u].offset + n]
      BY <1>1 DEF SentIsThere
    <3>1. proc[u].offset \in Nat /\ Len(proc[u].moved) \in Nat
      BY Typed
    <3>2. proc[u].offset + n <= Len(Content(u)) /\ proc[u].moved[n] = Content(u)[proc[u].offset + n]
      BY DEF SentIsThere
    <3>3. proc[u].offset + n \in 1 .. Len(Content(u))
      BY <2>4, <3>1, <3>2
    <3>4. proc[u].offset + n <= Len(Content(u)')
      BY <2>4, <3>1, <3>2
    <3> QED
      BY <2>4, <3>2, <3>3, <3>4
  <2>8. Reads(u)'
    <3>1. disturbed'[u] # {} /\ (disturbed'[u] \subseteq {"appended"} => disturbed[u] \subseteq {"appended"})
          /\ ("overwritten" \notin disturbed'[u] => "overwritten" \notin disturbed[u])
      BY <2>1
    <3>2. proc[u].offset + proc[u].count <= Len(Content(u)) =>
            proc[u].offset + proc[u].count <= Len(Content(u)')
      <4>1. proc[u].offset + proc[u].count \in Int
        BY Typed
      <4> QED
        BY <2>4, <4>1
    <3> QED
      BY <1>1, <1>2, <2>7, <3>1, <3>2 DEF Reads, At, Runs, Counted
  <2>9. Appends(u)'
    <3>1. Places(u)' = Places(u)
      <4>1. u # "hole"
        BY Constants
      <4>2. \A n : n \in Places(u)' <=> n \in Places(u)
        BY <2>4, <4>1 DEF Places
      <4> QED
        BY <4>2
    <3>2. \A n \in Places(u) : Content(u)'[n] = Content(u)[n]
      BY <2>4 DEF Places
    <3>3. Held(u)' = Held(u)
      BY <3>1, <3>2 DEF Held
    <3>4. Moved(u)' = Moved(u)
      BY <1>1 DEF Moved
    <3>5. "overwritten" \notin disturbed'[u] => "overwritten" \notin disturbed[u]
      BY <2>1
    <3> QED
      BY <1>1, <1>2, <3>1, <3>2, <3>3, <3>4, <3>5 DEF Appends, Runs
  <2> QED
    BY <2>5, <2>6, <2>8, <2>9
<1> QED
  BY <1>4, <1>5, <1>6

LEMMA ReceiptStores ==
  ASSUME IInv, NEW t \in Transfers, NEW received \in Nat, NEW stored \in Nat,
         Receipt(t, received, stored)
  PROVE  Stores(t)'
<1> SUFFICES ASSUME Runs(t, "STOR")' PROVE Stores(t)'
  BY DEF Stores
<1>1. /\ At(t, "receiving") /\ Runs(t, "STOR") /\ proc[t].inode # NoFile
      /\ proc[t].moved \in Seq(Units) /\ disturbed'[t] = disturbed[t]
      /\ proc'[t].moved = proc[t].moved \o Chunk(t, stored) /\ proc'[t].pos = Spot(t) + stored
  BY Typed DEF Receipt, Runs
<1>2. Spot(t) = Len(proc[t].moved) /\ (disturbed[t] = {} => Content(t) = proc[t].moved)
  <2>1. Stores(t) /\ Spot(t) = proc[t].pos
    BY <1>1 DEF Spot, IInv, Alike, Runs
  <2> QED
    BY <1>1, <2>1 DEF Stores
<1>3. Len(proc'[t].moved) = Len(proc[t].moved) + stored
  <2>1. Chunk(t, stored) \in Seq(Units) /\ Len(Chunk(t, stored)) = stored
    BY ChunkFacts
  <2>2. Join(proc'[t].moved, proc[t].moved, Chunk(t, stored))
    BY <1>1, <2>1, Joined
  <2> QED
    BY <2>1, <2>2 DEF Join
<1>4. ASSUME disturbed[t] = {} PROVE Content(t)' = proc'[t].moved
  <2> DEFINE i == proc[t].inode
  <2>1. file[i] = Content(t) /\ Content(t)' = file'[i]
    BY DEF Content, Receipt
  <2>2. Spot(t) = Len(file[i])
    BY <1>2, <1>4, <2>1
  <2>3. file'[i] = file[i] \o Chunk(t, stored)
    <3>1. FileAfter(t, received, stored, i)
      BY ReceiptFile
    <3> QED
      BY <2>2, <3>1 DEF FileAfter
  <2> QED
    BY <1>1, <1>2, <1>4, <2>1, <2>3
<1> QED
  BY <1>1, <1>2, <1>3, <1>4 DEF Stores

LEMMA ReceiptAppends ==
  ASSUME IInv, NEW t \in Transfers, NEW received \in Nat, NEW stored \in Nat,
         Receipt(t, received, stored)
  PROVE  Appends(t)'
<1> SUFFICES ASSUME Runs(t, "APPE")', "overwritten" \notin disturbed'[t]
             PROVE  /\ Held(t)' = Moved(t)'
                    /\ \A m, n \in Places(t)' : m < n => Content(t)'[m].at < Content(t)'[n].at
  BY DEF Appends
<1> DEFINE i == proc[t].inode
           old == Content(t)
           new == Content(t)'
           chunk == Chunk(t, stored)
           size == Len(Content(t))
           moved == proc[t].moved
<1>1. /\ Runs(t, "APPE") /\ i # NoFile /\ i \in Inodes /\ moved \in Seq(Units)
      /\ disturbed'[t] = disturbed[t] /\ proc'[t].moved = moved \o chunk
  BY Typed DEF Receipt, Runs
<1>2. old = file[i] /\ new = file'[i]
  BY DEF Content, Receipt
<1>3. /\ old \in Seq(Units) /\ size \in Nat
      /\ new \in Seq(Units) /\ Len(new) = size + stored
      /\ \A n \in 1 .. size : new[n] = old[n]
      /\ \A n \in 1 .. stored : new[size + n] = chunk[n]
  <2>1. Spot(t) = Len(file[i])
    BY <1>1 DEF Spot, Content
  <2>2. FileAfter(t, received, stored, i)
    BY ReceiptFile
  <2> HIDE DEF i
  <2> QED
    BY <1>2, <2>1, <2>2 DEF FileAfter
<1>4. /\ chunk \in Seq(Units) /\ Len(chunk) = stored
      /\ \A n \in 1 .. stored : chunk[n].of = t /\ chunk[n].at = proc[t].taken + n
  BY ChunkFacts
<1>5. /\ Held(t) = Moved(t)
      /\ \A m, n \in Places(t) : m < n => old[m].at < old[n].at
      /\ \A n \in 1 .. size : old[n].of = t => old[n].at <= proc[t].taken
  BY <1>1 DEF IInv, Alike, Appends, Owns, Content
<1>6. proc[t].taken \in Nat /\ Len(moved) \in Nat
  BY Typed
<1>7. \A n \in 1 .. size : old[n].at \in Nat
  <2>1. \A n \in 1 .. size : old[n] \in Units
    BY <1>3
  <2> QED
    BY <2>1 DEF Units
<1>8. /\ Len(moved \o chunk) = Len(moved) + stored
      /\ \A n \in 1 .. Len(moved) : (moved \o chunk)[n] = moved[n]
      /\ \A n \in 1 .. stored : (moved \o chunk)[Len(moved) + n] = chunk[n]
  <2>1. Join(moved \o chunk, moved, chunk)
    BY <1>1, <1>4, Joined
  <2> QED
    BY <1>4, <2>1 DEF Join
<1>9. /\ Places(t) = {n \in 1 .. size : old[n].of = t}
      /\ Places(t)' = {n \in 1 .. Len(new) : new[n].of = t}
      /\ Held(t) = {old[n] : n \in Places(t)} /\ Held(t)' = {new[n] : n \in Places(t)'}
      /\ Moved(t) = {moved[n] : n \in 1 .. Len(moved)}
      /\ Moved(t)' = {(moved \o chunk)[n] : n \in 1 .. Len(moved \o chunk)}
  BY <1>1 DEF Places, Held, Moved
<1> HIDE DEF i, old, new, chunk, size, moved
<1>10. \A n \in 1 .. size + stored : n \in 1 .. size \/ (n - size \in 1 .. stored /\ size + (n - size) = n)
  BY <1>3
<1>11. \A n \in Places(t)' : \/ n \in Places(t) /\ new[n] = old[n]
                             \/ /\ n > size /\ n - size \in 1 .. stored
                                /\ new[n] = chunk[n - size]
  <2> SUFFICES ASSUME NEW n \in Places(t)'
               PROVE  \/ n \in Places(t) /\ new[n] = old[n]
                      \/ n > size /\ n - size \in 1 .. stored /\ new[n] = chunk[n - size]
    OBVIOUS
  <2>1. n \in 1 .. size + stored /\ new[n].of = t
    BY <1>3, <1>9
  <2>2. CASE n \in 1 .. size
    BY <1>3, <1>9, <2>1, <2>2
  <2>3. CASE n - size \in 1 .. stored /\ size + (n - size) = n
    <3>1. new[size + (n - size)] = chunk[n - size]
      BY <1>3, <2>3
    <3>2. n > size
      BY <1>3, <2>1, <2>3
    <3> QED
      BY <2>3, <3>1, <3>2
  <2> QED
    BY <1>10, <2>1, <2>2, <2>3
<1>12. Places(t) \subseteq Places(t)' /\ \A n \in Places(t) : new[n] = old[n] /\ n <= size
  BY <1>3, <1>9
<1>13. ASSUME NEW n \in 1 .. stored PROVE size + n \in Places(t)'
  <2>1. size + n \in 1 .. Len(new) /\ new[size + n] = chunk[n]
    BY <1>3
  <2> QED
    BY <1>4, <1>9, <2>1
<1>14. \A v : v \in Held(t)' <=> v \in Held(t) \/ \E n \in 1 .. stored : v = chunk[n]
  <2>1. ASSUME NEW v, v \in Held(t)' PROVE v \in Held(t) \/ \E n \in 1 .. stored : v = chunk[n]
    <3>1. PICK n \in Places(t)' : v = new[n]
      BY <1>9, <2>1
    <3> QED
      BY <1>9, <1>11, <3>1
  <2>2. ASSUME NEW v, v \in Held(t) PROVE v \in Held(t)'
    BY <1>9, <1>12, <2>2
  <2>3. ASSUME NEW n \in 1 .. stored PROVE chunk[n] \in Held(t)'
    <3>1. new[size + n] = chunk[n]
      BY <1>3
    <3>2. size + n \in Places(t)'
      BY <1>13
    <3> QED
      BY <1>9, <3>1, <3>2
  <2> QED
    BY <2>1, <2>2, <2>3
<1>15. \A v : v \in Moved(t)' <=> v \in Moved(t) \/ \E n \in 1 .. stored : v = chunk[n]
  <2>1. ASSUME NEW v, v \in Moved(t)' PROVE v \in Moved(t) \/ \E n \in 1 .. stored : v = chunk[n]
    <3>1. PICK n \in 1 .. Len(moved) + stored : v = (moved \o chunk)[n]
      BY <1>8, <1>9, <2>1
    <3>2. CASE n \in 1 .. Len(moved)
      BY <1>8, <1>9, <3>1, <3>2
    <3>3. CASE n > Len(moved)
      <4>1. n - Len(moved) \in 1 .. stored /\ Len(moved) + (n - Len(moved)) = n
        <5>1. Len(moved) \in Nat /\ stored \in Nat
          BY <1>3, <1>6 DEF moved
        <5> QED
          BY <3>1, <3>3, <5>1
      <4>2. (moved \o chunk)[Len(moved) + (n - Len(moved))] = chunk[n - Len(moved)]
        BY <1>8, <4>1
      <4> QED
        BY <3>1, <4>1, <4>2
    <3>4. n \in 1 .. Len(moved) \/ n > Len(moved)
      BY <1>6, <3>1 DEF moved
    <3> QED
      BY <3>2, <3>3, <3>4
  <2>2. ASSUME NEW v, v \in Moved(t) PROVE v \in Moved(t)'
    <3>1. PICK n \in 1 .. Len(moved) : v = moved[n]
      BY <1>9, <2>2
    <3>2. n \in 1 .. Len(moved \o chunk) /\ (moved \o chunk)[n] = v
      BY <1>6, <1>8, <3>1 DEF moved
    <3> QED
      BY <1>9, <3>2
  <2>3. ASSUME NEW n \in 1 .. stored PROVE chunk[n] \in Moved(t)'
    <3>1. Len(moved) + n \in 1 .. Len(moved \o chunk) /\ (moved \o chunk)[Len(moved) + n] = chunk[n]
      BY <1>6, <1>8 DEF moved
    <3> QED
      BY <1>9, <3>1
  <2> QED
    BY <2>1, <2>2, <2>3
<1>16. Held(t)' = Moved(t)'
  BY <1>5, <1>14, <1>15
<1>17. ASSUME NEW m \in Places(t)', NEW n \in Places(t)', m < n PROVE new[m].at < new[n].at
  <2>1. m \in Nat /\ n \in Nat
    BY <1>3, <1>9
  <2>2. CASE n \in Places(t) /\ new[n] = old[n]
    <3>1. m \in Places(t)
      BY <1>3, <1>11, <1>12, <1>17, <2>1, <2>2
    <3> QED
      BY <1>5, <1>12, <1>17, <2>2, <3>1
  <2>3. CASE n > size /\ n - size \in 1 .. stored /\ new[n] = chunk[n - size]
    <3>1. new[n].at = proc[t].taken + (n - size)
      BY <1>4, <2>3
    <3>2. CASE m \in Places(t) /\ new[m] = old[m]
      <4>1. old[m].at \in Nat /\ old[m].at <= proc[t].taken
        BY <1>5, <1>7, <1>9, <3>2
      <4> QED
        BY <1>3, <1>6, <2>1, <2>3, <3>1, <3>2, <4>1
    <3>3. CASE m > size /\ m - size \in 1 .. stored /\ new[m] = chunk[m - size]
      <4>1. new[m].at = proc[t].taken + (m - size)
        BY <1>4, <3>3
      <4> QED
        BY <1>3, <1>6, <1>17, <2>1, <3>1, <4>1
    <3> QED
      BY <1>11, <3>2, <3>3
  <2> QED
    BY <1>11, <2>2, <2>3
<1> QED
  BY <1>16, <1>17 DEF new

LEMMA ReceiveChunkInv ==
  ASSUME IInv, NEW t \in Transfers, ReceiveChunk(t)
  PROVE  IInv'
<1>1. TypeOK' /\ \E received, stored \in Nat : Receipt(t, received, stored)
  BY ReceiptIs
<1>2. PICK received \in Nat, stored \in Nat : Receipt(t, received, stored)
  BY <1>1
<1>3. ASSUME NEW u \in Transfers PROVE Phase(u)' /\ Reads(u)' /\ Stores(u)' /\ Appends(u)'
  <2>1. CASE u = t
    <3>1. Phase(t)' /\ Reads(t)'
      BY <1>2 DEF Receipt, Phase, Reads, At, Runs, IInv, Alike
    <3> QED
      BY <1>2, <2>1, <3>1, ReceiptStores, ReceiptAppends
  <2>2. CASE u # t
    BY <1>2, <2>2, ReceiptOthers
  <2> QED
    BY <2>1, <2>2
<1>4. ASSUME NEW u \in Transfers PROVE Linked(u)' /\ Owns(u)'
  <2>1. path' = path /\ proc'[u].inode = proc[u].inode
        /\ ("removed" \in disturbed[u] => "removed" \in disturbed'[u])
    BY <1>2 DEF Receipt
  <2>2. Linked(u)'
    BY <2>1 DEF IInv, Alike, Linked
  <2> QED
    BY <1>2, <2>2, ReceiptOwns
<1>5. OldKept'
  <2> SUFFICES ASSUME \A u \in Transfers : Runs(u, "STOR")' => proc'[u].inode # "old"
               PROVE  Len(file'["old"]) >= OldSize
                      /\ \A n \in 1 .. OldSize : file'["old"][n] = Old[n]
    BY DEF OldKept
  <2>1. \A u \in Transfers : Runs(u, "STOR") => proc[u].inode # "old"
    BY <1>2 DEF Receipt, Runs
  <2>2. Len(file["old"]) >= OldSize /\ \A n \in 1 .. OldSize : file["old"][n] = Old[n]
    BY <2>1 DEF IInv, OldKept
  <2>3. CASE proc[t].inode # "old"
    BY <1>2, <2>2, <2>3, Constants DEF Receipt
  <2>4. CASE proc[t].inode = "old"
    <3>1. Spot(t) = Len(file["old"])
      BY <1>2, <2>1, <2>4 DEF Receipt, Spot, Runs, Content
    <3>2. /\ Len(file["old"]) \in Nat /\ Len(file'["old"]) = Len(file["old"]) + stored
          /\ \A n \in 1 .. Len(file["old"]) : file'["old"][n] = file["old"][n]
      <4>1. FileAfter(t, received, stored, "old")
        BY <1>2, <2>4, ReceiptFile
      <4> QED
        BY <3>1, <4>1 DEF FileAfter
    <3>3. \A n \in 1 .. OldSize : n \in 1 .. Len(file["old"])
      BY <2>2, <3>2, Constants
    <3> QED
      BY <2>2, <3>2, <3>3, Constants
  <2> QED
    BY <2>3, <2>4
<1> QED
  BY <1>1, <1>3, <1>4, <1>5 DEF IInv, Alike

-----------------------------------------------------------------------------
LEMMA NextInv == IInv /\ [Next]_vars => IInv'
<1> SUFFICES ASSUME IInv, [Next]_vars PROVE IInv'
  OBVIOUS
<1>1. CASE UNCHANGED vars
  <2>1. path' = path /\ file' = file /\ proc' = proc /\ disturbed' = disturbed
    BY <1>1 DEF vars
  <2>2. TypeOK' /\ OldKept'
    BY <2>1 DEF IInv, TypeOK, OldKept, Runs
  <2>3. ASSUME NEW u \in Transfers PROVE Alike(u)'
    <3>1. Phase(u)' /\ Reads(u)' /\ Stores(u)' /\ Appends(u)'
      BY <2>1, SameFile DEF IInv, Alike
    <3>2. Linked(u)' /\ Owns(u)'
      BY <2>1 DEF IInv, Alike, Linked, Owns
    <3> QED
      BY <3>1, <3>2 DEF Alike
  <2> QED
    BY <2>2, <2>3 DEF IInv
<1>2. CASE HandleDele
  BY <1>2, HandleDeleInv
<1>3. CASE \E t \in Transfers : TransferStep(t)
  <2>1. PICK t \in Transfers : TransferStep(t)
    BY <1>3
  <2> QED
    BY <2>1, RefusesInv, StatFileInv, OpenToReadInv, CheckOffsetInv, MeasureInv, SendChunkInv,
       SendDoneInv, OpenToStoreInv, OpenToAppendInv, ReceiveChunkInv DEF TransferStep
<1> QED
  BY <1>1, <1>2, <1>3 DEF Next

\* In every state every transfer is alike in what it may claim, whatever the others do.
THEOREM Invariant == Spec => []IInv
BY InitInv, NextInv, PTL DEF Spec

\* Every process and every inode has the types of the C variables.
THEOREM TransferTyped == Spec => []TypeOK
<1>1. IInv => TypeOK
  BY DEF IInv
<1> QED
  BY <1>1, Invariant, PTL

\* What RETR has sent is one contiguous piece of the file it opened, from the restart
\* point on; and a 226 covers what was counted, and all of the file if nobody touched it.
THEOREM TransferDelivers == Spec => []RetrDeliversFile
<1>1. IInv => RetrDeliversFile
  <2> SUFFICES ASSUME IInv, NEW t \in Transfers, Runs(t, "RETR"), proc[t].inode # NoFile,
                      "overwritten" \notin disturbed[t]
               PROVE  /\ SentIsThere(t)
                      /\ proc[t].reply = "226" /\ disturbed[t] \subseteq {"appended"} =>
                           /\ Len(proc[t].moved) >= proc[t].count
                           /\ disturbed[t] = {} =>
                                proc[t].offset + Len(proc[t].moved) = Len(Content(t))
    BY DEF RetrDeliversFile, SentIsThere
  <2> QED
    BY DEF IInv, Alike, Reads
<1> QED
  BY <1>1, Invariant, PTL

\* APPE loses nothing: its file holds every unit it stored there and no other of its
\* units, in order, and an old file still starts with what it held.
THEOREM TransferAppends == Spec => []AppeKeepsAll
<1>1. IInv => AppeKeepsAll
  <2> SUFFICES ASSUME IInv PROVE AppeKeepsAll
    OBVIOUS
  <2>1. ASSUME NEW t \in Transfers PROVE Appends(t)
    BY DEF IInv, Alike
  <2>2. ASSUME \A t \in Transfers : Runs(t, "STOR") => proc[t].inode # "old"
        PROVE  SubSeq(file["old"], 1, OldSize) = Old
    <3>1. /\ Len(file["old"]) >= OldSize /\ \A n \in 1 .. OldSize : file["old"][n] = Old[n]
          /\ file["old"] \in Seq(Units)
      BY <2>2, Constants DEF IInv, OldKept, TypeOK
    <3>2. Old \in Seq(Units) /\ Len(Old) = OldSize /\ OldSize \in Nat
      BY OldTyped, Constants
    <3>3. /\ SubSeq(file["old"], 1, OldSize) \in Seq(Units)
          /\ Len(SubSeq(file["old"], 1, OldSize)) = OldSize
          /\ \A n \in 1 .. OldSize : SubSeq(file["old"], 1, OldSize)[n] = file["old"][n]
      BY <3>1, <3>2
    <3> QED
      BY <3>1, <3>2, <3>3
  <2> QED
    BY <2>1, <2>2 DEF AppeKeepsAll, Appends, Held, Moved
<1> QED
  BY <1>1, Invariant, PTL

\* A file nobody else touches is exactly what STOR has written, and the path leads to it.
THEOREM TransferReplaces == Spec => []StorReplacesFile
<1>1. IInv => StorReplacesFile
  BY DEF IInv, Alike, Stores, Linked, StorReplacesFile
<1> QED
  BY <1>1, Invariant, PTL
=============================================================================
