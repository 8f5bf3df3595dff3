----------------------------- MODULE ServerSystem -----------------------------
(***************************************************************************)
(* The server as a whole, seen from its disk and its clients' connections: *)
(* the accept loop of Server forks the sessions whose commands Namespace   *)
(* models, one for each connection, and these fork the transfers.  A       *)
(* session exists from fork() on, in the root directory, and its commands  *)
(* stop with it, between any two of them; its transfers go on.             *)
(***************************************************************************)
EXTENDS Namespace, Server

\* The session of a connection has its name, and LIST runs in a transfer.
ASSUME ServerSystemAssumption == Sessions = Conns /\ Listers \subseteq Transfers

systemVars == <<vars, serverVars>>

SystemInit == Init /\ ServerInit

\* A session that has started runs its commands.
SessionRuns(s) == Serving(s) /\ SessionStep(s) /\ UNCHANGED serverVars

\* A session ends where it waits for a command, or where it replies to one.
SessionEnds(s) ==
  /\ EndSession(s) /\ doing[s].cmd \in {"none", "RMD done"}
  /\ doing' = [doing EXCEPT ![s] = Idle]
  /\ current_dir' = [current_dir EXCEPT ![s] = Root]
  /\ lost' = [lost EXCEPT ![s] = "no"]
  /\ UNCHANGED <<tree, list>>

\* A session forks for RETR, STOR, APPE and LIST when it has no other command.
SessionForks(s, t) == Ready(s) /\ ForkTransfer(s, t) /\ UNCHANGED vars

\* With its data connection a transfer opens what it works on.  RETR, and what
\* cannot be opened, leave the tree alone.
TransferStarts(t) ==
  /\ BeginTransfer(t)
  /\ \/ t \in Listers /\ (OpenList(t) \/ ListFile(t))
     \/ t \notin Listers /\ StoreFile
     \/ UNCHANGED vars

TransferRuns(t) ==
  /\ transfer[t].pc = "running" /\ t \in Listers
  /\ ListEntry(t) \/ ListEnds(t) \/ ListFails(t)
  /\ UNCHANGED serverVars

TransferEnds(t) ==
  /\ EndTransfer(t)
  /\ t \in Listers => list[t].pc # "reading"
  /\ UNCHANGED vars

LoopRuns ==
  /\ \/ ServerLoop
     \/ \E s \in Sessions : Connect(s) \/ StartSession(s)
  /\ UNCHANGED vars

SystemNext ==
  \/ \E s \in Sessions : SessionRuns(s) \/ SessionEnds(s) \/ \E t \in Transfers : SessionForks(s, t)
  \/ \E t \in Transfers : TransferStarts(t) \/ TransferRuns(t) \/ TransferEnds(t)
  \/ LoopRuns

SystemSpec == SystemInit /\ [][SystemNext]_systemVars
=============================================================================
