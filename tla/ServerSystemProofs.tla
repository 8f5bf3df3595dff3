-------------------------- MODULE ServerSystemProofs --------------------------
(***************************************************************************)
(* What is proved of the accept loop holds of the server as a whole: the   *)
(* commands leave its variables alone.  What is proved of the shared tree  *)
(* holds too: the accept loop leaves it alone, and a session that ends     *)
(* leaves the tree, and no directory lost.                                 *)
(***************************************************************************)
EXTENDS ServerSystem, NamespaceProofs, ServerProofs

\* Every step of the system is one of the accept loop, or none.
LEMMA StepsMap == [SystemNext]_systemVars => [ServerNext]_serverVars
<1> SUFFICES ASSUME [SystemNext]_systemVars PROVE [ServerNext]_serverVars
  OBVIOUS
<1>1. ASSUME NEW s \in Sessions, SessionRuns(s) PROVE UNCHANGED serverVars
  BY <1>1 DEF SessionRuns
<1>2. ASSUME NEW s \in Sessions, SessionEnds(s) PROVE ServerNext
  BY <1>2, ServerSystemAssumption DEF SessionEnds, ServerNext, ServerSystemAssumption
<1>3. ASSUME NEW s \in Sessions, NEW t \in Transfers, SessionForks(s, t) PROVE ServerNext
  BY <1>3, ServerSystemAssumption DEF SessionForks, ServerNext, ServerSystemAssumption
<1>4. ASSUME NEW t \in Transfers, TransferStarts(t) \/ TransferEnds(t) PROVE ServerNext
  BY <1>4 DEF TransferStarts, TransferEnds, ServerNext
<1>5. ASSUME NEW t \in Transfers, TransferRuns(t) PROVE UNCHANGED serverVars
  BY <1>5 DEF TransferRuns
<1>6. CASE LoopRuns
  BY <1>6, ServerSystemAssumption DEF LoopRuns, ServerNext, ServerSystemAssumption
<1>7. CASE UNCHANGED systemVars
  BY <1>7 DEF systemVars
<1> QED
  BY <1>1, <1>2, <1>3, <1>4, <1>5, <1>6, <1>7 DEF SystemNext

LEMMA SystemImplementsServer == SystemSpec => ServerSpec
<1>1. SystemInit => ServerInit
  BY DEF SystemInit
<1> QED
  BY <1>1, StepsMap, PTL DEF SystemSpec, ServerSpec

\* Each session and each transfer has its own client's connection and no other,
\* whatever commands it and the others run.
THEOREM SystemConnectionsApart == SystemSpec => []OwnConnectionOnly
BY SystemImplementsServer, ConnectionsApart, PTL

\* No connection outlives its session and the transfers that session forked.
THEOREM SystemConnectionsEnd == SystemSpec => []NobodyKeepsConnection
BY SystemImplementsServer, ConnectionsEnd, PTL

-----------------------------------------------------------------------------
(* The tree and the sessions' directories.                                 *)

\* Every step is one of the tree, none to it, or the end of a session.
LEMMA TreeSteps ==
  [SystemNext]_systemVars => Next \/ UNCHANGED vars \/ \E s \in Sessions : SessionEnds(s)
<1> SUFFICES ASSUME [SystemNext]_systemVars
             PROVE  Next \/ UNCHANGED vars \/ \E s \in Sessions : SessionEnds(s)
  OBVIOUS
<1>1. ASSUME NEW s \in Sessions, SessionRuns(s) PROVE Next
  BY <1>1 DEF SessionRuns, Next
<1>2. ASSUME NEW s \in Sessions, NEW t \in Transfers, SessionForks(s, t) PROVE UNCHANGED vars
  BY <1>2 DEF SessionForks
<1>3. ASSUME NEW t \in Transfers, TransferStarts(t) PROVE Next \/ UNCHANGED vars
  BY <1>3 DEF TransferStarts, Next, TransferStep, ListStep
<1>4. ASSUME NEW t \in Transfers, TransferRuns(t) PROVE Next
  BY <1>4 DEF TransferRuns, Next, TransferStep, ListStep
<1>5. ASSUME NEW t \in Transfers, TransferEnds(t) PROVE UNCHANGED vars
  BY <1>5 DEF TransferEnds
<1>6. CASE LoopRuns \/ UNCHANGED systemVars
  BY <1>6 DEF LoopRuns, systemVars
<1> QED
  BY <1>1, <1>2, <1>3, <1>4, <1>5, <1>6 DEF SystemNext

LEMMA SessionEndsInv == ASSUME LInv, NEW s \in Sessions, SessionEnds(s) PROVE LInv'
<1>1. /\ doing' = [doing EXCEPT ![s] = Idle] /\ current_dir' = [current_dir EXCEPT ![s] = Root]
      /\ lost' = [lost EXCEPT ![s] = "no"] /\ UNCHANGED <<tree, list>>
  BY DEF SessionEnds
<1>2. Tree'
  BY <1>1 DEF LInv, NInv, Tree, tree
<1>3. AtWork'
  BY <1>1, IdleIsWork, WorkChanges DEF LInv, NInv
<1>4. Types'
  BY <1>1 DEF LInv, NInv, Types, Reasons
<1>5. Inside'
  <2>1. Root \in Near
    BY RootFacts DEF Near, InRoot, StringPrefix, IsPrefix
  <2> QED
    BY <1>1, <2>1 DEF LInv, NInv, Inside
<1>6. Losses'
  <2>1. ASSUME NEW c \in Sessions, c # s
        PROVE  current_dir'[c] = current_dir[c] /\ lost'[c] = lost[c] /\ doing'[c] = doing[c]
    BY <1>1, <2>1 DEF LInv, NInv, AtWork, Types, Inside
  <2>2. current_dir'[s] \in dirs' /\ lost'[s] = "no" /\ dirs' = dirs
    BY <1>1, TreePaths DEF LInv, NInv, Types, Inside, tree
  <2>3. ASSUME NEW c \in Sessions
        PROVE  /\ current_dir'[c] \in dirs' <=> lost'[c] = "no"
               /\ lost'[c] = "RMD" /\ InsideRoot(current_dir'[c]) =>
                    doing'[c].cmd \in {"RMD", "RMD done"} /\ IsPrefix(doing'[c].target, current_dir'[c])
    <3>1. CASE c = s
      BY <2>2, <3>1
    <3>2. CASE c # s
      BY <2>1, <2>2, <3>2 DEF LInv, Losses
    <3> QED
      BY <3>1, <3>2
  <2> QED
    BY <2>3 DEF Losses
<1> QED
  BY <1>2, <1>3, <1>4, <1>5, <1>6 DEF LInv, NInv

LEMMA SystemLInv == SystemSpec => []LInv
<1>1. SystemInit => LInv
  BY InitLInv DEF SystemInit
<1>2. LInv /\ [SystemNext]_systemVars => LInv'
  <2> SUFFICES ASSUME LInv, [SystemNext]_systemVars PROVE LInv'
    OBVIOUS
  <2> QED
    BY TreeSteps, NextLosses, StutterLInv, SessionEndsInv
<1> QED
  BY <1>1, <1>2, PTL DEF SystemSpec

\* In the server as a whole too, the tree stays one, and what the sessions work on
\* passes their test,
THEOREM SystemTreeKept == SystemSpec => []TypeOK
BY SystemLInv, TypesFollow, PTL

\* a session leaves the inside of the root by its own CWD only,
THEOREM SystemRootLeftByCwd == SystemSpec => LeavesRootByCwd
<1>1. LInv /\ [SystemNext]_systemVars => [Leaves]_vars
  <2> SUFFICES ASSUME LInv, [SystemNext]_systemVars PROVE Leaves \/ UNCHANGED vars
    OBVIOUS
  <2>1. ASSUME NEW s \in Sessions, SessionEnds(s) PROVE Leaves
    <3>1. current_dir' = [current_dir EXCEPT ![s] = Root]
      BY <2>1 DEF SessionEnds
    <3>2. IsPrefix(Root, Root) <=> Len(Root) <= Len(Root) /\ \A k \in 1 .. Len(Root) : Root[k] = Root[k]
      BY RootFacts, PrefixElements
    <3>3. InsideRoot(Root)
      BY <3>2, RootFacts DEF InsideRoot
    <3> QED
      BY <3>1, <3>3, StaysOrLeaves DEF LInv
  <2> QED
    BY <2>1, TreeSteps, NextLeaves DEF LInv
<1>2. [][Leaves]_vars => LeavesRootByCwd
  BY PTL DEF LeavesRootByCwd, Leaves
<1> QED
  BY <1>1, <1>2, SystemLInv, PTL DEF SystemSpec

\* and a completed RMD never leaves its own session, inside the root, in what it
\* removed.
THEOREM SystemOwnRmdSpares == SystemSpec => []LostOnlyToOthers
BY SystemLInv, LossesExplained, PTL

\* Whatever a client names, MKD and the other commands find the same path,
THEOREM SystemResolvesAlike == SystemSpec => []BothResolveAlike
BY SystemLInv, ArgumentsAlike, PTL

\* and a listing that ends with 226 has told every entry that was there all the
\* time, also when its session has ended meanwhile.
THEOREM SystemListingsTell == SystemSpec => ListTells
<1>1. TInv /\ [SystemNext]_systemVars => Telling' /\ Tells
  <2> SUFFICES ASSUME TInv, [SystemNext]_systemVars PROVE Telling' /\ Tells
    OBVIOUS
  <2>1. ASSUME NEW s \in Sessions, SessionEnds(s) PROVE Telling' /\ Tells
    BY <2>1, StutterTells DEF SessionEnds
  <2>2. CASE UNCHANGED vars
    BY <2>2, StutterTells DEF vars, tree
  <2> QED
    BY <2>1, <2>2, TreeSteps, NextTells
<1>2. SystemInit => TInv
  BY InitTInv DEF SystemInit
<1>3. LInv => NInv
  BY DEF LInv
<1>4. TInv <=> NInv /\ Telling
  BY DEF TInv
<1>5. [][Tells]_vars => ListTells
  BY PTL DEF ListTells, Tells
<1>6. TInv /\ [SystemNext]_systemVars => [Tells]_vars
  BY <1>1
<1> QED
  BY <1>1, <1>2, <1>3, <1>4, <1>5, <1>6, SystemLInv, PTL DEF SystemSpec
=============================================================================
