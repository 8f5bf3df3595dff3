------------------------------ MODULE Namespace ------------------------------
(***************************************************************************)
(* The directory tree the sessions share, the current directory each keeps *)
(* as a string, and the commands that read or change them: CWD, PWD, MKD,  *)
(* RMD, DELE, LIST (commands.c) with resolve_path, get_basename and        *)
(* remove_callback (utils.c).                                              *)
(*                                                                         *)
(* A path is the sequence of its names, from the top of the disk.  CWD and *)
(* DELE look at the tree once: they are one step.  MKD runs mkdir -p, RMD  *)
(* walks a directory with nftw() and LIST reads one entry by entry: each   *)
(* system call of theirs is a step, and other sessions come in between.    *)
(***************************************************************************)
EXTENDS Integers, SequencesExt

CONSTANTS
  Sessions,      \* the session processes
  Listers,       \* the transfer processes that run LIST, each once
  Root,          \* the -root argument: an absolute path of an existing directory
  Nodes,         \* bound: the paths besides Root and those it lies in that may ever exist
  Movers,        \* bound: the sessions whose client ever sends CWD
  Arguments,     \* what clients name in a command: absolute or not, and the names
  Begins         \* <<m, n>>: the name m, as a string, is the start of another name n

ASSUME NamespaceAssumption ==
  /\ Root \in Seq(STRING) \ {<<>>} /\ \A n \in 1 .. Len(Root) : Root[n] # ""
  /\ Nodes \subseteq Seq(STRING) \ {<<>>}
  /\ \A path \in Nodes :
       /\ ~IsPrefix(path, Root) /\ Last(path) # ""
       /\ Front(path) \in Nodes \/ IsPrefix(Front(path), Root)
  /\ Movers \subseteq Sessions
  /\ Arguments \subseteq [absolute : BOOLEAN, names : Seq(STRING)]

VARIABLES
  dirs,          \* the directories there are
  files,         \* the files there are
  current_dir,   \* data_conn.current_dir of each session
  doing,         \* the command a session is in the middle of
  lost,          \* history: what took away the directory a session is in
  list           \* the LIST processes

vars == <<dirs, files, current_dir, doing, lost, list>>
tree == <<dirs, files>>

-----------------------------------------------------------------------------
(* Paths.                                                                  *)

NULL == <<"">>       \* no path has an empty name
Exists(path) == path \in dirs \cup files
Children(path) == {child \in dirs \cup files : child # <<>> /\ Front(child) = path}

\* strncmp(q, p, strlen(p)) == 0: the last name of p may end inside a name of q.
StringPrefix(p, q) ==
  \/ IsPrefix(p, q)
  \/ /\ p # <<>> /\ Len(p) <= Len(q)
     /\ Front(p) = SubSeq(q, 1, Len(p) - 1)
     /\ <<Last(p), q[Len(p)]>> \in Begins

\* The handlers' test of a path, which lets pass what lies beside the root and has
\* a name that starts like the root's.
InRoot(path) == StringPrefix(Root, path)

\* The path a handler builds from its argument.
FullPath(dir, arg) == (IF arg.absolute THEN Root ELSE dir) \o arg.names

Up(path) == IF path = <<>> THEN path ELSE Front(path)

\* realpath(): names are looked up one after the other, and each must exist.
Lookup(path, name) ==
  CASE path \in dirs /\ name = "." -> path
    [] path \in dirs /\ name = ".." -> Up(path)
    [] path \in dirs /\ name \notin {".", ".."} /\ Exists(Append(path, name)) -> Append(path, name)
    [] OTHER -> NULL

realpath(path) ==
  LET upTo[n \in 0 .. Len(path)] == IF n = 0 THEN <<>> ELSE Lookup(upTo[n - 1], path[n])
  IN upTo[Len(path)]

\* Fault: ".." is skipped like ".".
StepResolveFlat(path, name) == IF name \in {".", ".."} THEN path ELSE Append(path, name)

\* resolve_path() does the same to the string, whatever exists.
StepResolve(path, name) ==
  CASE name = "." -> path
    [] name = ".." -> Up(path)
    [] OTHER -> Append(path, name)

resolve_path(path) ==
  LET upTo[n \in 0 .. Len(path)] == IF n = 0 THEN <<>> ELSE StepResolve(upTo[n - 1], path[n])
  IN upTo[Len(path)]

-----------------------------------------------------------------------------
Idle == [cmd |-> "none", target |-> <<>>, made |-> 0]
NoList == [pc |-> "unborn", dir |-> <<>>, returned |-> {}, untold |-> {}]

Init ==
  /\ dirs = {SubSeq(Root, 1, n) : n \in 0 .. Len(Root)} /\ files = {}
  /\ current_dir = [s \in Sessions |-> Root]
  /\ doing = [s \in Sessions |-> Idle]
  /\ lost = [s \in Sessions |-> "no"]
  /\ list = [l \in Listers |-> NoList]

\* The path an argument names, for a session with nothing else to do.
Named(s) == {realpath(FullPath(current_dir[s], arg)) : arg \in Arguments} \ {NULL}
Ready(s) == doing[s] = Idle

\* The tree changes by the hand of session or transfer p.  Sessions that lose
\* their directory remember to whom, and an open listing need not return what is
\* gone or was not there when it began.
Rebuild(p, newDirs, newFiles) ==
  /\ dirs' = newDirs /\ files' = newFiles
  /\ lost' = [s \in Sessions |->
       CASE current_dir[s] \in newDirs -> "no"
         [] current_dir[s] \in dirs \ newDirs -> IF s = p.by THEN p.cmd ELSE "other"
         [] OTHER -> lost[s]]
  /\ list' = [l \in Listers |->
       [list[l] EXCEPT !.untold =
          {name \in @ : Append(list[l].dir, name) \in newDirs \cup newFiles}]]

Unlink(p, path) == Rebuild(p, dirs \ {path}, files \ {path})
Mkdir(p, path) == Rebuild(p, dirs \cup {path}, files)

-----------------------------------------------------------------------------
(* CWD and DELE.                                                           *)

\* Fault: no test of the path.
HandleCwdAnywhere(s) ==
  /\ Ready(s) /\ s \in Movers
  /\ \E path \in Named(s) :
        /\ path \in dirs
        /\ current_dir' = [current_dir EXCEPT ![s] = path]
  /\ lost' = [lost EXCEPT ![s] = "no"]
  /\ UNCHANGED <<tree, doing, list>>

HandleCwd(s) ==
  /\ Ready(s) /\ s \in Movers
  /\ \E path \in Named(s) :
        /\ InRoot(path) /\ path \in dirs
        /\ current_dir' = [current_dir EXCEPT ![s] = path]
  /\ lost' = [lost EXCEPT ![s] = "no"]
  /\ UNCHANGED <<tree, doing, list>>

\* remove() unlinks a file, and removes a directory that is empty.
HandleDele(s) ==
  /\ Ready(s)
  /\ \E path \in Named(s) :
        /\ InRoot(path) /\ path # Root
        /\ Children(path) = {}
        /\ Unlink([by |-> s, cmd |-> "DELE"], path)
  /\ UNCHANGED <<current_dir, doing>>

-----------------------------------------------------------------------------
(* MKD.                                                                    *)

\* Above the root, mkdir -p finds every name.
HandleMkd(s) ==
  /\ Ready(s)
  /\ \E arg \in Arguments :
       LET path == resolve_path(FullPath(current_dir[s], arg)) IN
         /\ InRoot(path) /\ path # Root
         /\ doing' = [doing EXCEPT ![s] = [cmd |-> "MKD", target |-> path, made |-> Len(Root) - 1]]
  /\ UNCHANGED <<tree, current_dir, lost, list>>

\* mkdir -p makes the next name on the way, as far as Nodes go, or finds it.
MkdirNext(s) ==
  LET target == doing[s].target
      next == SubSeq(target, 1, doing[s].made + 1) IN
  /\ doing[s].cmd = "MKD" /\ doing[s].made < Len(target)
  /\ \/ next \in dirs /\ UNCHANGED <<tree, lost, list>>
     \/ /\ next \in Nodes /\ ~Exists(next) /\ Front(next) \in dirs
        /\ Mkdir([by |-> s, cmd |-> "MKD"], next)
  /\ doing' = [doing EXCEPT ![s].made = @ + 1]
  /\ UNCHANGED current_dir

\* 257, or 550 when a name on the way is a file, is gone again, is refused or has
\* no room.
MkdEnds(s) ==
  /\ doing[s].cmd = "MKD"
  /\ doing' = [doing EXCEPT ![s] = Idle]
  /\ UNCHANGED <<tree, current_dir, lost, list>>

-----------------------------------------------------------------------------
(* RMD.                                                                    *)

\* Fault: no test for the root itself.
HandleRmdRoot(s) ==
  /\ Ready(s)
  /\ \E path \in Named(s) :
        /\ InRoot(path) /\ path \in dirs
        /\ doing' = [doing EXCEPT ![s] = [cmd |-> "RMD", target |-> path, made |-> 0]]
  /\ UNCHANGED <<tree, current_dir, lost, list>>

HandleRmd(s) ==
  /\ Ready(s)
  /\ \E path \in Named(s) :
        /\ InRoot(path) /\ path # Root /\ path \in dirs
        /\ doing' = [doing EXCEPT ![s] = [cmd |-> "RMD", target |-> path, made |-> 0]]
  /\ UNCHANGED <<tree, current_dir, lost, list>>

\* nftw() calls remove_callback for what is in a directory before the directory.
\* What another session has put there meanwhile it may meet or not.
RemoveCallback(s) ==
  /\ doing[s].cmd = "RMD"
  /\ \E path \in dirs \cup files :
        /\ IsPrefix(doing[s].target, path)
        /\ Children(path) = {}
        /\ Unlink([by |-> s, cmd |-> "RMD"], path)
        /\ doing' = IF path = doing[s].target
                    THEN [doing EXCEPT ![s].cmd = "RMD done"] ELSE doing
  /\ UNCHANGED current_dir

\* A remove() fails: no permission, a directory that is not empty after all, or
\* an entry that is gone.  nftw() stops, and what it removed stays removed.
RmdFails(s) ==
  /\ doing[s].cmd = "RMD"
  /\ doing' = [doing EXCEPT ![s] = Idle]
  /\ lost' = [lost EXCEPT ![s] = IF @ = "RMD" THEN "RMD that failed" ELSE @]
  /\ UNCHANGED <<tree, current_dir, list>>

\* What is left of dir, cut at its last slash as long as it is a longer string than
\* the root: Root, and the directory Root lies in, are not cut.  "" is none.
Cuts(dir) ==
  {n \in 1 .. Len(dir) - 1 :
     LET part == SubSeq(dir, 1, n + 1) IN InRoot(part) /\ part # Root}

\* The first of these that access() finds; dir itself when it finds none.
ClosestExistingParent(dir) ==
  LET found == {n \in Cuts(dir) : Exists(SubSeq(dir, 1, n))} IN
  IF found = {} THEN dir ELSE SubSeq(dir, 1, Max(found))

\* Fault: the directory is taken for the parent without access().
RmdAdjustUnchecked(s) ==
  /\ doing[s].cmd = "RMD done"
  /\ IF StringPrefix(doing[s].target, current_dir[s])
     THEN current_dir' = [current_dir EXCEPT ![s] = Front(@)]
     ELSE UNCHANGED current_dir
  /\ lost' = [lost EXCEPT ![s] = IF current_dir'[s] \in dirs THEN "no" ELSE @]
  /\ doing' = [doing EXCEPT ![s] = Idle]
  /\ UNCHANGED <<tree, list>>

\* What follows a successful nftw().  access() does not ask for a directory.
RmdAdjust(s) ==
  /\ doing[s].cmd = "RMD done"
  /\ IF StringPrefix(doing[s].target, current_dir[s])
     THEN current_dir' = [current_dir EXCEPT ![s] = ClosestExistingParent(@)]
     ELSE UNCHANGED current_dir
  /\ lost' = [lost EXCEPT ![s] =
       IF current_dir'[s] \in dirs THEN "no"
       ELSE IF current_dir'[s] \in files THEN "file" ELSE @]
  /\ doing' = [doing EXCEPT ![s] = Idle]
  /\ UNCHANGED <<tree, list>>

-----------------------------------------------------------------------------
(* STOR and APPE create a file in the directory their session was in.      *)

\* Where a transfer may be: where a session is, or was before its CWD.
StoresIn(dir) == InRoot(dir) \/ \E s \in Sessions : current_dir[s] = dir

StoreFile ==
  /\ \E path \in Nodes :
        /\ ~Exists(path) /\ Front(path) \in dirs /\ StoresIn(Front(path))
        /\ Rebuild([by |-> "transfer", cmd |-> "STOR"], dirs, files \cup {path})
  /\ UNCHANGED <<current_dir, doing>>

-----------------------------------------------------------------------------
(* LIST, in a process with a copy of the session's current_dir.            *)

\* The path is a directory: 150, and opendir().  The copy of current_dir may be
\* older than the session's; an absolute argument names what that one could.
OpenList(l) ==
  /\ list[l].pc = "unborn"
  /\ \E s \in Sessions : \E path \in Named(s) :
        /\ InRoot(path) /\ path \in dirs
        /\ list' = [list EXCEPT ![l] =
             [NoList EXCEPT !.pc = "reading", !.dir = path,
                            !.untold = {Last(child) : child \in Children(path)}]]
  /\ UNCHANGED <<tree, current_dir, doing, lost>>

\* A name of the directory that readdir() has not returned; the entry may be gone.
Unreturned(l) ==
  {Last(path) : path \in {node \in Nodes : Front(node) = list[l].dir}} \ list[l].returned
Entry(l, name) == Append(list[l].dir, name)
ListExits(l, reply) == list' = [list EXCEPT ![l] = [NoList EXCEPT !.pc = reply]]

\* Fault: an entry that is gone is taken for the end.
ListEntryStops(l) ==
  /\ list[l].pc = "reading"
  /\ \E name \in Unreturned(l) :
       IF Exists(Entry(l, name))
       THEN list' = [list EXCEPT ![l].returned = @ \cup {name}, ![l].untold = @ \ {name}]
       ELSE list' = [list EXCEPT ![l].pc = "226"]
  /\ UNCHANGED <<tree, current_dir, doing, lost>>

\* readdir() returns a name, and there is a line for it if stat() still finds it.
ListEntry(l) ==
  /\ list[l].pc = "reading"
  /\ \E name \in Unreturned(l) :
       list' = [list EXCEPT ![l].returned = @ \cup {name},
                            ![l].untold = IF Exists(Entry(l, name)) THEN @ \ {name} ELSE @]
  /\ UNCHANGED <<tree, current_dir, doing, lost>>

\* readdir() has nothing left that it must return: closedir() and 226.
ListEnds(l) ==
  /\ list[l].pc = "reading" /\ list[l].untold \subseteq list[l].returned
  /\ ListExits(l, "226")
  /\ UNCHANGED <<tree, current_dir, doing, lost>>

\* send() fails: 426, 451 or SIGPIPE.
ListFails(l) ==
  /\ list[l].pc = "reading"
  /\ ListExits(l, "failed")
  /\ UNCHANGED <<tree, current_dir, doing, lost>>

\* The path is a file: 150, its one line, named by get_basename, and 226.
ListFile(l) ==
  /\ list[l].pc = "unborn"
  /\ \E s \in Sessions : \E path \in Named(s) : InRoot(path) /\ path \in files
  /\ ListExits(l, "226")
  /\ UNCHANGED <<tree, current_dir, doing, lost>>

-----------------------------------------------------------------------------
SessionStep(s) ==
  \/ HandleCwd(s) \/ HandleDele(s)
  \/ HandleMkd(s) \/ MkdirNext(s) \/ MkdEnds(s)
  \/ HandleRmd(s) \/ RemoveCallback(s) \/ RmdFails(s) \/ RmdAdjust(s)

ListStep(l) == OpenList(l) \/ ListFile(l) \/ ListEntry(l) \/ ListEnds(l) \/ ListFails(l)

TransferStep == StoreFile \/ \E l \in Listers : ListStep(l)

Next == (\E s \in Sessions : SessionStep(s)) \/ TransferStep

Spec == Init /\ [][Next]_vars

-----------------------------------------------------------------------------
(* Properties.                                                             *)

InsideRoot(dir) == IsPrefix(Root, dir)

\* The tree is one: every path but the top lies in a directory, and neither the
\* root nor a directory above it is ever removed.  What MKD and RMD work on passes
\* the handlers' test and is not the root; a session is where the test lets it go,
\* or in the directory the root lies in.
TypeOK ==
  /\ dirs \cap files = {} /\ \A n \in 0 .. Len(Root) : SubSeq(Root, 1, n) \in dirs
  /\ \A path \in dirs \cup files : path # <<>> => Front(path) \in dirs
  /\ \A s \in Sessions :
       /\ doing[s].cmd \in {"none", "MKD", "RMD", "RMD done"}
       /\ ~Ready(s) => InRoot(doing[s].target) /\ doing[s].target # Root
       /\ InRoot(current_dir[s]) \/ current_dir[s] = Front(Root)
       /\ lost[s] \in {"no", "other", "DELE", "RMD", "RMD that failed", "file"}
  /\ \A l \in Listers : list[l].pc \in {"unborn", "reading", "226", "failed"}

\* PWD skips the characters of the root, and the commands take relative paths to
\* start below it: a session stops being inside the root only by its own CWD, to
\* an existing directory that the test lets pass.  RMD's search for a parent stops
\* at the root, whatever the others remove meanwhile.
LeavesRootByCwd ==
  [][\A s \in Sessions :
       InsideRoot(current_dir[s]) /\ ~InsideRoot(current_dir'[s]) =>
         Ready(s) /\ InRoot(current_dir'[s]) /\ current_dir'[s] \in dirs]_vars

\* Between commands a session inside the root is in an existing directory unless
\* another session removed it, the session itself removed it with DELE, its RMD
\* stopped half-way, or a file took the place of a parent: a completed RMD never
\* leaves its own session in what it removed, whatever others create or remove
\* meanwhile.
LostOnlyToOthers ==
  \A s \in Sessions :
    Ready(s) /\ InsideRoot(current_dir[s]) /\ current_dir[s] \notin dirs =>
      lost[s] \in {"other", "DELE", "RMD that failed", "file"}

\* MKD resolves its argument by resolve_path, the other commands by realpath():
\* whenever the argument names something that exists, both find the same path.
BothResolveAlike ==
  \A s \in Sessions : \A arg \in Arguments :
    LET path == FullPath(current_dir[s], arg) IN
    realpath(path) # NULL => resolve_path(path) = realpath(path)

\* A listing that ends with 226 has had a line for every entry that was there
\* from its beginning to its end, whatever was removed or created beside it.
ListTells ==
  [][\A l \in Listers :
       list[l].pc = "reading" /\ list'[l].pc = "226" => list[l].untold = {}]_vars

\* What commands.c says where RMD changes current_dir, "If the removed directory
\* was a parent of the current working directory": only then does it.
RmdMovesOnlyChildren ==
  [][\A s \in Sessions :
       RmdAdjust(s) /\ current_dir'[s] # current_dir[s] =>
         IsPrefix(doing[s].target, current_dir[s])]_vars
=============================================================================
