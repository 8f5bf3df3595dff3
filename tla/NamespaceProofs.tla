---------------------------- MODULE NamespaceProofs ----------------------------
(***************************************************************************)
(* The tree stays a tree whose root is never removed, sessions leave that  *)
(* root only by CWD, and an RMD that completes leaves its session in a     *)
(* directory, for any root, names and arguments.                           *)
(***************************************************************************)
EXTENDS Namespace, SequenceTheorems, FiniteSetTheorems, TLAPS

Paths == Seq(STRING)
Tops == {SubSeq(Root, 1, n) : n \in 0 .. Len(Root)}
Near == {path \in Paths : InRoot(path) \/ path = Front(Root)}

\* The tree, with the root and the directories above it.
Tree ==
  /\ dirs \cup files \subseteq Tops \cup Nodes
  /\ dirs \cap files = {} /\ Tops \subseteq dirs
  /\ \A path \in dirs \cup files : path # <<>> => Front(path) \in dirs

\* What a session works on, and how far mkdir -p is with it.
Works == [cmd : {"none", "MKD", "RMD", "RMD done"}, target : Paths, made : Nat]
AtWork ==
  /\ doing \in [Sessions -> Works]
  /\ \A s \in Sessions :
       /\ ~Ready(s) => InRoot(doing[s].target) /\ doing[s].target # Root
       /\ doing[s].cmd = "MKD" => doing[s].made \in Len(Root) - 1 .. Len(doing[s].target)

Reasons == {"no", "other", "DELE", "RMD", "RMD that failed", "file"}
Lists == [pc : {"unborn", "reading", "226", "failed"}, dir : Paths,
          returned : SUBSET STRING, untold : SUBSET STRING]

Types == lost \in [Sessions -> Reasons] /\ list \in [Listers -> Lists]

Inside == current_dir \in [Sessions -> Near]

NInv == Tree /\ AtWork /\ Types /\ Inside

-----------------------------------------------------------------------------
(* Prefixes.                                                               *)

LEMMA RootFacts == Root \in Paths /\ Root # <<>> /\ Len(Root) \in Nat /\ Len(Root) > 0
<1>1. Root \in Seq(STRING) /\ Root # <<>>
  BY NamespaceAssumption DEF NamespaceAssumption
<1> QED
  BY <1>1, EmptySeq DEF Paths

LEMMA NodeFacts ==
  ASSUME NEW path \in Nodes
  PROVE  path \in Paths /\ path # <<>> /\ ~IsPrefix(path, Root) /\ Last(path) # ""
<1>1. Nodes \subseteq Seq(STRING) \ {<<>>}
  BY NamespaceAssumption DEF NamespaceAssumption
<1>2. ~IsPrefix(path, Root) /\ Last(path) # ""
  BY NamespaceAssumption DEF NamespaceAssumption
<1> QED
  BY <1>1, <1>2 DEF Paths

LEMMA PrefixElements ==
  ASSUME NEW p \in Paths, NEW q \in Paths
  PROVE  IsPrefix(p, q) <=> Len(p) <= Len(q) /\ \A k \in 1 .. Len(p) : p[k] = q[k]
<1>1. SubSeq(p, 1, Len(p)) = p
  BY SubSeqFull DEF Paths
<1>2. ASSUME Len(p) <= Len(q)
      PROVE  SubSeq(q, 1, Len(p)) \in Paths /\ Len(SubSeq(q, 1, Len(p))) = Len(p)
             /\ \A k \in 1 .. Len(p) : SubSeq(q, 1, Len(p))[k] = q[k]
  BY <1>2 DEF Paths
<1>3. ASSUME Len(p) <= Len(q), \A k \in 1 .. Len(p) : p[k] = q[k]
      PROVE  p = SubSeq(q, 1, Len(p))
  BY <1>2, <1>3 DEF Paths
<1> QED
  BY <1>1, <1>2, <1>3 DEF IsPrefix

\* A strict prefix is shorter.
LEMMA StrictIsShorter ==
  ASSUME NEW p \in Paths, NEW q \in Paths, IsPrefix(p, q)
  PROVE  p # q <=> Len(p) < Len(q)
<1>1. Len(p) <= Len(q) /\ \A k \in 1 .. Len(p) : p[k] = q[k]
  BY PrefixElements
<1>2. Len(p) = Len(q) => p = q
  BY <1>1 DEF Paths
<1> QED
  BY <1>1, <1>2 DEF Paths

\* The first names of a path.
LEMMA PartFacts ==
  ASSUME NEW path \in Paths, NEW n \in 0 .. Len(path)
  PROVE  /\ SubSeq(path, 1, n) \in Paths /\ Len(SubSeq(path, 1, n)) = n
         /\ \A k \in 1 .. n : SubSeq(path, 1, n)[k] = path[k]
BY DEF Paths

\* The root and the directories above it begin the root, and of these only the root
\* is as long as it.
LEMMA TopFacts ==
  /\ Tops \subseteq Paths /\ Root \in Tops
  /\ \A path \in Tops : IsPrefix(path, Root) /\ Len(path) <= Len(Root)
  /\ \A path \in Tops : Len(Root) <= Len(path) => path = Root
<1>1. Len(Root) \in 0 .. Len(Root) /\ SubSeq(Root, 1, Len(Root)) = Root
  BY RootFacts, SubSeqFull DEF Paths
<1>2. ASSUME NEW n \in 0 .. Len(Root)
      PROVE  /\ SubSeq(Root, 1, n) \in Paths /\ IsPrefix(SubSeq(Root, 1, n), Root)
             /\ Len(SubSeq(Root, 1, n)) = n
  <2> DEFINE top == SubSeq(Root, 1, n)
  <2>1. top \in Paths /\ Len(top) = n /\ \A k \in 1 .. n : top[k] = Root[k]
    BY PartFacts, RootFacts
  <2> HIDE DEF top
  <2>2. IsPrefix(top, Root)
    BY <2>1, RootFacts, PrefixElements
  <2> QED
    BY <2>1, <2>2 DEF top
<1>3. ASSUME NEW n \in 0 .. Len(Root), Len(Root) <= n PROVE SubSeq(Root, 1, n) = Root
  <2>1. n = Len(Root)
    BY <1>3, RootFacts
  <2> QED
    BY <1>1, <2>1
<1>4. Tops \subseteq Paths /\ Root \in Tops
  BY <1>1, <1>2 DEF Tops
<1>5. ASSUME NEW path \in Tops
      PROVE  /\ IsPrefix(path, Root) /\ Len(path) <= Len(Root)
             /\ Len(Root) <= Len(path) => path = Root
  <2>1. PICK n \in 0 .. Len(Root) : path = SubSeq(Root, 1, n)
    BY DEF Tops
  <2>2. n <= Len(Root)
    BY RootFacts
  <2> QED
    BY <1>2, <1>3, <2>1, <2>2
<1> QED
  BY <1>4, <1>5

LEMMA TreePaths == Tree => dirs \cup files \subseteq Paths /\ Root \in dirs
BY TopFacts, NodeFacts DEF Tree

\* What the test lets pass has as many names as the root, or more,
LEMMA InRootLength ==
  ASSUME NEW path \in Paths, InRoot(path)
  PROVE  Len(Root) <= Len(path)
BY RootFacts, PrefixElements DEF InRoot, StringPrefix

\* and looks at these only.
LEMMA InRootPart ==
  ASSUME NEW path \in Paths, InRoot(path), NEW n \in Len(Root) .. Len(path)
  PROVE  InRoot(SubSeq(path, 1, n))
<1> DEFINE part == SubSeq(path, 1, n)
           L == Len(Root)
<1>1. n \in 0 .. Len(path) /\ L \in Nat /\ L > 0 /\ L <= n
  BY RootFacts DEF Paths
<1>2. part \in Paths /\ Len(part) = n /\ \A k \in 1 .. n : part[k] = path[k]
  BY <1>1, PartFacts
<1> HIDE DEF part
<1>3. CASE IsPrefix(Root, path)
  <2>1. \A k \in 1 .. L : Root[k] = path[k]
    BY <1>3, RootFacts, PrefixElements
  <2>2. \A k \in 1 .. L : Root[k] = part[k]
    BY <1>1, <1>2, <2>1
  <2>3. IsPrefix(Root, part)
    BY <1>1, <1>2, <2>2, RootFacts, PrefixElements
  <2> QED
    BY <2>3 DEF InRoot, StringPrefix, part
<1>4. CASE /\ Front(Root) = SubSeq(path, 1, L - 1)
           /\ <<Last(Root), path[L]>> \in Begins
  <2>1. part[L] = path[L]
    BY <1>1, <1>2
  <2>2. SubSeq(part, 1, L - 1) = SubSeq(path, 1, L - 1)
    <3>1. L - 1 \in 0 .. n /\ L - 1 \in 0 .. Len(path)
      BY <1>1 DEF Paths
    <3>2. /\ SubSeq(part, 1, L - 1) \in Paths /\ Len(SubSeq(part, 1, L - 1)) = L - 1
          /\ \A k \in 1 .. L - 1 : SubSeq(part, 1, L - 1)[k] = part[k]
      BY <1>2, <3>1, PartFacts
    <3>3. /\ SubSeq(path, 1, L - 1) \in Paths /\ Len(SubSeq(path, 1, L - 1)) = L - 1
          /\ \A k \in 1 .. L - 1 : SubSeq(path, 1, L - 1)[k] = path[k]
      BY <3>1, PartFacts
    <3>4. \A k \in 1 .. L - 1 : part[k] = path[k]
      BY <1>1, <1>2
    <3> DEFINE a == SubSeq(part, 1, L - 1)
               b == SubSeq(path, 1, L - 1)
    <3>5. a \in Paths /\ b \in Paths /\ Len(a) = Len(b) /\ \A k \in 1 .. Len(a) : a[k] = b[k]
      BY <3>2, <3>3, <3>4
    <3> HIDE DEF a, b
    <3>6. a = b
      BY <3>5 DEF Paths
    <3> QED
      BY <3>6 DEF a, b
  <2> QED
    BY <1>1, <1>2, <1>4, <2>1, <2>2, RootFacts DEF InRoot, StringPrefix, part
<1> QED
  BY <1>3, <1>4 DEF InRoot, StringPrefix

\* What it lets pass beside the root lies where the root does.
LEMMA BesideRoot ==
  ASSUME NEW path \in Paths, InRoot(path), path # Root, Len(path) = Len(Root)
  PROVE  SubSeq(path, 1, Len(Root) - 1) = Front(Root)
<1>1. ~IsPrefix(Root, path)
  BY RootFacts, StrictIsShorter
<1> QED
  BY <1>1 DEF InRoot, StringPrefix

\* There is a longest one among the lengths of a bounded set.
LEMMA LongestExists ==
  ASSUME NEW E, E # {}, NEW K \in Nat, E \subseteq 0 .. K
  PROVE  \E n \in E : \A m \in E : m <= n
<1> DEFINE Tails == {n .. K : n \in E}
           R == StrictSubsetOrdering(Nat)
<1>1. Tails # {} /\ Tails \subseteq FiniteSubsetsOf(Nat)
  <2>1. ASSUME NEW n \in E PROVE n .. K \in SUBSET Nat /\ IsFiniteSet(n .. K)
    BY FS_Interval
  <2> QED
    BY <2>1 DEF FiniteSubsetsOf
<1>2. \E x \in Tails : \A y \in Tails : ~(<<y, x>> \in R)
  BY <1>1, WFMin, FS_StrictSubsetOrderingWellFounded
<1>3. PICK n \in E : \A m \in E : ~(<<m .. K, n .. K>> \in R)
  BY <1>2
<1>4. ASSUME NEW m \in E, ~(m <= n) PROVE FALSE
  <2>1. m \in Nat /\ n \in Nat /\ n < m /\ n <= K
    BY <1>4
  <2>2. m .. K \subseteq n .. K /\ n \in n .. K /\ n \notin m .. K
    BY <2>1
  <2>3. m .. K \in SUBSET Nat /\ n .. K \in SUBSET Nat
    BY <2>1
  <2>4. <<m .. K, n .. K>> \in R
    BY <2>2, <2>3 DEF StrictSubsetOrdering
  <2> QED
    BY <1>3, <2>4
<1> QED
  BY <1>4

-----------------------------------------------------------------------------
(* The tree changes.                                                       *)

LEMMA Strings ==
  ASSUME NEW path \in Paths, path # <<>>
  PROVE  Last(path) \in STRING
<1>1. Len(path) \in 1 .. Len(path)
  BY EmptySeq DEF Paths
<1> QED
  BY <1>1 DEF Paths, Last

\* Reasons and listings keep their types: only DELE and RMD take directories away.
LEMMA RebuildTypes ==
  ASSUME Types, NEW p, NEW newDirs, NEW newFiles,
         p.cmd \in Reasons \/ dirs \subseteq newDirs, Rebuild(p, newDirs, newFiles)
  PROVE  Types'
<1>1. lost' \in [Sessions -> Reasons]
  <2>1. ASSUME NEW s \in Sessions
        PROVE  (CASE current_dir[s] \in newDirs -> "no"
                  [] current_dir[s] \in dirs \ newDirs -> IF s = p.by THEN p.cmd ELSE "other"
                  [] OTHER -> lost[s]) \in Reasons
    <3>1. lost[s] \in Reasons
      BY DEF Types
    <3>2. CASE current_dir[s] \in newDirs
      BY <3>2 DEF Reasons
    <3>3. CASE current_dir[s] \in dirs \ newDirs
      BY <3>3 DEF Reasons
    <3>4. CASE current_dir[s] \notin newDirs /\ current_dir[s] \notin dirs
      BY <3>1, <3>4
    <3> QED
      BY <3>2, <3>3, <3>4
  <2> QED
    BY <2>1 DEF Rebuild
<1>2. list' \in [Listers -> Lists]
  <2>1. ASSUME NEW l \in Listers
        PROVE  [list[l] EXCEPT !.untold = {name \in @ : Append(list[l].dir, name) \in newDirs \cup newFiles}]
                 \in Lists
    BY DEF Types, Lists
  <2> QED
    BY <2>1 DEF Rebuild
<1> QED
  BY <1>1, <1>2 DEF Types

LEMMA UnlinkTree ==
  ASSUME Tree, NEW p, NEW path, path \notin Tops, Children(path) = {}, Unlink(p, path)
  PROVE  Tree'
<1>1. dirs' = dirs \ {path} /\ files' = files \ {path}
  BY DEF Unlink, Rebuild
<1>2. ASSUME NEW other \in dirs' \cup files', other # <<>>
      PROVE  Front(other) \in dirs'
  <2>1. other \in dirs \cup files /\ Front(other) \in dirs
    BY <1>1, <1>2 DEF Tree
  <2>2. Front(other) # path
    BY <1>2, <2>1 DEF Children
  <2> QED
    BY <1>1, <2>1, <2>2
<1> QED
  BY <1>1, <1>2 DEF Tree

\* What is new lies in a directory.
LEMMA CreateTree ==
  ASSUME Tree, NEW path \in Nodes, ~Exists(path), Front(path) \in dirs,
         dirs \subseteq dirs', files \subseteq files', dirs' \cap files' = {},
         dirs' \cup files' = dirs \cup files \cup {path}
  PROVE  Tree'
BY DEF Tree

-----------------------------------------------------------------------------
(* Paths, resolved by realpath() and by resolve_path().                    *)

\* What holds at the first step and is passed on to the next holds at each.
LEMMA StepByStep ==
  ASSUME NEW K \in Nat, NEW E, 0 \in E, \A k \in 0 .. K : k \in E /\ k < K => k + 1 \in E
  PROVE  0 .. K \subseteq E
<1> DEFINE reached == {k \in 0 .. K : 0 .. k \subseteq E}
<1>1. 0 \in reached /\ reached \subseteq 0 .. K
  <2>1. 0 .. 0 \subseteq E
    OBVIOUS
  <2> QED
    BY <2>1
<1>2. PICK k \in reached : \A m \in reached : m <= k
  <2> HIDE DEF reached
  <2> QED
    BY <1>1, LongestExists
<1>3. k = K
  <2> SUFFICES ASSUME k # K PROVE FALSE
    OBVIOUS
  <2>1. k \in 0 .. K /\ k < K /\ k + 1 \in 0 .. K /\ 0 .. k \subseteq E
    BY <1>2
  <2>2. k + 1 \in E
    BY <2>1
  <2>3. 0 .. k + 1 \subseteq E
    BY <2>1, <2>2
  <2> QED
    BY <1>2, <2>1, <2>3
<1> QED
  BY <1>2, <1>3

\* Names can be taken one after the other, by any way to go from a path by a name.
Walks(at, Places, Go, path, K) ==
  /\ at \in [0 .. K -> Places]
  /\ at[0] = <<>> /\ \A n \in 1 .. K : at[n] = Go[<<at[n - 1], path[n]>>]

LEMMA WalkExists ==
  ASSUME NEW Places, <<>> \in Places, NEW Go \in [Places \X STRING -> Places], NEW path \in Paths
  PROVE  \E at : Walks(at, Places, Go, path, Len(path))
<1> DEFINE E == {k \in 0 .. Len(path) : \E at : Walks(at, Places, Go, path, k)}
<1>1. Len(path) \in Nat /\ \A n \in 1 .. Len(path) : path[n] \in STRING
  BY DEF Paths
<1>2. \E at : Walks(at, Places, Go, path, 0)
  <2> DEFINE at == [n \in 0 .. 0 |-> <<>>]
  <2>1. at \in [0 .. 0 -> Places] /\ at[0] = <<>>
    OBVIOUS
  <2> HIDE DEF at
  <2>2. Walks(at, Places, Go, path, 0)
    BY <2>1 DEF Walks
  <2> QED
    BY <2>2
<1>3. ASSUME NEW k \in 0 .. Len(path), NEW at, Walks(at, Places, Go, path, k), k < Len(path)
      PROVE  \E on : Walks(on, Places, Go, path, k + 1)
  <2>1. /\ at \in [0 .. k -> Places]
        /\ at[0] = <<>> /\ \A n \in 1 .. k : at[n] = Go[<<at[n - 1], path[n]>>]
    BY <1>3 DEF Walks
  <2> DEFINE next == Go[<<at[k], path[k + 1]>>]
             on == [n \in 0 .. k + 1 |-> IF n <= k THEN at[n] ELSE next]
  <2>2. next \in Places
    <3>1. path[k + 1] \in STRING /\ at[k] \in Places
      BY <1>1, <1>3, <2>1
    <3> QED
      BY <3>1
  <2>3. on \in [0 .. k + 1 -> Places] /\ \A n \in 0 .. k : on[n] = at[n]
    <3> HIDE DEF next
    <3> QED
      BY <2>1, <2>2
  <2>4. on[k + 1] = next
    <3> HIDE DEF next
    <3> QED
      OBVIOUS
  <2>5. on[0] = <<>>
    BY <2>1, <2>3
  <2>6. ASSUME NEW n \in 1 .. k + 1 PROVE on[n] = Go[<<on[n - 1], path[n]>>]
    <3>1. CASE n = k + 1
      <4>1. n - 1 = k /\ on[k] = at[k]
        BY <2>3, <3>1
      <4> QED
        BY <2>4, <3>1, <4>1
    <3>2. CASE n \in 1 .. k
      <4>1. on[n] = at[n] /\ on[n - 1] = at[n - 1]
        BY <2>3, <3>2
      <4> QED
        BY <2>1, <3>2, <4>1
    <3> QED
      BY <3>1, <3>2
  <2> HIDE DEF on
  <2>7. Walks(on, Places, Go, path, k + 1)
    BY <2>3, <2>5, <2>6 DEF Walks
  <2> QED
    BY <2>7
<1>4. 0 \in E /\ \A k \in 0 .. Len(path) : k \in E /\ k < Len(path) => k + 1 \in E
  <2>1. 0 \in E
    BY <1>1, <1>2
  <2>2. ASSUME NEW k \in 0 .. Len(path), k \in E, k < Len(path) PROVE k + 1 \in E
    <3>1. k + 1 \in 0 .. Len(path)
      BY <1>1, <2>2
    <3>2. PICK at : Walks(at, Places, Go, path, k)
      BY <2>2
    <3>3. \E on : Walks(on, Places, Go, path, k + 1)
      BY <1>3, <2>2, <3>2
    <3> QED
      BY <3>1, <3>3
  <2> QED
    BY <2>1, <2>2
<1>5. 0 .. Len(path) \subseteq E
  <2> HIDE DEF E
  <2> QED
    BY <1>1, <1>4, StepByStep
<1> QED
  BY <1>1, <1>5

LEMMA UpTyped == ASSUME NEW path \in Paths PROVE Up(path) \in Paths
<1>1. CASE path = <<>>
  BY <1>1 DEF Up
<1>2. CASE path # <<>>
  BY <1>2, EmptySeq DEF Up, Front, Paths
<1> QED
  BY <1>1, <1>2

LEMMA AppendTyped ==
  ASSUME NEW path \in Paths, NEW name \in STRING
  PROVE  Append(path, name) \in Paths
BY AppendProperties DEF Paths

Found == Paths \cup {NULL}

LEMMA LookupTyped ==
  ASSUME Tree, NEW path \in Found, NEW name \in STRING
  PROVE  Lookup(path, name) \in Found
<1>1. CASE path \in dirs
  <2>1. path \in Paths
    BY <1>1, TreePaths
  <2>2. Up(path) \in Paths /\ Append(path, name) \in Paths
    BY <2>1, UpTyped, AppendTyped
  <2> QED
    BY <1>1, <2>1, <2>2 DEF Lookup, Found
<1>2. CASE path \notin dirs
  BY <1>2 DEF Lookup, Found
<1> QED
  BY <1>1, <1>2

LEMMA StepTyped ==
  ASSUME NEW path \in Paths, NEW name \in STRING
  PROVE  StepResolve(path, name) \in Paths
<1>1. Up(path) \in Paths /\ Append(path, name) \in Paths
  BY UpTyped, AppendTyped
<1> QED
  BY <1>1 DEF StepResolve

\* Where a lookup finds something, resolve_path() goes the same way.
LEMMA LookupGoesAlike ==
  ASSUME NEW path, NEW name, Lookup(path, name) # NULL
  PROVE  path \in dirs /\ StepResolve(path, name) = Lookup(path, name)
<1>1. path \in dirs
  BY DEF Lookup
<1>2. CASE name = "."
  BY <1>1, <1>2 DEF Lookup, StepResolve
<1>3. CASE name = ".."
  BY <1>1, <1>3 DEF Lookup, StepResolve
<1>4. CASE name # "." /\ name # ".."
  <2>1. Lookup(path, name) = Append(path, name)
    BY <1>1, <1>4 DEF Lookup
  <2>2. StepResolve(path, name) = Append(path, name)
    BY <1>4 DEF StepResolve
  <2> QED
    BY <1>1, <2>1, <2>2
<1> QED
  BY <1>2, <1>3, <1>4

\* No directory has the name of none: no name of a path is empty.
LEMMA NullIsNone == Tree => NULL \notin dirs
<1> SUFFICES ASSUME Tree, NULL \in dirs PROVE FALSE
  OBVIOUS
<1>1. NULL \in Paths /\ Len(NULL) = 1 /\ NULL[1] = ""
  <2>1. Len(NULL) = 1 /\ NULL[1] = ""
    BY DEF NULL
  <2> QED
    BY <2>1, TreePaths
<1>2. Last(NULL) = ""
  BY <1>1 DEF Last
<1>3. NULL \notin Nodes
  BY <1>2, NodeFacts
<1>4. IsPrefix(NULL, Root)
  BY <1>3, TopFacts DEF Tree
<1>5. 1 \in 1 .. Len(Root) /\ Root[1] = ""
  <2>1. \A k \in 1 .. Len(NULL) : NULL[k] = Root[k]
    BY <1>1, <1>4, RootFacts, PrefixElements
  <2>2. Len(NULL) = 1
    BY DEF NULL
  <2>3. 1 \in 1 .. Len(NULL)
    BY <2>2
  <2>4. Root[1] = NULL[1]
    BY <2>1, <2>3
  <2>5. 1 \in 1 .. Len(Root)
    BY RootFacts
  <2> QED
    BY <1>1, <2>4, <2>5
<1> QED
  BY <1>5, NamespaceAssumption DEF NamespaceAssumption

\* realpath() looks the names up one after the other,
LEMMA RealpathWalks ==
  ASSUME Tree, NEW path \in Paths
  PROVE  \E at : /\ at[0] = <<>> /\ \A n \in 1 .. Len(path) : at[n] = Lookup(at[n - 1], path[n])
                 /\ realpath(path) = at[Len(path)]
<1>1. Len(path) \in Nat /\ \A n \in 1 .. Len(path) : path[n] \in STRING
  BY DEF Paths
<1> DEFINE Go == [step \in Found \X STRING |-> Lookup(step[1], step[2])]
           Way(at) == at = [n \in 0 .. Len(path) |-> IF n = 0 THEN <<>> ELSE Lookup(at[n - 1], path[n])]
<1>2. /\ <<>> \in Found /\ Go \in [Found \X STRING -> Found]
      /\ \A p \in Found, name \in STRING : Go[<<p, name>>] = Lookup(p, name)
  <2>1. <<>> \in Found
    BY DEF Paths, Found
  <2> QED
    BY <2>1, LookupTyped
<1> HIDE DEF Go
<1>3. PICK at : Walks(at, Found, Go, path, Len(path))
  BY <1>2, WalkExists
<1>4. /\ at \in [0 .. Len(path) -> Found] /\ at[0] = <<>>
      /\ \A n \in 1 .. Len(path) : at[n] = Go[<<at[n - 1], path[n]>>]
  BY <1>3 DEF Walks
<1>5. ASSUME NEW n \in 1 .. Len(path) PROVE at[n] = Lookup(at[n - 1], path[n])
  <2>1. at[n - 1] \in Found /\ path[n] \in STRING
    BY <1>1, <1>4
  <2> QED
    BY <1>2, <1>4, <2>1
<1>6. Way(at)
  <2> DEFINE step(n) == IF n = 0 THEN <<>> ELSE Lookup(at[n - 1], path[n])
  <2>1. \A n \in 0 .. Len(path) : at[n] = step(n)
    BY <1>1, <1>4, <1>5
  <2>2. at = [n \in 0 .. Len(path) |-> at[n]]
    BY <1>4
  <2> HIDE DEF step
  <2>3. at = [n \in 0 .. Len(path) |-> step(n)]
    BY <2>1, <2>2
  <2> QED
    BY <2>3 DEF step
<1>7. PICK up : Way(up) /\ realpath(path) = up[Len(path)]
  BY <1>6, Zenon DEF realpath
<1>8. up[0] = <<>> /\ \A n \in 1 .. Len(path) : up[n] = Lookup(up[n - 1], path[n])
  BY <1>1, <1>7
<1> QED
  BY <1>7, <1>8

\* and resolve_path() takes them as they are.
LEMMA ResolvePathWalks ==
  ASSUME NEW path \in Paths
  PROVE  \E at : /\ at[0] = <<>> /\ \A n \in 1 .. Len(path) : at[n] = StepResolve(at[n - 1], path[n])
                 /\ resolve_path(path) = at[Len(path)]
<1>1. Len(path) \in Nat /\ \A n \in 1 .. Len(path) : path[n] \in STRING
  BY DEF Paths
<1> DEFINE Go == [step \in Paths \X STRING |-> StepResolve(step[1], step[2])]
           Way(at) == at = [n \in 0 .. Len(path) |-> IF n = 0 THEN <<>> ELSE StepResolve(at[n - 1], path[n])]
<1>2. /\ <<>> \in Paths /\ Go \in [Paths \X STRING -> Paths]
      /\ \A p \in Paths, name \in STRING : Go[<<p, name>>] = StepResolve(p, name)
  <2>1. <<>> \in Paths
    BY DEF Paths
  <2> QED
    BY <2>1, StepTyped
<1> HIDE DEF Go
<1>3. PICK at : Walks(at, Paths, Go, path, Len(path))
  BY <1>2, WalkExists
<1>4. /\ at \in [0 .. Len(path) -> Paths] /\ at[0] = <<>>
      /\ \A n \in 1 .. Len(path) : at[n] = Go[<<at[n - 1], path[n]>>]
  BY <1>3 DEF Walks
<1>5. ASSUME NEW n \in 1 .. Len(path) PROVE at[n] = StepResolve(at[n - 1], path[n])
  <2>1. at[n - 1] \in Paths /\ path[n] \in STRING
    BY <1>1, <1>4
  <2> QED
    BY <1>2, <1>4, <2>1
<1>6. Way(at)
  <2> DEFINE step(n) == IF n = 0 THEN <<>> ELSE StepResolve(at[n - 1], path[n])
  <2>1. \A n \in 0 .. Len(path) : at[n] = step(n)
    BY <1>1, <1>4, <1>5
  <2>2. at = [n \in 0 .. Len(path) |-> at[n]]
    BY <1>4
  <2> HIDE DEF step
  <2>3. at = [n \in 0 .. Len(path) |-> step(n)]
    BY <2>1, <2>2
  <2> QED
    BY <2>3 DEF step
<1>7. PICK up : Way(up) /\ resolve_path(path) = up[Len(path)]
  BY <1>6, Zenon DEF resolve_path
<1>8. up[0] = <<>> /\ \A n \in 1 .. Len(path) : up[n] = StepResolve(up[n - 1], path[n])
  BY <1>1, <1>7
<1> QED
  BY <1>7, <1>8

LEMMA ResolvePathTyped == ASSUME NEW path \in Paths PROVE resolve_path(path) \in Paths
<1>1. Len(path) \in Nat /\ \A n \in 1 .. Len(path) : path[n] \in STRING
  BY DEF Paths
<1>2. PICK at :
        /\ at[0] = <<>> /\ \A n \in 1 .. Len(path) : at[n] = StepResolve(at[n - 1], path[n])
        /\ resolve_path(path) = at[Len(path)]
  BY ResolvePathWalks
<1> DEFINE E == {n \in 0 .. Len(path) : at[n] \in Paths}
<1>3. 0 \in E
  <2>1. <<>> \in Paths /\ 0 \in 0 .. Len(path)
    BY <1>1 DEF Paths
  <2> QED
    BY <1>2, <2>1
<1>4. ASSUME NEW k \in 0 .. Len(path), k \in E, k < Len(path) PROVE k + 1 \in E
  <2>1. k + 1 \in 1 .. Len(path) /\ k + 1 \in 0 .. Len(path) /\ (k + 1) - 1 = k
    BY <1>1, <1>4
  <2>2. at[k + 1] = StepResolve(at[k], path[k + 1]) /\ path[k + 1] \in STRING
    BY <1>1, <1>2, <2>1
  <2>3. at[k + 1] \in Paths
    BY <1>4, <2>2, StepTyped
  <2> QED
    BY <2>1, <2>3
<1>5. 0 .. Len(path) \subseteq E
  <2> HIDE DEF E
  <2> QED
    BY <1>1, <1>3, <1>4, StepByStep
<1> QED
  BY <1>1, <1>2, <1>5

\* A path that leads to something is the same by both.
LEMMA ResolvedAlike ==
  ASSUME Tree, NEW path \in Paths, realpath(path) # NULL
  PROVE  resolve_path(path) = realpath(path)
<1>1. PICK up :
        /\ up[0] = <<>> /\ \A n \in 1 .. Len(path) : up[n] = Lookup(up[n - 1], path[n])
        /\ realpath(path) = up[Len(path)]
  BY RealpathWalks
<1>2. PICK on :
        /\ on[0] = <<>> /\ \A n \in 1 .. Len(path) : on[n] = StepResolve(on[n - 1], path[n])
        /\ resolve_path(path) = on[Len(path)]
  BY ResolvePathWalks
<1>3. Len(path) \in Nat
  BY DEF Paths
<1> DEFINE E == {n \in 0 .. Len(path) : up[n] # NULL => on[n] = up[n]}
<1>4. 0 \in E
  BY <1>1, <1>2, <1>3
<1>5. ASSUME NEW k \in 0 .. Len(path), k \in E, k < Len(path) PROVE k + 1 \in E
  <2>1. k + 1 \in 1 .. Len(path) /\ k + 1 \in 0 .. Len(path) /\ (k + 1) - 1 = k
    BY <1>3, <1>5
  <2>2. up[k + 1] = Lookup(up[k], path[k + 1]) /\ on[k + 1] = StepResolve(on[k], path[k + 1])
    BY <1>1, <1>2, <2>1
  <2>3. ASSUME up[k + 1] # NULL PROVE on[k + 1] = up[k + 1]
    <3>1. up[k] \in dirs /\ StepResolve(up[k], path[k + 1]) = up[k + 1]
      BY <2>2, <2>3, LookupGoesAlike
    <3>2. up[k] # NULL
      BY <3>1, NullIsNone
    <3>3. on[k] = up[k]
      BY <1>5, <3>2
    <3> QED
      BY <2>2, <3>1, <3>3
  <2> QED
    BY <2>1, <2>3
<1>6. 0 .. Len(path) \subseteq E
  <2> HIDE DEF E
  <2> QED
    BY <1>3, <1>4, <1>5, StepByStep
<1>7. Len(path) \in E
  BY <1>3, <1>6
<1> QED
  BY <1>1, <1>2, <1>7

-----------------------------------------------------------------------------
(* The commands.                                                           *)

LEMMA InitNInv == Init => NInv
<1> SUFFICES ASSUME Init PROVE NInv
  OBVIOUS
<1> DEFINE upTo(n) == SubSeq(Root, 1, n)
<1>1. Len(Root) \in Nat /\ Len(Root) > 0 /\ Root \in Seq(STRING)
  BY RootFacts DEF Paths
<1>2. IsPrefix(Root, Root) /\ upTo(Len(Root)) = Root
  BY <1>1, SubSeqFull, PrefixElements DEF Paths
<1>3. ASSUME NEW n \in 0 .. Len(Root)
      PROVE  /\ upTo(n) \in Paths /\ Len(upTo(n)) = n
             /\ \A k \in 1 .. n : upTo(n)[k] = Root[k]
  BY <1>1 DEF Paths
<1>5. ASSUME NEW n \in 0 .. Len(Root), upTo(n) # <<>>
      PROVE  Front(upTo(n)) \in dirs
  <2>1. n # 0
    BY <1>1, <1>5
  <2>2. n - 1 \in 0 .. Len(Root) /\ Front(upTo(n)) = upTo(n - 1)
    BY <1>1, <1>3, <2>1 DEF Front
  <2> QED
    BY <2>2 DEF Init
<1>6. Tree
  <2>1. dirs = Tops /\ files = {}
    BY DEF Init, Tops
  <2>2. \A path \in Tops : path # <<>> => Front(path) \in dirs
    BY <1>5 DEF Tops
  <2> QED
    BY <2>1, <2>2 DEF Tree
<1>7. AtWork
  BY EmptySeq DEF Init, AtWork, Idle, Ready, Paths, Works
<1>8. Types
  BY EmptySeq DEF Init, Types, NoList, Lists, Reasons, Paths
<1>9. Inside
  BY <1>1, <1>2 DEF Init, Inside, Near, Paths, InRoot, StringPrefix
<1> QED
  BY <1>6, <1>7, <1>8, <1>9 DEF NInv

\* A session's next command, or none, changes only doing.
LEMMA WorkChanges ==
  ASSUME AtWork, NEW s \in Sessions, NEW work,
         work \in Works,
         work = Idle \/ (InRoot(work.target) /\ work.target # Root),
         work.cmd = "MKD" => work.made \in Len(Root) - 1 .. Len(work.target),
         doing' = [doing EXCEPT ![s] = work]
  PROVE  AtWork'
<1>1. doing' \in [Sessions -> Works]
  BY DEF AtWork
<1>2. ASSUME NEW c \in Sessions
      PROVE  /\ doing'[c] # Idle => InRoot(doing'[c].target) /\ doing'[c].target # Root
             /\ doing'[c].cmd = "MKD" => doing'[c].made \in Len(Root) - 1 .. Len(doing'[c].target)
  BY DEF AtWork, Ready
<1> QED
  BY <1>1, <1>2 DEF AtWork, Ready

LEMMA IdleIsWork == Idle \in Works
                    /\ Idle.cmd # "MKD"
BY EmptySeq DEF Idle, Paths, Works

LEMMA ReadyIsIdle == ASSUME NEW s \in Sessions, Ready(s) PROVE doing[s].cmd = "none"
BY DEF Ready, Idle

LEMMA WorkFacts ==
  ASSUME AtWork, NEW s \in Sessions, doing[s].cmd # "none"
  PROVE  /\ doing[s] \in Works
         /\ InRoot(doing[s].target) /\ doing[s].target # Root
         /\ doing[s].cmd = "MKD" => doing[s].made \in Len(Root) - 1 .. Len(doing[s].target)
<1>1. ~Ready(s)
  BY DEF Ready, Idle
<1> QED
  BY <1>1 DEF AtWork

LEMMA CwdInv == ASSUME NInv, NEW s \in Sessions, HandleCwd(s) PROVE NInv'
<1>1. PICK path \in Named(s) : /\ InRoot(path) /\ path \in dirs
                              /\ current_dir' = [current_dir EXCEPT ![s] = path]
  BY DEF HandleCwd
<1>2. path \in Near
  BY <1>1, TreePaths DEF NInv, Near
<1>3. Inside'
  BY <1>1, <1>2 DEF NInv, Inside
<1>4. Types'
  BY DEF HandleCwd, NInv, Types, Reasons
<1>5. Tree' /\ AtWork'
  BY DEF HandleCwd, NInv, Tree, AtWork, Ready, tree
<1> QED
  BY <1>3, <1>4, <1>5 DEF NInv

LEMMA DeleInv == ASSUME NInv, NEW s \in Sessions, HandleDele(s) PROVE NInv'
<1>1. PICK path \in Named(s) : /\ InRoot(path) /\ path # Root /\ Children(path) = {}
                              /\ Unlink([by |-> s, cmd |-> "DELE"], path)
  BY DEF HandleDele
<1>2. Tree'
  <2>1. path \notin Tops
    BY <1>1, InRootLength, TopFacts
  <2> QED
    BY <1>1, <2>1, UnlinkTree DEF NInv
<1>3. Types'
  <2>1. [by |-> s, cmd |-> "DELE"].cmd \in Reasons
    BY DEF Reasons
  <2> QED
    BY <1>1, <2>1, RebuildTypes DEF NInv, Unlink
<1>4. AtWork' /\ Inside'
  BY DEF HandleDele, NInv, AtWork, Ready, Inside
<1> QED
  BY <1>2, <1>3, <1>4 DEF NInv

LEMMA ArgumentTyped ==
  ASSUME NInv, NEW s \in Sessions, NEW arg \in Arguments
  PROVE  FullPath(current_dir[s], arg) \in Paths
<1>1. current_dir[s] \in Paths /\ arg.names \in Paths /\ Root \in Paths
  BY NamespaceAssumption DEF NamespaceAssumption, NInv, Inside, Near, Paths
<1> QED
  BY <1>1 DEF FullPath, Paths

LEMMA MkdInv == ASSUME NInv, NEW s \in Sessions, HandleMkd(s) PROVE NInv'
<1>1. PICK arg \in Arguments :
        LET path == resolve_path(FullPath(current_dir[s], arg)) IN
          /\ InRoot(path) /\ path # Root
          /\ doing' = [doing EXCEPT ![s] = [cmd |-> "MKD", target |-> path, made |-> Len(Root) - 1]]
  BY DEF HandleMkd
<1> DEFINE path == resolve_path(FullPath(current_dir[s], arg))
<1>2. path \in Paths /\ InRoot(path) /\ path # Root
  BY <1>1, ArgumentTyped, ResolvePathTyped
<1>3. doing' = [doing EXCEPT ![s] = [cmd |-> "MKD", target |-> path, made |-> Len(Root) - 1]]
  BY <1>1
<1> HIDE DEF path
<1>4. Len(Root) - 1 \in Nat /\ Len(Root) - 1 \in Len(Root) - 1 .. Len(path)
  <2>1. Len(Root) <= Len(path) /\ Len(path) \in Nat
    BY <1>2, InRootLength DEF Paths
  <2> QED
    BY <2>1, RootFacts
<1>5. AtWork'
  <2> DEFINE work == [cmd |-> "MKD", target |-> path, made |-> Len(Root) - 1]
  <2>1. work \in Works /\ work.target = path /\ work.made = Len(Root) - 1
    BY <1>2, <1>4 DEF Works
  <2> HIDE DEF work
  <2> QED
    BY <1>2, <1>3, <1>4, <2>1, WorkChanges DEF NInv, work
<1> QED
  BY <1>5 DEF HandleMkd, NInv, Tree, Types, Inside, tree

LEMMA MkdirNextInv == ASSUME NInv, NEW s \in Sessions, MkdirNext(s) PROVE NInv'
<1> DEFINE target == doing[s].target
           made == doing[s].made
           next == SubSeq(target, 1, made + 1)
<1>1. /\ doing[s] \in Works /\ InRoot(target) /\ target # Root
      /\ made \in Len(Root) - 1 .. Len(target) /\ made < Len(target)
  <2>1. doing[s].cmd = "MKD" /\ made < Len(target)
    BY DEF MkdirNext
  <2> QED
    BY <2>1, WorkFacts DEF NInv
<1>2. made + 1 \in Len(Root) - 1 .. Len(target) /\ made + 1 \in Nat
  <2>1. target \in Paths /\ made \in Nat
    BY <1>1 DEF Works
  <2>2. Len(target) \in Nat
    BY <2>1 DEF Paths
  <2> HIDE DEF target, made
  <2> QED
    BY <1>1, <2>1, <2>2, RootFacts
<1>4. AtWork'
  <2> DEFINE work == [doing[s] EXCEPT !.made = made + 1]
  <2>1. doing' = [doing EXCEPT ![s] = work]
    BY DEF MkdirNext
  <2>3. work \in Works /\ work.target = target /\ work.made = made + 1
    <3> HIDE DEF made
    <3> QED
      BY <1>1, <1>2 DEF Works
  <2> HIDE DEF work
  <2> QED
    BY <1>1, <1>2, <2>1, <2>3, WorkChanges DEF NInv
<1>5. Inside'
  BY DEF MkdirNext, NInv, Inside
<1>6. CASE UNCHANGED <<tree, lost, list>>
  BY <1>4, <1>5, <1>6 DEF NInv, Tree, Types, tree
<1>7. CASE /\ next \in Nodes /\ ~Exists(next) /\ Front(next) \in dirs
           /\ Mkdir([by |-> s, cmd |-> "MKD"], next)
  <2>1. dirs' = dirs \cup {next} /\ files' = files
    BY <1>7 DEF Mkdir, Rebuild
  <2>2. dirs' \cap files' = {}
    BY <1>7, <2>1 DEF NInv, Tree, Exists
  <2>3. Tree'
    <3> HIDE DEF next
    <3> QED
      BY <1>7, <2>1, <2>2, CreateTree DEF NInv
  <2>4. Types'
    BY <1>7, RebuildTypes DEF NInv, Mkdir
  <2> QED
    BY <1>4, <1>5, <2>3, <2>4 DEF NInv
<1> QED
  BY <1>6, <1>7 DEF MkdirNext

LEMMA MkdEndsInv == ASSUME NInv, NEW s \in Sessions, MkdEnds(s) PROVE NInv'
<1>1. AtWork'
  BY IdleIsWork, WorkChanges DEF MkdEnds, NInv
<1> QED
  BY <1>1 DEF MkdEnds, NInv, Tree, Types, Inside, tree

LEMMA RmdInv == ASSUME NInv, NEW s \in Sessions, HandleRmd(s) PROVE NInv'
<1>1. PICK path \in Named(s) :
        /\ InRoot(path) /\ path # Root /\ path \in dirs
        /\ doing' = [doing EXCEPT ![s] = [cmd |-> "RMD", target |-> path, made |-> 0]]
  BY DEF HandleRmd
<1>2. path \in Paths
  BY <1>1, TreePaths DEF NInv
<1>3. AtWork'
  <2> DEFINE work == [cmd |-> "RMD", target |-> path, made |-> 0]
  <2>1. /\ work \in Works
        /\ work.target = path /\ work.cmd # "MKD"
    BY <1>2 DEF Works
  <2> HIDE DEF work
  <2> QED
    BY <1>1, <1>2, <2>1, WorkChanges DEF NInv, work
<1> QED
  BY <1>3 DEF HandleRmd, NInv, Tree, Types, Inside, tree

\* What nftw() removes lies at or below a target that is not the root and has as
\* many names: it is not the root, and not above it.
LEMMA RemoveInv == ASSUME NInv, NEW s \in Sessions, RemoveCallback(s) PROVE NInv'
<1>1. PICK path \in dirs \cup files :
        /\ IsPrefix(doing[s].target, path) /\ Children(path) = {}
        /\ Unlink([by |-> s, cmd |-> "RMD"], path)
        /\ doing' = IF path = doing[s].target
                    THEN [doing EXCEPT ![s].cmd = "RMD done"] ELSE doing
  BY DEF RemoveCallback
<1>2. /\ doing[s] \in Works /\ doing[s].target \in Paths
      /\ InRoot(doing[s].target) /\ doing[s].target # Root
  BY WorkFacts DEF RemoveCallback, NInv, Works
<1>3. path \notin Tops
  <2> DEFINE target == doing[s].target
  <2>1. /\ path \in Paths /\ target \in Paths /\ IsPrefix(target, path)
        /\ Len(Root) <= Len(target) /\ target # Root
    BY <1>1, <1>2, TreePaths, InRootLength DEF NInv
  <2> HIDE DEF target
  <2>2. Len(path) \in Nat /\ Len(target) \in Nat /\ Len(target) <= Len(path)
    BY <2>1, PrefixElements DEF Paths
  <2>3. ASSUME path \in Tops PROVE FALSE
    <3>1. path = Root /\ Len(path) = Len(target)
      BY <2>1, <2>2, <2>3, TopFacts, RootFacts
    <3>2. target = path
      BY <2>1, <2>2, <3>1, StrictIsShorter
    <3> QED
      BY <2>1, <3>1, <3>2
  <2> QED
    BY <2>3
<1>4. Tree'
  BY <1>1, <1>3, UnlinkTree DEF NInv
<1>5. Types'
  <2>1. [by |-> s, cmd |-> "RMD"].cmd \in Reasons
    BY DEF Reasons
  <2> QED
    BY <1>1, <2>1, RebuildTypes DEF NInv, Unlink
<1>6. AtWork'
  <2> DEFINE work == [doing[s] EXCEPT !.cmd = "RMD done"]
  <2>1. /\ work \in Works
        /\ work.target = doing[s].target /\ work.cmd # "MKD"
        /\ doing' = [doing EXCEPT ![s].cmd = "RMD done"] => doing' = [doing EXCEPT ![s] = work]
    BY <1>2 DEF NInv, AtWork, Works
  <2>2. CASE doing' = doing
    BY <2>2 DEF NInv, AtWork, Ready
  <2> HIDE DEF work
  <2> QED
    BY <1>1, <1>2, <2>1, <2>2, WorkChanges DEF NInv
<1> QED
  BY <1>4, <1>5, <1>6 DEF NInv, RemoveCallback, Inside

LEMMA RmdFailsInv == ASSUME NInv, NEW s \in Sessions, RmdFails(s) PROVE NInv'
<1>1. AtWork'
  BY IdleIsWork, WorkChanges DEF RmdFails, NInv
<1>2. Types'
  BY DEF RmdFails, NInv, Types, Reasons
<1> QED
  BY <1>1, <1>2 DEF RmdFails, NInv, Tree, Inside, tree

\* The search for a parent ends where the test lets a path pass, or in the directory
\* the root lies in; inside the root it ends inside, with a parent that exists.
LEMMA ParentFound ==
  ASSUME Tree, NEW dir \in Near
  PROVE  /\ ClosestExistingParent(dir) \in Near
         /\ ClosestExistingParent(dir) = dir \/ Exists(ClosestExistingParent(dir))
         /\ InsideRoot(dir) => /\ InsideRoot(ClosestExistingParent(dir))
                              /\ Exists(ClosestExistingParent(dir))
<1> DEFINE found == {n \in Cuts(dir) : Exists(SubSeq(dir, 1, n))}
           L == Len(Root)
           K == Len(dir)
           part(n) == SubSeq(dir, 1, n)
<1>1. dir \in Paths /\ K \in Nat /\ L \in Nat /\ L > 0
  BY RootFacts DEF Near, Paths
<1>2. \A n \in 0 .. K : /\ part(n) \in Paths /\ Len(part(n)) = n
                        /\ \A k \in 1 .. n : part(n)[k] = dir[k]
  BY <1>1, PartFacts
<1>3. \A n \in Cuts(dir) : n \in 1 .. K - 1 /\ InRoot(part(n + 1)) /\ part(n + 1) # Root
  BY DEF Cuts
<1>4. \A n \in Cuts(dir) : n + 1 \in 0 .. K /\ n \in 0 .. K /\ L <= n + 1
  <2> SUFFICES ASSUME NEW n \in Cuts(dir) PROVE n + 1 \in 0 .. K /\ n \in 0 .. K /\ L <= n + 1
    OBVIOUS
  <2>1. n + 1 \in 0 .. K /\ n \in 0 .. K
    BY <1>1, <1>3
  <2>2. part(n + 1) \in Paths /\ Len(part(n + 1)) = n + 1 /\ InRoot(part(n + 1))
    BY <1>2, <1>3, <2>1
  <2> HIDE DEF part
  <2>3. L <= Len(part(n + 1))
    BY <2>2, InRootLength
  <2> QED
    BY <2>1, <2>2, <2>3
<1>5. \/ found = {} /\ ClosestExistingParent(dir) = dir
      \/ \E n \in found : ClosestExistingParent(dir) = part(n) /\ \A m \in found : m <= n
  <2>1. CASE found = {}
    BY <2>1 DEF ClosestExistingParent
  <2>2. CASE found # {}
    <3>1. found \subseteq 0 .. K
      BY <1>4
    <3> HIDE DEF found
    <3>2. PICK top \in found : \A m \in found : m <= top
      BY <1>1, <2>2, <3>1, LongestExists
    <3>3. \A m \in found : top >= m
      BY <1>1, <3>1, <3>2
    <3>4. Max(found) \in found /\ \A m \in found : Max(found) >= m
      BY <3>2, <3>3, Zenon DEF Max
    <3>5. \A m \in found : m <= Max(found)
      BY <1>1, <3>1, <3>4
    <3>6. ClosestExistingParent(dir) = part(Max(found))
      BY <2>2 DEF ClosestExistingParent, found
    <3> QED
      BY <3>4, <3>5, <3>6
  <2> QED
    BY <2>1, <2>2
<1>6. ASSUME NEW n \in Cuts(dir) PROVE part(n) \in Near
  <2>1. /\ n \in 0 .. K /\ n + 1 \in 0 .. K /\ L <= n + 1
        /\ InRoot(part(n + 1)) /\ part(n + 1) # Root
    BY <1>3, <1>4
  <2>2. part(n + 1) \in Paths /\ Len(part(n + 1)) = n + 1 /\ part(n) \in Paths
    BY <1>2, <2>1
  <2>3. \A m \in 0 .. n + 1 : SubSeq(part(n + 1), 1, m) = part(m)
    <3> SUFFICES ASSUME NEW m \in 0 .. n + 1 PROVE SubSeq(part(n + 1), 1, m) = part(m)
      OBVIOUS
    <3> DEFINE a == SubSeq(part(n + 1), 1, m)
               b == part(m)
    <3>1. m \in 0 .. K
      BY <1>1, <2>1
    <3>2. b \in Paths /\ Len(b) = m /\ \A k \in 1 .. m : b[k] = dir[k]
      BY <1>2, <3>1
    <3>3. \A k \in 1 .. n + 1 : part(n + 1)[k] = dir[k]
      BY <1>2, <2>1
    <3>4. a \in Paths /\ Len(a) = m /\ \A k \in 1 .. m : a[k] = part(n + 1)[k]
      <4> HIDE DEF part
      <4> QED
        BY <2>2, PartFacts
    <3>5. \A k \in 1 .. m : part(n + 1)[k] = dir[k]
      BY <2>1, <3>3
    <3>7. a \in Paths /\ b \in Paths /\ Len(a) = Len(b) /\ \A k \in 1 .. Len(a) : a[k] = b[k]
      <4> HIDE DEF a, b, part
      <4> QED
        BY <3>2, <3>4, <3>5
    <3> HIDE DEF a, b
    <3>6. a = b
      BY <3>7 DEF Paths
    <3> QED
      BY <3>6 DEF a, b
  <2>4. CASE L <= n
    <3>1. n \in L .. Len(part(n + 1)) /\ SubSeq(part(n + 1), 1, n) = part(n)
      <4>1. n \in L .. n + 1 /\ n \in 0 .. n + 1
        BY <1>1, <2>1, <2>4
      <4> HIDE DEF part
      <4> QED
        BY <2>2, <2>3, <4>1
    <3>2. InRoot(SubSeq(part(n + 1), 1, n))
      <4> HIDE DEF part
      <4> QED
        BY <2>1, <2>2, <3>1, InRootPart
    <3> QED
      BY <2>2, <3>1, <3>2 DEF Near
  <2>5. CASE n + 1 = L
    <3>1. n = L - 1 /\ SubSeq(part(n + 1), 1, n) = part(n)
      <4> HIDE DEF part
      <4> QED
        BY <1>1, <2>1, <2>3, <2>5
    <3>2. SubSeq(part(n + 1), 1, n) = Front(Root)
      <4> HIDE DEF part
      <4> QED
        BY <2>1, <2>2, <2>5, <3>1, BesideRoot
    <3> QED
      BY <2>2, <3>1, <3>2 DEF Near
  <2> QED
    BY <1>1, <2>1, <2>4, <2>5
<1>7. ASSUME InsideRoot(dir)
      PROVE  InsideRoot(ClosestExistingParent(dir)) /\ Exists(ClosestExistingParent(dir))
  <2>1. L <= K /\ \A k \in 1 .. L : Root[k] = dir[k]
    BY <1>1, <1>7, RootFacts, PrefixElements DEF InsideRoot
  <2>2. ASSUME NEW n \in L .. K PROVE InsideRoot(part(n))
    <3>1. n \in 0 .. K /\ L <= n
      BY <1>1, <2>1
    <3>2. part(n) \in Paths /\ Len(part(n)) = n /\ \A k \in 1 .. n : part(n)[k] = dir[k]
      BY <1>2, <3>1
    <3> HIDE DEF part
    <3>3. \A k \in 1 .. L : Root[k] = part(n)[k]
      BY <1>1, <2>1, <3>1, <3>2
    <3> QED
      BY <3>1, <3>2, <3>3, RootFacts, PrefixElements DEF InsideRoot
  <2>3. part(L) = Root
    <3>1. L \in 0 .. K
      BY <1>1, <2>1
    <3>2. part(L) \in Paths /\ Len(part(L)) = L /\ \A k \in 1 .. L : part(L)[k] = dir[k]
      BY <1>2, <3>1
    <3> HIDE DEF part
    <3> QED
      BY <2>1, <3>2, RootFacts DEF Paths
  <2>4. CASE K = L
    <3>1. dir = Root
      BY <1>1, <1>7, <2>4, RootFacts, StrictIsShorter DEF InsideRoot
    <3>2. ASSUME NEW n \in Cuts(dir) PROVE FALSE
      <4>1. n + 1 = L
        BY <1>1, <1>3, <1>4, <2>4
      <4> QED
        BY <1>3, <2>3, <4>1
    <3>3. ClosestExistingParent(dir) = Root
      BY <1>5, <3>1, <3>2
    <3> QED
      BY <1>7, <3>1, <3>3, TreePaths DEF Exists
  <2>5. CASE L < K
    <3>1. L \in found
      <4>1. L \in 1 .. K - 1 /\ L + 1 \in L .. K
        BY <1>1, <2>5
      <4>2. InRoot(part(L + 1))
        BY <2>2, <4>1 DEF InsideRoot, InRoot, StringPrefix
      <4>3. L + 1 \in 0 .. K
        BY <1>1, <2>5
      <4>4. Len(part(L + 1)) = L + 1
        BY <1>2, <4>3
      <4>5. part(L + 1) # Root
        <5> HIDE DEF part
        <5> QED
          BY <1>1, <4>4
      <4>6. Exists(part(L))
        BY <2>3, TreePaths DEF Exists
      <4> QED
        BY <4>1, <4>2, <4>5, <4>6 DEF Cuts
    <3>2. PICK n \in found : ClosestExistingParent(dir) = part(n) /\ \A m \in found : m <= n
      BY <1>5, <3>1
    <3>3. n \in L .. K /\ Exists(part(n))
      <4>1. n \in Cuts(dir) /\ Exists(part(n)) /\ L <= n
        BY <3>1, <3>2
      <4>2. n \in 0 .. K
        BY <1>4, <4>1
      <4> QED
        BY <1>1, <4>1, <4>2
    <3>4. InsideRoot(part(n))
      BY <2>2, <3>3
    <3> QED
      BY <3>2, <3>3, <3>4
  <2> QED
    BY <1>1, <2>1, <2>4, <2>5
<1>8. ClosestExistingParent(dir) \in Near
  <2>1. found \subseteq Cuts(dir)
    OBVIOUS
  <2> HIDE DEF found, part
  <2> QED
    BY <1>5, <1>6, <2>1
<1>9. ClosestExistingParent(dir) = dir \/ Exists(ClosestExistingParent(dir))
  BY <1>5
<1> QED
  BY <1>7, <1>8, <1>9

LEMMA RmdAdjustInv == ASSUME NInv, NEW s \in Sessions, RmdAdjust(s) PROVE NInv'
<1>1. doing[s].cmd = "RMD done" /\ doing' = [doing EXCEPT ![s] = Idle]
  BY DEF RmdAdjust
<1>2. AtWork'
  BY <1>1, IdleIsWork, WorkChanges DEF NInv
<1>3. Inside'
  <2>1. CASE StringPrefix(doing[s].target, current_dir[s])
    <3>1. current_dir[s] \in Near
      BY DEF NInv, Inside
    <3>2. ClosestExistingParent(current_dir[s]) \in Near
      BY <3>1, ParentFound DEF NInv
    <3>3. current_dir' = [current_dir EXCEPT ![s] = ClosestExistingParent(@)]
      BY <2>1 DEF RmdAdjust
    <3> QED
      BY <3>2, <3>3 DEF NInv, Inside
  <2>2. CASE ~StringPrefix(doing[s].target, current_dir[s])
    BY <2>2 DEF RmdAdjust, NInv, Inside
  <2> QED
    BY <2>1, <2>2
<1>4. Types'
  <2>1. list' = list /\ \E reason \in Reasons : lost' = [lost EXCEPT ![s] = reason]
    BY DEF RmdAdjust, NInv, Types, Reasons
  <2> QED
    BY <2>1 DEF NInv, Types
<1> QED
  BY <1>2, <1>3, <1>4 DEF RmdAdjust, NInv, Tree, tree

-----------------------------------------------------------------------------
(* The transfers.                                                          *)

LEMMA StoreInv == ASSUME NInv, StoreFile PROVE NInv'
<1>1. PICK path \in Nodes :
        /\ ~Exists(path) /\ Front(path) \in dirs
        /\ Rebuild([by |-> "transfer", cmd |-> "STOR"], dirs, files \cup {path})
  BY DEF StoreFile
<1>3. dirs' = dirs /\ files' = files \cup {path}
  BY <1>1 DEF Rebuild
<1>4. dirs' \cap files' = {}
  BY <1>1, <1>3 DEF NInv, Tree, Exists
<1>5. Tree'
  BY <1>1, <1>3, <1>4, CreateTree DEF NInv
<1>6. Types'
  BY <1>1, RebuildTypes DEF NInv
<1> QED
  BY <1>5, <1>6 DEF NInv, StoreFile, AtWork, Ready, Inside

LEMMA ListInv == ASSUME NInv, NEW l \in Listers, ListStep(l) PROVE NInv'
<1>1. ASSUME NEW record \in Lists, list' = [list EXCEPT ![l] = record], lost' = lost
      PROVE  Types'
  BY <1>1 DEF NInv, Types
<1>2. /\ UNCHANGED <<tree, current_dir, doing, lost>>
      /\ list[l] \in Lists
  BY DEF ListStep, OpenList, ListFile, ListEntry, ListEnds, ListFails, NInv, Types
<1> SUFFICES Types'
  BY <1>2 DEF NInv, Tree, AtWork, Ready, Inside, tree
<1>3. ASSUME NEW reply \in {"226", "failed"}, ListExits(l, reply) PROVE Types'
  <2>1. [NoList EXCEPT !.pc = reply] \in Lists
    BY EmptySeq DEF NoList, Lists, Paths
  <2> QED
    BY <1>1, <1>2, <1>3, <2>1 DEF ListExits
<1>4. CASE OpenList(l)
  <2>1. PICK path \in dirs :
          list' = [list EXCEPT ![l] = [NoList EXCEPT !.pc = "reading", !.dir = path,
                     !.untold = {Last(child) : child \in Children(path)}]]
    BY <1>4 DEF OpenList
  <2>2. {Last(child) : child \in Children(path)} \subseteq STRING
    BY Strings, TreePaths DEF Children, NInv
  <2> DEFINE record == [NoList EXCEPT !.pc = "reading", !.dir = path,
                          !.untold = {Last(child) : child \in Children(path)}]
  <2>3. record \in Lists
    BY <2>2, TreePaths DEF NoList, Lists, NInv
  <2>4. list' = [list EXCEPT ![l] = record] /\ lost' = lost
    BY <1>2, <2>1
  <2> HIDE DEF record
  <2> QED
    BY <1>1, <2>3, <2>4
<1>5. CASE ListEntry(l)
  <2>1. PICK name \in Unreturned(l) :
          list' = [list EXCEPT ![l].returned = @ \cup {name},
                               ![l].untold = IF Exists(Entry(l, name)) THEN @ \ {name} ELSE @]
    BY <1>5 DEF ListEntry
  <2>2. name \in STRING
    <3>1. PICK path \in Nodes : name = Last(path)
      BY <2>1 DEF Unreturned
    <3>2. path \in Paths /\ path # <<>>
      BY NodeFacts
    <3> QED
      BY <3>1, <3>2, Strings
  <2> DEFINE untold == IF Exists(Entry(l, name)) THEN list[l].untold \ {name} ELSE list[l].untold
             record == [list[l] EXCEPT !.returned = @ \cup {name}, !.untold = untold]
  <2>3. untold \in SUBSET STRING
    BY <1>2 DEF Lists
  <2>4. list' = [list EXCEPT ![l] = record] /\ lost' = lost
    BY <1>2, <2>1 DEF NInv, Types, Lists
  <2>5. record \in Lists
    <3> HIDE DEF untold
    <3> QED
      BY <1>2, <2>2, <2>3 DEF Lists
  <2> HIDE DEF record
  <2> QED
    BY <1>1, <2>4, <2>5
<1>6. CASE ListFile(l) \/ ListEnds(l)
  BY <1>3, <1>6 DEF ListFile, ListEnds
<1>7. CASE ListFails(l)
  BY <1>3, <1>7 DEF ListFails
<1> QED
  BY <1>4, <1>5, <1>6, <1>7 DEF ListStep

-----------------------------------------------------------------------------
LEMMA StutterInv == ASSUME NInv, UNCHANGED vars PROVE NInv'
BY DEF NInv, vars, Tree, AtWork, Ready, Types, Inside

LEMMA NextInv == ASSUME NInv, Next PROVE NInv'
<1>1. ASSUME NEW s \in Sessions, SessionStep(s) PROVE NInv'
  BY <1>1, CwdInv, DeleInv, MkdInv, MkdirNextInv, MkdEndsInv, RmdInv, RemoveInv,
     RmdFailsInv, RmdAdjustInv DEF SessionStep
<1>2. ASSUME TransferStep PROVE NInv'
  BY <1>2, StoreInv, ListInv DEF TransferStep
<1> QED
  BY <1>1, <1>2 DEF Next

-----------------------------------------------------------------------------
(* Who took a session's directory away.  The session's own RMD has, only   *)
(* as long as it still is to look for a parent: what it removed lies below *)
(* its target.  That is said of sessions inside the root.                  *)

Losses ==
  \A s \in Sessions :
    /\ current_dir[s] \in dirs <=> lost[s] = "no"
    /\ lost[s] = "RMD" /\ InsideRoot(current_dir[s]) =>
         doing[s].cmd \in {"RMD", "RMD done"} /\ IsPrefix(doing[s].target, current_dir[s])

LInv == NInv /\ Losses

LEMMA RebuildLosses ==
  ASSUME Losses, NEW p, NEW newDirs, NEW newFiles, Rebuild(p, newDirs, newFiles),
         p.cmd # "no" \/ dirs \subseteq newDirs, UNCHANGED current_dir, NEW s \in Sessions
  PROVE  /\ current_dir'[s] \in dirs' <=> lost'[s] = "no"
         /\ lost'[s] = "RMD" => \/ lost[s] = "RMD"
                               \/ /\ s = p.by /\ p.cmd = "RMD"
                                  /\ current_dir[s] \in dirs \ newDirs
<1>1. /\ dirs' = newDirs
      /\ lost'[s] = CASE current_dir[s] \in newDirs -> "no"
                      [] current_dir[s] \in dirs \ newDirs -> IF s = p.by THEN p.cmd ELSE "other"
                      [] OTHER -> lost[s]
  BY DEF Rebuild
<1>2. current_dir[s] \in dirs <=> lost[s] = "no"
  BY DEF Losses
<1>3. CASE current_dir[s] \in newDirs
  BY <1>1, <1>3
<1>4. CASE current_dir[s] \in dirs \ newDirs
  <2>1. lost'[s] = IF s = p.by THEN p.cmd ELSE "other"
    BY <1>1, <1>4
  <2> QED
    BY <1>1, <1>4, <2>1
<1>5. CASE current_dir[s] \notin newDirs /\ current_dir[s] \notin dirs
  <2>1. lost'[s] = lost[s]
    BY <1>1, <1>5
  <2> QED
    BY <1>1, <1>2, <1>5, <2>1
<1> QED
  BY <1>3, <1>4, <1>5

\* No other session's command changes what one is doing.
LEMMA OthersLosses ==
  ASSUME Losses, NInv, NEW s \in Sessions, NEW work, doing' = [doing EXCEPT ![s] = work],
         UNCHANGED current_dir, NEW c \in Sessions, c # s,
         lost[c] = "RMD", InsideRoot(current_dir[c])
  PROVE  doing'[c].cmd \in {"RMD", "RMD done"} /\ IsPrefix(doing'[c].target, current_dir'[c])
BY DEF Losses, NInv, AtWork

LEMMA CwdLosses == ASSUME LInv, NEW s \in Sessions, HandleCwd(s) PROVE Losses'
<1>1. PICK path \in dirs : current_dir' = [current_dir EXCEPT ![s] = path]
  BY DEF HandleCwd
<1> QED
  BY <1>1 DEF HandleCwd, LInv, NInv, Types, Inside, Losses, tree

LEMMA DeleLosses == ASSUME LInv, NEW s \in Sessions, HandleDele(s) PROVE Losses'
<1>1. PICK path \in Named(s) : Unlink([by |-> s, cmd |-> "DELE"], path)
  BY DEF HandleDele
<1>2. ASSUME NEW c \in Sessions
      PROVE  /\ current_dir'[c] \in dirs' <=> lost'[c] = "no"
             /\ lost'[c] = "RMD" => lost[c] = "RMD"
  BY <1>1, RebuildLosses DEF HandleDele, LInv, Unlink
<1> QED
  BY <1>2 DEF HandleDele, LInv, Losses

\* A session outside RMD may turn to other work: it has lost nothing to its own RMD.
LEMMA ReadyLosses ==
  ASSUME LInv, NEW s \in Sessions, doing[s].cmd \notin {"RMD", "RMD done"},
         NEW work, doing' = [doing EXCEPT ![s] = work],
         UNCHANGED <<tree, current_dir, lost>>
  PROVE  Losses'
<1>1. ASSUME NEW c \in Sessions, lost[c] = "RMD", InsideRoot(current_dir[c])
      PROVE  doing'[c].cmd \in {"RMD", "RMD done"} /\ IsPrefix(doing'[c].target, current_dir'[c])
  BY <1>1, OthersLosses DEF LInv, Losses
<1> QED
  BY <1>1 DEF LInv, Losses, tree

LEMMA MkdirNextLosses == ASSUME LInv, NEW s \in Sessions, MkdirNext(s) PROVE Losses'
<1>1. PICK work : doing' = [doing EXCEPT ![s] = work]
  BY DEF MkdirNext
<1>2. doing[s].cmd = "MKD" /\ UNCHANGED current_dir
  BY DEF MkdirNext
<1>3. CASE UNCHANGED <<tree, lost, list>>
  BY <1>1, <1>2, <1>3, ReadyLosses
<1>4. CASE \E next : Mkdir([by |-> s, cmd |-> "MKD"], next)
  <2>1. ASSUME NEW c \in Sessions
        PROVE  /\ current_dir'[c] \in dirs' <=> lost'[c] = "no"
               /\ lost'[c] = "RMD" => lost[c] = "RMD"
    BY <1>2, <1>4, RebuildLosses DEF LInv, Mkdir
  <2>2. ASSUME NEW c \in Sessions, lost[c] = "RMD", InsideRoot(current_dir[c])
        PROVE  doing'[c].cmd \in {"RMD", "RMD done"} /\ IsPrefix(doing'[c].target, current_dir'[c])
    BY <1>1, <1>2, <2>2, OthersLosses DEF LInv, Losses
  <2> QED
    BY <1>2, <2>1, <2>2 DEF Losses
<1> QED
  BY <1>3, <1>4 DEF MkdirNext

LEMMA RemoveLosses == ASSUME LInv, NEW s \in Sessions, RemoveCallback(s) PROVE Losses'
<1>1. PICK path \in dirs \cup files :
        /\ IsPrefix(doing[s].target, path)
        /\ Unlink([by |-> s, cmd |-> "RMD"], path)
        /\ doing' = IF path = doing[s].target
                    THEN [doing EXCEPT ![s].cmd = "RMD done"] ELSE doing
  BY DEF RemoveCallback
<1>2. ASSUME NEW c \in Sessions
      PROVE  /\ current_dir'[c] \in dirs' <=> lost'[c] = "no"
             /\ lost'[c] = "RMD" => lost[c] = "RMD" \/ (c = s /\ current_dir[c] = path)
  <2>1. /\ current_dir' = current_dir /\ Losses
        /\ Rebuild([by |-> s, cmd |-> "RMD"], dirs \ {path}, files \ {path})
    BY <1>1 DEF RemoveCallback, LInv, Unlink
  <2>2. [by |-> s, cmd |-> "RMD"].cmd # "no" /\ [by |-> s, cmd |-> "RMD"].by = s
    OBVIOUS
  <2>3. /\ current_dir'[c] \in dirs' <=> lost'[c] = "no"
        /\ lost'[c] = "RMD" => lost[c] = "RMD" \/ (c = s /\ current_dir[c] \in dirs \ (dirs \ {path}))
    BY <2>1, <2>2, RebuildLosses
  <2> QED
    BY <2>3
<1>3. ASSUME NEW c \in Sessions
      PROVE  /\ doing'[c].target = doing[c].target
             /\ doing[c].cmd \in {"RMD", "RMD done"} => doing'[c].cmd \in {"RMD", "RMD done"}
             /\ doing'[s].cmd \in {"RMD", "RMD done"}
  <2>1. doing[s].cmd = "RMD"
    BY DEF RemoveCallback
  <2> QED
    BY <1>1, <2>1 DEF LInv, NInv, AtWork, Works
<1>4. ASSUME NEW c \in Sessions, lost'[c] = "RMD", InsideRoot(current_dir'[c])
      PROVE  /\ doing'[c].cmd \in {"RMD", "RMD done"}
             /\ IsPrefix(doing'[c].target, current_dir'[c])
  <2>1. current_dir' = current_dir
    BY DEF RemoveCallback
  <2>2. CASE lost[c] = "RMD"
    BY <1>3, <1>4, <2>1, <2>2 DEF LInv, Losses
  <2>3. CASE c = s /\ current_dir[c] = path
    BY <1>1, <1>3, <2>1, <2>3
  <2> QED
    BY <1>2, <1>4, <2>2, <2>3
<1> QED
  BY <1>2, <1>4 DEF Losses

LEMMA RmdFailsLosses == ASSUME LInv, NEW s \in Sessions, RmdFails(s) PROVE Losses'
<1>1. ASSUME NEW c \in Sessions
      PROVE  /\ current_dir'[c] \in dirs' <=> lost'[c] = "no"
             /\ lost'[c] = "RMD" => c # s /\ lost[c] = "RMD"
  BY DEF RmdFails, LInv, NInv, Types, Losses, tree
<1>2. ASSUME NEW c \in Sessions, c # s, lost[c] = "RMD", InsideRoot(current_dir[c])
      PROVE  doing'[c].cmd \in {"RMD", "RMD done"} /\ IsPrefix(doing'[c].target, current_dir'[c])
  BY <1>2, OthersLosses DEF RmdFails, LInv
<1>3. UNCHANGED current_dir
  BY DEF RmdFails
<1> QED
  BY <1>1, <1>2, <1>3 DEF Losses

\* A session inside the root that RMD has left without its directory is below the
\* target, so RMD finds it a parent that exists.
LEMMA RmdAdjustLosses == ASSUME LInv, NEW s \in Sessions, RmdAdjust(s) PROVE Losses'
<1>1. /\ doing[s].cmd = "RMD done" /\ doing' = [doing EXCEPT ![s] = Idle]
      /\ dirs' = dirs /\ files' = files
      /\ lost' = [lost EXCEPT ![s] =
           IF current_dir'[s] \in dirs THEN "no"
           ELSE IF current_dir'[s] \in files THEN "file" ELSE @]
  BY DEF RmdAdjust, tree
<1>2. lost \in [Sessions -> Reasons] /\ current_dir \in [Sessions -> Near]
  BY DEF LInv, NInv, Types, Inside
<1>3. ASSUME NEW c \in Sessions, c # s
      PROVE  current_dir'[c] = current_dir[c] /\ lost'[c] = lost[c] /\ doing'[c] = doing[c]
  BY <1>1, <1>2, <1>3 DEF RmdAdjust, LInv, NInv, AtWork
<1>4. \/ /\ StringPrefix(doing[s].target, current_dir[s])
         /\ current_dir'[s] = ClosestExistingParent(current_dir[s])
      \/ /\ ~StringPrefix(doing[s].target, current_dir[s])
         /\ current_dir'[s] = current_dir[s]
  BY <1>2 DEF RmdAdjust
<1>5. /\ ClosestExistingParent(current_dir[s]) = current_dir[s]
           \/ Exists(ClosestExistingParent(current_dir[s]))
      /\ InsideRoot(current_dir[s]) => Exists(ClosestExistingParent(current_dir[s]))
  BY <1>2, ParentFound DEF LInv, NInv
<1>6. /\ current_dir'[s] \in dirs <=> lost'[s] = "no"
      /\ InsideRoot(current_dir'[s]) => lost'[s] # "RMD"
  <2>1. CASE current_dir'[s] \in dirs \/ current_dir'[s] \in files
    BY <1>1, <1>2, <2>1
  <2>2. CASE current_dir'[s] \notin dirs /\ current_dir'[s] \notin files
    <3>1. lost'[s] = lost[s]
      BY <1>1, <1>2, <2>2
    <3>2. current_dir'[s] = current_dir[s] /\ ~Exists(current_dir[s])
      BY <1>4, <1>5, <2>2 DEF Exists
    <3>3. ASSUME InsideRoot(current_dir[s]) PROVE lost[s] # "RMD"
      <4>1. ~StringPrefix(doing[s].target, current_dir[s])
        BY <1>4, <1>5, <3>2, <3>3
      <4> QED
        BY <3>3, <4>1 DEF LInv, Losses, StringPrefix
    <3> QED
      BY <2>2, <3>1, <3>2, <3>3 DEF LInv, Losses
  <2> QED
    BY <2>1, <2>2
<1> QED
  BY <1>1, <1>3, <1>6 DEF LInv, Losses

LEMMA NextLosses == ASSUME LInv, Next PROVE LInv'
<1>1. NInv'
  BY NextInv DEF LInv
<1>2. ASSUME NEW s \in Sessions, HandleMkd(s) \/ MkdEnds(s) \/ HandleRmd(s)
      PROVE  Losses'
  <2>1. doing[s].cmd \notin {"RMD", "RMD done"}
    BY <1>2, ReadyIsIdle DEF HandleMkd, MkdEnds, HandleRmd
  <2>2. (\E work : doing' = [doing EXCEPT ![s] = work]) /\ UNCHANGED <<tree, current_dir, lost>>
    BY <1>2 DEF HandleMkd, MkdEnds, HandleRmd
  <2> QED
    BY <2>1, <2>2, ReadyLosses
<1>3. ASSUME NEW s \in Sessions, SessionStep(s) PROVE Losses'
  BY <1>2, <1>3, CwdLosses, DeleLosses, MkdirNextLosses, RemoveLosses, RmdFailsLosses,
     RmdAdjustLosses DEF SessionStep
<1>4. ASSUME StoreFile PROVE Losses'
  <2>1. ASSUME NEW c \in Sessions
        PROVE  /\ current_dir'[c] \in dirs' <=> lost'[c] = "no"
               /\ lost'[c] = "RMD" => lost[c] = "RMD"
    BY <1>4, RebuildLosses DEF StoreFile, LInv
  <2> QED
    BY <1>4, <2>1 DEF StoreFile, LInv, Losses
<1>5. ASSUME NEW l \in Listers, ListStep(l) PROVE Losses'
  BY <1>5 DEF ListStep, OpenList, ListFile, ListEntry, ListEnds, ListFails, LInv, Losses, tree
<1> QED
  BY <1>1, <1>3, <1>4, <1>5 DEF Next, TransferStep, LInv

LEMMA InitLInv == Init => LInv
<1> SUFFICES ASSUME Init PROVE Losses
  BY InitNInv DEF LInv
<1>1. Root \in dirs
  BY InitNInv, TreePaths DEF NInv
<1> QED
  BY <1>1 DEF Init, Losses

LEMMA StutterLInv == ASSUME LInv, UNCHANGED vars PROVE LInv'
BY StutterInv DEF LInv, Losses, vars

LEMMA LInvHolds == Spec => []LInv
BY InitLInv, StutterLInv, NextLosses, PTL DEF Spec

-----------------------------------------------------------------------------
(* What the invariant says of the sessions.                                *)

LEMMA TypesFollow == LInv => TypeOK
<1> SUFFICES ASSUME LInv PROVE TypeOK
  OBVIOUS
<1>1. /\ dirs \cap files = {} /\ \A n \in 0 .. Len(Root) : SubSeq(Root, 1, n) \in dirs
      /\ \A path \in dirs \cup files : path # <<>> => Front(path) \in dirs
  BY DEF LInv, NInv, Tree, Tops
<1>2. \A s \in Sessions :
        /\ doing[s].cmd \in {"none", "MKD", "RMD", "RMD done"}
        /\ ~Ready(s) => InRoot(doing[s].target) /\ doing[s].target # Root
  BY DEF LInv, NInv, AtWork, Works
<1>3. \A s \in Sessions :
        /\ InRoot(current_dir[s]) \/ current_dir[s] = Front(Root)
        /\ lost[s] \in {"no", "other", "DELE", "RMD", "RMD that failed", "file"}
  BY DEF LInv, NInv, Inside, Near, Types, Reasons
<1>4. \A l \in Listers : list[l].pc \in {"unborn", "reading", "226", "failed"}
  BY DEF LInv, NInv, Types, Lists
<1> QED
  BY <1>1, <1>2, <1>3, <1>4 DEF TypeOK

\* A session may leave the inside of the root.
Leaves == \A s \in Sessions :
            InsideRoot(current_dir[s]) /\ ~InsideRoot(current_dir'[s]) =>
              Ready(s) /\ InRoot(current_dir'[s]) /\ current_dir'[s] \in dirs

LEMMA StaysOrLeaves ==
  ASSUME NEW s \in Sessions, NEW dir, current_dir' = [current_dir EXCEPT ![s] = dir],
         InsideRoot(current_dir[s]) => \/ InsideRoot(dir)
                                       \/ Ready(s) /\ InRoot(dir) /\ dir \in dirs,
         NInv
  PROVE  Leaves
<1>1. ASSUME NEW c \in Sessions PROVE current_dir'[c] = IF c = s THEN dir ELSE current_dir[c]
  BY DEF NInv, Inside
<1> QED
  BY <1>1 DEF Leaves

LEMMA NextLeaves == ASSUME NInv, Next PROVE Leaves
<1>1. ASSUME UNCHANGED current_dir PROVE Leaves
  BY <1>1 DEF Leaves
<1>2. ASSUME NEW s \in Sessions, HandleCwd(s) PROVE Leaves
  <2>1. PICK path \in Named(s) : /\ InRoot(path) /\ path \in dirs
                                /\ current_dir' = [current_dir EXCEPT ![s] = path]
    BY <1>2 DEF HandleCwd
  <2>2. Ready(s)
    BY <1>2 DEF HandleCwd
  <2> QED
    BY <2>1, <2>2, StaysOrLeaves
<1>3. ASSUME NEW s \in Sessions, RmdAdjust(s) PROVE Leaves
  <2>1. CASE StringPrefix(doing[s].target, current_dir[s])
    <3>1. current_dir' = [current_dir EXCEPT ![s] = ClosestExistingParent(current_dir[s])]
      BY <1>3, <2>1 DEF RmdAdjust
    <3>2. InsideRoot(current_dir[s]) => InsideRoot(ClosestExistingParent(current_dir[s]))
      BY ParentFound DEF NInv, Inside
    <3> QED
      BY <3>1, <3>2, StaysOrLeaves
  <2>2. CASE ~StringPrefix(doing[s].target, current_dir[s])
    BY <1>1, <1>3, <2>2 DEF RmdAdjust
  <2> QED
    BY <2>1, <2>2
<1>4. ASSUME NEW s \in Sessions, SessionStep(s) PROVE Leaves
  BY <1>1, <1>2, <1>3, <1>4 DEF SessionStep, HandleDele, HandleMkd, MkdirNext, MkdEnds, HandleRmd,
     RemoveCallback, RmdFails
<1>5. ASSUME TransferStep PROVE Leaves
  BY <1>1, <1>5 DEF TransferStep, StoreFile, ListStep, OpenList, ListFile, ListEntry, ListEnds, ListFails
<1> QED
  BY <1>4, <1>5 DEF Next

LEMMA LossesExplained == LInv => LostOnlyToOthers
<1> SUFFICES ASSUME LInv, NEW s \in Sessions, Ready(s), InsideRoot(current_dir[s]),
                    current_dir[s] \notin dirs
             PROVE  lost[s] \in {"other", "DELE", "RMD that failed", "file"}
  BY DEF LostOnlyToOthers
<1>1. lost[s] \in Reasons /\ lost[s] # "no"
  BY DEF LInv, NInv, Types, Losses
<1>2. lost[s] # "RMD"
  BY ReadyIsIdle DEF LInv, Losses
<1> QED
  BY <1>1, <1>2 DEF Reasons

\* The tree stays one, the root and what it lies in stay, and every command works on
\* what its test lets pass: by TypeOK of every Namespace, whatever lies beside the
\* root and whatever the sessions and transfers do to the tree meanwhile.
THEOREM TreeKept == Spec => []TypeOK
BY LInvHolds, TypesFollow, PTL

\* A session leaves the inside of the root by a CWD that its test lets pass and by
\* nothing else: not by RMD's search for a parent, whatever the others remove.
THEOREM RootLeftByCwd == Spec => LeavesRootByCwd
<1>1. LInv /\ [Next]_vars => [Leaves]_vars
  BY NextLeaves DEF LInv
<1>2. [][Leaves]_vars => LeavesRootByCwd
  BY PTL DEF LeavesRootByCwd, Leaves
<1> QED
  BY <1>1, <1>2, LInvHolds, PTL DEF Spec

\* A completed RMD never leaves its own session, inside the root, in what it
\* removed, whatever the others create and remove meanwhile.
THEOREM OwnRmdSpares == Spec => []LostOnlyToOthers
BY LInvHolds, LossesExplained, PTL

-----------------------------------------------------------------------------
LEMMA ArgumentsAlike == LInv => BothResolveAlike
<1> SUFFICES ASSUME LInv, NEW s \in Sessions, NEW arg \in Arguments,
                    realpath(FullPath(current_dir[s], arg)) # NULL
             PROVE  resolve_path(FullPath(current_dir[s], arg)) = realpath(FullPath(current_dir[s], arg))
  BY DEF BothResolveAlike
<1>1. FullPath(current_dir[s], arg) \in Paths
  BY ArgumentTyped DEF LInv
<1> QED
  BY <1>1, ResolvedAlike DEF LInv, NInv

\* Whenever an argument names something that exists, MKD's resolve_path and the
\* realpath() of the other commands find the same path, for arguments of any length.
THEOREM ResolvesAlike == Spec => []BothResolveAlike
BY LInvHolds, ArgumentsAlike, PTL

-----------------------------------------------------------------------------
(* What a listing still has to tell is there, and not told.                *)

Telling ==
  \A l \in Listers :
    /\ list[l].untold \cap list[l].returned = {}
    /\ \A name \in list[l].untold : Exists(Entry(l, name))

TInv == NInv /\ Telling

LEMMA FrontAndLast ==
  ASSUME NEW path \in Paths, path # <<>>
  PROVE  Append(Front(path), Last(path)) = path
<1>1. Len(path) \in Nat /\ Len(path) > 0
  BY EmptySeq DEF Paths
<1>2. Front(path) = SubSeq(path, 1, Len(path) - 1) /\ Last(path) = path[Len(path)]
  BY DEF Front, Last
<1>3. /\ SubSeq(path, 1, Len(path) - 1) \in Paths
      /\ Len(SubSeq(path, 1, Len(path) - 1)) = Len(path) - 1
      /\ \A k \in 1 .. Len(path) - 1 : SubSeq(path, 1, Len(path) - 1)[k] = path[k]
  <2>1. Len(path) - 1 \in 0 .. Len(path)
    BY <1>1
  <2>2. ASSUME NEW n \in 0 .. Len(path)
        PROVE  /\ SubSeq(path, 1, n) \in Paths /\ Len(SubSeq(path, 1, n)) = n
               /\ \A k \in 1 .. n : SubSeq(path, 1, n)[k] = path[k]
    BY DEF Paths
  <2> QED
    BY <2>1, <2>2
<1> DEFINE front == SubSeq(path, 1, Len(path) - 1)
           again == Append(front, path[Len(path)])
<1>4. path[Len(path)] \in STRING
  BY <1>1 DEF Paths
<1>5. /\ again \in Paths /\ Len(again) = Len(path)
      /\ again[Len(path)] = path[Len(path)]
      /\ \A k \in 1 .. Len(path) - 1 : again[k] = front[k]
  <2> HIDE DEF front
  <2> QED
    BY <1>1, <1>3, <1>4 DEF front, Paths
<1>6. \A k \in 1 .. Len(path) : again[k] = path[k]
  <2> HIDE DEF again
  <2> QED
    BY <1>1, <1>3, <1>5 DEF front
<1>7. again = path
  <2> HIDE DEF again
  <2> QED
    BY <1>5, <1>6 DEF Paths
<1> QED
  BY <1>2, <1>7

\* A change of the tree leaves each listing the names that are still there,
LEMMA RebuildTelling ==
  ASSUME NInv, Telling, NEW p, NEW newDirs, NEW newFiles, Rebuild(p, newDirs, newFiles)
  PROVE  Telling' /\ \A l \in Listers : list'[l].pc = list[l].pc
<1> SUFFICES ASSUME NEW l \in Listers
             PROVE  /\ list'[l].pc = list[l].pc
                    /\ list'[l].untold \cap list'[l].returned = {}
                    /\ \A name \in list'[l].untold : Append(list'[l].dir, name) \in dirs' \cup files'
  BY DEF Telling, Exists, Entry
<1>1. list[l] \in Lists
  BY DEF NInv, Types
<1>2. list'[l] = [list[l] EXCEPT !.untold =
                    {name \in @ : Append(list[l].dir, name) \in newDirs \cup newFiles}]
      /\ dirs' = newDirs /\ files' = newFiles
  BY DEF Rebuild
<1>3. /\ list'[l].pc = list[l].pc /\ list'[l].dir = list[l].dir
      /\ list'[l].returned = list[l].returned
      /\ list'[l].untold = {name \in list[l].untold : Append(list[l].dir, name) \in newDirs \cup newFiles}
  BY <1>1, <1>2 DEF Lists
<1>4. list[l].untold \cap list[l].returned = {}
  BY DEF Telling
<1> QED
  BY <1>2, <1>3, <1>4

\* and a change of one listing leaves the others.
LEMMA ListTelling ==
  ASSUME NInv, Telling, NEW l \in Listers, UNCHANGED tree,
         NEW record \in Lists, list' = [list EXCEPT ![l] = record],
         record.untold \cap record.returned = {},
         \A name \in record.untold : Append(record.dir, name) \in dirs \cup files
  PROVE  Telling' /\ \A other \in Listers : other # l => list'[other] = list[other]
<1>1. list'[l] = record /\ \A other \in Listers : other # l => list'[other] = list[other]
  BY DEF NInv, Types
<1>2. dirs' = dirs /\ files' = files
  BY DEF tree
<1> QED
  BY <1>1, <1>2 DEF Telling, Exists, Entry

\* A listing may tell all at its end.
Tells == \A l \in Listers :
           list[l].pc = "reading" /\ list'[l].pc = "226" => list[l].untold = {}

LEMMA UntouchedTells ==
  ASSUME \A l \in Listers : list'[l].pc = list[l].pc
  PROVE  Tells
BY DEF Tells

LEMMA OpenTells == ASSUME TInv, NEW l \in Listers, OpenList(l) PROVE Telling' /\ Tells
<1>1. PICK path \in dirs :
        list' = [list EXCEPT ![l] = [NoList EXCEPT !.pc = "reading", !.dir = path,
                   !.untold = {Last(child) : child \in Children(path)}]]
  BY DEF OpenList
<1>2. list[l].pc = "unborn" /\ UNCHANGED tree
  BY DEF OpenList, tree
<1> DEFINE names == {Last(child) : child \in Children(path)}
           record == [NoList EXCEPT !.pc = "reading", !.dir = path, !.untold = names]
<1>3. names \subseteq STRING /\ \A name \in names : Append(path, name) \in dirs \cup files
  <2>1. ASSUME NEW child \in Children(path)
        PROVE  Last(child) \in STRING /\ Append(path, Last(child)) = child
    BY <2>1, Strings, FrontAndLast, TreePaths DEF Children, TInv, NInv
  <2> QED
    BY <2>1 DEF Children
<1>4. path \in Paths
  BY TreePaths DEF TInv, NInv
<1>5. /\ record \in Lists /\ record.untold = names /\ record.returned = {}
      /\ record.dir = path
  <2> HIDE DEF names
  <2> QED
    BY <1>3, <1>4 DEF NoList, Lists
<1>6. list' = [list EXCEPT ![l] = record]
  BY <1>1
<1> HIDE DEF record, names
<1>7. Telling' /\ \A other \in Listers : other # l => list'[other] = list[other]
  BY <1>2, <1>3, <1>5, <1>6, ListTelling DEF TInv
<1> QED
  BY <1>2, <1>7 DEF Tells

LEMMA EntryTells == ASSUME TInv, NEW l \in Listers, ListEntry(l) PROVE Telling' /\ Tells
<1>1. PICK name \in Unreturned(l) :
        list' = [list EXCEPT ![l].returned = @ \cup {name},
                             ![l].untold = IF Exists(Entry(l, name)) THEN @ \ {name} ELSE @]
  BY DEF ListEntry
<1>2. list[l] \in Lists /\ list[l].pc = "reading" /\ UNCHANGED tree
  BY DEF TInv, NInv, Types, ListEntry, tree
<1>3. name \in STRING
  <2>1. PICK path \in Nodes : name = Last(path)
    BY <1>1 DEF Unreturned
  <2>2. path \in Paths /\ path # <<>>
    BY NodeFacts
  <2> QED
    BY <2>1, <2>2, Strings
<1> DEFINE untold == IF Exists(Entry(l, name)) THEN list[l].untold \ {name} ELSE list[l].untold
           record == [list[l] EXCEPT !.returned = @ \cup {name}, !.untold = untold]
<1>4. untold \subseteq list[l].untold /\ name \notin untold
  BY DEF TInv, Telling
<1>5. list' = [list EXCEPT ![l] = record]
  BY <1>1, <1>2 DEF TInv, NInv, Types, Lists
<1>6. /\ record \in Lists /\ record.pc = "reading" /\ record.dir = list[l].dir
      /\ record.untold = untold /\ record.returned = list[l].returned \cup {name}
  <2> HIDE DEF untold
  <2> QED
    BY <1>2, <1>3, <1>4 DEF Lists
<1>7. /\ list[l].untold \cap list[l].returned = {}
      /\ \A other \in list[l].untold : Append(list[l].dir, other) \in dirs \cup files
  BY DEF TInv, Telling, Exists, Entry
<1> HIDE DEF record, untold
<1>8. /\ record.untold \cap record.returned = {}
      /\ \A other \in record.untold : Append(record.dir, other) \in dirs \cup files
  BY <1>4, <1>6, <1>7
<1>9. Telling' /\ \A other \in Listers : other # l => list'[other] = list[other]
  BY <1>2, <1>5, <1>6, <1>8, ListTelling DEF TInv
<1>10. list'[l].pc = "reading"
  BY <1>5, <1>6 DEF TInv, NInv, Types
<1> QED
  BY <1>9, <1>10 DEF Tells

\* readdir() has no more to return only when all that remained has been returned,
\* and what has been returned is told.
LEMMA ExitTells ==
  ASSUME TInv, NEW l \in Listers, ListFile(l) \/ ListEnds(l) \/ ListFails(l)
  PROVE  Telling' /\ Tells
<1>1. PICK reply \in {"226", "failed"} :
        /\ ListExits(l, reply)
        /\ reply = "226" => list[l].pc = "unborn" \/ list[l].untold \subseteq list[l].returned
  BY DEF ListFile, ListEnds, ListFails
<1>2. UNCHANGED tree
  BY DEF ListFile, ListEnds, ListFails, tree
<1> DEFINE record == [NoList EXCEPT !.pc = reply]
<1>3. record \in Lists /\ record.untold = {} /\ record.pc = reply
  BY EmptySeq DEF NoList, Lists, Paths
<1>4. list' = [list EXCEPT ![l] = record]
  BY <1>1 DEF ListExits
<1> HIDE DEF record
<1>5. Telling' /\ \A other \in Listers : other # l => list'[other] = list[other]
  BY <1>2, <1>3, <1>4, ListTelling DEF TInv
<1>6. list'[l].pc = reply
  BY <1>3, <1>4 DEF TInv, NInv, Types
<1>7. list[l].untold \cap list[l].returned = {}
  BY DEF TInv, Telling
<1> QED
  BY <1>1, <1>5, <1>6, <1>7 DEF Tells

LEMMA StutterTells ==
  ASSUME TInv, UNCHANGED <<tree, list>>
  PROVE  Telling' /\ Tells
BY DEF TInv, Telling, Tells, Exists, Entry, tree

LEMMA NextTells == ASSUME TInv, Next PROVE Telling' /\ Tells
<1>1. ASSUME NEW p, NEW newDirs, NEW newFiles, Rebuild(p, newDirs, newFiles)
      PROVE  Telling' /\ Tells
  BY <1>1, RebuildTelling, UntouchedTells DEF TInv
<1>2. ASSUME NEW s \in Sessions, SessionStep(s) PROVE Telling' /\ Tells
  <2>1. CASE HandleCwd(s) \/ HandleMkd(s) \/ MkdEnds(s) \/ HandleRmd(s) \/ RmdFails(s) \/ RmdAdjust(s)
    BY <2>1, StutterTells DEF HandleCwd, HandleMkd, MkdEnds, HandleRmd, RmdFails, RmdAdjust
  <2>2. CASE HandleDele(s) \/ RemoveCallback(s)
    BY <1>1, <2>2 DEF HandleDele, RemoveCallback, Unlink
  <2>3. CASE MkdirNext(s)
    BY <1>1, <2>3, StutterTells DEF MkdirNext, Mkdir
  <2> QED
    BY <1>2, <2>1, <2>2, <2>3 DEF SessionStep
<1>3. ASSUME StoreFile PROVE Telling' /\ Tells
  BY <1>1, <1>3 DEF StoreFile
<1>4. ASSUME NEW l \in Listers, ListStep(l) PROVE Telling' /\ Tells
  BY <1>4, OpenTells, EntryTells, ExitTells DEF ListStep
<1> QED
  BY <1>2, <1>3, <1>4 DEF Next, TransferStep

LEMMA InitTInv == Init => TInv
<1> SUFFICES ASSUME Init PROVE Telling
  BY InitNInv DEF TInv
<1>1. \A l \in Listers : list[l] = NoList
  BY DEF Init
<1>2. NoList.untold = {}
  BY DEF NoList
<1> QED
  BY <1>1, <1>2 DEF Telling

LEMMA TInvHolds == Spec => []TInv
<1>1. TInv /\ [Next]_vars => TInv'
  BY NextInv, NextTells, StutterInv, StutterTells DEF TInv, vars, tree
<1> QED
  BY InitTInv, <1>1, PTL DEF Spec

\* A listing that ends with 226 has told every entry that was there all the time,
\* whatever is created and removed beside it, in directories of any size.
THEOREM ListingsTell == Spec => ListTells
<1>1. TInv /\ [Next]_vars => [Tells]_vars
  BY NextTells
<1>2. [][Tells]_vars => ListTells
  BY PTL DEF ListTells, Tells
<1> QED
  BY <1>1, <1>2, TInvHolds, PTL DEF Spec
=============================================================================
