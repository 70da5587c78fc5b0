--------------------------- MODULE MemoryFileSystem ---------------------------
(***************************************************************************)
(* MemoryFileSystem and the handles it gives out.  An operation on the     *)
(* tree holds m_tree_mutex from end to end, exclusively when it changes    *)
(* the tree; an operation on a handle holds the mutex of its node.  Each   *)
(* is one action.  Handles keep the node they were opened on, whatever     *)
(* happens to the path it was found at.                                    *)
(*                                                                         *)
(* Nodes are shared: one that neither a directory nor a handle refers to   *)
(* any more is gone, and its place may be taken by another.                *)
(***************************************************************************)
EXTENDS VirtualPath, FiniteSets

CONSTANTS
  Nodes,     \* places for nodes
  m_root,    \* the node of "/"
  Handles,   \* open MemoryFileHandle objects
  Bytes,     \* values other than 0 that clients write
  RawPaths,  \* paths that clients pass
  MaxSize,   \* bound on the size of a file
  None

ASSUME MemoryFileSystemAssumption ==
  /\ IsFiniteSet(Nodes) /\ m_root \in Nodes /\ None \notin Nodes
  /\ 0 \notin Bytes /\ MaxSize \in Nat
  /\ RawPaths \subseteq RawPath

VARIABLES
  kind,      \* node -> "Directory", "File" or "none"
  children,  \* node -> name -> node or None
  data,      \* node -> contents of a file
  file,      \* handle -> its node (m_node), or None when it is not open
  cursor,    \* handle -> m_cursor
  written    \* history: <<position, byte>> for all that was written to a file
             \* since it was last emptied

fsVars == <<kind, children, data, file, cursor, written>>

NoChildren == [name \in Names |-> None]

Linked == {children[n][name] : n \in Nodes, name \in Names} \ {None}

FsTypeOK ==
  /\ kind \in [Nodes -> {"Directory", "File", "none"}]
  /\ kind[m_root] = "Directory"
  /\ children \in [Nodes -> [Names -> Nodes \cup {None}]]
  /\ data \in [Nodes -> Seq(Bytes \cup {0})]
  /\ \A n \in Nodes : Len(data[n]) <= MaxSize
  /\ \A n \in Linked : kind[n] # "none"
  /\ file \in [Handles -> Nodes \cup {None}]
  /\ \A h \in Handles : file[h] # None => kind[file[h]] = "File"
  /\ cursor \in [Handles -> 0 .. MaxSize]
  /\ written \in [Nodes -> SUBSET ((1 .. MaxSize) \X Bytes)]

FsInit ==
  /\ kind = [n \in Nodes |-> IF n = m_root THEN "Directory" ELSE "none"]
  /\ children = [n \in Nodes |-> NoChildren]
  /\ data = [n \in Nodes |-> <<>>]
  /\ file = [h \in Handles |-> None]
  /\ cursor = [h \in Handles |-> 0]
  /\ written = [n \in Nodes |-> {}]

-----------------------------------------------------------------------------
(* Resolution of paths *)

\* get_child() of what is reached so far; a file has no children.
Child(n, name) ==
  IF n # None /\ name \in Names /\ kind[n] = "Directory"
    THEN children[n][name] ELSE None

\* The loop over the segments.
Descend(segments) ==
  LET at[i \in 0 .. Len(segments)] ==
        IF i = 0 THEN m_root ELSE Child(at[i - 1], segments[i])
  IN  at[Len(segments)]

\* resolve_node_internal(); a relative path leads nowhere.
Resolve(raw) ==
  LET path == Normalize(raw)
  IN  IF path.absolute THEN Descend(path.segments) ELSE None

\* resolve_parent_internal(): the directory that holds, or would hold, the last
\* segment of the path.
ResolveParent(raw) ==
  LET path == Normalize(raw)
      parent == Resolve(AsString(Parent(path)))
  IN  IF ~path.absolute \/ IsRoot(path) \/ parent = None THEN None
      ELSE IF kind[parent] = "Directory" THEN parent ELSE None

\* stat() and list_directory(), as far as the callers look at them.
IsDirectory(raw) == Resolve(raw) # None /\ kind[Resolve(raw)] = "Directory"
Exists(raw) == Resolve(raw) # None
ListDirectory(raw) ==
  IF IsDirectory(raw)
    THEN {name \in Names : children[Resolve(raw)][name] # None} ELSE {}

-----------------------------------------------------------------------------
(* Nodes *)

InUse(c, f) ==
  ({m_root} \cup {c[n][name] : n \in Nodes, name \in Names}
            \cup {f[h] : h \in Handles}) \ {None}

\* The last shared pointer to a node is gone: so is the node.
Reclaim(c, f) ==
  LET gone == Nodes \ InUse(c, f)
  IN  /\ kind' = [n \in Nodes |-> IF n \in gone THEN "none" ELSE kind[n]]
      /\ data' = [n \in Nodes |-> IF n \in gone THEN <<>> ELSE data[n]]
      /\ written' = [n \in Nodes |-> IF n \in gone THEN {} ELSE written[n]]
      /\ children' = [n \in Nodes |-> IF n \in gone THEN NoChildren ELSE c[n]]
      /\ file' = f

\* Mutant: a removed file that is still open does not keep its place.
AddChildUnlinked(dir, name, n, k) ==
  /\ n \notin Linked \cup {m_root}
  /\ kind' = [kind EXCEPT ![n] = k]
  /\ children' = [children EXCEPT ![dir][name] = n]

\* A new node n of kind k as a child of dir.
AddChild(dir, name, n, k) ==
  /\ n \notin InUse(children, file)
  /\ kind' = [kind EXCEPT ![n] = k]
  /\ children' = [children EXCEPT ![dir][name] = n]

-----------------------------------------------------------------------------
(* Operations on the tree *)

\* A handle starts at the beginning.
Opened(h, n) ==
  /\ file' = [file EXCEPT ![h] = n]
  /\ cursor' = [cursor EXCEPT ![h] = 0]

\* Where there is no file at the path, open() fails.
Open(h, raw) ==
  LET n == Resolve(raw)
  IN  /\ file[h] = None
      /\ n # None /\ kind[n] = "File"
      /\ Opened(h, n)
      /\ UNCHANGED <<kind, children, data, written>>

\* create() on an existing file empties it, under other handles too.
Truncate(h, raw) ==
  LET n == Resolve(raw)
  IN  /\ file[h] = None
      /\ n # None /\ kind[n] = "File"
      /\ data' = [data EXCEPT ![n] = <<>>]
      /\ written' = [written EXCEPT ![n] = {}]
      /\ Opened(h, n)
      /\ UNCHANGED <<kind, children>>

\* create() where nothing exists and there is a directory to hold the file.
CreateFile(h, raw) ==
  LET dir == ResolveParent(raw)
  IN  /\ file[h] = None
      /\ Resolve(raw) = None /\ dir # None
      /\ \E n \in Nodes : /\ AddChild(dir, Filename(Normalize(raw)), n, "File")
                          /\ Opened(h, n)
      /\ UNCHANGED <<data, written>>

CreateDirectory(raw) ==
  LET dir == ResolveParent(raw)
  IN  /\ Resolve(raw) = None /\ dir # None
      /\ \E n \in Nodes :
           AddChild(dir, Filename(Normalize(raw)), n, "Directory")
      /\ UNCHANGED <<data, file, cursor, written>>

\* Mutant: the children of a directory are not looked at.
RemoveNonEmpty(raw) ==
  LET dir == ResolveParent(raw)
      name == Filename(Normalize(raw))
  IN  /\ dir # None /\ children[dir][name] # None
      /\ Reclaim([children EXCEPT ![dir][name] = None], file)
      /\ UNCHANGED cursor

\* remove() unlinks a file, open or not, and an empty directory.  The root has
\* no parent and stays.
RemovePath(raw) ==
  LET dir == ResolveParent(raw)
      name == Filename(Normalize(raw))
  IN  /\ dir # None /\ children[dir][name] # None
      /\ children[children[dir][name]] = NoChildren
      /\ Reclaim([children EXCEPT ![dir][name] = None], file)
      /\ UNCHANGED cursor

-----------------------------------------------------------------------------
(* Operations on a handle *)

\* read() into a buffer of any size.
Read(h) ==
  /\ file[h] # None /\ cursor[h] < Len(data[file[h]])
  /\ \E size \in 1 .. Len(data[file[h]]) - cursor[h] :
       cursor' = [cursor EXCEPT ![h] = @ + size]
  /\ UNCHANGED <<kind, children, data, file, written>>

\* Mutant: a file that is too short is grown with the byte to be written.
WriteIntoGap(h, b, size) ==
  LET n == file[h]
      from == cursor[h]
      Old(i) == IF i <= Len(data[n]) THEN data[n][i] ELSE b
      end == IF from + size > Len(data[n]) THEN from + size ELSE Len(data[n])
  IN  /\ n # None /\ from + size <= MaxSize
      /\ data' = [data EXCEPT ![n] = [i \in 1 .. end |->
                    IF i \in from + 1 .. from + size THEN b ELSE Old(i)]]
      /\ written' = [written EXCEPT ![n] = @ \cup (from + 1 .. from + size) \X {b}]
      /\ cursor' = [cursor EXCEPT ![h] = from + size]
      /\ UNCHANGED <<kind, children, file>>

\* write() of `size` bytes of one value.  The cursor may lie behind the end of
\* a file that was emptied since: the gap is filled with zeros.
Write(h, b, size) ==
  LET n == file[h]
      from == cursor[h]
      Old(i) == IF i <= Len(data[n]) THEN data[n][i] ELSE 0
      end == IF from + size > Len(data[n]) THEN from + size ELSE Len(data[n])
  IN  /\ n # None /\ from + size <= MaxSize
      /\ data' = [data EXCEPT ![n] = [i \in 1 .. end |->
                    IF i \in from + 1 .. from + size THEN b ELSE Old(i)]]
      /\ written' = [written EXCEPT ![n] = @ \cup (from + 1 .. from + size) \X {b}]
      /\ cursor' = [cursor EXCEPT ![h] = from + size]
      /\ UNCHANGED <<kind, children, file>>

\* An offset behind the end is refused.
Seek(h, offset) ==
  /\ file[h] # None /\ offset <= Len(data[file[h]])
  /\ cursor' = [cursor EXCEPT ![h] = offset]
  /\ UNCHANGED <<kind, children, data, file, written>>

\* The handle is destroyed.
CloseHandle(h) ==
  /\ file[h] # None
  /\ Reclaim(children, [file EXCEPT ![h] = None])
  /\ cursor' = [cursor EXCEPT ![h] = 0]

-----------------------------------------------------------------------------
TreeOperation ==
  \E raw \in RawPaths :
    \/ \E h \in Handles : Truncate(h, raw) \/ CreateFile(h, raw)
    \/ CreateDirectory(raw) \/ RemovePath(raw)

HandleOperation ==
  \E h \in Handles :
    \/ \E raw \in RawPaths : Open(h, raw)
    \/ Read(h) \/ CloseHandle(h)
    \/ \E b \in Bytes, size \in 1 .. MaxSize : Write(h, b, size)
    \/ \E offset \in 0 .. MaxSize : Seek(h, offset)

FsNext == TreeOperation \/ HandleOperation
FsSpec == FsInit /\ [][FsNext]_fsVars

-----------------------------------------------------------------------------
(* Properties *)

\* What is reached from a node set in one more step.
Below(ns) ==
  (ns \cup {children[n][name] : n \in ns, name \in Names}) \ {None}
Reachable ==
  LET reached[i \in 0 .. Cardinality(Nodes)] ==
        IF i = 0 THEN {m_root} ELSE Below(reached[i - 1])
  IN  reached[Cardinality(Nodes)]

\* What some directory holds is reached from the root, in one way only.
TreeSound ==
  /\ Linked \subseteq Reachable \ {m_root}
  /\ \A l, k \in Nodes \X Names :
       children[l[1]][l[2]] = children[k[1]][k[2]]
         /\ children[l[1]][l[2]] # None => l = k

\* Any sequence of operations leaves a tree, and what goes from it goes by
\* itself: no directory takes what it holds with it, whether it is removed or
\* something else is created in its place.
TreeKept ==
  [][children' # children =>
       /\ TreeSound'
       /\ LET gone == Reachable \ Reachable'
          IN  \A n \in gone : children[n] = NoChildren]_fsVars

\* Where a walk from the root by the parts of a path ends, in names.
Walk(raw) ==
  LET at[i \in 0 .. Len(raw.parts)] ==
        IF i = 0 THEN <<>>
        ELSE IF raw.parts[i] \in {"", "."} THEN at[i - 1]
        ELSE IF raw.parts[i] # ".." THEN Append(at[i - 1], raw.parts[i])
        ELSE IF at[i - 1] = <<>> THEN <<>> ELSE Front(at[i - 1])
  IN  at[Len(raw.parts)]

\* Every spelling of an absolute path leads where a walk by its parts would,
\* and so does what normalize() made of it when it is normalised again; the
\* parent of a path, of a relative one that leads upwards too, is the path with
\* one more "..", except that the empty path is its own parent.
PathsAgree ==
  \A raw \in RawPaths :
    /\ Resolve(raw) = IF raw.slash THEN Descend(Walk(raw))
                      ELSE None
    /\ Normalize(AsString(Normalize(raw))) = Normalize(raw)
    /\ ~IsEmpty(Normalize(raw)) =>
         Parent(Normalize(raw)) = Normalize([raw EXCEPT !.parts = Append(@, "..")])

\* No byte shows up at a position of a file that was not written there since the
\* file was last emptied: neither what create() erased, nor what another file
\* contained, nor in the gap in front of a write behind the end.
NothingResurrected ==
  \A n \in Nodes : \A i \in 1 .. Len(data[n]) :
    data[n][i] # 0 => <<i, data[n][i]>> \in written[n]

-----------------------------------------------------------------------------
(* The inductive invariant. *)

\* A place that nothing refers to holds nothing.
UnusedBlank ==
  \A n \in Nodes \ InUse(children, file) :
    /\ kind[n] = "none" /\ children[n] = NoChildren
    /\ data[n] = <<>> /\ written[n] = {}

OnlyDirectoriesHold ==
  \A n \in Nodes : kind[n] # "Directory" => children[n] = NoChildren

LinkedOnce ==
  \A l, k \in Nodes \X Names :
    children[l[1]][l[2]] = children[k[1]][k[2]]
      /\ children[l[1]][l[2]] # None => l = k

\* No set of nodes hangs on itself: some node of it is held from outside.
HeldFromOutside(ns) ==
  \E n \in Nodes \ ns, name \in Names : children[n][name] \in ns
Rooted ==
  /\ m_root \notin Linked
  /\ \A ns \in SUBSET Linked : ns # {} => HeldFromOutside(ns)

FsInv ==
  /\ FsTypeOK /\ UnusedBlank /\ OnlyDirectoriesHold /\ LinkedOnce /\ Rooted
  /\ NothingResurrected

-----------------------------------------------------------------------------
(* MemoryFileSystem implements the promise of FileTree. *)

\* A walk from the root that meets no node twice is shorter than there are nodes.
Places == {w \in BoundedSeq(Names, Cardinality(Nodes) - 1) : Descend(w) # None}
DirectoryPlaces == {w \in Places : kind[Descend(w)] = "Directory"}
FilePlaces == {w \in Places : kind[Descend(w)] = "File"}
FileContents == [w \in FilePlaces |-> data[Descend(w)]]
OpenHandles == {h \in Handles : file[h] # None}
PlacesOpened == [h \in Handles |-> {w \in FilePlaces : Descend(w) = file[h]}]

Tree == INSTANCE FileTree WITH
  directories <- DirectoryPlaces, contents <- FileContents,
  opened <- OpenHandles, at <- PlacesOpened

\* Whatever clients do, with paths in any spelling and with handles on files
\* that were emptied, removed or created again since, each operation touches
\* the one place it means, and what a handle reads and writes is the file it was
\* opened on.
ImplementsTree == Tree!Spec
=============================================================================
