----------------------------- MODULE FileExplorer -----------------------------
(***************************************************************************)
(* BasicFileExplorer on a MemoryFileSystem that other clients use at the   *)
(* same time.  The explorer handles one event after the other; each of the *)
(* calls it makes for one is atomic in the file system, and the others may *)
(* change the tree between any two of them.                                *)
(***************************************************************************)
EXTENDS MemoryFileSystem, WidgetToolkit

CONSTANTS
  NameOrder,   \* the names in the order of std::string
  Points       \* [x, y]: where the mouse is when a button is down

ASSUME FileExplorerAssumption ==
  /\ Points \subseteq [x : Int, y : Int]
  /\ NameOrder \in Seq(Names)
  /\ \A name \in Names :
       Cardinality({i \in 1 .. Len(NameOrder) : NameOrder[i] = name}) = 1

VARIABLES
  m_current_path,
  m_entries,          \* sequence of [name, full_path, is_directory]
  m_selected_index,   \* a row, or 0 for none
  xpc,                \* "new", "idle", "stat", "list" or "entries"
  target,             \* argument of navigate_to()
  files,              \* names of the listing still to be looked at
  quiet               \* history: the tree is as it was when it was listed

viewVars == <<m_current_path, m_entries, m_selected_index>>
explorerVars == <<viewVars, xpc, target, files, quiet>>
vars == <<fsVars, explorerVars>>

Root == Normalize([slash |-> TRUE, parts |-> <<>>])

TypeOK ==
  /\ FsTypeOK
  /\ m_current_path \in Path /\ target \in Path
  /\ m_entries \in Seq([name : Names, full_path : Path, is_directory : BOOLEAN])
  /\ m_selected_index \in 0 .. Len(m_entries)
  /\ xpc \in {"new", "idle", "stat", "list", "entries"}
  /\ files \in Seq(Names) /\ (files # <<>> => xpc = "entries")
  /\ quiet \in BOOLEAN

Init ==
  /\ FsInit
  /\ m_current_path = Root /\ m_entries = <<>> /\ m_selected_index = 0
  /\ xpc = "new" /\ target = Root /\ files = <<>> /\ quiet = FALSE

-----------------------------------------------------------------------------
(* The explorer *)

Initialize ==
  /\ xpc = "new" /\ xpc' = "list"
  /\ UNCHANGED <<fsVars, viewVars, target, files, quiet>>

NavigateTo(path) ==
  /\ target' = path /\ xpc' = "stat"
  /\ UNCHANGED <<fsVars, viewVars, files, quiet>>

\* The rows are 30 pixels high and start at 80.
RowTop(i) == 80 + 30 * (i - 1)
RowAt(y) == ((y - 80) \div 30) + 1

OnUpButton(p) == 10 <= p.x /\ p.x <= 50 /\ 40 <= p.y /\ p.y <= 70

ClickUp(p) ==
  /\ xpc = "idle" /\ OnUpButton(p)
  /\ NavigateTo(Parent(m_current_path))

\* Below the top of the list; left and right do not matter.
OnRow(p) ==
  ~OnUpButton(p) /\ p.y >= 80 /\ RowAt(p.y) \in 1 .. Len(m_entries)

\* The first click on a row selects it.
ClickRow(p) ==
  /\ xpc = "idle" /\ OnRow(p) /\ RowAt(p.y) # m_selected_index
  /\ m_selected_index' = RowAt(p.y)
  /\ UNCHANGED <<fsVars, m_current_path, m_entries, xpc, target, files, quiet>>

\* The second one, on a directory, opens it.
ClickAgain(p) ==
  /\ xpc = "idle" /\ OnRow(p) /\ RowAt(p.y) = m_selected_index
  /\ m_entries[m_selected_index].is_directory
  /\ NavigateTo(m_entries[m_selected_index].full_path)

ClickEmptySpace(p) ==
  /\ xpc = "idle" /\ ~OnUpButton(p) /\ p.y >= 80 /\ ~OnRow(p)
  /\ m_selected_index' = 0
  /\ UNCHANGED <<fsVars, m_current_path, m_entries, xpc, target, files, quiet>>

\* stat() in navigate_to(): what is no directory any more is not entered.
NavigateStat ==
  /\ xpc = "stat"
  /\ IF IsDirectory(AsString(target))
       THEN m_current_path' = target /\ xpc' = "list"
       ELSE xpc' = "idle" /\ UNCHANGED m_current_path
  /\ target' = Root
  /\ UNCHANGED <<fsVars, m_entries, m_selected_index, files, quiet>>

\* The elements of a sequence that are in a set, in their order.
Kept(s, set) ==
  LET kept[i \in 0 .. Len(s)] ==
        IF i = 0 THEN <<>>
        ELSE IF s[i] \in set THEN Append(kept[i - 1], s[i]) ELSE kept[i - 1]
  IN  kept[Len(s)]

\* Mutant: the rows of the previous directory are kept.
RefreshListKeeping ==
  /\ xpc = "list"
  /\ files' = Kept(NameOrder, ListDirectory(AsString(m_current_path)))
  /\ m_selected_index' = 0
  /\ xpc' = IF files' = <<>> THEN "idle" ELSE "entries"
  /\ quiet' = TRUE
  /\ UNCHANGED <<fsVars, m_current_path, m_entries, target>>

\* refresh_current_directory(): the names, from a std::map in their order.
RefreshList ==
  /\ xpc = "list"
  /\ files' = Kept(NameOrder, ListDirectory(AsString(m_current_path)))
  /\ m_entries' = <<>> /\ m_selected_index' = 0
  /\ xpc' = IF files' = <<>> THEN "idle" ELSE "entries"
  /\ quiet' = TRUE
  /\ UNCHANGED <<fsVars, m_current_path, target>>

\* Directories first, and by name among themselves.
Sorted(entries) ==
  LET directories == {e \in Range(entries) : e.is_directory}
  IN  Kept(entries, directories) \o Kept(entries, Range(entries) \ directories)

\* Mutant: the path that is looked at is the name by itself.
EntryOfName(name) ==
  LET path == AppendComponent(Root, Component(name))
  IN  [name |-> name, full_path |-> path,
       is_directory |-> IsDirectory(AsString(path))]

EntryOf(name) ==
  LET path == AppendComponent(m_current_path, Component(name))
  IN  [name |-> name, full_path |-> path,
       is_directory |-> IsDirectory(AsString(path))]

\* stat() of one name, dropped if it is gone by now; after the last one, the
\* sort.
RefreshStat ==
  LET entry == EntryOf(Head(files))
      found == IF Exists(AsString(entry.full_path))
                 THEN Append(m_entries, entry) ELSE m_entries
  IN  /\ xpc = "entries"
      /\ files' = Tail(files)
      /\ IF files' = <<>>
           THEN m_entries' = Sorted(found) /\ xpc' = "idle"
           ELSE m_entries' = found /\ UNCHANGED xpc
      /\ UNCHANGED <<fsVars, m_current_path, m_selected_index, target, quiet>>

-----------------------------------------------------------------------------
(* render() *)

Highlight == Color("highlight", Opaque)

\* A label is drawn as the sequence of its parts.
RowPicture(i, width) ==
  (IF i # m_selected_index THEN <<>>
   ELSE << Rect(10, RowTop(i), width - 20, 30, Highlight) >>)
  \o DrawText(20, RowTop(i) + 10,
              << IF m_entries[i].is_directory THEN "[DIR]" ELSE "[FILE]",
                 m_entries[i].name >>, Color("grey", Opaque))

\* The panel, the title, the button, the rows and the status bar.
Picture(width, height) ==
  DrawPanel(0, 0, width, height)
  \o << Rect(0, 0, width, 30, Color("bar", Opaque)) >>
  \o DrawText(10, 10, << "File Explorer - ", m_current_path >>, White)
  \o DrawButton(10, 40, 40, 30, << "U", "p" >>)
  \o FlattenSeq([i \in DOMAIN m_entries |-> RowPicture(i, width)])
  \o << Rect(0, height - 20, width, 20, Color("status", Opaque)) >>
  \o DrawText(10, height - 15, << "Items: ", Len(m_entries) >>,
              Color("dim", Opaque))

-----------------------------------------------------------------------------
(* The other clients *)

\* Only the tree matters to the explorer, not what is in the files.
OtherTree ==
  /\ TreeOperation
  /\ quiet' = (quiet /\ kind' = kind /\ children' = children)
  /\ UNCHANGED <<viewVars, xpc, target, files>>

OtherHandle == HandleOperation /\ UNCHANGED explorerVars

Explorer ==
  \/ Initialize
  \/ \E p \in Points :
       ClickUp(p) \/ ClickRow(p) \/ ClickAgain(p) \/ ClickEmptySpace(p)
  \/ NavigateStat \/ RefreshList \/ RefreshStat

Next == Explorer \/ OtherTree \/ OtherHandle

Spec == Init /\ [][Next]_vars

-----------------------------------------------------------------------------
(* Properties *)

\* Every row is a name in the directory whose path the title shows, directories
\* come first, names are in order and none is there twice, whatever the others
\* did while the listing was put together, and a click where a row is drawn as
\* selected is a click on the selected row.  This holds from the end of a
\* refresh to the start of the next one.
RowsBelong ==
  xpc \in {"idle", "stat"} =>
    /\ \A i \in 1 .. Len(m_entries) :
         /\ Parent(m_entries[i].full_path) = m_current_path
         /\ Filename(m_entries[i].full_path) = m_entries[i].name
    /\ \A i, j \in 1 .. Len(m_entries) : i < j =>
         \/ m_entries[i].is_directory /\ ~m_entries[j].is_directory
         \/ /\ m_entries[i].is_directory = m_entries[j].is_directory
            /\ \E k, l \in 1 .. Len(NameOrder) :
                 /\ k < l
                 /\ NameOrder[k] = m_entries[i].name
                 /\ NameOrder[l] = m_entries[j].name
    /\ \A call \in Range(Picture(700, 500)) : call.color = Highlight =>
         \A y \in call.y .. call.y + call.height - 1 :
           RowAt(y) = m_selected_index

\* If nobody changes the tree, the rows are exactly what the directory holds.
QuietRowsExact ==
  quiet /\ xpc = "idle" =>
    {<<e.name, e.is_directory>> : e \in Range(m_entries)}
      = {<<name, IsDirectory(AsString(
                   AppendComponent(m_current_path, Component(name))))>> :
           name \in ListDirectory(AsString(m_current_path))}

-----------------------------------------------------------------------------
(* The inductive invariant. *)

\* Where the explorer is and goes: absolute paths that normalize() leaves alone.
Settled(path) == path.absolute /\ Normalize(AsString(path)) = path
SettledInv == Settled(m_current_path) /\ Settled(target)

Listed == xpc \notin {"new", "list"}

\* The path of a row is that of the directory with the name of the row.
ListedInv ==
  Listed => \A i \in 1 .. Len(m_entries) :
    m_entries[i].full_path
      = AppendComponent(m_current_path, Component(m_entries[i].name))

Before(a, b) ==
  \E k, l \in 1 .. Len(NameOrder) :
    k < l /\ NameOrder[k] = a /\ NameOrder[l] = b

\* While a listing is put together the names in it, and then those still to be
\* looked at, are in order.
WaitingInv ==
  xpc = "entries" =>
    /\ files # <<>> /\ m_selected_index = 0
    /\ \A i, j \in 1 .. Len(m_entries) : i < j =>
         Before(m_entries[i].name, m_entries[j].name)
    /\ \A i, j \in 1 .. Len(files) : i < j => Before(files[i], files[j])
    /\ \A i \in 1 .. Len(m_entries), j \in 1 .. Len(files) :
         Before(m_entries[i].name, files[j])

OrderedInv ==
  xpc \in {"idle", "stat"} =>
    \A i, j \in 1 .. Len(m_entries) : i < j =>
      \/ m_entries[i].is_directory /\ ~m_entries[j].is_directory
      \/ /\ m_entries[i].is_directory = m_entries[j].is_directory
         /\ Before(m_entries[i].name, m_entries[j].name)

\* If nobody changes the tree, what was listed is in the rows or still to be
\* looked at, and the rows tell directories from files.
QuietInv ==
  quiet /\ Listed =>
    /\ \A i \in 1 .. Len(m_entries) :
         m_entries[i].is_directory
           = IsDirectory(AsString(m_entries[i].full_path))
    /\ {m_entries[i].name : i \in 1 .. Len(m_entries)} \cup Range(files)
         = ListDirectory(AsString(m_current_path))

ExplorerInv ==
  /\ FsInv /\ TypeOK
  /\ SettledInv /\ ListedInv /\ WaitingInv /\ OrderedInv /\ QuietInv
=============================================================================
