------------------------------- MODULE FileTree -------------------------------
(***************************************************************************)
(* What the file system promises, in terms of places: the sequences of     *)
(* names that lead from the root to a directory or a file.  Each operation *)
(* touches the place it is told and no other.  A handle stays with the     *)
(* file it was opened on: it follows no name, and once the file has been   *)
(* removed it reaches nothing that has a name, not even a new file at the  *)
(* old place.                                                              *)
(***************************************************************************)
EXTENDS Naturals, Sequences

CONSTANTS Names, Handles

VARIABLES
  directories,  \* the places of directories
  contents,     \* the place of each file -> what is in it
  opened,       \* the handles that are open
  at            \* handle -> the place of its file: one or, if it is gone, none

treeVars == <<directories, contents, opened, at>>

Places == directories \cup DOMAIN contents

Init ==
  /\ directories = {<<>>} /\ contents = [place \in {} |-> <<>>]
  /\ opened = {} /\ at = [h \in Handles |-> {}]

Bind(h, place) ==
  /\ h \in Handles \ opened
  /\ opened' = opened \cup {h}
  /\ at' = [at EXCEPT ![h] = {place}]

\* Only in a directory, and only where there is nothing.
Free(dir, name) == dir \in directories /\ Append(dir, name) \notin Places

MakeDirectory(dir, name) ==
  /\ Free(dir, name)
  /\ directories' = directories \cup {Append(dir, name)}
  /\ UNCHANGED <<contents, opened, at>>

\* A new file is empty.
MakeFile(h, dir, name) ==
  LET place == Append(dir, name)
  IN  /\ Free(dir, name)
      /\ contents' = [p \in DOMAIN contents \cup {place} |->
                        IF p = place THEN <<>> ELSE contents[p]]
      /\ Bind(h, place)
      /\ UNCHANGED directories

OpenFile(h, place) ==
  /\ place \in DOMAIN contents
  /\ Bind(h, place)
  /\ UNCHANGED <<directories, contents>>

EmptyFile(h, place) ==
  /\ place \in DOMAIN contents
  /\ contents' = [contents EXCEPT ![place] = <<>>]
  /\ Bind(h, place)
  /\ UNCHANGED directories

\* Never what still holds something.
Remove(place) ==
  /\ place \in Places \ {<<>>}
  /\ \A name \in Names : Append(place, name) \notin Places
  /\ directories' = directories \ {place}
  /\ contents' = [p \in DOMAIN contents \ {place} |-> contents[p]]
  /\ at' = [h \in Handles |-> at[h] \ {place}]
  /\ UNCHANGED opened

\* Through a handle only its file changes, and gets no shorter.
WriteFile(h) ==
  /\ h \in opened
  /\ contents' = [p \in DOMAIN contents |-> contents'[p]]
  /\ \A p \in DOMAIN contents :
       IF p \in at[h] THEN Len(contents'[p]) >= Len(contents[p])
       ELSE contents'[p] = contents[p]
  /\ UNCHANGED <<directories, opened, at>>

CloseFile(h) ==
  /\ h \in opened
  /\ opened' = opened \ {h}
  /\ at' = [at EXCEPT ![h] = {}]
  /\ UNCHANGED <<directories, contents>>

Next ==
  \/ \E dir \in directories, name \in Names :
       \/ MakeDirectory(dir, name)
       \/ \E h \in Handles : MakeFile(h, dir, name)
  \/ \E place \in Places : Remove(place)
  \/ \E h \in Handles :
       \/ \E place \in DOMAIN contents : OpenFile(h, place) \/ EmptyFile(h, place)
       \/ WriteFile(h) \/ CloseFile(h)

Spec == Init /\ [][Next]_treeVars
=============================================================================
