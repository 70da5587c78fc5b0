----------------------------- MODULE VirtualPath -----------------------------
(***************************************************************************)
(* The paths of the file system as values.  A raw path, the text a caller  *)
(* passes, is its parts between the separators '/' and '\\', and whether   *)
(* it starts with '/', which alone makes it absolute.  A VirtualPath is    *)
(* what normalize() makes of it.                                           *)
(***************************************************************************)
EXTENDS Integers, SequencesExt

CONSTANT Names       \* names of files and directories

ASSUME NamesAssumption == Names \cap {"", ".", ".."} = {}

Parts == Names \cup {"", ".", ".."}
RawPath == [slash : BOOLEAN, parts : Seq(Parts)]
Path == [absolute : BOOLEAN, segments : Seq(Names \cup {".."})]

\* Mutant: ".." above the root is kept.
PushSegmentAboveRoot(absolute, segments, part) ==
  IF part \in {"", "."} THEN segments
  ELSE IF part # ".." THEN Append(segments, part)
  ELSE IF segments # <<>> /\ Last(segments) # ".." THEN Front(segments)
  ELSE Append(segments, part)

\* push_segment(): empty parts and "." are dropped, ".." takes back the segment
\* before it and is kept only where a relative path leads upwards.
PushSegment(absolute, segments, part) ==
  IF part \in {"", "."} THEN segments
  ELSE IF part # ".." THEN Append(segments, part)
  ELSE IF segments # <<>> /\ Last(segments) # ".." THEN Front(segments)
  ELSE IF absolute THEN segments
  ELSE Append(segments, part)

Normalize(raw) ==
  LET after[i \in 0 .. Len(raw.parts)] ==
        IF i = 0 THEN <<>> ELSE PushSegment(raw.slash, after[i - 1], raw.parts[i])
  IN  [absolute |-> raw.slash, segments |-> after[Len(raw.parts)]]

\* as_string(): what a path looks like to a function that takes a raw path.
AsString(path) == [slash |-> path.absolute, parts |-> path.segments]

IsRoot(path) == path.absolute /\ path.segments = <<>>
IsEmpty(path) == ~path.absolute /\ path.segments = <<>>

\* parent(): of a relative path that leads upwards it is one more "..".
Parent(path) ==
  IF path.segments = <<>> THEN path
  ELSE IF ~path.absolute /\ Last(path.segments) = ".."
    THEN [path EXCEPT !.segments = Append(@, "..")]
  ELSE [path EXCEPT !.segments = Front(@)]

Filename(path) == IF path.segments = <<>> THEN "" ELSE Last(path.segments)

\* append(): the text of both, joined by '/', is normalised again.  Only on the
\* empty path does a '/' in front of the component make the result absolute.
AppendComponent(path, raw) ==
  IF raw.parts = <<>> /\ ~raw.slash THEN path
  ELSE IF IsEmpty(path) THEN Normalize(raw)
  ELSE Normalize([slash |-> path.absolute, parts |-> path.segments \o raw.parts])

\* The raw path that is one name.
Component(name) == [slash |-> FALSE, parts |-> <<name>>]
=============================================================================
