---------------------------- MODULE MCFileExplorer ----------------------------
(* Instances of FileExplorer for TLC. *)
EXTENDS FileExplorer, TLC

CONSTANTS n0, n1, n2, h1, h2

MCNames == {"a", "b"}
MCNameOrder == <<"a", "b">>
MCNodes == {n0, n1, n2}
MCHandles == {h1, h2}
Raw(s, parts) == [slash |-> s, parts |-> parts]
\* The root, above it, its children, theirs, detours, and relative paths.
MCRawPaths ==
  {Raw(TRUE, <<>>), Raw(TRUE, <<"b">>), Raw(TRUE, <<"..", "b">>),
   Raw(TRUE, <<"", "a", ".">>), Raw(TRUE, <<"a", "b">>),
   Raw(TRUE, <<"a", "..", "b", "a", "">>),
   Raw(FALSE, <<"..", "a">>), Raw(FALSE, <<"a", "..", "..">>)}
\* The corner of the button, the first and the last pixel line of the rows that
\* there can be, and below them.
MCPoints == {[x |-> 50, y |-> 70], [x |-> 0, y |-> 80], [x |-> 90, y |-> 139],
             [x |-> 90, y |-> 140]}
\* No text is drawn pixel by pixel.
MCFont == [c \in {} |-> {}]
Symmetry == Permutations({n1, n2}) \cup Permutations(MCHandles)
\* Bound: what is in the files, which no explorer looks at, is explored before
\* this one has started; once it has, files that are written to are left there.
WrittenBeforeStart == xpc = "new" \/ \A n \in Nodes : data[n] = <<>>
=============================================================================
