------------------------- MODULE FileExplorer_proofs -------------------------
(***************************************************************************)
(* Proofs about VirtualPath, MemoryFileSystem and FileExplorer: what       *)
(* normalize() and the resolution of paths compute for every path, and     *)
(* what the operations on the tree and on handles keep, for any names,     *)
(* paths, numbers of nodes and handles, whatever the explorer and the      *)
(* other clients interleave.                                               *)
(***************************************************************************)
EXTENDS FileExplorer, FiniteSetTheorems, SequenceTheorems, WellFoundedInduction,
        TLAPS

-----------------------------------------------------------------------------
(* Loops over the first n numbers *)

\* What holds at 0 and goes from each number to the next holds at all of them;
\* the property is the set of the numbers that have it.
LEMMA UpTo ==
  ASSUME NEW n \in Nat, NEW T, 0 \in T,
         \A i \in 1 .. n : i - 1 \in T => i \in T
  PROVE  \A i \in 0 .. n : i \in T
<1> DEFINE B == {i \in 0 .. n : i \notin T}
<1>1. SUFFICES ASSUME B # {} PROVE FALSE
  OBVIOUS
<1>2. B \subseteq Nat
  OBVIOUS
<1>3. PICK x \in B : \A y \in B : ~(<<y, x>> \in OpToRel(<, Nat))
  BY <1>1, <1>2, NatLessThanWellFounded, WFMin
<1>4. \A y \in B : ~(y < x)
  BY <1>2, <1>3 DEF OpToRel
<1>5. x \in 1 .. n /\ x - 1 \in 0 .. n /\ x - 1 < x
  OBVIOUS
<1>6. x - 1 \in T
  BY <1>4, <1>5
<1> QED
  BY <1>5, <1>6

\* What a loop computes, iteration by iteration.
Iterates(f, n, base, step) ==
  f = [i \in 0 .. n |-> IF i = 0 THEN base ELSE step[<<f[i - 1], i>>]]

\* A loop whose step stays in S computes something, and stays in S.
LEMMA LoopExists ==
  ASSUME NEW n \in Nat, NEW S, NEW base \in S, NEW step \in [S \X (1 .. n) -> S]
  PROVE  \E f \in [0 .. n -> S] : Iterates(f, n, base, step)
<1> DEFINE T == {k \in 0 .. n : \E f \in [0 .. k -> S] : Iterates(f, k, base, step)}
<1>1. 0 \in T
  <2> DEFINE f == [i \in 0 .. 0 |-> base]
  <2>1. f \in [0 .. 0 -> S]
    OBVIOUS
  <2>2. f = [i \in 0 .. 0 |-> IF i = 0 THEN base ELSE step[<<f[i - 1], i>>]]
    OBVIOUS
  <2> HIDE DEF f
  <2> QED
    BY <2>1, <2>2 DEF Iterates
<1>2. ASSUME NEW k \in 1 .. n, k - 1 \in T PROVE k \in T
  <2>1. PICK f \in [0 .. k - 1 -> S] : Iterates(f, k - 1, base, step)
    BY <1>2
  <2>2. /\ \A i \in 0 .. k - 1 : f[i] = IF i = 0 THEN base ELSE step[<<f[i - 1], i>>]
    BY <2>1 DEF Iterates
  <2> DEFINE g == [i \in 0 .. k |-> IF i = k THEN step[<<f[k - 1], k>>] ELSE f[i]]
  <2>3. f[k - 1] \in S /\ step[<<f[k - 1], k>>] \in S /\ k # 0 /\ k \in Nat
    OBVIOUS
  <2>4. \A i \in 0 .. k : i # k => i \in 0 .. k - 1
    OBVIOUS
  <2>5. g \in [0 .. k -> S]
    BY <2>3, <2>4
  <2>6. ASSUME NEW i \in 0 .. k
        PROVE  g[i] = IF i = 0 THEN base ELSE step[<<g[i - 1], i>>]
    <3>1. CASE i = k
      <4>1. k - 1 \in 0 .. k /\ k - 1 # k
        BY <2>3
      <4> QED
        BY <2>3, <3>1, <4>1
    <3>2. CASE i # k
      <4>1. i \in 0 .. k - 1 /\ (i # 0 => i - 1 \in 0 .. k /\ i - 1 # k)
        BY <3>2
      <4> QED
        BY <2>2, <3>2, <4>1
    <3> QED
      BY <3>1, <3>2
  <2>7. g = [i \in 0 .. k |-> IF i = 0 THEN base ELSE step[<<g[i - 1], i>>]]
    <3>1. g = [i \in 0 .. k |-> g[i]]
      OBVIOUS
    <3> HIDE DEF g
    <3> QED
      BY <2>6, <3>1
  <2>8. Iterates(g, k, base, step)
    <3> HIDE DEF g
    <3> QED
      BY <2>7 DEF Iterates
  <2>9. k \in 0 .. n
    OBVIOUS
  <2>10. \E h \in [0 .. k -> S] : Iterates(h, k, base, step)
    <3> HIDE DEF g
    <3> QED
      BY <2>5, <2>8
  <2> QED
    BY <2>9, <2>10
<1>3. n \in T
  <2> HIDE DEF T
  <2>1. \A i \in 0 .. n : i \in T
    BY <1>1, <1>2, UpTo
  <2> QED
    BY <2>1
<1> QED
  BY <1>3

-----------------------------------------------------------------------------
(* Sequences *)

\* Front() and Last().
LEMMA FrontIs ==
  ASSUME NEW S, NEW s \in Seq(S), s # <<>>
  PROVE  /\ Front(s) \in Seq(S) /\ Len(Front(s)) = Len(s) - 1
         /\ \A i \in 1 .. Len(s) - 1 : Front(s)[i] = s[i]
         /\ Last(s) \in S /\ Len(s) \in Nat \ {0} /\ Last(s) = s[Len(s)]
<1>1. Len(s) \in Nat \ {0} /\ \A i \in 1 .. Len(s) : s[i] \in S
  BY EmptySeq, ElementOfSeq
<1>2. 1 \in Int /\ Len(s) - 1 \in Int /\ \A i \in 1 .. Len(s) - 1 : s[i] \in S
  BY <1>1
<1> DEFINE m == Len(s) - 1
           f == SubSeq(s, 1, m)
<1>3. /\ f \in Seq(S) /\ Len(f) = IF 1 <= m THEN m - 1 + 1 ELSE 0
      /\ \A i \in 1 .. m - 1 + 1 : f[i] = s[1 + i - 1]
  BY <1>2, SubSeqProperties
<1>4. Front(s) = f /\ Last(s) = s[Len(s)]
  BY DEF Front, Last
<1>5. m \in Nat
  BY <1>1
<1> HIDE DEF f, m
<1>6. Len(f) = m
  BY <1>3, <1>5
<1>7. \A i \in 1 .. m : f[i] = s[i]
  BY <1>3, <1>5
<1>8. Last(s) \in S
  BY <1>1, <1>4
<1> QED
  BY <1>1, <1>3, <1>4, <1>6, <1>7, <1>8 DEF m

LEMMA AppendIs ==
  ASSUME NEW S, NEW s \in Seq(S), NEW x \in S
  PROVE  /\ Append(s, x) \in Seq(S) /\ Append(s, x) # <<>>
         /\ Len(Append(s, x)) = Len(s) + 1 /\ Len(s) \in Nat
         /\ \A i \in 1 .. Len(s) : Append(s, x)[i] = s[i]
         /\ Append(s, x)[Len(s) + 1] = x
         /\ Last(Append(s, x)) = x
         /\ Front(Append(s, x)) = s
<1> DEFINE t == Append(s, x)
<1>1. /\ t \in Seq(S) /\ t # <<>> /\ Len(t) = Len(s) + 1
      /\ \A i \in 1 .. Len(s) : t[i] = s[i]
      /\ t[Len(s) + 1] = x
  BY AppendProperties
<1>2. Len(s) \in Nat
  BY LenProperties
<1> HIDE DEF t
<1>3. /\ Front(t) \in Seq(S) /\ Len(Front(t)) = Len(t) - 1
      /\ \A i \in 1 .. Len(t) - 1 : Front(t)[i] = t[i]
      /\ Last(t) = t[Len(t)]
  BY <1>1, FrontIs
<1>4. Front(t) = s
  <2>1. Len(Front(t)) = Len(s) /\ \A i \in 1 .. Len(Front(t)) : Front(t)[i] = s[i]
    BY <1>1, <1>2, <1>3
  <2> QED
    BY <1>3, <2>1, SeqEqual
<1>5. Last(t) = x
  BY <1>1, <1>3
<1> QED
  BY <1>1, <1>2, <1>4, <1>5 DEF t

-----------------------------------------------------------------------------
(* normalize() *)

Segments == Seq(Names \cup {".."})

\* What push_segment() keeps of absolute and of relative paths: ".." is nowhere
\* in an absolute one, and in a relative one only where it starts.
Normal(absolute, segments) ==
  /\ segments \in Segments
  /\ \A i \in 1 .. Len(segments) : segments[i] = ".." =>
       /\ ~absolute
       /\ \A j \in 1 .. i : segments[j] = ".."

LEMMA PushKeeps ==
  ASSUME NEW absolute \in BOOLEAN, NEW segments, Normal(absolute, segments),
         NEW part \in Parts
  PROVE  Normal(absolute, PushSegment(absolute, segments, part))
<1> DEFINE P == Names \cup {".."}
<1>1. /\ segments \in Seq(P) /\ Len(segments) \in Nat
      /\ \A i \in 1 .. Len(segments) : segments[i] = ".." =>
           ~absolute /\ \A j \in 1 .. i : segments[j] = ".."
  BY LenProperties DEF Normal, Segments
<1>2. CASE part \in {"", "."}
  BY <1>2 DEF PushSegment
<1>3. CASE part \notin {"", "."} /\ part # ".."
  <2>1. part \in P /\ PushSegment(absolute, segments, part) = Append(segments, part)
    BY <1>3 DEF PushSegment, Parts
  <2> DEFINE t == Append(segments, part)
  <2>2. /\ t \in Seq(P) /\ Len(t) = Len(segments) + 1
        /\ \A i \in 1 .. Len(segments) : t[i] = segments[i]
        /\ t[Len(segments) + 1] = part
    BY <1>1, <2>1, AppendIs
  <2> HIDE DEF t
  <2>3. \A i \in 1 .. Len(t) : t[i] = ".." =>
          ~absolute /\ \A j \in 1 .. i : t[j] = ".."
    <3> SUFFICES ASSUME NEW i \in 1 .. Len(t), t[i] = ".."
                 PROVE  ~absolute /\ \A j \in 1 .. i : t[j] = ".."
      OBVIOUS
    <3>1. i # Len(segments) + 1
      BY <1>3, <2>2
    <3>2. i \in 1 .. Len(segments) /\ \A j \in 1 .. i : j \in 1 .. Len(segments)
      BY <1>1, <2>2, <3>1
    <3> QED
      BY <1>1, <2>2, <3>2
  <2> QED
    BY <2>1, <2>2, <2>3 DEF Normal, Segments, t
<1>4. CASE part = ".." /\ segments # <<>> /\ Last(segments) # ".."
  <2>1. PushSegment(absolute, segments, part) = Front(segments)
    BY <1>4 DEF PushSegment
  <2> DEFINE t == Front(segments)
  <2>2. /\ t \in Seq(P) /\ Len(t) = Len(segments) - 1
        /\ \A i \in 1 .. Len(segments) - 1 : t[i] = segments[i]
    BY <1>1, <1>4, FrontIs
  <2> HIDE DEF t
  <2>3. \A i \in 1 .. Len(t) : t[i] = ".." =>
          ~absolute /\ \A j \in 1 .. i : t[j] = ".."
    BY <1>1, <2>2
  <2> QED
    BY <2>1, <2>2, <2>3 DEF Normal, Segments, t
<1>5. CASE part = ".." /\ ~(segments # <<>> /\ Last(segments) # "..") /\ absolute
  BY <1>5 DEF PushSegment
<1>6. CASE part = ".." /\ ~(segments # <<>> /\ Last(segments) # "..") /\ ~absolute
  <2>1. part \in P /\ PushSegment(absolute, segments, part) = Append(segments, part)
    BY <1>6 DEF PushSegment
  <2>2. \A i \in 1 .. Len(segments) : segments[i] = ".."
    <3>1. CASE segments = <<>>
      BY <3>1
    <3>2. CASE segments # <<>>
      BY <1>1, <1>6, <3>2, FrontIs
    <3> QED
      BY <3>1, <3>2
  <2> QED
    BY <1>1, <1>6, <2>1, <2>2, AppendIs DEF Normal, Segments
<1> QED
  BY <1>2, <1>3, <1>4, <1>5, <1>6

\* The loop of normalize().
LEMMA NormalizeLoop ==
  ASSUME NEW raw \in RawPath
  PROVE  \E after \in [0 .. Len(raw.parts) -> Segments] :
           /\ after[0] = <<>>
           /\ \A i \in 1 .. Len(raw.parts) :
                after[i] = PushSegment(raw.slash, after[i - 1], raw.parts[i])
           /\ \A i \in 0 .. Len(raw.parts) : Normal(raw.slash, after[i])
           /\ Normalize(raw) = [absolute |-> raw.slash,
                                segments |-> after[Len(raw.parts)]]
<1> DEFINE n == Len(raw.parts)
           S == {s \in Segments : Normal(raw.slash, s)}
           step == [x \in S \X (1 .. n) |->
                      PushSegment(raw.slash, x[1], raw.parts[x[2]])]
           Is(f) == f = [i \in 0 .. n |->
                      IF i = 0 THEN <<>>
                      ELSE PushSegment(raw.slash, f[i - 1], raw.parts[i])]
           after == CHOOSE f : Is(f)
<1>1. /\ n \in Nat /\ raw.slash \in BOOLEAN
      /\ \A i \in 1 .. n : raw.parts[i] \in Parts
  <2>1. raw.parts \in Seq(Parts) /\ raw.slash \in BOOLEAN
    BY DEF RawPath
  <2> QED
    BY <2>1, LenProperties, ElementOfSeq
<1>2. <<>> \in S
  BY EmptySeq DEF Normal, Segments
<1>3. \A s \in S, i \in 1 .. n : PushSegment(raw.slash, s, raw.parts[i]) \in S
  BY <1>1, PushKeeps DEF Normal
<1>4. step \in [S \X (1 .. n) -> S]
  <2> HIDE DEF S, n
  <2> QED
    BY <1>3
<1>5. PICK f \in [0 .. n -> S] : Iterates(f, n, <<>>, step)
  <2> HIDE DEF S, n, step
  <2> QED
    BY <1>1, <1>2, <1>4, LoopExists
<1>6. Is(f)
  <2>1. f = [i \in 0 .. n |-> IF i = 0 THEN <<>> ELSE step[<<f[i - 1], i>>]]
    BY <1>5 DEF Iterates
  <2>2. ASSUME NEW i \in 0 .. n, i # 0
        PROVE  step[<<f[i - 1], i>>] = PushSegment(raw.slash, f[i - 1], raw.parts[i])
    <3>1. i \in 1 .. n /\ f[i - 1] \in S
      BY <1>1, <1>5, <2>2
    <3> HIDE DEF S, n
    <3> QED
      BY <3>1
  <2> HIDE DEF S, n, step
  <2> QED
    BY <2>1, <2>2
<1>7. Is(after)
  <2> HIDE DEF Is
  <2> QED
    BY <1>6
<1>8. /\ after[0] = <<>>
      /\ \A i \in 1 .. n :
           after[i] = PushSegment(raw.slash, after[i - 1], raw.parts[i])
  <2> HIDE DEF after, n
  <2> QED
    BY <1>1, <1>7
<1>9. \A i \in 0 .. n : after[i] \in S
  <2> DEFINE T == {i \in 0 .. n : after[i] \in S}
  <2> HIDE DEF after, n, S
  <2>1. 0 \in T /\ \A i \in 1 .. n : i - 1 \in T => i \in T
    BY <1>1, <1>2, <1>3, <1>8
  <2> HIDE DEF T
  <2>2. \A i \in 0 .. n : i \in T
    BY <1>1, <2>1, UpTo
  <2> QED
    BY <2>2 DEF T
<1>10. after \in [0 .. n -> Segments]
  <2>1. after = [i \in 0 .. n |-> after[i]]
    <3> HIDE DEF after, n
    <3> QED
      BY <1>7
  <2> HIDE DEF after, n
  <2> QED
    BY <1>9, <2>1
<1>11. Normalize(raw) = [absolute |-> raw.slash, segments |-> after[n]]
  BY DEF Normalize
<1> HIDE DEF after, n
<1> QED
  BY <1>8, <1>9, <1>10, <1>11 DEF n

\* normalize() makes a path of every raw one, and keeps its kind.
LEMMA NormalizeIs ==
  ASSUME NEW raw \in RawPath
  PROVE  /\ Normalize(raw) \in Path
         /\ Normalize(raw).absolute = raw.slash
         /\ Normal(raw.slash, Normalize(raw).segments)
<1>1. Len(raw.parts) \in 0 .. Len(raw.parts) /\ raw.slash \in BOOLEAN
  BY LenProperties DEF RawPath
<1> QED
  BY <1>1, NormalizeLoop DEF Path, Segments

\* Its results are paths that it leaves as they are: normalising is idempotent,
\* and each path has one spelling that as_string() gives.
THEOREM NormalFormsStay ==
  ASSUME NEW path \in Path, Normal(path.absolute, path.segments)
  PROVE  Normalize(AsString(path)) = path
<1> DEFINE raw == AsString(path)
           s == path.segments
           P == Names \cup {".."}
           n == Len(s)
<1>1. raw \in RawPath /\ raw.parts = s /\ raw.slash = path.absolute
  <2>1. s \in Seq(P) /\ P \subseteq Parts /\ path.absolute \in BOOLEAN
    BY DEF Path, Parts
  <2>2. s \in Seq(Parts)
    BY <2>1, SeqMonotonic
  <2> QED
    BY <2>1, <2>2 DEF AsString, RawPath
<1>2. PICK after \in [0 .. n -> Segments] :
        /\ after[0] = <<>>
        /\ \A i \in 1 .. n : after[i] = PushSegment(path.absolute, after[i - 1], s[i])
        /\ Normalize(raw) = [absolute |-> path.absolute, segments |-> after[n]]
  <2> HIDE DEF raw
  <2> QED
    BY <1>1, NormalizeLoop
<1>3. /\ s \in Seq(P) /\ n \in Nat /\ \A i \in 1 .. n : s[i] \in P
      /\ \A i \in 1 .. n : s[i] = ".." =>
           ~path.absolute /\ \A j \in 1 .. i : s[j] = ".."
  BY LenProperties, ElementOfSeq DEF Normal, Path
<1> DEFINE Same(t, i) == Len(t) = i /\ \A j \in 1 .. i : t[j] = s[j]
           T == {i \in 0 .. n : Same(after[i], i)}
<1> HIDE DEF n, s, raw
<1>4. 0 \in T
  BY <1>2, <1>3, EmptySeq
<1>5. ASSUME NEW i \in 1 .. n, i - 1 \in T PROVE i \in T
  <2> DEFINE t == after[i - 1]
  <2>1. t \in Seq(P) /\ Len(t) = i - 1 /\ \A j \in 1 .. i - 1 : t[j] = s[j]
    BY <1>2, <1>5 DEF Segments
  <2>2. after[i] = PushSegment(path.absolute, t, s[i])
    BY <1>2
  <2> HIDE DEF t
  <2>3. PushSegment(path.absolute, t, s[i]) = Append(t, s[i])
    <3>1. s[i] \notin {"", "."}
      BY <1>3, NamesAssumption
    <3>2. CASE s[i] # ".."
      BY <3>1, <3>2 DEF PushSegment
    <3>3. CASE s[i] = ".."
      <4>1. ~path.absolute
        BY <1>3, <3>3
      <4>2. t # <<>> => Last(t) = ".."
        <5> SUFFICES ASSUME t # <<>> PROVE Last(t) = ".."
          OBVIOUS
        <5>1. Len(t) \in Nat \ {0} /\ Last(t) = t[Len(t)]
          BY <2>1, FrontIs
        <5>2. Last(t) = t[i - 1] /\ i - 1 \in 1 .. i - 1 /\ i - 1 \in 1 .. i
          BY <2>1, <5>1
        <5> QED
          BY <1>3, <2>1, <3>3, <5>2
      <4> QED
        BY <3>1, <3>3, <4>1, <4>2 DEF PushSegment
    <3> QED
      BY <3>2, <3>3
  <2> DEFINE u == Append(t, s[i])
  <2>4. Len(u) = i /\ (\A j \in 1 .. i - 1 : u[j] = t[j]) /\ u[i] = s[i]
    <3>1. /\ Len(u) = Len(t) + 1 /\ \A j \in 1 .. Len(t) : u[j] = t[j]
          /\ u[Len(t) + 1] = s[i]
      BY <1>3, <2>1, AppendIs
    <3> HIDE DEF u
    <3> QED
      BY <2>1, <3>1
  <2>5. after[i] = u
    BY <2>2, <2>3
  <2> HIDE DEF u
  <2>6. Same(u, i)
    BY <2>1, <2>4
  <2> QED
    BY <2>5, <2>6
<1>6. Same(after[n], n)
  <2> HIDE DEF T
  <2>1. \A i \in 0 .. n : i \in T
    BY <1>3, <1>4, <1>5, UpTo
  <2>2. n \in T
    BY <1>3, <2>1
  <2> QED
    BY <2>2 DEF T
<1>7. after[n] = s
  <2>1. after[n] \in Seq(P)
    BY <1>2, <1>3 DEF Segments
  <2> QED
    BY <1>3, <1>6, <2>1, SeqEqual DEF n
<1> QED
  BY <1>2, <1>7 DEF Path, s, raw

\* Part by part, a walk from the root does what normalize() does.
THEOREM NormalizeWalks ==
  ASSUME NEW raw \in RawPath, raw.slash
  PROVE  Walk(raw) = Normalize(raw).segments
<1> DEFINE n == Len(raw.parts)
           Go(s, part) == IF part \in {"", "."} THEN s
                          ELSE IF part # ".." THEN Append(s, part)
                          ELSE IF s = <<>> THEN <<>> ELSE Front(s)
           Is(f) == f = [i \in 0 .. n |-> IF i = 0 THEN <<>>
                         ELSE IF raw.parts[i] \in {"", "."} THEN f[i - 1]
                         ELSE IF raw.parts[i] # ".." THEN Append(f[i - 1], raw.parts[i])
                         ELSE IF f[i - 1] = <<>> THEN <<>> ELSE Front(f[i - 1])]
           at == CHOOSE f : Is(f)
<1>1. n \in Nat
  BY LenProperties DEF RawPath
<1>2. PICK after \in [0 .. n -> Segments] :
        /\ after[0] = <<>>
        /\ \A i \in 1 .. n : after[i] = PushSegment(TRUE, after[i - 1], raw.parts[i])
        /\ \A i \in 0 .. n : Normal(TRUE, after[i])
        /\ Normalize(raw) = [absolute |-> TRUE, segments |-> after[n]]
  BY NormalizeLoop DEF RawPath
<1>3. ASSUME NEW s, Normal(TRUE, s), NEW part
      PROVE  PushSegment(TRUE, s, part) = Go(s, part)
  <2>1. s # <<>> => Last(s) # ".."
    BY <1>3, FrontIs DEF Normal, Segments
  <2> QED
    BY <2>1 DEF PushSegment
<1>4. ASSUME NEW i \in 1 .. n PROVE after[i] = Go(after[i - 1], raw.parts[i])
  <2> HIDE DEF n, Go
  <2>1. i - 1 \in 0 .. n
    BY <1>1
  <2> QED
    BY <1>2, <1>3, <2>1
<1>5. Is(after)
  <2> DEFINE g == [i \in 0 .. n |-> IF i = 0 THEN <<>> ELSE Go(after[i - 1], raw.parts[i])]
  <2>1. after = g
    <3> HIDE DEF n, Go
    <3> QED
      BY <1>1, <1>2, <1>4
  <2> QED
    BY <2>1
<1>6. Is(at)
  <2> HIDE DEF Is
  <2> QED
    BY <1>5
<1>7. at[0] = <<>> /\ \A i \in 1 .. n : at[i] = Go(at[i - 1], raw.parts[i])
  <2>1. at = [i \in 0 .. n |->
                IF i = 0 THEN <<>> ELSE Go(at[i - 1], raw.parts[i])]
    <3> HIDE DEF at, n
    <3> QED
      BY <1>6
  <2> HIDE DEF at, n, Go
  <2> QED
    BY <1>1, <2>1
<1>8. at[n] = after[n]
  <2> DEFINE T == {i \in 0 .. n : at[i] = after[i]}
  <2> HIDE DEF at, n, Go
  <2>1. 0 \in T /\ \A i \in 1 .. n : i - 1 \in T => i \in T
    BY <1>1, <1>2, <1>4, <1>7
  <2> HIDE DEF T
  <2>2. \A i \in 0 .. n : i \in T
    BY <1>1, <2>1, UpTo
  <2> QED
    BY <1>1, <2>2 DEF T
<1>9. Walk(raw) = at[n]
  BY DEF Walk
<1> HIDE DEF at, n
<1> QED
  BY <1>2, <1>8, <1>9

\* parent() is what one more ".." makes of a path, unless the path is empty.
LEMMA ParentIsUp ==
  ASSUME NEW raw \in RawPath, ~IsEmpty(Normalize(raw))
  PROVE  Parent(Normalize(raw)) = Normalize([raw EXCEPT !.parts = Append(@, "..")])
<1> DEFINE n == Len(raw.parts)
           P == Names \cup {".."}
           up == [raw EXCEPT !.parts = Append(@, "..")]
<1>1. raw.parts \in Seq(Parts) /\ raw.slash \in BOOLEAN
  BY DEF RawPath
<1>2. up = [slash |-> raw.slash, parts |-> Append(raw.parts, "..")]
  BY DEF RawPath
<1>3. /\ up.parts \in Seq(Parts) /\ n \in Nat /\ Len(up.parts) = n + 1
      /\ \A i \in 1 .. n : up.parts[i] = raw.parts[i]
      /\ up.parts[n + 1] = ".."
  <2>1. ".." \in Parts
    BY DEF Parts
  <2>2. up.parts = Append(raw.parts, "..")
    BY <1>2
  <2> HIDE DEF up
  <2> QED
    BY <1>1, <2>1, <2>2, AppendIs
<1>4. up \in RawPath /\ up.slash = raw.slash
  BY <1>1, <1>2, <1>3 DEF RawPath
<1> HIDE DEF up
<1>5. PICK after \in [0 .. n -> Segments] :
        /\ after[0] = <<>>
        /\ \A i \in 1 .. n : after[i] = PushSegment(raw.slash, after[i - 1], raw.parts[i])
        /\ \A i \in 0 .. n : Normal(raw.slash, after[i])
        /\ Normalize(raw) = [absolute |-> raw.slash, segments |-> after[n]]
  BY NormalizeLoop
<1>6. PICK more \in [0 .. n + 1 -> Segments] :
        /\ more[0] = <<>>
        /\ \A i \in 1 .. n + 1 :
             more[i] = PushSegment(raw.slash, more[i - 1], up.parts[i])
        /\ Normalize(up) = [absolute |-> raw.slash, segments |-> more[n + 1]]
  BY <1>3, <1>4, NormalizeLoop
<1> HIDE DEF n
<1>7. more[n] = after[n]
  <2> DEFINE T == {i \in 0 .. n : more[i] = after[i]}
  <2>1. 0 \in T /\ \A i \in 1 .. n : i - 1 \in T => i \in T
    BY <1>3, <1>5, <1>6
  <2> HIDE DEF T
  <2>2. \A i \in 0 .. n : i \in T
    BY <1>3, <2>1, UpTo
  <2> QED
    BY <1>3, <2>2 DEF T
<1> DEFINE segs == after[n]
<1>8. more[n + 1] = PushSegment(raw.slash, segs, "..")
  <2>1. n + 1 \in 1 .. n + 1 /\ n + 1 - 1 = n
    BY <1>3
  <2> QED
    BY <1>3, <1>6, <1>7, <2>1
<1>9. /\ segs \in Seq(P) /\ Len(segs) \in Nat
      /\ \A i \in 1 .. Len(segs) : segs[i] = ".." => ~raw.slash
  <2>1. Normal(raw.slash, segs)
    BY <1>3, <1>5
  <2> HIDE DEF segs
  <2>2. segs \in Seq(P)
    BY <2>1 DEF Normal, Segments
  <2> QED
    BY <2>1, <2>2, LenProperties DEF Normal
<1>10. Normalize(raw) = [absolute |-> raw.slash, segments |-> segs]
  BY <1>5
<1>11. Normalize(up) = [absolute |-> raw.slash,
                        segments |-> PushSegment(raw.slash, segs, "..")]
  BY <1>6, <1>8
<1> HIDE DEF segs
<1>12. CASE segs = <<>>
  <2>1. raw.slash
    BY <1>1, <1>10, <1>12 DEF IsEmpty
  <2>2. PushSegment(raw.slash, segs, "..") = segs
    BY <1>12, <2>1 DEF PushSegment
  <2> QED
    BY <1>10, <1>11, <1>12, <2>2 DEF Parent, up
<1>13. CASE segs # <<>> /\ Last(segs) = ".."
  <2>1. ~raw.slash
    BY <1>9, <1>13, FrontIs
  <2>2. PushSegment(raw.slash, segs, "..") = Append(segs, "..")
    BY <1>13, <2>1 DEF PushSegment
  <2> DEFINE path == [absolute |-> raw.slash, segments |-> segs]
  <2>3. path.absolute = raw.slash /\ path.segments = segs
    OBVIOUS
  <2>4. \A t : [path EXCEPT !.segments = t] = [absolute |-> raw.slash, segments |-> t]
    OBVIOUS
  <2> HIDE DEF path
  <2>5. Parent(path) = [path EXCEPT !.segments = Append(path.segments, "..")]
    BY <1>13, <2>1, <2>3, Zenon DEF Parent
  <2>6. Parent(path) = Normalize(up)
    BY <1>11, <2>2, <2>3, <2>4, <2>5, Zenon
  <2> QED
    BY <1>10, <2>6 DEF path, up
<1>14. CASE segs # <<>> /\ Last(segs) # ".."
  <2>1. PushSegment(raw.slash, segs, "..") = Front(segs)
    BY <1>14 DEF PushSegment
  <2> QED
    BY <1>10, <1>11, <1>14, <2>1 DEF Parent, up
<1> QED
  BY <1>12, <1>13, <1>14

\* PathsAgree: every spelling of a path means what a walk by its parts means,
\* in resolve_node_internal(), after a second normalize() and in parent().
THEOREM SpellingsAgree == FsSpec => []PathsAgree
<1>1. ASSUME NEW raw \in RawPaths
      PROVE  /\ Resolve(raw) = IF raw.slash THEN Descend(Walk(raw)) ELSE None
             /\ Normalize(AsString(Normalize(raw))) = Normalize(raw)
             /\ ~IsEmpty(Normalize(raw)) =>
                  Parent(Normalize(raw)) = Normalize([raw EXCEPT !.parts = Append(@, "..")])
  <2>1. raw \in RawPath
    BY MemoryFileSystemAssumption
  <2>2. Resolve(raw) = IF raw.slash THEN Descend(Normalize(raw).segments) ELSE None
    BY <2>1, NormalizeIs DEF Resolve
  <2>3. raw.slash => Walk(raw) = Normalize(raw).segments
    BY <2>1, NormalizeWalks
  <2>4. Normalize(AsString(Normalize(raw))) = Normalize(raw)
    BY <2>1, NormalizeIs, NormalFormsStay
  <2>5. ~IsEmpty(Normalize(raw)) =>
          Parent(Normalize(raw)) = Normalize([raw EXCEPT !.parts = Append(@, "..")])
    BY <2>1, ParentIsUp
  <2> QED
    BY <2>2, <2>3, <2>4, <2>5
<1>2. PathsAgree
  BY <1>1 DEF PathsAgree
<1> QED
  BY <1>2, PTL

-----------------------------------------------------------------------------
(* Resolution *)

NodeTypes ==
  /\ children \in [Nodes -> [Names -> Nodes \cup {None}]]
  /\ m_root \in Nodes

\* The loop over the segments of a path, and where it is after each.
LEMMA DescendLoop ==
  ASSUME NodeTypes, NEW s \in Segments
  PROVE  \E at \in [0 .. Len(s) -> Nodes \cup {None}] :
           /\ at[0] = m_root
           /\ \A i \in 1 .. Len(s) : at[i] = Child(at[i - 1], s[i])
           /\ Descend(s) = at[Len(s)]
<1> DEFINE n == Len(s)
           S == Nodes \cup {None}
           step == [x \in S \X (1 .. n) |-> Child(x[1], s[x[2]])]
           Is(f) == f = [i \in 0 .. n |->
                           IF i = 0 THEN m_root ELSE Child(f[i - 1], s[i])]
           at == CHOOSE f : Is(f)
<1>1. n \in Nat
  BY LenProperties DEF Segments
<1>2. m_root \in S
  BY DEF NodeTypes
<1>3. \A d \in S : \A name : Child(d, name) \in S
  BY DEF NodeTypes, Child
<1>4. step \in [S \X (1 .. n) -> S]
  <2> HIDE DEF S, n
  <2> QED
    BY <1>3
<1>5. PICK f \in [0 .. n -> S] : Iterates(f, n, m_root, step)
  <2> HIDE DEF S, n, step
  <2> QED
    BY <1>1, <1>2, <1>4, LoopExists
<1>6. Is(f)
  <2>1. f = [i \in 0 .. n |-> IF i = 0 THEN m_root ELSE step[<<f[i - 1], i>>]]
    BY <1>5 DEF Iterates
  <2>2. ASSUME NEW i \in 0 .. n, i # 0
        PROVE  step[<<f[i - 1], i>>] = Child(f[i - 1], s[i])
    <3>1. i \in 1 .. n /\ f[i - 1] \in S
      BY <1>1, <1>5, <2>2
    <3> HIDE DEF S, n
    <3> QED
      BY <3>1
  <2> HIDE DEF S, n, step
  <2> QED
    BY <2>1, <2>2
<1>7. Is(at)
  <2> HIDE DEF Is
  <2> QED
    BY <1>6
<1>8. at[0] = m_root /\ \A i \in 1 .. n : at[i] = Child(at[i - 1], s[i])
  <2> HIDE DEF at, n
  <2> QED
    BY <1>1, <1>7
<1>9. at \in [0 .. n -> S]
  <2> HIDE DEF at, n, S
  <2>2. \A i \in 0 .. n : at[i] \in S
    <3> DEFINE T == {i \in 0 .. n : at[i] \in S}
    <3>1. 0 \in T /\ \A i \in 1 .. n : i - 1 \in T => i \in T
      BY <1>1, <1>2, <1>3, <1>8
    <3> HIDE DEF T
    <3>2. \A i \in 0 .. n : i \in T
      BY <1>1, <3>1, UpTo
    <3> QED
      BY <3>2 DEF T
  <2>3. at = [i \in 0 .. n |-> at[i]]
    BY <1>7
  <2> QED
    BY <2>2, <2>3
<1>10. Descend(s) = at[n]
  BY DEF Descend
<1> HIDE DEF at, n
<1> QED
  BY <1>8, <1>9, <1>10 DEF n

\* The last step of the loop.
LEMMA DescendLast ==
  ASSUME NodeTypes, NEW s \in Segments, s # <<>>
  PROVE  Descend(s) = Child(Descend(Front(s)), Last(s))
<1> DEFINE n == Len(s)
           r == Front(s)
<1>1. /\ r \in Segments /\ Len(r) = n - 1 /\ n \in Nat \ {0}
      /\ \A i \in 1 .. n - 1 : r[i] = s[i]
      /\ Last(s) = s[n]
  BY FrontIs DEF Segments
<1>2. PICK at \in [0 .. n -> Nodes \cup {None}] :
        /\ at[0] = m_root
        /\ \A i \in 1 .. n : at[i] = Child(at[i - 1], s[i])
        /\ Descend(s) = at[n]
  BY DescendLoop
<1> HIDE DEF r, n
<1>3. PICK b \in [0 .. n - 1 -> Nodes \cup {None}] :
        /\ b[0] = m_root
        /\ \A i \in 1 .. n - 1 : b[i] = Child(b[i - 1], r[i])
        /\ Descend(r) = b[n - 1]
  BY <1>1, DescendLoop
<1>4. b[n - 1] = at[n - 1]
  <2> DEFINE T == {i \in 0 .. n - 1 : b[i] = at[i]}
  <2>1. 0 \in T /\ n - 1 \in Nat
    BY <1>1, <1>2, <1>3
  <2>2. ASSUME NEW i \in 1 .. n - 1, i - 1 \in T PROVE i \in T
    <3>1. i \in 1 .. n /\ i \in 0 .. n - 1 /\ b[i - 1] = at[i - 1]
      BY <1>1, <2>2
    <3> QED
      BY <1>1, <1>2, <1>3, <3>1
  <2> HIDE DEF T
  <2>3. \A i \in 0 .. n - 1 : i \in T
    BY <2>1, <2>2, UpTo
  <2> QED
    BY <2>1, <2>3 DEF T
<1>5. n \in 1 .. n
  BY <1>1
<1>6. Descend(s) = Child(Descend(r), s[n])
  BY <1>2, <1>3, <1>4, <1>5
<1> QED
  BY <1>1, <1>6 DEF r

\* A path leads to a node or nowhere.
LEMMA ResolveType ==
  ASSUME NodeTypes, NEW raw \in RawPath
  PROVE  Resolve(raw) \in Nodes \cup {None}
<1>1. Normalize(raw).segments \in Segments
  BY NormalizeIs DEF Normal
<1>2. Len(Normalize(raw).segments) \in 0 .. Len(Normalize(raw).segments)
  BY <1>1, LenProperties DEF Segments
<1>3. Descend(Normalize(raw).segments) \in Nodes \cup {None}
  BY <1>1, <1>2, DescendLoop
<1> QED
  BY <1>3 DEF Resolve

\* resolve_parent_internal() and resolve_node_internal() fit together: the
\* parent is a directory, and the node at the path is its child of that name.
THEOREM ParentHolds ==
  ASSUME NodeTypes, NEW raw \in RawPath, ResolveParent(raw) # None
  PROVE  /\ ResolveParent(raw) \in Nodes
         /\ kind[ResolveParent(raw)] = "Directory"
         /\ Filename(Normalize(raw)) \in Names
         /\ Resolve(raw) = children[ResolveParent(raw)][Filename(Normalize(raw))]
         /\ raw.slash = TRUE /\ Normalize(raw).segments # <<>>
         /\ ResolveParent(raw) = Descend(Front(Normalize(raw).segments))
<1> DEFINE path == Normalize(raw)
           s == path.segments
           up == Parent(path)
           dir == ResolveParent(raw)
<1>1. path \in Path /\ path.absolute = raw.slash /\ Normal(raw.slash, s)
  BY NormalizeIs
<1>2. dir = Resolve(AsString(up)) /\ path.absolute /\ ~IsRoot(path)
      /\ kind[dir] = "Directory"
  BY DEF ResolveParent
<1> HIDE DEF dir, path
<1>3. path.absolute = TRUE /\ s # <<>> /\ s \in Segments
      /\ path = [absolute |-> TRUE, segments |-> s]
  BY <1>1, <1>2 DEF IsRoot, Path, Segments
<1> DEFINE r == Front(s)
           name == Last(s)
<1>4. /\ r \in Segments /\ Len(r) = Len(s) - 1 /\ Len(s) \in Nat \ {0}
      /\ \A i \in 1 .. Len(s) - 1 : r[i] = s[i]
      /\ name \in Names \cup {".."} /\ name = s[Len(s)]
  BY <1>3, FrontIs DEF Segments
<1>5. \A i \in 1 .. Len(s) : s[i] # ".."
  BY <1>1, <1>2 DEF Normal
<1>6. name \in Names
  BY <1>4, <1>5
<1>7. up = [absolute |-> TRUE, segments |-> r]
  BY <1>3 DEF Parent
<1> HIDE DEF s, r, name, up
<1>8. up \in Path /\ Normal(TRUE, r) /\ up.absolute = TRUE /\ up.segments = r
  BY <1>4, <1>5, <1>7 DEF Path, Segments, Normal
<1>9. Normalize(AsString(up)) = up
  BY <1>8, NormalFormsStay
<1>10. dir = Descend(r)
  BY <1>2, <1>8, <1>9 DEF Resolve
<1>11. Resolve(raw) = Descend(s)
  BY <1>2 DEF Resolve, path, s
<1>12. Descend(s) = Child(Descend(r), name)
  BY <1>3, DescendLast DEF r, name
<1>13. Filename(path) = name
  BY <1>3 DEF Filename, s, name
<1>14. dir \in Nodes
  <2>1. dir \in Nodes \cup {None}
    <3>1. Len(r) \in 0 .. Len(r)
      BY <1>4
    <3> QED
      BY <1>4, <1>10, <3>1, DescendLoop
  <2>2. dir # None
    BY DEF dir
  <2> QED
    BY <2>1, <2>2
<1>15. Resolve(raw) = children[dir][name]
  BY <1>2, <1>6, <1>10, <1>11, <1>12, <1>14, MemoryFileSystemAssumption DEF Child
<1>16. raw.slash = TRUE /\ s # <<>> /\ dir = Descend(Front(s))
  BY <1>1, <1>3, <1>10 DEF r
<1> QED
  BY <1>2, <1>6, <1>13, <1>14, <1>15, <1>16 DEF dir, path, s

-----------------------------------------------------------------------------
(* What the operations keep *)

LEMMA FsInitially == FsInit => FsInv
<1> SUFFICES ASSUME FsInit PROVE FsInv
  OBVIOUS
<1> USE MemoryFileSystemAssumption DEF FsInit
<1>1. Linked = {}
  BY DEF Linked, NoChildren
<1>2. FsTypeOK
  BY <1>1 DEF FsTypeOK, NoChildren
<1>3. UnusedBlank
  BY DEF UnusedBlank, InUse
<1>4. OnlyDirectoriesHold
  BY DEF OnlyDirectoriesHold
<1>5. LinkedOnce
  BY DEF LinkedOnce, NoChildren
<1>6. Rooted
  BY <1>1 DEF Rooted
<1>7. NothingResurrected
  BY DEF NothingResurrected
<1> QED
  BY <1>2, <1>3, <1>4, <1>5, <1>6, <1>7 DEF FsInv

LEMMA InUseIs ==
  ASSUME NEW c, NEW f, NEW n \in Nodes
  PROVE  n \in InUse(c, f) <=>
           \/ n = m_root
           \/ \E m \in Nodes, name \in Names : c[m][name] = n
           \/ \E h \in Handles : f[h] = n
BY MemoryFileSystemAssumption DEF InUse

\* A new child, in an empty place of a directory: its parent holds it from
\* outside, and whatever hung on another node still does.
LEMMA AddChildKeeps ==
  ASSUME FsInv, NEW dir \in Nodes, kind[dir] = "Directory",
         NEW name \in Names, children[dir][name] = None,
         NEW n \in Nodes, NEW k \in {"Directory", "File"},
         AddChild(dir, name, n, k),
         file' \in [Handles -> Nodes \cup {None}],
         \A h \in Handles :
           file'[h] = file[h] \/ (file[h] = None /\ file'[h] = n /\ k = "File"),
         cursor' \in [Handles -> 0 .. MaxSize],
         UNCHANGED <<data, written>>
  PROVE  FsInv'
<1> USE MemoryFileSystemAssumption
<1>1. /\ n # m_root /\ kind[n] = "none" /\ children[n] = NoChildren /\ n # dir
      /\ \A m \in Nodes, nm \in Names : children[m][nm] # n
      /\ \A h \in Handles : file[h] # n
  BY DEF AddChild, InUse, FsInv, UnusedBlank
<1>2. /\ kind' = [kind EXCEPT ![n] = k]
      /\ children' = [children EXCEPT ![dir][name] = n]
  BY DEF AddChild
<1>3. /\ children \in [Nodes -> [Names -> Nodes \cup {None}]]
      /\ kind \in [Nodes -> {"Directory", "File", "none"}]
  BY DEF FsInv, FsTypeOK
<1>4. /\ children' \in [Nodes -> [Names -> Nodes \cup {None}]]
      /\ children'[dir][name] = n
      /\ \A m \in Nodes, nm \in Names :
           m # dir \/ nm # name => children'[m][nm] = children[m][nm]
      /\ \A m \in Nodes : m # dir => children'[m] = children[m]
  BY <1>2, <1>3
<1>5. /\ kind' \in [Nodes -> {"Directory", "File", "none"}]
      /\ kind'[n] = k /\ \A m \in Nodes : m # n => kind'[m] = kind[m]
  BY <1>2, <1>3
<1>6. Linked' \subseteq Linked \cup {n}
  BY <1>4 DEF Linked
<1>7. FsTypeOK'
  <2>1. kind'[m_root] = "Directory"
    BY <1>1, <1>5 DEF FsInv, FsTypeOK
  <2>2. \A m \in Linked' : kind'[m] # "none"
    <3>1. \A m \in Linked : m \in Nodes
      BY <1>3 DEF Linked
    <3> QED
      BY <1>1, <1>5, <1>6, <3>1 DEF FsInv, FsTypeOK
  <2>3. \A h \in Handles : file'[h] # None => kind'[file'[h]] = "File"
    BY <1>1, <1>5 DEF FsInv, FsTypeOK
  <2>4. /\ data' \in [Nodes -> Seq(Bytes \cup {0})]
        /\ \A m \in Nodes : Len(data'[m]) <= MaxSize
        /\ written' \in [Nodes -> SUBSET ((1 .. MaxSize) \X Bytes)]
    BY DEF FsInv, FsTypeOK
  <2> QED
    BY <1>4, <1>5, <2>1, <2>2, <2>3, <2>4 DEF FsTypeOK
<1>8. UnusedBlank'
  <2> SUFFICES ASSUME NEW m \in Nodes, m \notin InUse(children', file')
               PROVE  /\ kind'[m] = "none" /\ children'[m] = NoChildren
                      /\ data'[m] = <<>> /\ written'[m] = {}
    BY DEF UnusedBlank
  <2>0. \A x \in Nodes : x \in InUse(children, file) => x \in InUse(children', file')
    <3> SUFFICES ASSUME NEW x \in Nodes, x \in InUse(children, file)
                 PROVE  x \in InUse(children', file')
      OBVIOUS
    <3>1. CASE x = m_root
      BY <3>1, InUseIs
    <3>2. ASSUME NEW d \in Nodes, NEW nm \in Names, children[d][nm] = x
          PROVE  x \in InUse(children', file')
      <4>1. children'[d][nm] = x
        BY <1>4, <3>2
      <4> QED
        BY <4>1, InUseIs
    <3>3. ASSUME NEW h \in Handles, file[h] = x
          PROVE  x \in InUse(children', file')
      <4>1. file'[h] = x
        BY <3>3
      <4> QED
        BY <4>1, InUseIs
    <3> QED
      BY <3>1, <3>2, <3>3, InUseIs
  <2>1. m # n /\ m # dir
    <3>1. \A d \in Nodes, nm \in Names : m # children'[d][nm]
      BY DEF InUse
    <3>2. m # n
      BY <1>4, <3>1
    <3>3. dir # m
      <4>1. dir \in InUse(children, file)
        BY DEF FsInv, UnusedBlank
      <4>2. dir \in InUse(children', file')
        BY <1>1, <1>4, <4>1, <2>0
      <4> QED
        BY <4>2
    <3> QED
      BY <3>2, <3>3
  <2>2. m \notin InUse(children, file)
    BY <2>0
  <2> QED
    BY <1>4, <1>5, <2>1, <2>2 DEF FsInv, UnusedBlank
<1>9. OnlyDirectoriesHold'
  BY <1>1, <1>4, <1>5 DEF FsInv, OnlyDirectoriesHold
<1>10. LinkedOnce'
  <2> SUFFICES ASSUME NEW l \in Nodes \X Names, NEW j \in Nodes \X Names,
                      children'[l[1]][l[2]] = children'[j[1]][j[2]],
                      children'[l[1]][l[2]] # None
               PROVE  l = j
    BY DEF LinkedOnce
  <2>1. l = <<l[1], l[2]>> /\ j = <<j[1], j[2]>> /\ l[1] \in Nodes
        /\ l[2] \in Names /\ j[1] \in Nodes /\ j[2] \in Names
    OBVIOUS
  <2>2. CASE l = <<dir, name>>
    BY <1>1, <1>4, <2>1, <2>2
  <2>3. CASE j = <<dir, name>>
    BY <1>1, <1>4, <2>1, <2>3
  <2>4. CASE l # <<dir, name>> /\ j # <<dir, name>>
    BY <1>4, <2>1, <2>4 DEF FsInv, LinkedOnce
  <2> QED
    BY <2>2, <2>3, <2>4
<1>11. Rooted'
  <2>1. m_root \notin Linked'
    BY <1>1, <1>6 DEF FsInv, Rooted
  <2>2. ASSUME NEW ns \in SUBSET Linked', ns # {} PROVE HeldFromOutside(ns)'
    <3>1. CASE n \in ns /\ dir \notin ns
      BY <1>4, <3>1 DEF HeldFromOutside
    <3>2. CASE n \in ns => dir \in ns
      <4> DEFINE old == ns \ {n}
      <4>1. old \subseteq Linked /\ old # {}
        BY <1>1, <1>6, <2>2, <3>2
      <4>2. PICK m \in Nodes \ old, nm \in Names : children[m][nm] \in old
        BY <4>1 DEF FsInv, Rooted, HeldFromOutside
      <4>3. m # n /\ children[m][nm] # None
        BY <1>1, <4>1, <4>2 DEF NoChildren, Linked
      <4>4. children'[m][nm] = children[m][nm] /\ m \notin ns
        BY <1>4, <4>2, <4>3
      <4> QED
        BY <4>2, <4>4 DEF HeldFromOutside
    <3> QED
      BY <3>1, <3>2
  <2> QED
    BY <2>1, <2>2 DEF Rooted
<1>12. NothingResurrected'
  BY DEF FsInv, NothingResurrected
<1> QED
  BY <1>7, <1>8, <1>9, <1>10, <1>11, <1>12 DEF FsInv

\* Reclaim(): when a reference goes and the nodes that go with it hold nothing,
\* only those nodes change.
LEMMA ReclaimKeeps ==
  ASSUME FsInv, NEW c \in [Nodes -> [Names -> Nodes \cup {None}]],
         NEW f \in [Handles -> Nodes \cup {None}],
         \A m \in Nodes, nm \in Names : c[m][nm] \in {children[m][nm], None},
         \A h \in Handles : f[h] \in {file[h], None},
         \A m \in Nodes \ InUse(c, f) : c[m] = NoChildren,
         Reclaim(c, f), cursor' \in [Handles -> 0 .. MaxSize]
  PROVE  FsInv' /\ children' = c
<1> USE MemoryFileSystemAssumption
<1> DEFINE used == InUse(c, f)
<1>1. /\ \A m \in Nodes \ used :
           /\ kind'[m] = "none" /\ data'[m] = <<>> /\ written'[m] = {}
      /\ \A m \in used \cap Nodes :
           /\ kind'[m] = kind[m] /\ data'[m] = data[m]
           /\ written'[m] = written[m]
      /\ file' = f
      /\ kind' = [m \in Nodes |-> kind'[m]]
      /\ data' = [m \in Nodes |-> data'[m]]
      /\ written' = [m \in Nodes |-> written'[m]]
  BY DEF Reclaim
<1>2. children' = c
  <2>1. children' = [m \in Nodes |-> IF m \in Nodes \ used THEN NoChildren ELSE c[m]]
    BY DEF Reclaim
  <2>2. \A m \in Nodes \ used : c[m] = NoChildren
    OBVIOUS
  <2> HIDE DEF used
  <2>3. \A m \in Nodes : children'[m] = c[m]
    BY <2>1, <2>2
  <2>4. children' = [m \in Nodes |-> children'[m]]
    BY <2>1
  <2> QED
    BY <2>3, <2>4
<1>3. /\ m_root \in used
      /\ \A m \in Nodes, nm \in Names : c[m][nm] # None => c[m][nm] \in used
      /\ \A h \in Handles : f[h] # None => f[h] \in used
      /\ used \subseteq InUse(children, file)
  BY DEF InUse
<1>4. Linked' \subseteq Linked \cap used /\ Linked \subseteq Nodes
  <2>1. \A m \in Nodes, nm \in Names :
          c[m][nm] # None => c[m][nm] = children[m][nm] /\ c[m][nm] \in used
    BY <1>3
  <2>2. children \in [Nodes -> [Names -> Nodes \cup {None}]]
    BY DEF FsInv, FsTypeOK
  <2> HIDE DEF used
  <2> QED
    BY <1>2, <2>1, <2>2 DEF Linked
<1> HIDE DEF used
<1>5. FsTypeOK'
  <2>1. /\ kind \in [Nodes -> {"Directory", "File", "none"}]
        /\ kind[m_root] = "Directory"
        /\ data \in [Nodes -> Seq(Bytes \cup {0})]
        /\ \A m \in Nodes : Len(data[m]) <= MaxSize
        /\ \A m \in Linked : kind[m] # "none"
        /\ \A h \in Handles : file[h] # None => kind[file[h]] = "File"
        /\ written \in [Nodes -> SUBSET ((1 .. MaxSize) \X Bytes)]
    BY DEF FsInv, FsTypeOK
  <2>2. kind' \in [Nodes -> {"Directory", "File", "none"}]
    BY <1>1, <2>1
  <2>3. <<>> \in Seq(Bytes \cup {0}) /\ Len(<<>>) <= MaxSize
    BY EmptySeq
  <2>4. data' \in [Nodes -> Seq(Bytes \cup {0})]
    <3>1. \A m \in Nodes : data'[m] \in Seq(Bytes \cup {0})
      <4> SUFFICES ASSUME NEW m \in Nodes
                   PROVE  data'[m] \in Seq(Bytes \cup {0})
        OBVIOUS
      <4>1. data'[m] = <<>> \/ data'[m] = data[m]
        BY <1>1
      <4>2. data[m] \in Seq(Bytes \cup {0})
        BY <2>1
      <4> QED
        BY <2>3, <4>1, <4>2
    <3> QED
      BY <1>1, <3>1
  <2>5. \A m \in Nodes : Len(data'[m]) <= MaxSize
    BY <1>1, <2>1, <2>3
  <2>6. written' \in [Nodes -> SUBSET ((1 .. MaxSize) \X Bytes)]
    BY <1>1, <2>1
  <2>7. \A m \in Linked' : kind'[m] # "none"
    BY <1>1, <1>4, <2>1
  <2>8. \A h \in Handles : file'[h] # None => kind'[file'[h]] = "File"
    <3> SUFFICES ASSUME NEW h \in Handles, f[h] # None
                 PROVE  kind'[f[h]] = "File"
      BY <1>1
    <3>1. f[h] \in used \cap Nodes /\ f[h] = file[h]
      BY <1>3
    <3> QED
      BY <1>1, <2>1, <3>1
  <2>9. kind'[m_root] = "Directory"
    BY <1>1, <1>3, <2>1
  <2> QED
    BY <1>1, <1>2, <2>2, <2>4, <2>5, <2>6, <2>7, <2>8, <2>9 DEF FsTypeOK
<1>6. UnusedBlank'
  BY <1>1, <1>2 DEF UnusedBlank, used
<1>7. OnlyDirectoriesHold'
  <2> SUFFICES ASSUME NEW m \in Nodes, kind'[m] # "Directory"
               PROVE  c[m] = NoChildren
    BY <1>2 DEF OnlyDirectoriesHold
  <2>1. CASE m \in used
    <3>1. children[m] = NoChildren
      BY <1>1, <2>1 DEF FsInv, OnlyDirectoriesHold
    <3>2. \A nm \in Names : c[m][nm] = None
      BY <3>1 DEF NoChildren
    <3>3. c[m] \in [Names -> Nodes \cup {None}]
      OBVIOUS
    <3> QED
      BY <3>2, <3>3 DEF NoChildren
  <2>2. CASE m \notin used
    BY <2>2 DEF used
  <2> QED
    BY <2>1, <2>2
<1>8. LinkedOnce'
  BY <1>2 DEF FsInv, LinkedOnce
<1>9. Rooted'
  <2>1. m_root \notin Linked'
    BY <1>4 DEF FsInv, Rooted
  <2>2. ASSUME NEW ns \in SUBSET Linked', ns # {} PROVE HeldFromOutside(ns)'
    <3>1. PICK m \in Nodes \ ns, nm \in Names : children[m][nm] \in ns
      BY <1>4, <2>2 DEF FsInv, Rooted, HeldFromOutside
    <3>2. PICK d \in Nodes, dn \in Names :
            c[d][dn] = children[m][nm] /\ c[d][dn] # None
      BY <1>2, <2>2, <3>1 DEF Linked
    <3>3. <<d, dn>> = <<m, nm>>
      <4>1. children[d][dn] = children[m][nm] /\ children[d][dn] # None
        BY <3>2
      <4>2. <<d, dn>> \in Nodes \X Names /\ <<m, nm>> \in Nodes \X Names
        OBVIOUS
      <4> QED
        BY <4>1, <4>2 DEF FsInv, LinkedOnce
    <3>4. c[m][nm] \in ns
      BY <3>1, <3>2, <3>3
    <3> QED
      BY <1>2, <3>1, <3>4 DEF HeldFromOutside
  <2> QED
    BY <2>1, <2>2 DEF Rooted
<1>10. NothingResurrected'
  <2>1. \A m \in Nodes : data'[m] = <<>> \/ (data'[m] = data[m] /\ written'[m] = written[m])
    BY <1>1
  <2> QED
    BY <2>1 DEF FsInv, NothingResurrected
<1> QED
  BY <1>2, <1>5, <1>6, <1>7, <1>8, <1>9, <1>10 DEF FsInv

\* What leaves the tree alone and changes no file but those that are in use.
LEMMA ContentsKeep ==
  ASSUME FsInv, UNCHANGED <<kind, children>>,
         file' \in [Handles -> Nodes \cup {None}],
         \A h \in Handles : file'[h] = file[h]
           \/ (file[h] = None /\ file'[h] # None /\ kind[file'[h]] = "File"),
         cursor' \in [Handles -> 0 .. MaxSize],
         data' \in [Nodes -> Seq(Bytes \cup {0})],
         \A m \in Nodes : Len(data'[m]) <= MaxSize,
         written' \in [Nodes -> SUBSET ((1 .. MaxSize) \X Bytes)],
         \A m \in Nodes \ InUse(children, file) :
           data'[m] = data[m] /\ written'[m] = written[m],
         NothingResurrected'
  PROVE  FsInv'
<1> USE MemoryFileSystemAssumption
<1>1. Linked' = Linked
  BY DEF Linked
<1>2. FsTypeOK'
  <2>1. /\ kind' \in [Nodes -> {"Directory", "File", "none"}]
        /\ kind'[m_root] = "Directory"
        /\ children' \in [Nodes -> [Names -> Nodes \cup {None}]]
        /\ \A m \in Linked' : kind'[m] # "none"
    BY <1>1 DEF FsInv, FsTypeOK
  <2>2. \A h \in Handles : file'[h] # None => kind'[file'[h]] = "File"
    BY DEF FsInv, FsTypeOK
  <2> QED
    BY <2>1, <2>2 DEF FsTypeOK
<1>3. UnusedBlank'
  <2> SUFFICES ASSUME NEW m \in Nodes, m \notin InUse(children', file')
               PROVE  /\ kind'[m] = "none" /\ children'[m] = NoChildren
                      /\ data'[m] = <<>> /\ written'[m] = {}
    BY DEF UnusedBlank
  <2>1. m \notin InUse(children, file)
    <3> SUFFICES ASSUME m \in InUse(children, file) PROVE FALSE
      OBVIOUS
    <3>1. \A g \in Handles : file[g] = m => file'[g] = m
      OBVIOUS
    <3>2. m \in InUse(children', file')
      BY <3>1, InUseIs
    <3> QED
      BY <3>2
  <2> QED
    BY <2>1 DEF FsInv, UnusedBlank
<1>4. OnlyDirectoriesHold' /\ LinkedOnce'
  BY DEF FsInv, OnlyDirectoriesHold, LinkedOnce
<1>5. Rooted'
  BY <1>1 DEF FsInv, Rooted, HeldFromOutside
<1> QED
  BY <1>2, <1>3, <1>4, <1>5 DEF FsInv

LEMMA OpensKeep ==
  ASSUME FsInv, NEW h \in Handles, file[h] = None,
         NEW n \in Nodes, Opened(h, n)
  PROVE  /\ file' \in [Handles -> Nodes \cup {None}]
         /\ file'[h] = n /\ \A g \in Handles : g # h => file'[g] = file[g]
         /\ cursor' \in [Handles -> 0 .. MaxSize]
<1>1. /\ file \in [Handles -> Nodes \cup {None}]
      /\ cursor \in [Handles -> 0 .. MaxSize] /\ 0 \in 0 .. MaxSize
  BY MemoryFileSystemAssumption DEF FsInv, FsTypeOK
<1> QED
  BY <1>1 DEF Opened

LEMMA FsTypes ==
  ASSUME FsInv
  PROVE  /\ NodeTypes
         /\ kind \in [Nodes -> {"Directory", "File", "none"}]
         /\ data \in [Nodes -> Seq(Bytes \cup {0})]
         /\ \A m \in Nodes : Len(data[m]) <= MaxSize /\ Len(data[m]) \in Nat
         /\ file \in [Handles -> Nodes \cup {None}]
         /\ \A g \in Handles : file[g] # None => kind[file[g]] = "File"
         /\ cursor \in [Handles -> 0 .. MaxSize]
         /\ written \in [Nodes -> SUBSET ((1 .. MaxSize) \X Bytes)]
         /\ NothingResurrected
         /\ MaxSize \in Nat /\ None \notin Nodes /\ RawPaths \subseteq RawPath
         /\ \A m \in Nodes : kind[m] # "none" => m \in InUse(children, file)
<1>1. \A m \in Nodes : data[m] \in Seq(Bytes \cup {0})
  BY DEF FsInv, FsTypeOK
<1>2. \A m \in Nodes : Len(data[m]) \in Nat
  BY <1>1, LenProperties
<1> QED
  BY <1>2, MemoryFileSystemAssumption DEF FsInv, FsTypeOK, NodeTypes, UnusedBlank

LEMMA OpenKeeps ==
  ASSUME FsInv, NEW h \in Handles, NEW raw \in RawPaths, Open(h, raw)
  PROVE  FsInv'
<1> DEFINE n == Resolve(raw)
<1>1. /\ file[h] = None /\ n \in Nodes /\ kind[n] = "File" /\ Opened(h, n)
      /\ UNCHANGED <<kind, children, data, written>>
  BY FsTypes, ResolveType DEF Open
<1> HIDE DEF n
<1>2. /\ file' \in [Handles -> Nodes \cup {None}]
      /\ file'[h] = n /\ \A g \in Handles : g # h => file'[g] = file[g]
      /\ cursor' \in [Handles -> 0 .. MaxSize]
  BY <1>1, OpensKeep
<1>3. NothingResurrected'
  BY <1>1 DEF FsInv, NothingResurrected
<1>4. \A g \in Handles : file'[g] = file[g]
        \/ (file[g] = None /\ file'[g] # None /\ kind[file'[g]] = "File")
  BY <1>1, <1>2, FsTypes
<1> QED
  BY <1>1, <1>2, <1>3, <1>4, FsTypes, ContentsKeep

LEMMA TruncateKeeps ==
  ASSUME FsInv, NEW h \in Handles, NEW raw \in RawPaths, Truncate(h, raw)
  PROVE  FsInv'
<1> DEFINE n == Resolve(raw)
<1>1. /\ file[h] = None /\ n \in Nodes /\ kind[n] = "File" /\ Opened(h, n)
      /\ data' = [data EXCEPT ![n] = <<>>]
      /\ written' = [written EXCEPT ![n] = {}]
      /\ UNCHANGED <<kind, children>>
  BY FsTypes, ResolveType DEF Truncate
<1> HIDE DEF n
<1>2. /\ file' \in [Handles -> Nodes \cup {None}]
      /\ file'[h] = n /\ \A g \in Handles : g # h => file'[g] = file[g]
      /\ cursor' \in [Handles -> 0 .. MaxSize]
  BY <1>1, OpensKeep
<1>3. \A g \in Handles : file'[g] = file[g]
        \/ (file[g] = None /\ file'[g] # None /\ kind[file'[g]] = "File")
  BY <1>1, <1>2, FsTypes
<1>4. /\ <<>> \in Seq(Bytes \cup {0}) /\ Len(<<>>) = 0
  BY EmptySeq
<1>5. /\ data' \in [Nodes -> Seq(Bytes \cup {0})]
      /\ data'[n] = <<>> /\ \A m \in Nodes : m # n => data'[m] = data[m]
  BY <1>1, <1>4, FsTypes
<1>6. \A m \in Nodes : Len(data'[m]) <= MaxSize
  <2> SUFFICES ASSUME NEW m \in Nodes PROVE Len(data'[m]) <= MaxSize
    OBVIOUS
  <2>1. CASE m = n
    BY <1>4, <1>5, <2>1, FsTypes
  <2>2. CASE m # n
    BY <1>5, <2>2, FsTypes
  <2> QED
    BY <2>1, <2>2
<1>7. /\ written' \in [Nodes -> SUBSET ((1 .. MaxSize) \X Bytes)]
      /\ \A m \in Nodes : m # n => written'[m] = written[m]
  BY <1>1, FsTypes
<1>8. NothingResurrected'
  <2> SUFFICES ASSUME NEW m \in Nodes, NEW i \in 1 .. Len(data'[m])
               PROVE  data'[m][i] # 0 => <<i, data'[m][i]>> \in written'[m]
    BY DEF NothingResurrected
  <2>1. m # n
    BY <1>4, <1>5
  <2> QED
    BY <1>5, <1>7, <2>1, FsTypes DEF NothingResurrected
<1>9. \A m \in Nodes \ InUse(children, file) : m # n
  BY <1>1, FsTypes
<1> QED
  BY <1>1, <1>2, <1>3, <1>5, <1>6, <1>7, <1>8, <1>9, ContentsKeep

LEMMA CreateFileKeeps ==
  ASSUME FsInv, NEW h \in Handles, NEW raw \in RawPaths, CreateFile(h, raw)
  PROVE  FsInv'
<1> DEFINE dir == ResolveParent(raw)
           name == Filename(Normalize(raw))
<1>1. /\ file[h] = None /\ Resolve(raw) = None /\ dir # None
      /\ UNCHANGED <<data, written>>
  BY DEF CreateFile
<1>2. PICK n \in Nodes : AddChild(dir, name, n, "File") /\ Opened(h, n)
  BY DEF CreateFile
<1>3. /\ dir \in Nodes /\ kind[dir] = "Directory" /\ name \in Names
      /\ children[dir][name] = None
  BY <1>1, FsTypes, ParentHolds
<1> HIDE DEF dir, name
<1>4. /\ file' \in [Handles -> Nodes \cup {None}]
      /\ file'[h] = n /\ \A g \in Handles : g # h => file'[g] = file[g]
      /\ cursor' \in [Handles -> 0 .. MaxSize]
  BY <1>1, <1>2, OpensKeep
<1>5. \A g \in Handles : file'[g] = file[g]
        \/ (file[g] = None /\ file'[g] = n /\ "File" = "File")
  BY <1>1, <1>4
<1> QED
  BY <1>1, <1>2, <1>3, <1>4, <1>5, AddChildKeeps

LEMMA CreateDirectoryKeeps ==
  ASSUME FsInv, NEW raw \in RawPaths, CreateDirectory(raw)
  PROVE  FsInv'
<1> DEFINE dir == ResolveParent(raw)
           name == Filename(Normalize(raw))
<1>1. /\ Resolve(raw) = None /\ dir # None
      /\ UNCHANGED <<data, file, cursor, written>>
  BY DEF CreateDirectory
<1>2. PICK n \in Nodes : AddChild(dir, name, n, "Directory")
  BY DEF CreateDirectory
<1>3. /\ dir \in Nodes /\ kind[dir] = "Directory" /\ name \in Names
      /\ children[dir][name] = None
  BY <1>1, FsTypes, ParentHolds
<1> HIDE DEF dir, name
<1>4. /\ file' \in [Handles -> Nodes \cup {None}]
      /\ cursor' \in [Handles -> 0 .. MaxSize]
      /\ \A g \in Handles : file'[g] = file[g]
  BY <1>1, FsTypes
<1> QED
  BY <1>1, <1>2, <1>3, <1>4, AddChildKeeps

\* remove(): only the node itself goes, if no handle holds it.
LEMMA RemovePathKeeps ==
  ASSUME FsInv, NEW raw \in RawPaths, RemovePath(raw)
  PROVE  /\ FsInv'
         /\ children' = [children EXCEPT
              ![ResolveParent(raw)][Filename(Normalize(raw))] = None]
         /\ \E dir \in Nodes, name \in Names :
              /\ children[dir][name] # None
              /\ children[children[dir][name]] = NoChildren
              /\ children' = [children EXCEPT ![dir][name] = None]
<1> DEFINE dir == ResolveParent(raw)
           name == Filename(Normalize(raw))
           v == children[dir][name]
           c == [children EXCEPT ![dir][name] = None]
<1>1. /\ dir # None /\ v # None /\ children[v] = NoChildren
      /\ Reclaim(c, file) /\ UNCHANGED cursor
  BY DEF RemovePath
<1>2. dir \in Nodes /\ name \in Names
  BY <1>1, FsTypes, ParentHolds
<1>3. /\ children \in [Nodes -> [Names -> Nodes \cup {None}]]
      /\ file \in [Handles -> Nodes \cup {None}]
      /\ cursor' \in [Handles -> 0 .. MaxSize]
  BY <1>1, FsTypes DEF NodeTypes
<1> HIDE DEF dir, name
<1>4. v \in Nodes
  BY <1>1, <1>2, <1>3
<1>5. /\ c \in [Nodes -> [Names -> Nodes \cup {None}]]
      /\ c[dir][name] = None
      /\ \A m \in Nodes, nm \in Names :
           m # dir \/ nm # name => c[m][nm] = children[m][nm]
      /\ \A m \in Nodes : m # dir => c[m] = children[m]
  BY <1>2, <1>3
<1> HIDE DEF c, v
<1>6. ASSUME NEW m \in Nodes \ InUse(c, file) PROVE c[m] = NoChildren
  <2>1. \A nm \in Names : c[m][nm] = children[m][nm] \/ c[m][nm] = None
    BY <1>5
  <2>2. c[m] \in [Names -> Nodes \cup {None}]
    BY <1>5
  <2>3. children[m] = NoChildren
    <3>1. CASE m = v
      BY <1>1, <3>1
    <3>2. CASE m # v
      <4>1. m \notin InUse(children, file)
        <5> SUFFICES ASSUME m \in InUse(children, file) PROVE FALSE
          OBVIOUS
        <5>1. m # m_root /\ \A g \in Handles : file[g] # m
          BY <1>6, InUseIs
        <5>2. PICK d \in Nodes, nm \in Names : children[d][nm] = m
          BY <5>1, InUseIs
        <5>3. c[d][nm] = m
          BY <1>5, <3>2, <5>2 DEF v
        <5> QED
          BY <1>6, <5>3, InUseIs
      <4> QED
        BY <4>1 DEF FsInv, UnusedBlank
    <3> QED
      BY <3>1, <3>2
  <2>4. \A nm \in Names : c[m][nm] = None
    BY <2>1, <2>3 DEF NoChildren
  <2> QED
    BY <2>2, <2>4 DEF NoChildren
<1>7. FsInv' /\ children' = c
  <2>1. \A m \in Nodes, nm \in Names : c[m][nm] \in {children[m][nm], None}
    BY <1>5
  <2> QED
    BY <1>1, <1>3, <1>5, <1>6, <2>1, ReclaimKeeps
<1> QED
  BY <1>1, <1>2, <1>7 DEF c, v, dir, name

LEMMA ReadKeeps ==
  ASSUME FsInv, NEW h \in Handles, Read(h)
  PROVE  FsInv'
<1>1. /\ file[h] # None /\ UNCHANGED <<kind, children, data, file, written>>
      /\ cursor[h] < Len(data[file[h]])
  BY DEF Read
<1>2. PICK size \in 1 .. Len(data[file[h]]) - cursor[h] :
        cursor' = [cursor EXCEPT ![h] = @ + size]
  BY DEF Read
<1>3. file[h] \in Nodes /\ cursor[h] \in Nat
  BY <1>1, FsTypes
<1>4. /\ Len(data[file[h]]) <= MaxSize /\ Len(data[file[h]]) \in Nat
      /\ MaxSize \in Nat
  BY <1>3, FsTypes
<1>5. cursor[h] + size \in 0 .. MaxSize
  BY <1>2, <1>3, <1>4
<1>6. cursor' \in [Handles -> 0 .. MaxSize]
  BY <1>2, <1>5, FsTypes
<1>7. NothingResurrected'
  BY <1>1, FsTypes DEF NothingResurrected
<1> QED
  BY <1>1, <1>6, <1>7, FsTypes, ContentsKeep

LEMMA SeekKeeps ==
  ASSUME FsInv, NEW h \in Handles, NEW offset \in 0 .. MaxSize, Seek(h, offset)
  PROVE  FsInv'
<1>1. /\ UNCHANGED <<kind, children, data, file, written>>
      /\ cursor' = [cursor EXCEPT ![h] = offset]
  BY DEF Seek
<1>2. cursor' \in [Handles -> 0 .. MaxSize]
  BY <1>1, FsTypes
<1>3. NothingResurrected'
  BY <1>1, FsTypes DEF NothingResurrected
<1> QED
  BY <1>1, <1>2, <1>3, FsTypes, ContentsKeep

\* A write in front of, over or behind the end: what is not of it was there or
\* fills the gap.
LEMMA WriteKeeps ==
  ASSUME FsInv, NEW h \in Handles, NEW b \in Bytes, NEW size \in 1 .. MaxSize,
         Write(h, b, size)
  PROVE  FsInv'
<1> DEFINE n == file[h]
           from == cursor[h]
           len == Len(data[n])
           Old(i) == IF i <= len THEN data[n][i] ELSE 0
           end == IF from + size > len THEN from + size ELSE len
           new == [i \in 1 .. end |-> IF i \in from + 1 .. from + size THEN b
                                      ELSE Old(i)]
           at == (from + 1 .. from + size) \X {b}
<1>1. /\ n # None /\ from + size <= MaxSize
      /\ data' = [data EXCEPT ![n] = new]
      /\ written' = [written EXCEPT ![n] = @ \cup at]
      /\ cursor' = [cursor EXCEPT ![h] = from + size]
      /\ UNCHANGED <<kind, children, file>>
  BY DEF Write
<1>2. n \in Nodes /\ from \in Nat /\ MaxSize \in Nat /\ n \in InUse(children, file)
  BY <1>1, FsTypes
<1>3. /\ len \in Nat /\ len <= MaxSize
      /\ \A i \in 1 .. len :
           /\ data[n][i] \in Bytes \cup {0}
           /\ data[n][i] # 0 => <<i, data[n][i]>> \in written[n]
  <2>1. data[n] \in Seq(Bytes \cup {0}) /\ len \in Nat /\ len <= MaxSize
    BY <1>2, FsTypes
  <2>2. \A i \in 1 .. len : data[n][i] \in Bytes \cup {0}
    BY <2>1, ElementOfSeq
  <2>3. \A i \in 1 .. len : data[n][i] # 0 => <<i, data[n][i]>> \in written[n]
    BY <1>2, FsTypes DEF NothingResurrected
  <2> QED
    BY <2>1, <2>2, <2>3
<1> HIDE DEF len, from
<1>4. end \in Nat /\ end <= MaxSize
  BY <1>1, <1>2, <1>3
<1>5. \A i \in 1 .. end :
        /\ Old(i) \in Bytes \cup {0}
        /\ Old(i) # 0 => <<i, Old(i)>> \in written[n]
  BY <1>3
<1> HIDE DEF Old, end
<1>6. \A i \in 1 .. end :
        /\ new[i] \in Bytes \cup {0}
        /\ new[i] # 0 => <<i, new[i]>> \in written[n] \cup at
  BY <1>5
<1>t. at \subseteq (1 .. MaxSize) \X Bytes
  <2>1. from + 1 .. from + size \subseteq 1 .. MaxSize
    BY <1>1, <1>2
  <2> QED
    BY <2>1
<1>7. new \in Seq(Bytes \cup {0}) /\ Len(new) = end
  <2>1. new \in [1 .. end -> Bytes \cup {0}]
    BY <1>5
  <2> QED
    BY <1>4, <2>1
<1> HIDE DEF new, at
<1>8. /\ data' \in [Nodes -> Seq(Bytes \cup {0})]
      /\ data'[n] = new /\ \A m \in Nodes : m # n => data'[m] = data[m]
  BY <1>1, <1>2, <1>7, FsTypes
<1>9. \A m \in Nodes : Len(data'[m]) <= MaxSize
  BY <1>4, <1>7, <1>8, FsTypes
<1>10. /\ written' \in [Nodes -> SUBSET ((1 .. MaxSize) \X Bytes)]
       /\ written'[n] = written[n] \cup at
       /\ \A m \in Nodes : m # n => written'[m] = written[m]
  BY <1>1, <1>2, <1>t, FsTypes
<1>11. NothingResurrected'
  <2> SUFFICES ASSUME NEW m \in Nodes, NEW i \in 1 .. Len(data'[m])
               PROVE  data'[m][i] # 0 => <<i, data'[m][i]>> \in written'[m]
    BY DEF NothingResurrected
  <2>1. CASE m = n
    BY <1>6, <1>7, <1>8, <1>10, <2>1
  <2>2. CASE m # n
    BY <1>8, <1>10, <2>2, FsTypes DEF NothingResurrected
  <2> QED
    BY <2>1, <2>2
<1>12. cursor' \in [Handles -> 0 .. MaxSize]
  <2>1. from + size \in 0 .. MaxSize
    BY <1>1, <1>2
  <2> QED
    BY <1>1, <2>1, FsTypes
<1>13. \A m \in Nodes \ InUse(children, file) : m # n
  BY <1>2
<1> HIDE DEF n
<1> QED
  BY <1>1, <1>8, <1>9, <1>10, <1>11, <1>12, <1>13, FsTypes, ContentsKeep

\* The node of the last handle may be gone with it; a file holds nothing.
LEMMA CloseHandleKeeps ==
  ASSUME FsInv, NEW h \in Handles, CloseHandle(h)
  PROVE  FsInv' /\ UNCHANGED children
<1> DEFINE f == [file EXCEPT ![h] = None]
<1>1. /\ file[h] # None /\ Reclaim(children, f)
      /\ cursor' = [cursor EXCEPT ![h] = 0]
  BY DEF CloseHandle
<1>2. /\ f \in [Handles -> Nodes \cup {None}]
      /\ f[h] = None /\ \A g \in Handles : g # h => f[g] = file[g]
  BY FsTypes
<1>3. cursor' \in [Handles -> 0 .. MaxSize]
  <2>1. 0 \in 0 .. MaxSize
    BY FsTypes
  <2> QED
    BY <1>1, <2>1, FsTypes
<1>4. /\ children \in [Nodes -> [Names -> Nodes \cup {None}]]
      /\ file[h] \in Nodes /\ kind[file[h]] = "File"
  BY <1>1, FsTypes DEF NodeTypes
<1> HIDE DEF f
<1>5. ASSUME NEW m \in Nodes \ InUse(children, f) PROVE children[m] = NoChildren
  <2>1. CASE m = file[h]
    BY <1>4, <2>1 DEF FsInv, OnlyDirectoriesHold
  <2>2. CASE m # file[h]
    <3>1. m \notin InUse(children, file)
      BY <1>2, <1>5, <2>2, InUseIs
    <3> QED
      BY <3>1 DEF FsInv, UnusedBlank
  <2> QED
    BY <2>1, <2>2
<1>6. \A g \in Handles : f[g] \in {file[g], None}
  BY <1>2
<1> QED
  BY <1>1, <1>2, <1>3, <1>4, <1>5, <1>6, ReclaimKeeps

LEMMA TreeOperationKeeps ==
  ASSUME FsInv, TreeOperation PROVE FsInv'
BY TruncateKeeps, CreateFileKeeps, CreateDirectoryKeeps, RemovePathKeeps
   DEF TreeOperation

LEMMA HandleOperationKeeps ==
  ASSUME FsInv, HandleOperation PROVE FsInv' /\ UNCHANGED children
<1>1. ASSUME NEW h \in Handles, NEW raw \in RawPaths, Open(h, raw)
      PROVE  FsInv' /\ UNCHANGED children
  BY <1>1, OpenKeeps DEF Open
<1>2. ASSUME NEW h \in Handles, Read(h) PROVE FsInv' /\ UNCHANGED children
  BY <1>2, ReadKeeps DEF Read
<1>3. ASSUME NEW h \in Handles, NEW b \in Bytes, NEW size \in 1 .. MaxSize,
             Write(h, b, size)
      PROVE  FsInv' /\ UNCHANGED children
  BY <1>3, WriteKeeps DEF Write
<1>4. ASSUME NEW h \in Handles, NEW offset \in 0 .. MaxSize, Seek(h, offset)
      PROVE  FsInv' /\ UNCHANGED children
  BY <1>4, SeekKeeps DEF Seek
<1> QED
  BY <1>1, <1>2, <1>3, <1>4, CloseHandleKeeps DEF HandleOperation

LEMMA FsUnchangedKeeps ==
  ASSUME FsInv, UNCHANGED fsVars PROVE FsInv'
<1>1. UNCHANGED <<kind, children, data, file, cursor, written>>
  BY DEF fsVars
<1>2. NothingResurrected'
  BY <1>1, FsTypes DEF NothingResurrected
<1> QED
  BY <1>1, <1>2, FsTypes, ContentsKeep

LEMMA FsInvariance == FsSpec => []FsInv
<1>1. FsInv /\ [FsNext]_fsVars => FsInv'
  BY TreeOperationKeeps, HandleOperationKeeps, FsUnchangedKeeps DEF FsNext
<1> QED
  BY <1>1, FsInitially, PTL DEF FsSpec

\* NothingResurrected: what a file holds was written to it since it was last
\* emptied, whichever handles the writes, seeks and truncations came through.
THEOREM ContentsHonest == FsSpec => []NothingResurrected
<1>1. FsInv => NothingResurrected
  BY DEF FsInv
<1> QED
  BY <1>1, FsInvariance, PTL

-----------------------------------------------------------------------------
(* The tree *)

\* Reachable, iteration by iteration: after as many as there are nodes nothing
\* more is found.
LEMMA ReachableLoop ==
  ASSUME FsInv
  PROVE  /\ Below(Reachable) = Reachable
         /\ m_root \in Reachable
         /\ Reachable \subseteq Linked \cup {m_root}
<1> DEFINE n == Cardinality(Nodes)
           S == SUBSET Nodes
           step == [x \in S \X (1 .. n) |-> Below(x[1])]
           Is(f) == f = [i \in 0 .. n |->
                           IF i = 0 THEN {m_root} ELSE Below(f[i - 1])]
           at == CHOOSE f : Is(f)
<1>1. n \in Nat /\ IsFiniteSet(Nodes) /\ m_root \in Nodes /\ None \notin Nodes
  BY MemoryFileSystemAssumption, FS_CardinalityType
<1>2. {m_root} \in S
  BY <1>1
<1>3. ASSUME NEW ns \in S
      PROVE  /\ Below(ns) \in S /\ ns \subseteq Below(ns)
             /\ Below(ns) \subseteq ns \cup Linked
  <2>1. children \in [Nodes -> [Names -> Nodes \cup {None}]]
    BY FsTypes DEF NodeTypes
  <2>2. \A x \in Below(ns) : x \in ns \/ (x \in Nodes /\ x \in Linked)
    BY <1>1, <2>1 DEF Below, Linked
  <2>3. ns \subseteq Below(ns)
    BY <1>1 DEF Below
  <2> QED
    BY <2>2, <2>3
<1>4. step \in [S \X (1 .. n) -> S]
  <2> HIDE DEF S, n
  <2> QED
    BY <1>3
<1>5. PICK f \in [0 .. n -> S] : Iterates(f, n, {m_root}, step)
  <2> HIDE DEF S, n, step
  <2> QED
    BY <1>1, <1>2, <1>4, LoopExists
<1>6. Is(f)
  <2>1. f = [i \in 0 .. n |-> IF i = 0 THEN {m_root} ELSE step[<<f[i - 1], i>>]]
    BY <1>5 DEF Iterates
  <2>2. ASSUME NEW i \in 0 .. n, i # 0
        PROVE  step[<<f[i - 1], i>>] = Below(f[i - 1])
    <3>1. i \in 1 .. n /\ f[i - 1] \in S
      BY <1>1, <1>5, <2>2
    <3> HIDE DEF S, n
    <3> QED
      BY <3>1
  <2> HIDE DEF S, n, step
  <2> QED
    BY <2>1, <2>2
<1>7. Is(at)
  <2> HIDE DEF Is
  <2> QED
    BY <1>6
<1>8. at[0] = {m_root} /\ \A i \in 1 .. n : at[i] = Below(at[i - 1])
  <2> HIDE DEF at, n, S, step
  <2>1. at = [i \in 0 .. n |-> IF i = 0 THEN {m_root} ELSE Below(at[i - 1])]
    BY <1>7
  <2> HIDE DEF Is
  <2>2. 0 \in 0 .. n /\ \A i \in 1 .. n : i \in 0 .. n /\ i # 0
    BY <1>1
  <2> QED
    BY <2>1, <2>2
<1> DEFINE Found(ns, i) ==
             /\ ns \in S /\ m_root \in ns /\ ns \subseteq Linked \cup {m_root}
             /\ Below(ns) = ns \/ Cardinality(ns) >= i + 1
           T == {i \in 0 .. n : Found(at[i], i)}
<1>9. 0 \in T
  <2> HIDE DEF n, at
  <2>1. Cardinality({m_root}) = 1
    BY FS_Singleton
  <2>2. at[0] \in S /\ at[0] \subseteq Linked \cup {m_root}
    BY <1>2, <1>8
  <2>3. Cardinality(at[0]) >= 0 + 1
    BY <1>8, <2>1
  <2>4. m_root \in at[0] /\ 0 \in 0 .. n
    BY <1>1, <1>8
  <2> HIDE DEF S
  <2>5. Found(at[0], 0)
    BY <2>2, <2>3, <2>4
  <2> QED
    BY <2>4, <2>5
<1>10. ASSUME NEW i \in 1 .. n, i - 1 \in T PROVE i \in T
  <2> DEFINE old == at[i - 1]
             new == at[i]
  <2>1. Found(old, i - 1) /\ new = Below(old)
    BY <1>8, <1>10
  <2> SUFFICES Found(new, i)
    OBVIOUS
  <2> HIDE DEF at, n, old, new
  <2>2. new \in S /\ m_root \in new /\ new \subseteq Linked \cup {m_root}
        /\ old \subseteq new
    BY <1>3, <2>1
  <2> HIDE DEF S
  <2>3. CASE Below(old) = old
    <3>1. Below(new) = new
      BY <2>1, <2>3
    <3> QED
      BY <2>2, <3>1
  <2>4. CASE Below(old) # old
    <3>1. IsFiniteSet(old) /\ IsFiniteSet(new)
      BY <1>1, <2>1, <2>2, FS_Subset DEF S
    <3>2. Cardinality(old) < Cardinality(new)
      <4>1. old # new
        BY <2>1, <2>4
      <4>2. /\ Cardinality(old) <= Cardinality(new)
            /\ Cardinality(old) = Cardinality(new) => old = new
            /\ Cardinality(old) \in Nat /\ Cardinality(new) \in Nat
        BY <2>2, <3>1, FS_Subset, FS_CardinalityType
      <4> QED
        BY <4>1, <4>2
    <3>3. Cardinality(old) >= i - 1 + 1
      BY <2>1, <2>4
    <3>4. Cardinality(new) >= i + 1
      <4>1. Cardinality(old) \in Nat /\ Cardinality(new) \in Nat
        BY <3>1, FS_CardinalityType
      <4> QED
        BY <3>2, <3>3, <4>1
    <3> QED
      BY <2>2, <3>4
  <2> QED
    BY <2>3, <2>4
<1>11. Found(at[n], n)
  <2> HIDE DEF T, n, at
  <2>1. \A i \in 0 .. n : i \in T
    BY <1>1, <1>9, <1>10, UpTo
  <2>2. n \in T
    BY <1>1, <2>1
  <2> QED
    BY <2>2 DEF T
<1>12. Below(at[n]) = at[n]
  <2> HIDE DEF at
  <2>1. Cardinality(at[n]) <= n /\ Cardinality(at[n]) \in Nat
    BY <1>1, <1>11, FS_Subset, FS_CardinalityType
  <2> HIDE DEF n
  <2> QED
    BY <1>1, <1>11, <2>1
<1>13. Reachable = at[n]
  BY DEF Reachable
<1> HIDE DEF at, n, S
<1> QED
  BY <1>11, <1>12, <1>13

\* From the root one finds the root and what some directory holds.
TreeReached == Reachable = Linked \cup {m_root}

LEMMA AllReached == FsInv => TreeReached
<1> SUFFICES ASSUME FsInv PROVE Linked \subseteq Reachable
  BY ReachableLoop DEF TreeReached
<1> DEFINE ns == Linked \ Reachable
<1>1. SUFFICES ASSUME ns # {} PROVE FALSE
  OBVIOUS
<1>2. PICK n \in Nodes \ ns, name \in Names : children[n][name] \in ns
  BY <1>1 DEF FsInv, Rooted, HeldFromOutside
<1>3. children[n][name] # None
  BY <1>2 DEF Linked
<1>4. CASE n \in Reachable
  <2>1. children[n][name] \in Below(Reachable)
    BY <1>2, <1>3, <1>4 DEF Below
  <2> QED
    BY <1>2, <2>1, ReachableLoop
<1>5. CASE n \notin Reachable
  <2>1. n \notin Linked /\ n # m_root
    BY <1>2, <1>5, ReachableLoop
  <2>2. \A m \in Nodes, nm \in Names : children[m][nm] # n
    BY <2>1, FsTypes DEF Linked
  <2>3. kind[n] # "Directory" \/ n \notin InUse(children, file)
    <3>1. \A h \in Handles : file[h] = n => kind[n] = "File"
      BY FsTypes
    <3> QED
      BY <2>1, <2>2, <3>1, InUseIs
  <2>4. children[n] = NoChildren
    BY <2>3 DEF FsInv, OnlyDirectoriesHold, UnusedBlank
  <2> QED
    BY <1>3, <2>4 DEF NoChildren
<1> QED
  BY <1>4, <1>5

LEMMA SoundTree == FsInv => TreeSound
BY AllReached DEF FsInv, LinkedOnce, Rooted, TreeReached, TreeSound

\* Nodes that a step unlinks hold nothing.
LEMMA LooseHoldNothing ==
  ASSUME FsInv, TreeOperation
  PROVE  \A n \in Linked \ Linked' : children[n] = NoChildren
<1>1. CASE UNCHANGED children
  BY <1>1 DEF Linked
<1>2. ASSUME NEW raw \in RawPaths, Resolve(raw) = None, ResolveParent(raw) # None,
             NEW n \in Nodes, NEW k,
             AddChild(ResolveParent(raw), Filename(Normalize(raw)), n, k)
      PROVE  Linked \subseteq Linked'
  <2> DEFINE dir == ResolveParent(raw)
             name == Filename(Normalize(raw))
  <2>1. /\ dir \in Nodes /\ name \in Names /\ children[dir][name] = None
        /\ children' = [children EXCEPT ![dir][name] = n]
    BY <1>2, FsTypes, ParentHolds DEF AddChild
  <2> HIDE DEF dir, name
  <2>2. \A m \in Nodes, nm \in Names :
          children[m][nm] # None => children'[m][nm] = children[m][nm]
    BY <2>1, FsTypes DEF NodeTypes
  <2> QED
    BY <2>2 DEF Linked
<1>3. ASSUME NEW raw \in RawPaths, RemovePath(raw)
      PROVE  \A n \in Linked \ Linked' : children[n] = NoChildren
  <2>1. PICK dir \in Nodes, name \in Names :
          /\ children[children[dir][name]] = NoChildren
          /\ children' = [children EXCEPT ![dir][name] = None]
    BY <1>3, RemovePathKeeps
  <2>2. \A m \in Nodes, nm \in Names : m # dir \/ nm # name =>
          children'[m][nm] = children[m][nm]
    BY <2>1, FsTypes DEF NodeTypes
  <2>3. ASSUME NEW n \in Linked \ Linked' PROVE n = children[dir][name]
    <3>1. PICK m \in Nodes, nm \in Names : n = children[m][nm] /\ n # None
      BY DEF Linked
    <3>2. m = dir /\ nm = name
      BY <2>2, <3>1 DEF Linked
    <3> QED
      BY <3>1, <3>2
  <2> QED
    BY <2>1, <2>3
<1>4. ASSUME NEW raw \in RawPaths, NEW h \in Handles, Truncate(h, raw)
      PROVE  UNCHANGED children
  BY <1>4 DEF Truncate
<1>5. ASSUME NEW raw \in RawPaths, NEW h \in Handles, CreateFile(h, raw)
      PROVE  Linked \subseteq Linked'
  BY <1>2, <1>5 DEF CreateFile
<1>6. ASSUME NEW raw \in RawPaths, CreateDirectory(raw)
      PROVE  Linked \subseteq Linked'
  BY <1>2, <1>6 DEF CreateDirectory
<1> QED
  BY <1>1, <1>3, <1>4, <1>5, <1>6 DEF TreeOperation

\* TreeKept: the tree stays a tree, and no operation takes more from it than the
\* node it is about.
THEOREM TreeStays == FsSpec => TreeKept
<1> DEFINE Step == children' # children =>
                     /\ TreeSound'
                     /\ LET gone == Reachable \ Reachable'
                        IN  \A n \in gone : children[n] = NoChildren
<1>1. FsInv /\ FsInv' /\ TreeSound' /\ TreeReached /\ TreeReached' /\ [FsNext]_fsVars
        => [Step]_fsVars
  <2> SUFFICES ASSUME FsInv, TreeSound', TreeReached, TreeReached', [FsNext]_fsVars,
                      children' # children
               PROVE  \A n \in Reachable \ Reachable' : children[n] = NoChildren
    OBVIOUS
  <2>1. Reachable \ Reachable' \subseteq Linked \ Linked'
    BY DEF TreeReached
  <2>2. TreeOperation
    BY HandleOperationKeeps DEF FsNext, fsVars
  <2> QED
    BY <2>1, <2>2, LooseHoldNothing
<1>2. FsSpec => [][Step]_fsVars
  BY <1>1, FsInvariance, SoundTree, AllReached, PTL DEF FsSpec
<1> QED
  BY <1>2 DEF TreeKept

-----------------------------------------------------------------------------
(* Listings *)

\* t has those of the first n elements of s that are in K, in their order.
Selects(t, s, n, K) ==
  /\ \E pos \in [1 .. Len(t) -> 1 .. n] :
       /\ \A i, j \in 1 .. Len(t) : i < j => pos[i] < pos[j]
       /\ \A i \in 1 .. Len(t) : t[i] = s[pos[i]] /\ t[i] \in K
  /\ \A i \in 1 .. n : s[i] \in K => \E j \in 1 .. Len(t) : t[j] = s[i]

LEMMA SelectOne ==
  ASSUME NEW S, NEW s \in Seq(S), NEW n \in 1 .. Len(s), NEW K,
         NEW t \in Seq(S), Selects(t, s, n - 1, K), s[n] \in K
  PROVE  Selects(Append(t, s[n]), s, n, K)
<1> DEFINE u == Append(t, s[n])
           m == Len(t)
<1>1. /\ Len(u) = m + 1 /\ m \in Nat /\ u[m + 1] = s[n]
      /\ \A i \in 1 .. m : u[i] = t[i]
      /\ n \in Nat \ {0}
  <2>1. s[n] \in S /\ Len(s) \in Nat
    BY ElementOfSeq, LenProperties
  <2> QED
    BY <2>1, AppendIs
<1>2. PICK pos \in [1 .. m -> 1 .. n - 1] :
        /\ \A i, j \in 1 .. m : i < j => pos[i] < pos[j]
        /\ \A i \in 1 .. m : t[i] = s[pos[i]] /\ t[i] \in K
  BY DEF Selects
<1>3. \A i \in 1 .. n - 1 : s[i] \in K => \E j \in 1 .. m : t[j] = s[i]
  BY DEF Selects
<1> HIDE DEF u, m
<1> DEFINE q == [i \in 1 .. m + 1 |-> IF i = m + 1 THEN n ELSE pos[i]]
<1>4. /\ q[m + 1] = n /\ \A i \in 1 .. m : q[i] = pos[i] /\ i # m + 1
      /\ \A i \in 1 .. m + 1 : i = m + 1 \/ i \in 1 .. m
  BY <1>1
<1>5. q \in [1 .. m + 1 -> 1 .. n]
  <2>1. \A i \in 1 .. m + 1 : q[i] \in 1 .. n
    BY <1>1, <1>2, <1>4
  <2>2. q = [i \in 1 .. m + 1 |-> q[i]]
    OBVIOUS
  <2> HIDE DEF q
  <2> QED
    BY <2>1, <2>2
<1> HIDE DEF q
<1>6. \A i, j \in 1 .. m + 1 : i < j => q[i] < q[j]
  <2> SUFFICES ASSUME NEW i \in 1 .. m + 1, NEW j \in 1 .. m + 1, i < j
               PROVE  q[i] < q[j]
    OBVIOUS
  <2>1. i \in 1 .. m
    BY <1>1
  <2>2. CASE j = m + 1
    BY <1>1, <1>2, <1>4, <2>1, <2>2
  <2>3. CASE j \in 1 .. m
    BY <1>2, <1>4, <2>1, <2>3
  <2> QED
    BY <1>4, <2>2, <2>3
<1>7. \A i \in 1 .. m + 1 : u[i] = s[q[i]] /\ u[i] \in K
  BY <1>1, <1>2, <1>4
<1>8. \A i \in 1 .. n : s[i] \in K => \E j \in 1 .. m + 1 : u[j] = s[i]
  <2> SUFFICES ASSUME NEW i \in 1 .. n, s[i] \in K
               PROVE  \E j \in 1 .. m + 1 : u[j] = s[i]
    OBVIOUS
  <2>1. CASE i = n
    <3>1. m + 1 \in 1 .. m + 1
      BY <1>1
    <3> QED
      BY <1>1, <2>1, <3>1
  <2>2. CASE i # n
    <3>1. PICK j \in 1 .. m : t[j] = s[i]
      BY <1>1, <1>3, <2>2
    <3>2. j \in 1 .. m + 1 /\ u[j] = s[i]
      BY <1>1, <3>1
    <3> QED
      BY <3>2
  <2> QED
    BY <2>1, <2>2
<1>9. Len(u) = m + 1
  BY <1>1
<1>10. Selects(u, s, n, K)
  <2>1. /\ q \in [1 .. Len(u) -> 1 .. n]
        /\ \A i, j \in 1 .. Len(u) : i < j => q[i] < q[j]
        /\ \A i \in 1 .. Len(u) : u[i] = s[q[i]] /\ u[i] \in K
        /\ \A i \in 1 .. n : s[i] \in K => \E j \in 1 .. Len(u) : u[j] = s[i]
    BY <1>5, <1>6, <1>7, <1>8, <1>9
  <2> QED
    BY <2>1 DEF Selects
<1> QED
  BY <1>10 DEF u

LEMMA SelectNone ==
  ASSUME NEW S, NEW s \in Seq(S), NEW n \in 1 .. Len(s), NEW K,
         NEW t \in Seq(S), Selects(t, s, n - 1, K), s[n] \notin K
  PROVE  Selects(t, s, n, K)
<1>1. n \in Nat \ {0} /\ \A i \in 1 .. n : i # n => i \in 1 .. n - 1
  BY LenProperties
<1>2. PICK pos \in [1 .. Len(t) -> 1 .. n - 1] :
        /\ \A i, j \in 1 .. Len(t) : i < j => pos[i] < pos[j]
        /\ \A i \in 1 .. Len(t) : t[i] = s[pos[i]] /\ t[i] \in K
  BY DEF Selects
<1>3. pos \in [1 .. Len(t) -> 1 .. n]
  BY <1>1
<1>4. \A i \in 1 .. n : s[i] \in K => \E j \in 1 .. Len(t) : t[j] = s[i]
  BY <1>1 DEF Selects
<1> QED
  BY <1>2, <1>3, <1>4 DEF Selects

\* The loop of Kept().
LEMMA KeptIs ==
  ASSUME NEW S, NEW s \in Seq(S), NEW K
  PROVE  Kept(s, K) \in Seq(S) /\ Selects(Kept(s, K), s, Len(s), K)
<1> DEFINE n == Len(s)
           Z == Seq(S)
           Add(x, e) == IF e \in K THEN Append(x, e) ELSE x
           step == [x \in Z \X (1 .. n) |-> Add(x[1], s[x[2]])]
           Is(f) == f = [i \in 0 .. n |->
                           IF i = 0 THEN <<>>
                           ELSE IF s[i] \in K THEN Append(f[i - 1], s[i])
                           ELSE f[i - 1]]
           kept == CHOOSE f : Is(f)
<1>1. n \in Nat /\ \A i \in 1 .. n : s[i] \in S
  BY LenProperties, ElementOfSeq
<1>2. <<>> \in Z
  BY EmptySeq
<1>3. \A x \in Z, i \in 1 .. n : Add(x, s[i]) \in Z
  BY <1>1, AppendIs
<1>4. step \in [Z \X (1 .. n) -> Z]
  <2> HIDE DEF Z, n, Add
  <2> QED
    BY <1>3
<1>5. PICK f \in [0 .. n -> Z] : Iterates(f, n, <<>>, step)
  <2> HIDE DEF Z, n, step
  <2> QED
    BY <1>1, <1>2, <1>4, LoopExists
<1>6. Is(f)
  <2>1. f = [i \in 0 .. n |-> IF i = 0 THEN <<>> ELSE step[<<f[i - 1], i>>]]
    BY <1>5 DEF Iterates
  <2>2. ASSUME NEW i \in 0 .. n, i # 0
        PROVE  step[<<f[i - 1], i>>] = Add(f[i - 1], s[i])
    <3>1. i \in 1 .. n /\ f[i - 1] \in Z
      BY <1>1, <1>5, <2>2
    <3> HIDE DEF Z, n, Add
    <3> QED
      BY <3>1
  <2>3. f = [i \in 0 .. n |-> IF i = 0 THEN <<>> ELSE Add(f[i - 1], s[i])]
    <3> HIDE DEF Z, n, step, Add
    <3> QED
      BY <2>1, <2>2
  <2> QED
    BY <2>3
<1>7. Is(kept)
  <2> HIDE DEF Is
  <2> QED
    BY <1>6
<1>8. kept[0] = <<>> /\ \A i \in 1 .. n : kept[i] = Add(kept[i - 1], s[i])
  <2>1. kept = [i \in 0 .. n |-> IF i = 0 THEN <<>> ELSE Add(kept[i - 1], s[i])]
    <3> HIDE DEF kept, n
    <3> QED
      BY <1>7
  <2> HIDE DEF kept, n, Add
  <2>2. 0 \in 0 .. n /\ \A i \in 1 .. n : i \in 0 .. n /\ i # 0
    BY <1>1
  <2> QED
    BY <2>1, <2>2
<1> DEFINE Done(t, i) == t \in Z /\ Selects(t, s, i, K)
           T == {i \in 0 .. n : Done(kept[i], i)}
<1>9. 0 \in T
  <2>1. Len(kept[0]) = 0
    BY <1>8, EmptySeq
  <2> DEFINE t == kept[0]
             pos == [i \in 1 .. 0 |-> 0]
  <2>2. t \in Z /\ 0 \in 0 .. n
    <3> HIDE DEF kept, n, Z
    <3> QED
      BY <1>1, <1>2, <1>8
  <2> HIDE DEF t
  <2>3. pos \in [1 .. Len(t) -> 1 .. 0]
    <3>1. Len(t) = 0 /\ 1 .. 0 = {}
      BY <2>1 DEF t
    <3>2. \A i \in 1 .. Len(t) : FALSE
      BY <3>1
    <3> QED
      BY <3>1, <3>2
  <2> HIDE DEF pos
  <2>4. \A i \in 1 .. 0 : FALSE
    OBVIOUS
  <2>5. Len(t) = 0
    BY <2>1 DEF t
  <2>6. Selects(t, s, 0, K)
    BY <2>3, <2>4, <2>5 DEF Selects
  <2> HIDE DEF n, Z, kept
  <2> QED
    BY <2>2, <2>6 DEF t
<1>10. ASSUME NEW i \in 1 .. n, i - 1 \in T PROVE i \in T
  <2>1. Done(kept[i - 1], i - 1) /\ kept[i] = Add(kept[i - 1], s[i])
    BY <1>8, <1>10
  <2>2. i \in 0 .. n
    OBVIOUS
  <2> HIDE DEF kept
  <2>3. Done(kept[i], i)
    <3>1. CASE s[i] \in K
      <4>1. kept[i] = Append(kept[i - 1], s[i])
        BY <2>1, <3>1
      <4>2. Append(kept[i - 1], s[i]) \in Z
        BY <1>1, <2>1, AppendIs
      <4> QED
        BY <2>1, <3>1, <4>1, <4>2, SelectOne
    <3>2. CASE s[i] \notin K
      <4>1. kept[i] = kept[i - 1]
        BY <2>1, <3>2
      <4> QED
        BY <2>1, <3>2, <4>1, SelectNone
    <3> QED
      BY <3>1, <3>2
  <2> HIDE DEF Done
  <2> QED
    BY <2>2, <2>3
<1>11. Done(kept[n], n)
  <2> HIDE DEF T, n, kept
  <2>1. \A i \in 0 .. n : i \in T
    BY <1>1, <1>9, <1>10, UpTo
  <2>2. n \in T
    BY <1>1, <2>1
  <2> QED
    BY <2>2 DEF T
<1>12. Kept(s, K) = kept[n]
  BY DEF Kept
<1> HIDE DEF kept
<1> QED
  BY <1>11, <1>12

\* What a directory holds, listed in the order of the names.
LEMMA ListIs ==
  ASSUME NEW K \in SUBSET Names
  PROVE  LET t == Kept(NameOrder, K)
         IN  /\ t \in Seq(Names)
             /\ \A i, j \in 1 .. Len(t) : i < j => Before(t[i], t[j])
             /\ Range(t) = K
<1> DEFINE t == Kept(NameOrder, K)
<1>1. NameOrder \in Seq(Names)
  BY FileExplorerAssumption
<1>2. t \in Seq(Names) /\ Selects(t, NameOrder, Len(NameOrder), K)
  BY <1>1, KeptIs
<1> HIDE DEF t
<1>3. PICK pos \in [1 .. Len(t) -> 1 .. Len(NameOrder)] :
        /\ \A i, j \in 1 .. Len(t) : i < j => pos[i] < pos[j]
        /\ \A i \in 1 .. Len(t) : t[i] = NameOrder[pos[i]] /\ t[i] \in K
  BY <1>2 DEF Selects
<1>4. \A i, j \in 1 .. Len(t) : i < j => Before(t[i], t[j])
  BY <1>3 DEF Before
<1>5. \A name \in Names : \E i \in 1 .. Len(NameOrder) : NameOrder[i] = name
  <2> SUFFICES ASSUME NEW name \in Names
               PROVE  \E i \in 1 .. Len(NameOrder) : NameOrder[i] = name
    OBVIOUS
  <2> DEFINE places == {i \in 1 .. Len(NameOrder) : NameOrder[i] = name}
  <2>1. Cardinality(places) = 1
    BY FileExplorerAssumption
  <2>2. places # {}
    <3> HIDE DEF places
    <3>1. Cardinality({}) = 0
      BY FS_EmptySet
    <3>2. places = {} => Cardinality(places) = Cardinality({})
      OBVIOUS
    <3> QED
      BY <2>1, <3>1, <3>2
  <2> QED
    BY <2>2
<1>6. Range(t) = K
  <2>1. Range(t) = {t[i] : i \in 1 .. Len(t)}
    BY <1>2, RangeEquality
  <2>2. \A name \in K : \E j \in 1 .. Len(t) : t[j] = name
    BY <1>2, <1>5 DEF Selects
  <2> QED
    BY <1>3, <2>1, <2>2
<1> QED
  BY <1>2, <1>4, <1>6 DEF t

Entry == [name : Names, full_path : Path, is_directory : BOOLEAN]

\* The sort: all rows are kept, directories first, otherwise in their order.
LEMMA SortedIs ==
  ASSUME NEW s \in Seq(Entry)
  PROVE  LET t == Sorted(s)
         IN  /\ t \in Seq(Entry)
             /\ \A i \in 1 .. Len(t) : \E k \in 1 .. Len(s) : t[i] = s[k]
             /\ \A k \in 1 .. Len(s) : \E i \in 1 .. Len(t) : t[i] = s[k]
             /\ \A i, j \in 1 .. Len(t) : i < j =>
                  \/ t[i].is_directory /\ ~t[j].is_directory
                  \/ /\ t[i].is_directory = t[j].is_directory
                     /\ \E k, l \in 1 .. Len(s) : k < l /\ t[i] = s[k] /\ t[j] = s[l]
<1> DEFINE D == {e \in Range(s) : e.is_directory}
           R == Range(s) \ D
           a == Kept(s, D)
           b == Kept(s, R)
           t == a \o b
           n == Len(s)
<1>1. /\ a \in Seq(Entry) /\ Selects(a, s, n, D)
      /\ b \in Seq(Entry) /\ Selects(b, s, n, R)
  BY KeptIs
<1>2. Range(s) = {s[i] : i \in 1 .. n} /\ Range(s) \in SUBSET Entry /\ n \in Nat
  BY RangeEquality, RangeOfSeq, LenProperties
<1>3. Sorted(s) = t
  BY DEF Sorted
<1> HIDE DEF a, b
<1>4. /\ t \in Seq(Entry) /\ Len(t) = Len(a) + Len(b)
      /\ Len(a) \in Nat /\ Len(b) \in Nat
      /\ \A i \in 1 .. Len(a) + Len(b) :
           t[i] = IF i <= Len(a) THEN a[i] ELSE b[i - Len(a)]
  BY <1>1, ConcatProperties, LenProperties
<1>5. PICK p \in [1 .. Len(a) -> 1 .. n] :
        /\ \A i, j \in 1 .. Len(a) : i < j => p[i] < p[j]
        /\ \A i \in 1 .. Len(a) : a[i] = s[p[i]] /\ a[i] \in D
  BY <1>1 DEF Selects
<1>6. PICK q \in [1 .. Len(b) -> 1 .. n] :
        /\ \A i, j \in 1 .. Len(b) : i < j => q[i] < q[j]
        /\ \A i \in 1 .. Len(b) : b[i] = s[q[i]] /\ b[i] \in R
  BY <1>1 DEF Selects
<1> HIDE DEF t, n
<1>7. /\ \A i \in 1 .. Len(t) : i \in 1 .. Len(a) \/ i - Len(a) \in 1 .. Len(b)
      /\ \A i \in 1 .. Len(a) : t[i] = a[i]
      /\ \A i \in 1 .. Len(t) : i \notin 1 .. Len(a) => t[i] = b[i - Len(a)]
      /\ \A i \in 1 .. Len(a) : i \in 1 .. Len(t)
      /\ \A i \in 1 .. Len(b) : i + Len(a) \in 1 .. Len(t) /\ t[i + Len(a)] = b[i]
  BY <1>4
<1>8. \A i \in 1 .. Len(t) : \E k \in 1 .. n : t[i] = s[k]
  <2> SUFFICES ASSUME NEW i \in 1 .. Len(t) PROVE \E k \in 1 .. n : t[i] = s[k]
    OBVIOUS
  <2>1. CASE i \in 1 .. Len(a)
    <3>1. p[i] \in 1 .. n /\ t[i] = s[p[i]]
      BY <1>5, <1>7, <2>1
    <3> QED
      BY <3>1
  <2>2. CASE i \notin 1 .. Len(a)
    <3> DEFINE x == i - Len(a)
    <3>1. x \in 1 .. Len(b) /\ t[i] = b[x]
      BY <1>7, <2>2
    <3>2. q[x] \in 1 .. n /\ t[i] = s[q[x]]
      BY <1>6, <3>1
    <3> QED
      BY <3>2
  <2> QED
    BY <2>1, <2>2
<1>9. ASSUME NEW k \in 1 .. n PROVE \E i \in 1 .. Len(t) : t[i] = s[k]
  <2>1. CASE s[k] \in D
    <3>1. PICK i \in 1 .. Len(a) : a[i] = s[k]
      BY <1>1, <2>1 DEF Selects
    <3> QED
      BY <1>7, <3>1
  <2>2. CASE s[k] \notin D
    <3>1. s[k] \in R
      BY <1>2, <2>2
    <3>2. PICK i \in 1 .. Len(b) : b[i] = s[k]
      BY <1>1, <3>1 DEF Selects
    <3> QED
      BY <1>7, <3>2
  <2> QED
    BY <2>1, <2>2
<1>10. /\ \A e \in D : e.is_directory = TRUE
       /\ \A e \in R : e.is_directory = FALSE
  <2>1. \A e \in Range(s) : e.is_directory \in BOOLEAN
    BY <1>2 DEF Entry
  <2> QED
    BY <2>1
<1>11. ASSUME NEW i \in 1 .. Len(t), NEW j \in 1 .. Len(t), i < j
       PROVE  \/ t[i].is_directory /\ ~t[j].is_directory
              \/ /\ t[i].is_directory = t[j].is_directory
                 /\ \E k, l \in 1 .. n : k < l /\ t[i] = s[k] /\ t[j] = s[l]
  <2> DEFINE x == i - Len(a)
             y == j - Len(a)
  <2>1. CASE i \in 1 .. Len(a) /\ j \in 1 .. Len(a)
    <3>1. p[i] \in 1 .. n /\ p[j] \in 1 .. n /\ p[i] < p[j]
          /\ t[i] = s[p[i]] /\ t[j] = s[p[j]] /\ t[i] \in D /\ t[j] \in D
      BY <1>5, <1>7, <1>11, <2>1
    <3> QED
      BY <1>10, <3>1
  <2>2. CASE i \in 1 .. Len(a) /\ j \notin 1 .. Len(a)
    <3>1. t[i] \in D /\ t[j] \in R
      BY <1>5, <1>6, <1>7, <2>2
    <3> QED
      BY <1>10, <3>1
  <2>3. CASE i \notin 1 .. Len(a)
    <3>1. j \notin 1 .. Len(a) /\ x \in 1 .. Len(b) /\ y \in 1 .. Len(b) /\ x < y
      BY <1>4, <1>7, <1>11, <2>3
    <3>2. q[x] \in 1 .. n /\ q[y] \in 1 .. n /\ q[x] < q[y]
          /\ t[i] = s[q[x]] /\ t[j] = s[q[y]] /\ t[i] \in R /\ t[j] \in R
      BY <1>6, <1>7, <2>3, <3>1
    <3> QED
      BY <1>10, <3>2
  <2> QED
    BY <2>1, <2>2, <2>3
<1> QED
  BY <1>3, <1>4, <1>8, <1>9, <1>11 DEF n

\* The path of a row: its parent is the directory and its filename the name,
\* and it is as settled as the directory.
THEOREM RowPaths ==
  ASSUME NEW path \in Path, Settled(path), NEW name \in Names
  PROVE  LET row == AppendComponent(path, Component(name))
         IN  /\ row = [absolute |-> TRUE, segments |-> Append(path.segments, name)]
             /\ row \in Path /\ Settled(row)
             /\ Parent(row) = path
             /\ Filename(row) = name
<1> DEFINE s == path.segments
           P == Names \cup {".."}
           t == Append(s, name)
           row == [absolute |-> TRUE, segments |-> t]
<1>1. path.absolute = TRUE /\ s \in Seq(P) /\ Normal(TRUE, s)
      /\ path = [absolute |-> TRUE, segments |-> s]
  <2>1. AsString(path) \in RawPath /\ AsString(path).slash = path.absolute
    <3>1. s \in Seq(P) /\ P \subseteq Parts /\ path.absolute \in BOOLEAN
      BY DEF Path, Parts
    <3>2. s \in Seq(Parts)
      BY <3>1, SeqMonotonic
    <3> QED
      BY <3>1, <3>2 DEF AsString, RawPath
  <2>2. Normal(path.absolute, Normalize(AsString(path)).segments)
    BY <2>1, NormalizeIs
  <2>3. Normal(TRUE, s)
    BY <2>2 DEF Settled, Path
  <2> QED
    BY <2>3 DEF Settled, Path
<1>2. /\ t \in Seq(P) /\ t # <<>> /\ Len(t) = Len(s) + 1 /\ Len(s) \in Nat
      /\ \A i \in 1 .. Len(s) : t[i] = s[i]
      /\ t[Len(s) + 1] = name /\ Last(t) = name /\ Front(t) = s
  BY <1>1, AppendIs
<1>3. s \o <<name>> = t
  BY <1>1, AppendIsConcat
<1> HIDE DEF t, s
<1>4. Normal(TRUE, t)
  <2>1. ASSUME NEW i \in 1 .. Len(t) PROVE t[i] # ".."
    <3>1. CASE i \in 1 .. Len(s)
      BY <1>1, <1>2, <3>1 DEF Normal
    <3>2. CASE i = Len(s) + 1
      BY <1>2, <3>2, NamesAssumption
    <3> QED
      BY <1>2, <3>1, <3>2
  <2> QED
    BY <1>2, <2>1 DEF Normal, Segments
<1>5. row \in Path /\ row.absolute = TRUE /\ row.segments = t
  BY <1>2 DEF Path
<1>6. Normalize(AsString(row)) = row
  BY <1>4, <1>5, NormalFormsStay
<1>7. AppendComponent(path, Component(name)) = row
  <2>1. /\ Component(name).slash = FALSE /\ Component(name).parts = <<name>>
        /\ <<name>> # <<>>
    BY DEF Component
  <2>2. ~IsEmpty(path)
    BY <1>1 DEF IsEmpty
  <2>3. AppendComponent(path, Component(name))
          = Normalize([slash |-> path.absolute,
                       parts |-> path.segments \o Component(name).parts])
    BY <2>1, <2>2 DEF AppendComponent
  <2>4. path.segments \o Component(name).parts = t
    BY <1>3, <2>1 DEF s
  <2>5. [slash |-> path.absolute, parts |-> t] = AsString(row)
    BY <1>1 DEF AsString
  <2> QED
    BY <1>6, <2>3, <2>4, <2>5
<1>8. Parent(row) = path
  <2>1. Parent(row) = [row EXCEPT !.segments = Front(@)]
    BY <1>2, <1>5 DEF Parent
  <2> QED
    BY <1>1, <1>2, <2>1
<1>9. Filename(row) = name
  BY <1>2, <1>5 DEF Filename
<1>10. Settled(row)
  BY <1>5, <1>6 DEF Settled
<1> QED
  BY <1>5, <1>7, <1>8, <1>9, <1>10 DEF t, s

\* So is the parent of a settled path.
LEMMA SettledIs ==
  ASSUME NEW path \in Path, Settled(path)
  PROVE  /\ path.absolute = TRUE /\ Normal(TRUE, path.segments)
         /\ path = [absolute |-> TRUE, segments |-> path.segments]
         /\ path.segments \in Segments
         /\ Resolve(AsString(path)) = Descend(path.segments)
<1>1. AsString(path) \in RawPath /\ AsString(path).slash = path.absolute
  <2>1. /\ path.segments \in Seq(Names \cup {".."})
        /\ Names \cup {".."} \subseteq Parts /\ path.absolute \in BOOLEAN
    BY DEF Path, Parts
  <2>2. path.segments \in Seq(Parts)
    BY <2>1, SeqMonotonic
  <2> QED
    BY <2>1, <2>2 DEF AsString, RawPath
<1>2. Normal(path.absolute, Normalize(AsString(path)).segments)
  BY <1>1, NormalizeIs
<1>3. Normal(TRUE, path.segments) /\ path.absolute = TRUE
  BY <1>2 DEF Settled, Path
<1>4. Resolve(AsString(path)) = Descend(path.segments)
  BY DEF Resolve, Settled
<1> QED
  BY <1>3, <1>4 DEF Path, Segments

LEMMA NormalSettled ==
  ASSUME NEW s, Normal(TRUE, s)
  PROVE  LET path == [absolute |-> TRUE, segments |-> s]
         IN  path \in Path /\ Settled(path)
<1> DEFINE path == [absolute |-> TRUE, segments |-> s]
<1>1. path \in Path /\ path.absolute = TRUE /\ path.segments = s
  BY DEF Path, Normal, Segments
<1>2. Normalize(AsString(path)) = path
  BY <1>1, NormalFormsStay
<1> QED
  BY <1>1, <1>2 DEF Settled

LEMMA ParentSettled ==
  ASSUME NEW path \in Path, Settled(path)
  PROVE  Parent(path) \in Path /\ Settled(Parent(path))
<1> DEFINE s == path.segments
<1>1. path.absolute = TRUE /\ Normal(TRUE, s)
      /\ path = [absolute |-> TRUE, segments |-> s] /\ s \in Segments
  BY SettledIs
<1>2. CASE s = <<>>
  BY <1>2 DEF Parent
<1>3. CASE s # <<>>
  <2>1. Parent(path) = [absolute |-> TRUE, segments |-> Front(s)]
    BY <1>1, <1>3 DEF Parent
  <2>2. /\ Front(s) \in Segments /\ Len(Front(s)) = Len(s) - 1
        /\ Len(s) \in Nat \ {0}
        /\ \A i \in 1 .. Len(s) - 1 : Front(s)[i] = s[i]
    BY <1>1, <1>3, FrontIs DEF Segments
  <2>3. \A i \in 1 .. Len(Front(s)) : Front(s)[i] # ".."
    BY <1>1, <2>2 DEF Normal
  <2>4. Normal(TRUE, Front(s))
    BY <2>2, <2>3 DEF Normal
  <2> QED
    BY <2>1, <2>4, NormalSettled
<1> QED
  BY <1>2, <1>3

LEMMA RootSettled == Root \in Path /\ Settled(Root)
<1> DEFINE raw == [slash |-> TRUE, parts |-> <<>>]
<1>1. raw \in RawPath /\ raw.slash = TRUE
  <2>1. <<>> \in Seq(Parts)
    BY EmptySeq
  <2> QED
    BY <2>1 DEF RawPath
<1>2. Root = Normalize(raw)
  BY DEF Root
<1> HIDE DEF raw
<1>3. Root \in Path /\ Root.absolute = TRUE /\ Normal(TRUE, Root.segments)
  BY <1>1, <1>2, NormalizeIs
<1>4. Root = [absolute |-> TRUE, segments |-> Root.segments]
  BY <1>3 DEF Path
<1> QED
  BY <1>3, <1>4, NormalSettled

-----------------------------------------------------------------------------
(* What the explorer sees of the tree *)

\* Where settled paths lead, as a function of their segments.
Ends == [s \in Segments |-> Descend(s)]

DirectoryPaths ==
  {p \in Path : /\ Settled(p)
                /\ Ends[p.segments] # None /\ kind[Ends[p.segments]] = "Directory"}

EndsRight ==
  \A s \in Segments :
    \E at \in [0 .. Len(s) -> Nodes \cup {None}] :
      /\ at[0] = m_root
      /\ \A i \in 1 .. Len(s) :
           at[i] = IF at[i - 1] # None /\ s[i] \in Names
                        /\ kind[at[i - 1]] = "Directory"
                     THEN children[at[i - 1]][s[i]] ELSE None
      /\ Ends[s] = at[Len(s)]

LEMMA EndsAre == FsInv => NodeTypes /\ EndsRight
<1> SUFFICES ASSUME FsInv PROVE NodeTypes /\ EndsRight
  OBVIOUS
<1>1. NodeTypes
  BY FsTypes
<1>2. EndsRight
  <2> SUFFICES ASSUME NEW s \in Segments
               PROVE  \E at \in [0 .. Len(s) -> Nodes \cup {None}] :
                        /\ at[0] = m_root
                        /\ \A i \in 1 .. Len(s) :
                             at[i] = IF at[i - 1] # None /\ s[i] \in Names
                                          /\ kind[at[i - 1]] = "Directory"
                                       THEN children[at[i - 1]][s[i]] ELSE None
                        /\ Ends[s] = at[Len(s)]
    BY DEF EndsRight
  <2>1. PICK at \in [0 .. Len(s) -> Nodes \cup {None}] :
          /\ at[0] = m_root
          /\ \A i \in 1 .. Len(s) : at[i] = Child(at[i - 1], s[i])
          /\ Descend(s) = at[Len(s)]
    BY <1>1, DescendLoop
  <2>2. Ends[s] = at[Len(s)]
    BY <2>1 DEF Ends
  <2> QED
    BY <2>1, <2>2 DEF Child
<1> QED
  BY <1>1, <1>2

\* As long as the links stay and what they lead to stays what it is, every path
\* leads where it led.
LEMMA EndsStay ==
  ASSUME FsInv, NodeTypes', EndsRight, EndsRight', UNCHANGED children,
         \A n \in Linked \cup {m_root} : kind'[n] = kind[n]
  PROVE  /\ Ends' = Ends /\ DirectoryPaths' = DirectoryPaths
         /\ \A s \in Segments : Ends[s] \in Linked \cup {m_root, None}
<1> USE MemoryFileSystemAssumption
<1>1. ASSUME NEW s \in Segments
      PROVE  Ends'[s] = Ends[s] /\ Ends[s] \in Linked \cup {m_root, None}
  <2> DEFINE n == Len(s)
             Go(k, d, name) == IF d # None /\ name \in Names
                                    /\ k[d] = "Directory"
                                 THEN children[d][name] ELSE None
  <2>1. n \in Nat
    BY LenProperties DEF Segments
  <2>2. PICK a \in [0 .. n -> Nodes \cup {None}] :
          /\ a[0] = m_root
          /\ \A i \in 1 .. n : a[i] = Go(kind, a[i - 1], s[i])
          /\ Ends[s] = a[n]
    BY DEF EndsRight
  <2>3. PICK b \in [0 .. n -> Nodes \cup {None}] :
          /\ b[0] = m_root
          /\ \A i \in 1 .. n : b[i] = Go(kind', b[i - 1], s[i])
          /\ Ends'[s] = b[n]
    BY DEF EndsRight
  <2>4. ASSUME NEW d \in Linked \cup {m_root, None}, NEW name
        PROVE  /\ Go(kind', d, name) = Go(kind, d, name)
               /\ Go(kind, d, name) \in Linked \cup {m_root, None}
    <3>1. d # None => d \in Nodes
      BY FsTypes DEF Linked, NodeTypes
    <3> QED
      BY <3>1 DEF Linked
  <2> HIDE DEF n, Go
  <2> DEFINE T == {i \in 0 .. n : b[i] = a[i] /\ a[i] \in Linked \cup {m_root, None}}
  <2>5. 0 \in T
    BY <2>1, <2>2, <2>3
  <2>6. ASSUME NEW i \in 1 .. n, i - 1 \in T PROVE i \in T
    <3>1. b[i - 1] = a[i - 1] /\ a[i - 1] \in Linked \cup {m_root, None} /\ i \in 0 .. n
      BY <2>1, <2>6
    <3>2. a[i] = Go(kind, a[i - 1], s[i])
      BY <2>2
    <3>3. b[i] = Go(kind', a[i - 1], s[i])
      BY <2>3, <3>1
    <3>4. /\ Go(kind', a[i - 1], s[i]) = Go(kind, a[i - 1], s[i])
          /\ Go(kind, a[i - 1], s[i]) \in Linked \cup {m_root, None}
      BY <2>4, <3>1
    <3> QED
      BY <3>1, <3>2, <3>3, <3>4
  <2> HIDE DEF T
  <2>7. \A i \in 0 .. n : i \in T
    BY <2>1, <2>5, <2>6, UpTo
  <2> QED
    BY <2>1, <2>2, <2>3, <2>7 DEF T
<1>2. Ends' = Ends
  BY <1>1 DEF Ends
<1>3. DirectoryPaths' = DirectoryPaths
  <2>1. \A p \in Path : Settled(p) => p.segments \in Segments
    BY SettledIs
  <2>2. \A p \in Path : Settled(p) /\ Ends[p.segments] # None =>
          kind'[Ends[p.segments]] = kind[Ends[p.segments]]
    BY <1>1, <2>1
  <2> QED
    BY <1>2, <2>2 DEF DirectoryPaths
<1> QED
  BY <1>1, <1>2, <1>3

\* What the directory at a settled path holds, if it is one.
HeldBy ==
  [p \in Path |-> IF p \in DirectoryPaths
                    THEN {name \in Names : children[Ends[p.segments]][name] # None}
                    ELSE {}]

Seen ==
  \A p \in Path : Settled(p) =>
    /\ IsDirectory(AsString(p)) = (p \in DirectoryPaths)
    /\ ListDirectory(AsString(p)) = HeldBy[p]

LEMMA SeenSo == Seen
<1> SUFFICES ASSUME NEW p \in Path, Settled(p)
             PROVE  /\ IsDirectory(AsString(p)) = (p \in DirectoryPaths)
                    /\ ListDirectory(AsString(p)) = HeldBy[p]
  BY DEF Seen
<1>1. Resolve(AsString(p)) = Ends[p.segments]
  BY SettledIs DEF Ends
<1>2. IsDirectory(AsString(p)) = (p \in DirectoryPaths)
  BY <1>1 DEF IsDirectory, DirectoryPaths
<1>3. HeldBy[p] = IF p \in DirectoryPaths
                    THEN {name \in Names : children[Ends[p.segments]][name] # None}
                    ELSE {}
  BY DEF HeldBy
<1>4. ListDirectory(AsString(p)) = HeldBy[p]
  BY <1>1, <1>2, <1>3 DEF ListDirectory
<1> QED
  BY <1>2, <1>4

\* A name in the listing of a directory is found there, as long as it is in it.
LEMMA RowExists ==
  ASSUME FsInv, NEW p \in Path, Settled(p), NEW name \in HeldBy[p]
  PROVE  Exists(AsString(AppendComponent(p, Component(name))))
<1> DEFINE s == p.segments
           row == AppendComponent(p, Component(name))
<1>1. /\ p \in DirectoryPaths /\ name \in Names
      /\ children[Ends[s]][name] # None
  BY DEF HeldBy
<1>2. s \in Segments
  BY SettledIs
<1>3. /\ row = [absolute |-> TRUE, segments |-> Append(s, name)]
      /\ row \in Path /\ Settled(row)
  BY <1>1, RowPaths
<1> DEFINE t == Append(s, name)
<1>4. t \in Segments /\ t # <<>> /\ Front(t) = s /\ Last(t) = name
  BY <1>1, <1>2, AppendIs DEF Segments
<1> HIDE DEF t
<1>5. Resolve(AsString(row)) = Descend(t)
  <2>1. Resolve(AsString(row)) = Descend(row.segments)
    BY <1>3, SettledIs
  <2>2. row.segments = t
    BY <1>3 DEF t
  <2> QED
    BY <2>1, <2>2
<1>6. Descend(t) = Child(Descend(s), name)
  BY <1>4, FsTypes, DescendLast
<1>7. Ends[s] = Descend(s) /\ Ends[s] # None /\ kind[Ends[s]] = "Directory"
  BY <1>1, <1>2 DEF Ends, DirectoryPaths
<1>8. Descend(t) # None
  BY <1>1, <1>6, <1>7 DEF Child
<1> QED
  BY <1>5, <1>8 DEF Exists

\* The tree looks the same to the explorer.
SameTree == DirectoryPaths' = DirectoryPaths /\ HeldBy' = HeldBy

LEMMA TreeLooksSame ==
  ASSUME FsInv, FsInv', UNCHANGED children,
         \A n \in Linked \cup {m_root} : kind'[n] = kind[n]
  PROVE  SameTree
<1>1. NodeTypes' /\ EndsRight /\ EndsRight'
  BY EndsAre, PTL
<1>2. Ends' = Ends /\ DirectoryPaths' = DirectoryPaths
  BY <1>1, EndsStay
<1> QED
  BY <1>2 DEF SameTree, HeldBy

LEMMA HandlesKeepKinds ==
  ASSUME FsInv, HandleOperation, NEW n \in Linked \cup {m_root}
  PROVE  kind'[n] = kind[n]
<1>1. CASE UNCHANGED kind
  BY <1>1
<1>2. ASSUME NEW h \in Handles, CloseHandle(h) PROVE kind'[n] = kind[n]
  <2> DEFINE f == [file EXCEPT ![h] = None]
  <2>1. n \in Nodes
    BY FsTypes, MemoryFileSystemAssumption DEF NodeTypes, Linked
  <2>2. n \in InUse(children, f)
    BY <2>1, MemoryFileSystemAssumption DEF InUse, Linked
  <2>3. kind' = [m \in Nodes |-> IF m \in Nodes \ InUse(children, f)
                                   THEN "none" ELSE kind[m]]
    BY <1>2 DEF CloseHandle, Reclaim
  <2> QED
    BY <2>1, <2>2, <2>3
<1>3. ASSUME NEW h \in Handles, ~CloseHandle(h),
             \/ \E raw \in RawPaths : Open(h, raw)
             \/ Read(h) \/ CloseHandle(h)
             \/ \E b \in Bytes, size \in 1 .. MaxSize : Write(h, b, size)
             \/ \E offset \in 0 .. MaxSize : Seek(h, offset)
      PROVE  UNCHANGED kind
  BY <1>3 DEF Open, Read, Write, Seek
<1> QED
  BY <1>1, <1>2, <1>3 DEF HandleOperation

-----------------------------------------------------------------------------
(* The tree as places *)

\* The walks from the root, name by name.
Ways == Seq(Names)

Stepwise ==
  /\ Ends[<<>>] = m_root /\ <<>> \in Ways
  /\ \A s \in Ways : Ends[s] \in Linked \cup {m_root, None}
  /\ \A s \in Ways, name \in Names :
       /\ Append(s, name) \in Ways
       /\ Ends[Append(s, name)]
            = IF Ends[s] = None THEN None ELSE children[Ends[s]][name]

\* Each walk is the empty one or one more step.
LEMMA WayIs ==
  ASSUME NEW s \in Ways
  PROVE  /\ s \in Segments /\ Len(s) \in Nat
         /\ s = <<>> \/ \E r \in Ways, name \in Names :
                          s = Append(r, name) /\ Len(s) = Len(r) + 1 /\ Len(r) \in Nat
<1>1. s \in Segments /\ Len(s) \in Nat
  BY SeqMonotonic, LenProperties DEF Ways, Segments
<1>2. ASSUME s # <<>>
      PROVE  \E r \in Ways, name \in Names :
               s = Append(r, name) /\ Len(s) = Len(r) + 1 /\ Len(r) \in Nat
  <2> DEFINE r == Front(s)
             name == Last(s)
             t == Append(r, name)
  <2>1. /\ r \in Ways /\ name \in Names /\ Len(r) = Len(s) - 1
        /\ \A i \in 1 .. Len(s) - 1 : r[i] = s[i]
        /\ name = s[Len(s)] /\ Len(s) \in Nat \ {0}
    BY <1>2, FrontIs DEF Ways
  <2> HIDE DEF r, name
  <2>2. /\ t \in Ways /\ Len(t) = Len(r) + 1 /\ Len(r) \in Nat
        /\ \A i \in 1 .. Len(r) : t[i] = r[i]
        /\ t[Len(r) + 1] = name
    BY <2>1, AppendIs DEF Ways
  <2> HIDE DEF t
  <2>3. \A i \in 1 .. Len(s) : s[i] = t[i]
    BY <2>1, <2>2
  <2>4. s = t
    <3>1. Len(s) = Len(t)
      BY <2>1, <2>2
    <3> QED
      BY <2>2, <2>3, <3>1, SeqEqual DEF Ways
  <2> QED
    BY <2>1, <2>2, <2>4 DEF t
<1> QED
  BY <1>1, <1>2

LEMMA WaysAppend ==
  ASSUME NEW s \in Ways, NEW name \in Names
  PROVE  /\ Append(s, name) \in Ways /\ Append(s, name) # <<>>
         /\ Len(Append(s, name)) = Len(s) + 1 /\ Len(s) \in Nat
         /\ \A t \in Ways, x \in Names :
              Append(t, x) = Append(s, name) => t = s /\ x = name
<1>1. /\ Append(s, name) \in Ways /\ Append(s, name) # <<>>
      /\ Len(Append(s, name)) = Len(s) + 1 /\ Len(s) \in Nat
      /\ Front(Append(s, name)) = s /\ Last(Append(s, name)) = name
  BY AppendIs DEF Ways
<1>2. \A t \in Ways, x \in Names : Front(Append(t, x)) = t /\ Last(Append(t, x)) = x
  BY AppendIs DEF Ways
<1> QED
  BY <1>1, <1>2

LEMMA Steps == FsInv => Stepwise
<1> SUFFICES ASSUME FsInv PROVE Stepwise
  OBVIOUS
<1>1. NodeTypes /\ EndsRight
  BY EndsAre
<1>2. <<>> \in Ways /\ <<>> \in Segments
  BY EmptySeq DEF Ways, Segments
<1>3. Ends[<<>>] = m_root
  <2>1. PICK at \in [0 .. Len(<<>>) -> Nodes \cup {None}] :
          at[0] = m_root /\ Ends[<<>>] = at[Len(<<>>)]
    BY <1>1, <1>2 DEF EndsRight
  <2> QED
    BY <2>1, EmptySeq
<1>4. ASSUME NEW s \in Ways PROVE Ends[s] \in Nodes \cup {None}
  <2>1. s \in Segments /\ Len(s) \in 0 .. Len(s)
    BY WayIs
  <2> QED
    BY <1>1, <2>1 DEF EndsRight
<1>5. ASSUME NEW s \in Ways, NEW name \in Names
      PROVE  Ends[Append(s, name)]
               = IF Ends[s] = None THEN None ELSE children[Ends[s]][name]
  <2> DEFINE t == Append(s, name)
  <2>1. t \in Segments /\ t # <<>> /\ Front(t) = s /\ Last(t) = name /\ s \in Segments
    <3>1. t \in Ways
      BY WaysAppend
    <3>2. t # <<>> /\ Front(t) = s /\ Last(t) = name
      BY AppendIs DEF Ways
    <3> HIDE DEF t
    <3> QED
      BY <3>1, <3>2, WayIs
  <2> HIDE DEF t
  <2>2. Descend(t) = Child(Descend(s), name)
    BY <1>1, <2>1, DescendLast
  <2>3. Ends[t] = Child(Ends[s], name)
    BY <2>1, <2>2 DEF Ends
  <2>4. Ends[s] # None /\ kind[Ends[s]] # "Directory" => children[Ends[s]][name] = None
    BY <1>4 DEF FsInv, OnlyDirectoriesHold, NoChildren
  <2> QED
    BY <2>3, <2>4 DEF Child, t
<1>6. ASSUME NEW s \in Ways PROVE Ends[s] \in Linked \cup {m_root, None}
  <2>1. CASE s = <<>>
    BY <1>3, <2>1
  <2>2. CASE s # <<>>
    <3>1. PICK r \in Ways, name \in Names : s = Append(r, name)
      BY <2>2, WayIs
    <3>2. Ends[s] = IF Ends[r] = None THEN None ELSE children[Ends[r]][name]
      BY <1>5, <3>1
    <3>3. Ends[r] \in Nodes \cup {None}
      BY <1>4
    <3> QED
      BY <3>2, <3>3 DEF Linked
  <2> QED
    BY <2>1, <2>2
<1> QED
  BY <1>2, <1>3, <1>5, <1>6, WaysAppend DEF Stepwise

\* No two walks lead to the same node.
OneWay == \A s, t \in Ways : Ends[s] = Ends[t] /\ Ends[s] # None => s = t

LEMMA WaysDiffer == FsInv => OneWay
<1> SUFFICES ASSUME FsInv, NEW w \in Ways, NEW v \in Ways,
                    Ends[w] = Ends[v], Ends[w] # None
             PROVE  w = v
  BY DEF OneWay
<1>1. Stepwise
  BY Steps
<1>2. m_root \notin Linked /\ LinkedOnce
  BY DEF FsInv, Rooted
<1>3. ASSUME NEW r \in Ways, NEW name \in Names, Ends[Append(r, name)] # None
      PROVE  /\ Ends[r] \in Nodes /\ Ends[Append(r, name)] = children[Ends[r]][name]
             /\ Ends[Append(r, name)] \in Linked
  <2>1. /\ Ends[r] # None /\ Ends[Append(r, name)] = children[Ends[r]][name]
        /\ Ends[r] \in Linked \cup {m_root, None}
    BY <1>1, <1>3 DEF Stepwise
  <2>2. Ends[r] \in Nodes
    BY <2>1, FsTypes DEF Linked, NodeTypes
  <2> QED
    BY <1>3, <2>1, <2>2 DEF Linked
<1> DEFINE T == {k \in 0 .. Len(w) : \A s, t \in Ways :
                   Len(s) = k /\ Ends[s] = Ends[t] /\ Ends[s] # None => s = t}
<1>4. Len(w) \in Nat
  BY WayIs
<1>5. ASSUME NEW s \in Ways, Ends[s] = m_root PROVE s = <<>>
  <2> SUFFICES ASSUME s # <<>> PROVE FALSE
    OBVIOUS
  <2>1. PICK r \in Ways, name \in Names : s = Append(r, name)
    BY WayIs
  <2>2. m_root # None
    BY MemoryFileSystemAssumption
  <2> QED
    BY <1>2, <1>3, <1>5, <2>1, <2>2
<1>6. 0 \in T
  <2>1. ASSUME NEW s \in Ways, Len(s) = 0 PROVE s = <<>>
    BY <2>1, WayIs
  <2> QED
    BY <1>1, <1>4, <1>5, <2>1 DEF Stepwise
<1>7. ASSUME NEW k \in 1 .. Len(w), k - 1 \in T PROVE k \in T
  <2> SUFFICES ASSUME NEW s \in Ways, NEW t \in Ways,
                      Len(s) = k, Ends[s] = Ends[t], Ends[s] # None
               PROVE  s = t
    BY <1>4
  <2>1. s # <<>>
    BY EmptySeq
  <2>2. t # <<>>
    BY <1>1, <1>5, <2>1 DEF Stepwise
  <2>3. PICK r \in Ways, x \in Names : s = Append(r, x) /\ Len(s) = Len(r) + 1 /\ Len(r) \in Nat
    BY <2>1, WayIs
  <2>4. PICK q \in Ways, y \in Names : t = Append(q, y)
    BY <2>2, WayIs
  <2>5. /\ Ends[r] \in Nodes /\ Ends[s] = children[Ends[r]][x]
        /\ Ends[q] \in Nodes /\ Ends[t] = children[Ends[q]][y]
    BY <1>3, <2>3, <2>4
  <2>6. Ends[r] = Ends[q] /\ x = y
    <3> DEFINE l == <<Ends[r], x>>
               m == <<Ends[q], y>>
    <3>1. l \in Nodes \X Names /\ m \in Nodes \X Names
      BY <2>5
    <3>2. children[l[1]][l[2]] = children[m[1]][m[2]] /\ children[l[1]][l[2]] # None
      BY <2>5
    <3>3. l = m
      BY <1>2, <3>1, <3>2 DEF LinkedOnce
    <3> QED
      BY <3>3
  <2>7. Len(r) = k - 1 /\ Ends[r] # None
    BY <2>3, <2>5, MemoryFileSystemAssumption
  <2>8. r = q
    BY <1>7, <2>6, <2>7
  <2> QED
    BY <2>3, <2>4, <2>6, <2>8
<1>8. Len(w) \in T
  <2> HIDE DEF T
  <2>1. \A i \in 0 .. Len(w) : i \in T
    BY <1>4, <1>6, <1>7, UpTo
  <2> QED
    BY <1>4, <2>1
<1> QED
  BY <1>8

\* So a walk is shorter than there are nodes.
LEMMA WaysEnd ==
  ASSUME FsInv, NEW w \in Ways, Ends[w] # None
  PROVE  Len(w) < Cardinality(Nodes)
<1>1. Stepwise /\ OneWay
  BY Steps, WaysDiffer
<1>2. Len(w) \in Nat
  BY WayIs
<1> DEFINE Chain(s, k) == \E f \in [0 .. k -> Ways] :
             \A i \in 0 .. k : Len(f[i]) = i /\ Ends[f[i]] # None
           T == {k \in 0 .. Len(w) : \A s \in Ways :
                   Len(s) = k /\ Ends[s] # None => Chain(s, k)}
<1>3. 0 \in T
  <2> SUFFICES ASSUME NEW s \in Ways, Len(s) = 0, Ends[s] # None PROVE Chain(s, 0)
    BY <1>2
  <2> DEFINE f == [i \in 0 .. 0 |-> s]
  <2>1. f \in [0 .. 0 -> Ways] /\ \A i \in 0 .. 0 : i = 0 /\ f[i] = s
    OBVIOUS
  <2> HIDE DEF f
  <2>2. \A i \in 0 .. 0 : Len(f[i]) = i /\ Ends[f[i]] # None
    BY <2>1
  <2> QED
    BY <2>1, <2>2
<1>4. ASSUME NEW k \in 1 .. Len(w), k - 1 \in T PROVE k \in T
  <2> SUFFICES ASSUME NEW s \in Ways, Len(s) = k, Ends[s] # None PROVE Chain(s, k)
    BY <1>2
  <2>1. s # <<>>
    BY EmptySeq
  <2>2. PICK r \in Ways, x \in Names : s = Append(r, x) /\ Len(s) = Len(r) + 1 /\ Len(r) \in Nat
    BY <2>1, WayIs
  <2>3. Ends[r] # None /\ Len(r) = k - 1
    BY <1>1, <2>2 DEF Stepwise
  <2>4. PICK f \in [0 .. k - 1 -> Ways] :
          \A i \in 0 .. k - 1 : Len(f[i]) = i /\ Ends[f[i]] # None
    BY <1>4, <2>3
  <2> DEFINE g == [i \in 0 .. k |-> IF i = k THEN s ELSE f[i]]
  <2>5. \A i \in 0 .. k : i = k \/ i \in 0 .. k - 1
    OBVIOUS
  <2>6. g \in [0 .. k -> Ways]
    BY <2>5
  <2>7. \A i \in 0 .. k : Len(g[i]) = i /\ Ends[g[i]] # None
    BY <2>4, <2>5
  <2> QED
    BY <2>6, <2>7
<1>5. PICK f \in [0 .. Len(w) -> Ways] :
        \A i \in 0 .. Len(w) : Len(f[i]) = i /\ Ends[f[i]] # None
  <2>1. Len(w) \in T
    <3> HIDE DEF T
    <3>1. \A i \in 0 .. Len(w) : i \in T
      BY <1>2, <1>3, <1>4, UpTo
    <3> QED
      BY <1>2, <3>1
  <2> QED
    BY <2>1
<1> DEFINE D == 0 .. Len(w)
           g == [i \in D |-> Ends[f[i]]]
<1>6. \A i \in D : Ends[f[i]] \in Nodes
  <2>1. \A s \in Ways : Ends[s] # None => Ends[s] \in Nodes
    <3>1. Linked \cup {m_root} \subseteq Nodes
      BY FsTypes DEF Linked, NodeTypes
    <3> QED
      BY <1>1, <3>1 DEF Stepwise
  <2> QED
    BY <1>5, <2>1
<1>7. g \in Injection(D, Nodes)
  <2>1. g \in [D -> Nodes]
    BY <1>6
  <2>2. ASSUME NEW i \in D, NEW j \in D, g[i] = g[j] PROVE i = j
    <3>1. Ends[f[i]] = Ends[f[j]] /\ Ends[f[i]] # None
      BY <1>5, <2>2
    <3>2. f[i] = f[j]
      BY <1>1, <1>5, <3>1 DEF OneWay
    <3> QED
      BY <1>5, <3>2
  <2> HIDE DEF g, D
  <2> QED
    BY <2>1, <2>2 DEF Injection, IsInjective
<1>8. IsFiniteSet(Nodes) /\ Cardinality(Nodes) \in Nat
  BY MemoryFileSystemAssumption, FS_CardinalityType
<1>9. Cardinality(D) <= Cardinality(Nodes)
  <2> HIDE DEF g, D
  <2> QED
    BY <1>7, <1>8, FS_Injection
<1>10. Cardinality(D) = Len(w) + 1
  BY <1>2, FS_Interval
<1> HIDE DEF D
<1> QED
  BY <1>2, <1>8, <1>9, <1>10

\* The state that FileTree talks about, in terms of Ends.
Mapped ==
  /\ Places = {w \in Ways : Ends[w] # None}
  /\ DirectoryPlaces = {w \in Places : kind[Ends[w]] = "Directory"}
  /\ FilePlaces = {w \in Places : kind[Ends[w]] = "File"}
  /\ FileContents = [w \in FilePlaces |-> data[Ends[w]]]
  /\ PlacesOpened = [h \in Handles |-> {w \in FilePlaces : Ends[w] = file[h]}]

View ==
  /\ Stepwise /\ OneWay /\ Mapped
  /\ \A w \in Places : Ends[w] \in Nodes /\ Ends[w] \in Linked \cup {m_root}
  /\ Places = DirectoryPlaces \cup FilePlaces

LEMMA Views == FsInv => View
<1> SUFFICES ASSUME FsInv PROVE View
  OBVIOUS
<1>1. Stepwise /\ OneWay
  BY Steps, WaysDiffer
<1> DEFINE max == Cardinality(Nodes) - 1
           W == BoundedSeq(Names, max)
<1>2. W = {w \in Ways : Len(w) <= max}
  <2>1. max \in Int
    BY MemoryFileSystemAssumption, FS_CardinalityType
  <2>2. W = UNION {[1 .. m -> Names] : m \in 0 .. max}
    BY DEF BoundedSeq, SeqOf
  <2> HIDE DEF W, max
  <2>3. ASSUME NEW w \in W PROVE w \in Ways /\ Len(w) <= max
    <3>1. PICK m \in 0 .. max : w \in [1 .. m -> Names]
      BY <2>2
    <3>2. w \in Seq(Names) /\ Len(w) = m
      BY <3>1
    <3> QED
      BY <2>1, <3>2 DEF Ways
  <2>4. ASSUME NEW w \in Ways, Len(w) <= max PROVE w \in W
    <3>1. Len(w) \in 0 .. max
      BY <2>1, <2>4, WayIs
    <3>2. w \in [1 .. Len(w) -> Names]
      BY LenProperties DEF Ways
    <3> QED
      BY <2>2, <3>1, <3>2
  <2> QED
    BY <2>3, <2>4
<1>3. \A w \in Ways : Descend(w) = Ends[w]
  BY WayIs DEF Ends
<1>4. Places = {w \in Ways : Ends[w] # None}
  <2>1. Places = {w \in W : Descend(w) # None}
    BY DEF Places
  <2>2. ASSUME NEW w \in Ways, Ends[w] # None PROVE Len(w) <= max
    <3>1. Len(w) < Cardinality(Nodes) /\ Len(w) \in Nat /\ Cardinality(Nodes) \in Nat
      BY <2>2, WaysEnd, WayIs, MemoryFileSystemAssumption, FS_CardinalityType
    <3> QED
      BY <3>1
  <2> HIDE DEF W, max
  <2> QED
    BY <1>2, <1>3, <2>1, <2>2
<1>5. Mapped
  <2>1. \A w \in Places : Descend(w) = Ends[w]
    BY <1>3, <1>4
  <2>2. DirectoryPlaces = {w \in Places : kind[Ends[w]] = "Directory"}
    BY <2>1 DEF DirectoryPlaces
  <2>3. FilePlaces = {w \in Places : kind[Ends[w]] = "File"}
    BY <2>1 DEF FilePlaces
  <2>4. \A w \in FilePlaces : Descend(w) = Ends[w]
    BY <2>1, <2>3
  <2>5. FileContents = [w \in FilePlaces |-> data[Ends[w]]]
    BY <2>4 DEF FileContents
  <2>6. PlacesOpened = [h \in Handles |-> {w \in FilePlaces : Ends[w] = file[h]}]
    BY <2>4 DEF PlacesOpened
  <2> QED
    BY <1>4, <2>2, <2>3, <2>5, <2>6 DEF Mapped
<1>6. Linked \cup {m_root} \subseteq Nodes
  BY FsTypes DEF Linked, NodeTypes
<1>7. \A w \in Places : Ends[w] \in Nodes /\ Ends[w] \in Linked \cup {m_root}
  BY <1>1, <1>4, <1>6 DEF Stepwise
<1>8. \A m \in Linked \cup {m_root} : kind[m] \in {"Directory", "File"}
  BY <1>6 DEF FsInv, FsTypeOK
<1>9. Places = DirectoryPlaces \cup FilePlaces
  BY <1>5, <1>7, <1>8 DEF Mapped
<1> QED
  BY <1>1, <1>5, <1>7, <1>9 DEF View

\* When what one directory has under one name changes, every walk but the one
\* to that place ends where it did, for what was there and what is there now
\* hold nothing.
LEMMA OnePlaceChanges ==
  ASSUME FsInv, FsInv', NEW p \in Ways, NEW name \in Names, Ends[p] \in Nodes,
         NEW n \in Nodes \cup {None}, n # Ends[p],
         n # None => children[n] = NoChildren,
         Ends[Append(p, name)] # None =>
           children[Ends[Append(p, name)]] = NoChildren,
         children' = [children EXCEPT ![Ends[p]][name] = n]
  PROVE  \A s \in Ways :
           Ends'[s] = IF s = Append(p, name) THEN n ELSE Ends[s]
<1> DEFINE dir == Ends[p]
           w == Append(p, name)
<1>1. View /\ View'
  BY Views, PTL
<1>2. /\ \A x \in Names : children'[dir][x] = IF x = name THEN n ELSE children[dir][x]
      /\ \A m \in Nodes \ {dir} : children'[m] = children[m]
  BY FsTypes DEF NodeTypes
<1>3. w \in Ways /\ w # <<>>
  BY WaysAppend
<1>4. ASSUME NEW s \in Ways PROVE Ends[s] \in Nodes \cup {None}
  BY <1>1, <1>4 DEF View, Mapped
<1>5. \A m \in Nodes, x \in Names : children[m] = NoChildren => children[m][x] = None
  BY DEF NoChildren
<1>6. dir # None
  BY MemoryFileSystemAssumption
<1> DEFINE C(s) == Ends'[s] = IF s = w THEN n ELSE Ends[s]
<1>7. C(<<>>)
  BY <1>1, <1>3 DEF View, Stepwise
<1>8. ASSUME NEW r \in Ways, NEW x \in Names, C(r) PROVE C(Append(r, x))
  <2> DEFINE s == Append(r, x)
  <2>1. s = w => r = p /\ x = name
    BY WaysAppend
  <2>2. Ends[s] = IF Ends[r] = None THEN None ELSE children[Ends[r]][x]
    BY <1>1 DEF View, Stepwise
  <2>3. Ends'[s] = IF Ends'[r] = None THEN None ELSE children'[Ends'[r]][x]
    BY <1>1 DEF View, Stepwise
  <2>4. p # w
    BY WaysAppend
  <2>5. Ends[r] = dir => r = p
    BY <1>1, <1>6 DEF View, OneWay
  <2> HIDE DEF s, w
  <2>6. CASE r = w
    <3>1. Ends[s] = None
      BY <1>3, <1>4, <1>5, <2>2, <2>6 DEF w
    <3>2. Ends'[s] = None
      BY <1>2, <1>5, <1>8, <2>3, <2>6
    <3>3. s # w
      BY <2>1, <2>4, <2>6
    <3> QED
      BY <3>1, <3>2, <3>3 DEF s
  <2>7. CASE r # w /\ Ends[r] = dir
    <3>1. Ends'[r] = dir /\ r = p
      BY <1>8, <2>5, <2>7
    <3>2. Ends'[s] = IF x = name THEN n ELSE children[dir][x]
      BY <1>2, <1>6, <2>3, <3>1
    <3>3. Ends[s] = children[dir][x]
      BY <1>6, <2>2, <2>7
    <3>4. x = name <=> s = w
      BY <2>1, <3>1 DEF s, w
    <3> QED
      BY <3>2, <3>3, <3>4 DEF s
  <2>8. CASE r # w /\ Ends[r] # dir
    <3>1. Ends'[r] = Ends[r]
      BY <1>8, <2>8
    <3>2. Ends'[s] = Ends[s]
      BY <1>2, <1>4, <2>2, <2>3, <2>8, <3>1
    <3>3. s # w
      BY <2>1, <2>8
    <3> QED
      BY <3>2, <3>3 DEF s
  <2> QED
    BY <2>6, <2>7, <2>8 DEF s
<1> SUFFICES ASSUME NEW s \in Ways PROVE C(s)
  OBVIOUS
<1> HIDE DEF C
<1> DEFINE T == {k \in 0 .. Len(s) : \A t \in Ways : Len(t) = k => C(t)}
<1>9. Len(s) \in Nat
  BY WayIs
<1>10. 0 \in T
  <2>1. ASSUME NEW t \in Ways, Len(t) = 0 PROVE t = <<>>
    BY <2>1, WayIs
  <2> QED
    BY <1>7, <1>9, <2>1
<1>11. ASSUME NEW k \in 1 .. Len(s), k - 1 \in T PROVE k \in T
  <2> SUFFICES ASSUME NEW t \in Ways, Len(t) = k PROVE C(t)
    BY <1>9
  <2>1. t # <<>>
    BY EmptySeq
  <2>2. PICK r \in Ways, x \in Names :
          t = Append(r, x) /\ Len(t) = Len(r) + 1 /\ Len(r) \in Nat
    BY <2>1, WayIs
  <2>3. C(r)
    BY <1>11, <2>2
  <2> QED
    BY <1>8, <2>2, <2>3
<1> HIDE DEF T
<1>12. \A k \in 0 .. Len(s) : k \in T
  BY <1>9, <1>10, <1>11, UpTo
<1> QED
  BY <1>9, <1>12 DEF T

\* As long as the links stay and what is linked stays what it is, so do places.
LEMMA PlacesStay ==
  ASSUME FsInv, FsInv', UNCHANGED children,
         \A n \in Linked \cup {m_root} : kind'[n] = kind[n]
  PROVE  /\ View /\ View' /\ Ends' = Ends /\ Places' = Places
         /\ DirectoryPlaces' = DirectoryPlaces /\ FilePlaces' = FilePlaces
<1>1. View /\ View'
  BY Views, PTL
<1>2. Ends' = Ends
  <2>1. NodeTypes' /\ EndsRight /\ EndsRight'
    BY EndsAre, PTL
  <2> QED
    BY <2>1, EndsStay
<1>3. Places' = Places
  BY <1>1, <1>2 DEF View, Mapped
<1>4. \A w \in Places : kind'[Ends[w]] = kind[Ends[w]]
  BY <1>1 DEF View
<1>5. DirectoryPlaces' = DirectoryPlaces
  BY <1>1, <1>2, <1>3, <1>4 DEF View, Mapped
<1>6. FilePlaces' = FilePlaces
  BY <1>1, <1>2, <1>3, <1>4 DEF View, Mapped
<1> QED
  BY <1>1, <1>2, <1>3, <1>5, <1>6

\* Where a path leads is a place, whatever its spelling.
LEMMA PathPlace ==
  ASSUME FsInv, NEW raw \in RawPaths, Resolve(raw) # None
  PROVE  \E w \in Places : Ends[w] = Resolve(raw)
<1> DEFINE w == Normalize(raw).segments
<1>1. raw \in RawPath
  BY FsTypes
<1>2. raw.slash = TRUE /\ Resolve(raw) = Descend(w)
  <2>1. raw.slash \in BOOLEAN
    BY <1>1 DEF RawPath
  <2> QED
    BY <1>1, <2>1, NormalizeIs DEF Resolve
<1>3. w \in Segments /\ \A i \in 1 .. Len(w) : w[i] # ".."
  BY <1>1, <1>2, NormalizeIs DEF Normal
<1> HIDE DEF w
<1>4. w \in Ways
  <2>1. Len(w) \in Nat /\ \A i \in 1 .. Len(w) : w[i] \in Names \cup {".."}
    BY <1>3, LenProperties, ElementOfSeq DEF Segments
  <2>2. \A i \in 1 .. Len(w) : w[i] \in Names
    BY <1>3, <2>1
  <2>3. w \in [1 .. Len(w) -> Names]
    <3>1. w \in [1 .. Len(w) -> Names \cup {".."}]
      BY <1>3, LenProperties DEF Segments
    <3> QED
      BY <2>2, <3>1
  <2> QED
    BY <2>1, <2>3 DEF Ways
<1>5. Ends[w] = Resolve(raw)
  BY <1>2, <1>3 DEF Ends
<1> QED
  BY <1>4, <1>5, Views DEF View, Mapped

\* So is what resolve_parent_internal() finds, and the path leads, or would
\* lead, one name further.
LEMMA ParentPlace ==
  ASSUME FsInv, NEW raw \in RawPaths, ResolveParent(raw) # None
  PROVE  /\ Filename(Normalize(raw)) \in Names
         /\ \E p \in DirectoryPlaces :
              /\ Ends[p] = ResolveParent(raw)
              /\ Ends[Append(p, Filename(Normalize(raw)))] = Resolve(raw)
              /\ Resolve(raw) = children[Ends[p]][Filename(Normalize(raw))]
<1> DEFINE s == Normalize(raw).segments
           p == Front(s)
           name == Filename(Normalize(raw))
           dir == ResolveParent(raw)
<1>1. raw \in RawPath /\ NodeTypes
  BY FsTypes
<1>2. /\ dir \in Nodes /\ kind[dir] = "Directory" /\ name \in Names
      /\ Resolve(raw) = children[dir][name]
      /\ raw.slash = TRUE /\ s # <<>> /\ dir = Descend(p)
  BY <1>1, ParentHolds
<1>3. s \in Segments /\ \A i \in 1 .. Len(s) : s[i] # ".."
  BY <1>1, <1>2, NormalizeIs DEF Normal
<1> HIDE DEF s, name, dir
<1>4. p \in Ways /\ p \in Segments
  <2>1. /\ p \in Seq(Names \cup {".."}) /\ Len(p) = Len(s) - 1 /\ Len(s) \in Nat \ {0}
        /\ \A i \in 1 .. Len(s) - 1 : p[i] = s[i]
    BY <1>2, <1>3, FrontIs DEF Segments
  <2> HIDE DEF p
  <2>2. Len(p) \in Nat /\ p \in [1 .. Len(p) -> Names \cup {".."}]
    BY <2>1, LenProperties
  <2>3. \A i \in 1 .. Len(p) : p[i] \in Names
    BY <1>3, <2>1, <2>2
  <2>4. p \in [1 .. Len(p) -> Names]
    BY <2>2, <2>3
  <2> QED
    BY <2>1, <2>2, <2>4 DEF Ways, Segments
<1> HIDE DEF p
<1>5. Ends[p] = dir
  BY <1>2, <1>4 DEF Ends
<1>6. dir # None
  BY <1>2, MemoryFileSystemAssumption
<1>7. p \in DirectoryPlaces
  BY <1>2, <1>4, <1>5, <1>6, Views DEF View, Mapped
<1>8. Ends[Append(p, name)] = Resolve(raw)
  BY <1>2, <1>4, <1>5, <1>6, Views DEF View, Stepwise
<1> QED
  BY <1>2, <1>5, <1>7, <1>8 DEF name, dir

-----------------------------------------------------------------------------
(* Each operation does what FileTree says *)

\* A handle that is opened on the file at a place.
LEMMA Binds ==
  ASSUME FsInv, FsInv', NEW h \in Handles, file[h] = None,
         NEW w \in FilePlaces', file' = [file EXCEPT ![h] = Ends'[w]],
         \A g \in Handles \ {h} : PlacesOpened'[g] = PlacesOpened[g]
  PROVE  Tree!Bind(h, w)
<1>1. View /\ View'
  BY Views, PTL
<1>2. w \in Places' /\ Ends'[w] \in Nodes /\ Ends'[w] # None
  BY <1>1, MemoryFileSystemAssumption DEF View, Mapped
<1>3. /\ file'[h] = Ends'[w]
      /\ \A g \in Handles \ {h} : file'[g] = file[g]
  BY FsTypes
<1>4. OpenHandles' = OpenHandles \cup {h} /\ h \notin OpenHandles
  BY <1>2, <1>3 DEF OpenHandles
<1>5. PlacesOpened'[h] = {w}
  <2>1. PlacesOpened'[h] = {v \in FilePlaces' : Ends'[v] = Ends'[w]}
    BY <1>1, <1>3 DEF View, Mapped
  <2>2. ASSUME NEW v \in FilePlaces', Ends'[v] = Ends'[w] PROVE v = w
    BY <1>1, <1>2, <2>2 DEF View, OneWay, Mapped
  <2> QED
    BY <2>1, <2>2
<1>6. PlacesOpened' = [PlacesOpened EXCEPT ![h] = {w}]
  <2>1. /\ PlacesOpened = [g \in Handles |-> PlacesOpened[g]]
        /\ PlacesOpened' = [g \in Handles |-> PlacesOpened'[g]]
    BY <1>1 DEF View, Mapped
  <2> QED
    BY <1>5, <2>1
<1> QED
  BY <1>4, <1>6 DEF Tree!Bind

LEMMA OpenMaps ==
  ASSUME FsInv, FsInv', NEW h \in Handles, NEW raw \in RawPaths, Open(h, raw)
  PROVE  \E w \in FilePlaces : Tree!OpenFile(h, w)
<1>1. /\ file[h] = None /\ Resolve(raw) # None /\ kind[Resolve(raw)] = "File"
      /\ file' = [file EXCEPT ![h] = Resolve(raw)]
      /\ UNCHANGED <<kind, children, data, written>>
  BY DEF Open, Opened
<1>2. PICK w \in Places : Ends[w] = Resolve(raw)
  BY <1>1, PathPlace
<1>3. /\ View /\ View' /\ Ends' = Ends /\ Places' = Places
      /\ DirectoryPlaces' = DirectoryPlaces /\ FilePlaces' = FilePlaces
  BY <1>1, PlacesStay
<1>4. w \in FilePlaces /\ w \in DOMAIN FileContents
  BY <1>1, <1>2, <1>3 DEF View, Mapped
<1>5. FileContents' = FileContents
  BY <1>1, <1>3 DEF View, Mapped
<1>6. \A g \in Handles \ {h} : PlacesOpened'[g] = PlacesOpened[g]
  BY <1>1, <1>3, FsTypes DEF View, Mapped
<1>7. Tree!Bind(h, w)
  BY <1>1, <1>2, <1>3, <1>4, <1>6, Binds
<1> QED
  BY <1>3, <1>4, <1>5, <1>7 DEF Tree!OpenFile

LEMMA TruncateMaps ==
  ASSUME FsInv, FsInv', NEW h \in Handles, NEW raw \in RawPaths, Truncate(h, raw)
  PROVE  \E w \in FilePlaces : Tree!EmptyFile(h, w)
<1>1. /\ file[h] = None /\ Resolve(raw) # None /\ kind[Resolve(raw)] = "File"
      /\ data' = [data EXCEPT ![Resolve(raw)] = <<>>]
      /\ file' = [file EXCEPT ![h] = Resolve(raw)]
      /\ UNCHANGED <<kind, children>>
  BY DEF Truncate, Opened
<1>2. PICK w \in Places : Ends[w] = Resolve(raw)
  BY <1>1, PathPlace
<1>3. /\ View /\ View' /\ Ends' = Ends /\ Places' = Places
      /\ DirectoryPlaces' = DirectoryPlaces /\ FilePlaces' = FilePlaces
  BY <1>1, PlacesStay
<1>4. w \in FilePlaces /\ w \in DOMAIN FileContents
  BY <1>1, <1>2, <1>3 DEF View, Mapped
<1>5. FileContents' = [FileContents EXCEPT ![w] = <<>>]
  <2>1. \A v \in FilePlaces : Ends[v] = Ends[w] => v = w
    BY <1>1, <1>2, <1>3 DEF View, OneWay, Mapped
  <2>2. \A v \in FilePlaces : Ends[v] \in Nodes
    BY <1>3 DEF View, Mapped
  <2>3. \A v \in FilePlaces : data'[Ends[v]] = IF v = w THEN <<>> ELSE data[Ends[v]]
    BY <1>1, <1>2, <2>1, <2>2, FsTypes
  <2>4. /\ FileContents = [v \in FilePlaces |-> data[Ends[v]]]
        /\ FileContents' = [v \in FilePlaces |-> data'[Ends[v]]]
    BY <1>3 DEF View, Mapped
  <2> QED
    BY <1>4, <2>3, <2>4
<1>6. \A g \in Handles \ {h} : PlacesOpened'[g] = PlacesOpened[g]
  BY <1>1, <1>3, FsTypes DEF View, Mapped
<1>7. Tree!Bind(h, w)
  BY <1>1, <1>2, <1>3, <1>4, <1>6, Binds
<1> QED
  BY <1>3, <1>4, <1>5, <1>7 DEF Tree!EmptyFile

\* A node that becomes a child has a place, one that had nothing; the others
\* are what and where they were.
LEMMA PlaceAppears ==
  ASSUME FsInv, FsInv', NEW p \in DirectoryPlaces, NEW name \in Names,
         Ends[Append(p, name)] = None,
         NEW n \in Nodes, NEW k \in {"Directory", "File"},
         AddChild(Ends[p], name, n, k)
  PROVE  /\ View /\ View' /\ Append(p, name) \notin Places
         /\ Places' = Places \cup {Append(p, name)}
         /\ Ends'[Append(p, name)] = n /\ kind'[n] = k /\ data[n] = <<>>
         /\ \A h \in Handles : file[h] # n
         /\ \A s \in Places :
              /\ Ends'[s] = Ends[s] /\ Ends[s] # n /\ kind'[Ends[s]] = kind[Ends[s]]
<1> DEFINE w == Append(p, name)
<1>1. View /\ View'
  BY Views, PTL
<1>2. /\ n \notin InUse(children, file) /\ kind' = [kind EXCEPT ![n] = k]
      /\ children' = [children EXCEPT ![Ends[p]][name] = n]
  BY DEF AddChild
<1>3. /\ kind[n] = "none" /\ children[n] = NoChildren /\ data[n] = <<>>
  BY <1>2 DEF FsInv, UnusedBlank
<1>4. /\ p \in Ways /\ Ends[p] \in Nodes /\ kind[Ends[p]] = "Directory"
  BY <1>1 DEF View, Mapped
<1>5. w \in Ways
  BY <1>4, WaysAppend
<1>6. \A s \in Ways : Ends'[s] = IF s = w THEN n ELSE Ends[s]
  <2>1. n # Ends[p] /\ n \in Nodes \cup {None}
    BY <1>3, <1>4
  <2>2. n # None => children[n] = NoChildren
    BY <1>3
  <2>3. Ends[Append(p, name)] # None => children[Ends[Append(p, name)]] = NoChildren
    OBVIOUS
  <2> HIDE DEF w
  <2>4. \A s \in Ways : Ends'[s] = IF s = Append(p, name) THEN n ELSE Ends[s]
    <3>1. children' = [children EXCEPT ![Ends[p]][name] = n]
      BY <1>2
    <3>2. p \in Ways /\ Ends[p] \in Nodes
      BY <1>4
    <3> QED
      BY <2>1, <2>2, <2>3, <3>1, <3>2, OnePlaceChanges, ZenonT(60)
  <2> QED
    BY <2>4 DEF w
<1>7. n \notin Linked \cup {m_root} /\ \A h \in Handles : file[h] # n
  <2>1. n # m_root /\ \A h \in Handles : file[h] # n
    BY <1>2, InUseIs
  <2>2. \A m \in Nodes, nm \in Names : children[m][nm] # n
    BY <1>2, InUseIs
  <2> QED
    BY <2>1, <2>2 DEF Linked
<1>8. \A s \in Places : Ends[s] # n /\ Ends[s] \in Nodes /\ s \in Ways /\ Ends[s] # None
  BY <1>1, <1>7 DEF View, Mapped
<1>9. w \notin Places
  BY <1>1 DEF View, Mapped
<1> HIDE DEF w
<1>10. Places' = Places \cup {w}
  <2>1. n # None
    BY MemoryFileSystemAssumption
  <2> QED
    BY <1>1, <1>5, <1>6, <2>1 DEF View, Mapped
<1>11. kind'[n] = k /\ \A s \in Places : kind'[Ends[s]] = kind[Ends[s]]
  BY <1>2, <1>8, FsTypes
<1>12. Ends'[w] = n /\ \A s \in Places : Ends'[s] = Ends[s]
  BY <1>5, <1>6, <1>8, <1>9
<1> QED
  BY <1>1, <1>3, <1>7, <1>8, <1>9, <1>10, <1>11, <1>12 DEF w

LEMMA CreateDirectoryMaps ==
  ASSUME FsInv, FsInv', NEW raw \in RawPaths, CreateDirectory(raw)
  PROVE  \E p \in DirectoryPlaces, name \in Names : Tree!MakeDirectory(p, name)
<1> DEFINE name == Filename(Normalize(raw))
<1>1. /\ Resolve(raw) = None /\ ResolveParent(raw) # None
      /\ UNCHANGED <<data, file, cursor, written>>
  BY DEF CreateDirectory
<1>2. PICK n \in Nodes : AddChild(ResolveParent(raw), name, n, "Directory")
  BY DEF CreateDirectory
<1>3. name \in Names
  BY <1>1, ParentPlace
<1>4. PICK p \in DirectoryPlaces :
        Ends[p] = ResolveParent(raw) /\ Ends[Append(p, name)] = Resolve(raw)
  BY <1>1, ParentPlace
<1> HIDE DEF name
<1> DEFINE w == Append(p, name)
<1>5. AddChild(Ends[p], name, n, "Directory") /\ Ends[Append(p, name)] = None
  BY <1>1, <1>2, <1>4
<1>6. /\ View /\ View' /\ w \notin Places /\ Places' = Places \cup {w}
      /\ Ends'[w] = n /\ kind'[n] = "Directory" /\ data[n] = <<>>
      /\ \A h \in Handles : file[h] # n
      /\ \A s \in Places :
           /\ Ends'[s] = Ends[s] /\ Ends[s] # n /\ kind'[Ends[s]] = kind[Ends[s]]
  BY <1>3, <1>5, PlaceAppears
<1> HIDE DEF w
<1>7. DirectoryPlaces' = DirectoryPlaces \cup {w}
  BY <1>6 DEF View, Mapped
<1>8. FilePlaces' = FilePlaces /\ FilePlaces \subseteq Places
  BY <1>6 DEF View, Mapped
<1>9. FileContents' = FileContents
  BY <1>1, <1>6, <1>8 DEF View, Mapped
<1>10. PlacesOpened' = PlacesOpened
  BY <1>1, <1>6, <1>8 DEF View, Mapped
<1>11. OpenHandles' = OpenHandles
  BY <1>1 DEF OpenHandles
<1>12. Tree!Places = Places
  BY <1>6 DEF Tree!Places, View, Mapped
<1>13. Tree!Free(p, name)
  BY <1>6, <1>12 DEF Tree!Free, w
<1> QED
  BY <1>3, <1>7, <1>9, <1>10, <1>11, <1>13 DEF Tree!MakeDirectory, w

LEMMA CreateFileMaps ==
  ASSUME FsInv, FsInv', NEW h \in Handles, NEW raw \in RawPaths, CreateFile(h, raw)
  PROVE  \E p \in DirectoryPlaces, name \in Names : Tree!MakeFile(h, p, name)
<1> DEFINE name == Filename(Normalize(raw))
<1>1. /\ file[h] = None /\ Resolve(raw) = None /\ ResolveParent(raw) # None
      /\ UNCHANGED data
  BY DEF CreateFile
<1>2. PICK n \in Nodes : /\ AddChild(ResolveParent(raw), name, n, "File")
                         /\ file' = [file EXCEPT ![h] = n]
  BY DEF CreateFile, Opened
<1>3. name \in Names
  BY <1>1, ParentPlace
<1>4. PICK p \in DirectoryPlaces :
        Ends[p] = ResolveParent(raw) /\ Ends[Append(p, name)] = Resolve(raw)
  BY <1>1, ParentPlace
<1> HIDE DEF name
<1> DEFINE w == Append(p, name)
<1>5. AddChild(Ends[p], name, n, "File") /\ Ends[Append(p, name)] = None
  BY <1>1, <1>2, <1>4
<1>6. /\ View /\ View' /\ w \notin Places /\ Places' = Places \cup {w}
      /\ Ends'[w] = n /\ kind'[n] = "File" /\ data[n] = <<>>
      /\ \A g \in Handles : file[g] # n
      /\ \A s \in Places :
           /\ Ends'[s] = Ends[s] /\ Ends[s] # n /\ kind'[Ends[s]] = kind[Ends[s]]
  BY <1>3, <1>5, PlaceAppears
<1> HIDE DEF w
<1>7. DirectoryPlaces' = DirectoryPlaces
  BY <1>6 DEF View, Mapped
<1>8. FilePlaces' = FilePlaces \cup {w} /\ FilePlaces \subseteq Places
  BY <1>6 DEF View, Mapped
<1>9. FileContents' = [v \in DOMAIN FileContents \cup {w} |->
                         IF v = w THEN <<>> ELSE FileContents[v]]
  <2>1. FileContents' = [v \in FilePlaces \cup {w} |-> data[Ends'[v]]]
    BY <1>1, <1>6, <1>8 DEF View, Mapped
  <2>2. FileContents = [v \in FilePlaces |-> data[Ends[v]]]
    BY <1>6 DEF View, Mapped
  <2> QED
    BY <1>6, <1>8, <2>1, <2>2
<1>10. \A g \in Handles \ {h} : PlacesOpened'[g] = PlacesOpened[g]
  <2> SUFFICES ASSUME NEW g \in Handles \ {h} PROVE PlacesOpened'[g] = PlacesOpened[g]
    OBVIOUS
  <2>1. file'[g] = file[g] /\ file[g] # n
    BY <1>2, <1>6, FsTypes
  <2> QED
    BY <1>6, <1>8, <2>1 DEF View, Mapped
<1>11. Tree!Bind(h, w)
  BY <1>1, <1>2, <1>6, <1>8, <1>10, Binds
<1>12. Tree!Places = Places
  BY <1>6 DEF Tree!Places, View, Mapped
<1>13. Tree!Free(p, name)
  BY <1>6, <1>12 DEF Tree!Free, w
<1> QED
  BY <1>3, <1>7, <1>9, <1>11, <1>13 DEF Tree!MakeFile, w

\* remove() takes one place away, and what is at the others stays as it is.
LEMMA RemoveMaps ==
  ASSUME FsInv, FsInv', NEW raw \in RawPaths, RemovePath(raw)
  PROVE  \E w \in Places : Tree!Remove(w)
<1> DEFINE name == Filename(Normalize(raw))
<1>1. ResolveParent(raw) # None
  BY DEF RemovePath
<1>2. name \in Names
  BY <1>1, ParentPlace
<1>3. PICK p \in DirectoryPlaces :
        /\ Ends[p] = ResolveParent(raw) /\ Ends[Append(p, name)] = Resolve(raw)
        /\ Resolve(raw) = children[Ends[p]][name]
  BY <1>1, ParentPlace
<1> HIDE DEF name
<1> DEFINE w == Append(p, name)
           c == [children EXCEPT ![Ends[p]][name] = None]
<1>4. /\ Ends[w] # None /\ children[Ends[w]] = NoChildren /\ Reclaim(c, file)
  BY <1>3 DEF RemovePath, name
<1>5. View /\ View'
  BY Views, PTL
<1>6. p \in Ways /\ Ends[p] \in Nodes /\ w \in Ways /\ w # <<>>
  <2>1. p \in Ways /\ Ends[p] \in Nodes
    BY <1>5 DEF View, Mapped
  <2> QED
    BY <1>2, <2>1, WaysAppend
<1>7. children' = c
  BY <1>3, RemovePathKeeps DEF name
<1>8. \A s \in Ways : Ends'[s] = IF s = w THEN None ELSE Ends[s]
  <2>1. None # Ends[p] /\ None \in Nodes \cup {None}
    BY <1>6, MemoryFileSystemAssumption
  <2> QED
    BY <1>2, <1>4, <1>6, <1>7, <2>1, OnePlaceChanges
<1>9. \A x \in Names : Append(w, x) \notin Places
  <2> SUFFICES ASSUME NEW x \in Names PROVE Append(w, x) \notin Places
    OBVIOUS
  <2>1. Ends[Append(w, x)] = children[Ends[w]][x]
    BY <1>4, <1>5, <1>6 DEF View, Stepwise
  <2>2. Ends[Append(w, x)] = None
    BY <1>4, <2>1 DEF NoChildren
  <2> QED
    BY <1>5, <2>2 DEF View, Mapped
<1> HIDE DEF w
<1>10. w \in Places /\ Places' = Places \ {w}
  BY <1>4, <1>5, <1>6, <1>8 DEF View, Mapped
<1>11. ASSUME NEW s \in Places \ {w}
       PROVE  /\ Ends'[s] = Ends[s]
              /\ kind'[Ends[s]] = kind[Ends[s]] /\ data'[Ends[s]] = data[Ends[s]]
  <2>1. Ends'[s] = Ends[s]
    BY <1>5, <1>8 DEF View, Mapped
  <2>2. Ends[s] \in Nodes /\ Ends[s] \in Linked' \cup {m_root}
    BY <1>5, <1>10, <2>1 DEF View
  <2>3. Ends[s] \in InUse(c, file)
    BY <1>7, <2>2, MemoryFileSystemAssumption DEF InUse, Linked
  <2>4. /\ kind' = [n \in Nodes |-> IF n \in Nodes \ InUse(c, file)
                                      THEN "none" ELSE kind[n]]
        /\ data' = [n \in Nodes |-> IF n \in Nodes \ InUse(c, file)
                                      THEN <<>> ELSE data[n]]
    BY <1>4 DEF Reclaim
  <2> HIDE DEF c
  <2> QED
    BY <2>1, <2>2, <2>3, <2>4
<1>12. file' = file
  BY <1>4 DEF Reclaim
<1> HIDE DEF c
<1>13. DirectoryPlaces' = DirectoryPlaces \ {w}
  BY <1>5, <1>10, <1>11 DEF View, Mapped
<1>14. FilePlaces' = FilePlaces \ {w} /\ FilePlaces \subseteq Places
  BY <1>5, <1>10, <1>11 DEF View, Mapped
<1>15. FileContents' = [v \in DOMAIN FileContents \ {w} |-> FileContents[v]]
  <2>1. FileContents' = [v \in FilePlaces \ {w} |-> data'[Ends'[v]]]
    BY <1>5, <1>14 DEF View, Mapped
  <2>2. FileContents = [v \in FilePlaces |-> data[Ends[v]]]
    BY <1>5 DEF View, Mapped
  <2> QED
    BY <1>11, <1>14, <2>1, <2>2
<1>16. PlacesOpened' = [h \in Handles |-> PlacesOpened[h] \ {w}]
  <2>1. PlacesOpened' = [h \in Handles |-> {v \in FilePlaces \ {w} : Ends'[v] = file[h]}]
    BY <1>5, <1>12, <1>14 DEF View, Mapped
  <2>2. PlacesOpened = [h \in Handles |-> {v \in FilePlaces : Ends[v] = file[h]}]
    BY <1>5 DEF View, Mapped
  <2> QED
    BY <1>11, <1>14, <2>1, <2>2
<1>17. OpenHandles' = OpenHandles
  BY <1>12 DEF OpenHandles
<1>18. Tree!Places = Places
  BY <1>5 DEF Tree!Places, View, Mapped
<1>19. Tree!Remove(w)
  BY <1>6, <1>9, <1>10, <1>13, <1>15, <1>16, <1>17, <1>18 DEF Tree!Remove, w
<1> QED
  BY <1>10, <1>19

\* A write shows at the place of its file, if it still has one.
LEMMA WriteMaps ==
  ASSUME FsInv, FsInv', NEW h \in Handles, NEW b \in Bytes,
         NEW size \in 1 .. MaxSize, Write(h, b, size)
  PROVE  Tree!WriteFile(h)
<1> DEFINE n == file[h]
<1>1. /\ n # None /\ UNCHANGED <<kind, children, file>>
  BY DEF Write
<1>2. /\ n \in Nodes /\ Len(data'[n]) >= Len(data[n])
      /\ \A m \in Nodes \ {n} : data'[m] = data[m]
  <2> DEFINE from == cursor[h]
             len == Len(data[n])
             Old(i) == IF i <= len THEN data[n][i] ELSE 0
             end == IF from + size > len THEN from + size ELSE len
             new == [i \in 1 .. end |-> IF i \in from + 1 .. from + size THEN b
                                        ELSE Old(i)]
  <2>1. data' = [data EXCEPT ![n] = new]
    BY DEF Write
  <2>2. n \in Nodes /\ from \in Nat /\ len \in Nat
    BY <1>1, FsTypes
  <2>3. end \in Nat /\ end >= len
    <3> HIDE DEF from, len
    <3> QED
      BY <2>2
  <2> HIDE DEF from, len, end
  <2>4. Len(new) = end
    BY <2>3
  <2> HIDE DEF new
  <2>5. data'[n] = new /\ \A m \in Nodes \ {n} : data'[m] = data[m]
    BY <2>1, <2>2, FsTypes
  <2> QED
    BY <2>2, <2>3, <2>4, <2>5 DEF len
<1> HIDE DEF n
<1>3. /\ View /\ View' /\ Ends' = Ends
      /\ DirectoryPlaces' = DirectoryPlaces /\ FilePlaces' = FilePlaces
  BY <1>1, PlacesStay
<1>4. OpenHandles' = OpenHandles /\ h \in OpenHandles
  BY <1>1 DEF OpenHandles, n
<1>5. PlacesOpened' = PlacesOpened
  BY <1>1, <1>3 DEF View, Mapped
<1>6. /\ FileContents = [v \in FilePlaces |-> data[Ends[v]]]
      /\ FileContents' = [v \in FilePlaces |-> data'[Ends[v]]]
      /\ PlacesOpened[h] = {v \in FilePlaces : Ends[v] = n}
      /\ \A v \in FilePlaces : Ends[v] \in Nodes
  BY <1>3 DEF View, Mapped, n
<1>7. \A v \in FilePlaces :
        IF v \in PlacesOpened[h] THEN Len(FileContents'[v]) >= Len(FileContents[v])
        ELSE FileContents'[v] = FileContents[v]
  BY <1>2, <1>6
<1>8. FileContents' = [v \in DOMAIN FileContents |-> FileContents'[v]]
  BY <1>6
<1>9. DOMAIN FileContents = FilePlaces
  BY <1>6
<1> QED
  BY <1>3, <1>4, <1>5, <1>7, <1>8, <1>9 DEF Tree!WriteFile

\* The node of the handle may go, but only if it had no place.
LEMMA CloseMaps ==
  ASSUME FsInv, FsInv', NEW h \in Handles, CloseHandle(h)
  PROVE  Tree!CloseFile(h)
<1> DEFINE f == [file EXCEPT ![h] = None]
<1>1. file[h] # None /\ Reclaim(children, f) /\ UNCHANGED children
  BY CloseHandleKeeps DEF CloseHandle
<1>2. /\ file' = f
      /\ data' = [m \in Nodes |-> IF m \in Nodes \ InUse(children, f)
                                    THEN <<>> ELSE data[m]]
      /\ kind' = [m \in Nodes |-> IF m \in Nodes \ InUse(children, f)
                                    THEN "none" ELSE kind[m]]
  BY <1>1 DEF Reclaim
<1>3. f[h] = None /\ \A g \in Handles \ {h} : f[g] = file[g]
  BY FsTypes
<1> HIDE DEF f
<1>4. ASSUME NEW m \in Linked \cup {m_root}
      PROVE  m \in Nodes /\ kind'[m] = kind[m] /\ data'[m] = data[m]
  <2>1. m \in Nodes
    BY FsTypes DEF NodeTypes, Linked
  <2>2. m \in InUse(children, f)
    BY <2>1, MemoryFileSystemAssumption DEF InUse, Linked
  <2> QED
    BY <1>2, <2>1, <2>2
<1>5. /\ View /\ View' /\ Ends' = Ends
      /\ DirectoryPlaces' = DirectoryPlaces /\ FilePlaces' = FilePlaces
  BY <1>1, <1>4, PlacesStay
<1>6. \A v \in FilePlaces : Ends[v] \in Linked \cup {m_root} /\ Ends[v] # None
  BY <1>5 DEF View, Mapped
<1>7. FileContents' = FileContents
  BY <1>4, <1>5, <1>6 DEF View, Mapped
<1>8. OpenHandles' = OpenHandles \ {h} /\ h \in OpenHandles
  BY <1>1, <1>2, <1>3 DEF OpenHandles
<1>9. PlacesOpened' = [PlacesOpened EXCEPT ![h] = {}]
  <2>1. PlacesOpened' = [g \in Handles |-> {v \in FilePlaces : Ends[v] = f[g]}]
    BY <1>2, <1>5 DEF View, Mapped
  <2>2. PlacesOpened = [g \in Handles |-> {v \in FilePlaces : Ends[v] = file[g]}]
    BY <1>5 DEF View, Mapped
  <2> QED
    BY <1>3, <1>6, <2>1, <2>2
<1> QED
  BY <1>5, <1>7, <1>8, <1>9 DEF Tree!CloseFile

\* A handle that only reads or seeks changes nothing.
LEMMA StaysPut ==
  ASSUME FsInv, FsInv', UNCHANGED <<kind, children, data, file>>
  PROVE  UNCHANGED Tree!treeVars
<1>1. /\ View /\ View' /\ Ends' = Ends
      /\ DirectoryPlaces' = DirectoryPlaces /\ FilePlaces' = FilePlaces
  BY PlacesStay
<1>2. FileContents' = FileContents /\ PlacesOpened' = PlacesOpened
  BY <1>1 DEF View, Mapped
<1>3. OpenHandles' = OpenHandles
  BY DEF OpenHandles
<1> QED
  BY <1>1, <1>2, <1>3 DEF Tree!treeVars

LEMMA FilesInContents == FsInv => DOMAIN FileContents = FilePlaces /\ Tree!Places = Places
BY Views DEF View, Mapped, Tree!Places

LEMMA OperationMaps ==
  ASSUME FsInv, FsInv', [FsNext]_fsVars
  PROVE  [Tree!Next]_(Tree!treeVars)
<1>1. ASSUME NEW raw \in RawPaths, NEW h \in Handles, Truncate(h, raw)
      PROVE  Tree!Next
  BY <1>1, TruncateMaps, FilesInContents DEF Tree!Next
<1>2. ASSUME NEW raw \in RawPaths, NEW h \in Handles, CreateFile(h, raw)
      PROVE  Tree!Next
  BY <1>2, CreateFileMaps DEF Tree!Next
<1>3. ASSUME NEW raw \in RawPaths, CreateDirectory(raw) PROVE Tree!Next
  BY <1>3, CreateDirectoryMaps DEF Tree!Next
<1>4. ASSUME NEW raw \in RawPaths, RemovePath(raw) PROVE Tree!Next
  BY <1>4, RemoveMaps, FilesInContents DEF Tree!Next
<1>5. ASSUME NEW raw \in RawPaths, NEW h \in Handles, Open(h, raw) PROVE Tree!Next
  BY <1>5, OpenMaps, FilesInContents DEF Tree!Next
<1>6. ASSUME NEW h \in Handles, NEW b \in Bytes, NEW size \in 1 .. MaxSize,
             Write(h, b, size)
      PROVE  Tree!Next
  BY <1>6, WriteMaps DEF Tree!Next
<1>7. ASSUME NEW h \in Handles, CloseHandle(h) PROVE Tree!Next
  BY <1>7, CloseMaps DEF Tree!Next
<1>8. ASSUME NEW h \in Handles,
             Read(h) \/ \E offset \in 0 .. MaxSize : Seek(h, offset)
      PROVE  UNCHANGED Tree!treeVars
  BY <1>8, StaysPut DEF Read, Seek
<1>9. CASE UNCHANGED fsVars
  BY <1>9, StaysPut DEF fsVars
<1> QED
  BY <1>1, <1>2, <1>3, <1>4, <1>5, <1>6, <1>7, <1>8, <1>9
  DEF FsNext, TreeOperation, HandleOperation

LEMMA NothingYet == FsInit => Tree!Init
<1> SUFFICES ASSUME FsInit PROVE Tree!Init
  OBVIOUS
<1>1. FsInv /\ View
  BY FsInitially, Views
<1>2. Linked = {}
  BY DEF FsInit, Linked, NoChildren
<1>3. Places = {<<>>}
  <2>1. <<>> \in Places
    BY <1>1, MemoryFileSystemAssumption DEF View, Stepwise, Mapped
  <2>2. ASSUME NEW w \in Places PROVE w = <<>>
    <3>1. Ends[w] = m_root /\ w \in Ways /\ Ends[w] # None
      BY <1>1, <1>2 DEF View, Mapped
    <3> QED
      BY <1>1, <3>1 DEF View, Stepwise, OneWay
  <2> QED
    BY <2>1, <2>2
<1>4. kind[Ends[<<>>]] = "Directory"
  BY <1>1 DEF FsInit, View, Stepwise, FsInv, FsTypeOK
<1>5. DirectoryPlaces = {<<>>} /\ FilePlaces = {}
  BY <1>1, <1>3, <1>4 DEF View, Mapped
<1>6. FileContents = [w \in {} |-> <<>>]
  BY <1>5 DEF FileContents
<1>7. OpenHandles = {} /\ PlacesOpened = [h \in Handles |-> {}]
  BY <1>1, <1>5 DEF FsInit, OpenHandles, View, Mapped
<1> QED
  BY <1>5, <1>6, <1>7 DEF Tree!Init

\* ImplementsTree: whatever clients do, in whatever order and with whatever
\* paths, every operation on the shared nodes is one on the place it means.
THEOREM Refinement == FsSpec => ImplementsTree
<1>1. FsInv /\ FsInv' /\ [FsNext]_fsVars => [Tree!Next]_(Tree!treeVars)
  BY OperationMaps
<1> QED
  BY <1>1, NothingYet, FsInvariance, PTL DEF FsSpec, ImplementsTree, Tree!Spec

-----------------------------------------------------------------------------
(* The explorer *)

\* The explorer only reads the tree.
LEMMA ExplorerReads == Explorer => UNCHANGED fsVars
<1> USE DEF NavigateTo
<1>1. Initialize => UNCHANGED fsVars
  BY DEF Initialize
<1>2. ASSUME NEW p \in Points,
             ClickUp(p) \/ ClickRow(p) \/ ClickAgain(p) \/ ClickEmptySpace(p)
      PROVE  UNCHANGED fsVars
  BY <1>2 DEF ClickUp, ClickRow, ClickAgain, ClickEmptySpace
<1>3. NavigateStat => UNCHANGED fsVars
  BY DEF NavigateStat
<1>4. RefreshList => UNCHANGED fsVars
  BY DEF RefreshList
<1>5. RefreshStat => UNCHANGED fsVars
  BY DEF RefreshStat
<1> QED
  BY <1>1, <1>2, <1>3, <1>4, <1>5 DEF Explorer

\* To the file system the explorer and the other clients are clients: what it
\* promises to any holds for them, however their calls interleave.
THEOREM ClientsUseTree == Spec => FsSpec
<1>1. Init => FsInit
  BY DEF Init
<1>2. [Next]_vars => [FsNext]_fsVars
  <2> SUFFICES ASSUME [Next]_vars PROVE [FsNext]_fsVars
    OBVIOUS
  <2>1. CASE Explorer
    BY <2>1, ExplorerReads
  <2>2. CASE OtherTree \/ OtherHandle
    BY <2>2 DEF OtherTree, OtherHandle, FsNext
  <2>3. CASE UNCHANGED vars
    BY <2>3 DEF vars, fsVars
  <2> QED
    BY <2>1, <2>2, <2>3 DEF Next
<1> QED
  BY <1>1, <1>2, PTL DEF Spec, FsSpec

\* QuietInv, in terms of what the explorer sees.
RowsExact ==
  quiet /\ Listed =>
    /\ \A i \in 1 .. Len(m_entries) :
         m_entries[i].is_directory = (m_entries[i].full_path \in DirectoryPaths)
    /\ {m_entries[i].name : i \in 1 .. Len(m_entries)} \cup Range(files)
         = HeldBy[m_current_path]

ViewInv == TypeOK /\ SettledInv /\ ListedInv

LEMMA RowsSettled ==
  ASSUME ViewInv, Listed, NEW i \in 1 .. Len(m_entries)
  PROVE  /\ m_entries[i] \in Entry
         /\ m_entries[i].full_path \in Path /\ Settled(m_entries[i].full_path)
         /\ Parent(m_entries[i].full_path) = m_current_path
         /\ Filename(m_entries[i].full_path) = m_entries[i].name
<1>1. m_entries \in Seq(Entry) /\ m_current_path \in Path /\ Settled(m_current_path)
  BY DEF ViewInv, TypeOK, Entry, SettledInv
<1>2. m_entries[i] \in Entry
  BY <1>1, ElementOfSeq
<1>3. m_entries[i].full_path
        = AppendComponent(m_current_path, Component(m_entries[i].name))
  BY DEF ViewInv, ListedInv
<1>4. m_entries[i].name \in Names
  BY <1>2 DEF Entry
<1> QED
  BY <1>1, <1>2, <1>3, <1>4, RowPaths

LEMMA QuietIs == ViewInv => (QuietInv <=> RowsExact)
<1> SUFFICES ASSUME ViewInv, quiet, Listed PROVE QuietInv <=> RowsExact
  BY DEF QuietInv, RowsExact
<1>1. ASSUME NEW i \in 1 .. Len(m_entries)
      PROVE  IsDirectory(AsString(m_entries[i].full_path))
               = (m_entries[i].full_path \in DirectoryPaths)
  BY RowsSettled, SeenSo DEF Seen
<1>2. ListDirectory(AsString(m_current_path)) = HeldBy[m_current_path]
  BY SeenSo DEF Seen, ViewInv, SettledInv, TypeOK
<1> QED
  BY <1>1, <1>2 DEF QuietInv, RowsExact

ListInv == FsInv /\ ViewInv /\ WaitingInv /\ OrderedInv /\ RowsExact

LEMMA InitList == Init => ListInv
<1> SUFFICES ASSUME Init PROVE ListInv
  OBVIOUS
<1> USE DEF Init
<1>1. FsInv /\ FsTypeOK
  BY FsInitially DEF FsInv
<1>2. Root \in Path /\ Settled(Root)
  BY RootSettled
<1>3. Len(m_entries) = 0 /\ m_entries \in Seq(Entry) /\ files \in Seq(Names)
  BY EmptySeq
<1>4. TypeOK
  <2>1. m_current_path \in Path /\ target \in Path /\ files = <<>>
    BY <1>2
  <2>2. 0 \in 0 .. Len(m_entries)
    BY <1>3
  <2>3. quiet \in BOOLEAN /\ xpc \in {"new", "idle", "stat", "list", "entries"}
    OBVIOUS
  <2>4. m_selected_index \in 0 .. Len(m_entries)
    BY <2>2
  <2> QED
    BY <1>1, <1>3, <2>1, <2>3, <2>4 DEF TypeOK, Entry
<1>5. SettledInv
  BY <1>2 DEF SettledInv
<1>6. xpc = "new" /\ ~Listed
  BY DEF Listed
<1> QED
  BY <1>1, <1>4, <1>5, <1>6
     DEF ListInv, ViewInv, ListedInv, WaitingInv, OrderedInv, RowsExact

\* The tree may change under the explorer, but then the rows are not quiet.
LEMMA TreeStep ==
  ASSUME ListInv, FsInv', UNCHANGED <<viewVars, xpc, target, files>>,
         quiet' \in BOOLEAN, quiet' => quiet /\ SameTree
  PROVE  ListInv'
<1>1. /\ UNCHANGED <<m_current_path, m_entries, m_selected_index>>
      /\ UNCHANGED <<xpc, target, files>> /\ FsTypeOK'
  BY DEF viewVars, FsInv
<1>2. ViewInv'
  BY <1>1 DEF ListInv, ViewInv, TypeOK, SettledInv, ListedInv, Listed
<1>3. WaitingInv' /\ OrderedInv'
  BY <1>1 DEF ListInv, WaitingInv, OrderedInv
<1>4. RowsExact'
  <2> SUFFICES ASSUME quiet', Listed'
               PROVE  /\ \A i \in 1 .. Len(m_entries) :
                           m_entries[i].is_directory
                             = (m_entries[i].full_path \in DirectoryPaths')
                      /\ {m_entries[i].name : i \in 1 .. Len(m_entries)} \cup Range(files)
                           = HeldBy'[m_current_path]
    BY <1>1 DEF RowsExact
  <2>1. quiet /\ Listed /\ DirectoryPaths' = DirectoryPaths /\ HeldBy' = HeldBy
    BY <1>1 DEF SameTree, Listed
  <2> QED
    BY <2>1 DEF ListInv, RowsExact
<1> QED
  BY <1>2, <1>3, <1>4 DEF ListInv

LEMMA SameFs ==
  ASSUME FsInv, UNCHANGED fsVars
  PROVE  FsInv' /\ FsTypeOK' /\ SameTree
<1>1. FsInv' /\ UNCHANGED <<children, kind>>
  BY FsUnchangedKeeps DEF fsVars
<1>2. SameTree
  BY <1>1, TreeLooksSame
<1> QED
  BY <1>1, <1>2 DEF FsInv

\* Steps of the explorer that leave the rows alone.
LEMMA RowsStay ==
  ASSUME ListInv, UNCHANGED <<fsVars, m_current_path, m_entries, files, quiet>>,
         m_selected_index' \in 0 .. Len(m_entries),
         target' \in Path, Settled(target'),
         xpc \in {"idle", "stat"}, xpc' \in {"idle", "stat"}
  PROVE  ListInv'
<1>1. FsInv' /\ FsTypeOK' /\ DirectoryPaths' = DirectoryPaths /\ HeldBy' = HeldBy
  BY SameFs DEF ListInv, SameTree
<1>2. Listed /\ Listed' /\ xpc # "entries" /\ xpc' # "entries"
  BY DEF Listed
<1>3. files = <<>>
  BY <1>2 DEF ListInv, ViewInv, TypeOK
<1>4. ViewInv'
  BY <1>1, <1>2, <1>3 DEF ListInv, ViewInv, TypeOK, SettledInv, ListedInv
<1>5. WaitingInv' /\ OrderedInv'
  BY <1>2 DEF ListInv, WaitingInv, OrderedInv
<1>6. RowsExact'
  BY <1>1, <1>2 DEF ListInv, RowsExact
<1> QED
  BY <1>1, <1>4, <1>5, <1>6 DEF ListInv

\* A click, wherever it is.
LEMMA ClickStep ==
  ASSUME ListInv, NEW p \in Points,
         ClickUp(p) \/ ClickRow(p) \/ ClickAgain(p) \/ ClickEmptySpace(p)
  PROVE  ListInv'
<1>1. /\ m_current_path \in Path /\ Settled(m_current_path)
      /\ target \in Path /\ Settled(target)
      /\ m_entries \in Seq(Entry) /\ Len(m_entries) \in Nat
      /\ m_selected_index \in 0 .. Len(m_entries)
  <2>1. m_entries \in Seq(Entry)
    BY DEF ListInv, ViewInv, TypeOK, Entry
  <2> QED
    BY <2>1, LenProperties DEF ListInv, ViewInv, TypeOK, SettledInv
<1>2. CASE ClickUp(p)
  <2>1. /\ xpc = "idle" /\ xpc' = "stat" /\ target' = Parent(m_current_path)
        /\ UNCHANGED <<fsVars, m_current_path, m_entries, m_selected_index, files, quiet>>
    BY <1>2 DEF ClickUp, NavigateTo, viewVars
  <2>2. target' \in Path /\ Settled(target')
    BY <1>1, <2>1, ParentSettled
  <2> QED
    BY <1>1, <2>1, <2>2, RowsStay
<1>3. CASE ClickRow(p)
  <2>1. /\ xpc = "idle" /\ xpc' = "idle" /\ m_selected_index' \in 1 .. Len(m_entries)
        /\ UNCHANGED <<fsVars, m_current_path, m_entries, target, files, quiet>>
    BY <1>3 DEF ClickRow, OnRow
  <2>2. m_selected_index' \in 0 .. Len(m_entries)
    BY <1>1, <2>1
  <2>3. target' \in Path /\ Settled(target')
    BY <1>1, <2>1
  <2> QED
    BY <2>1, <2>2, <2>3, RowsStay
<1>4. CASE ClickAgain(p)
  <2> DEFINE i == m_selected_index
  <2>1. /\ xpc = "idle" /\ xpc' = "stat" /\ target' = m_entries[i].full_path
        /\ UNCHANGED <<fsVars, m_current_path, m_entries, m_selected_index, files, quiet>>
        /\ i \in 1 .. Len(m_entries)
    BY <1>4 DEF ClickAgain, NavigateTo, viewVars, OnRow
  <2>2. Listed /\ ViewInv
    BY <2>1 DEF Listed, ListInv
  <2>3. m_entries[i].full_path \in Path /\ Settled(m_entries[i].full_path)
    BY <2>1, <2>2, RowsSettled
  <2>4. target' \in Path /\ Settled(target')
    BY <2>1, <2>3
  <2> QED
    BY <1>1, <2>1, <2>4, RowsStay
<1>5. CASE ClickEmptySpace(p)
  <2>1. /\ xpc = "idle" /\ xpc' = "idle" /\ m_selected_index' = 0
        /\ UNCHANGED <<fsVars, m_current_path, m_entries, target, files, quiet>>
    BY <1>5 DEF ClickEmptySpace
  <2>2. m_selected_index' \in 0 .. Len(m_entries)
    BY <1>1, <2>1
  <2>3. target' \in Path /\ Settled(target')
    BY <1>1, <2>1
  <2> QED
    BY <2>1, <2>2, <2>3, RowsStay
<1> QED
  BY <1>2, <1>3, <1>4, <1>5

\* Where nothing is listed, only the paths matter.
LEMMA NotListedStep ==
  ASSUME ListInv, UNCHANGED <<fsVars, m_entries, m_selected_index, files, quiet>>,
         m_current_path' \in Path, Settled(m_current_path'),
         target' \in Path, Settled(target'),
         xpc # "entries", xpc' = "list"
  PROVE  ListInv'
<1>1. FsInv' /\ FsTypeOK'
  BY SameFs DEF ListInv
<1>2. ~Listed' /\ xpc' # "entries"
  BY DEF Listed
<1>3. files = <<>>
  BY DEF ListInv, ViewInv, TypeOK
<1>4. TypeOK' /\ SettledInv'
  BY <1>1, <1>3 DEF ListInv, ViewInv, TypeOK, SettledInv
<1> QED
  BY <1>1, <1>2, <1>4
     DEF ListInv, ViewInv, ListedInv, WaitingInv, OrderedInv, RowsExact

LEMMA InitializeStep == ListInv /\ Initialize => ListInv'
<1> SUFFICES ASSUME ListInv, Initialize PROVE ListInv'
  OBVIOUS
<1>1. /\ xpc = "new" /\ xpc' = "list" /\ UNCHANGED <<fsVars, files, quiet>>
      /\ UNCHANGED <<m_current_path, m_entries, m_selected_index, target>>
  BY DEF Initialize, viewVars
<1>2. /\ m_current_path' \in Path /\ Settled(m_current_path')
      /\ target' \in Path /\ Settled(target')
  BY <1>1 DEF ListInv, ViewInv, TypeOK, SettledInv
<1> QED
  BY <1>1, <1>2, NotListedStep

LEMMA NavigateStep == ListInv /\ NavigateStat => ListInv'
<1> SUFFICES ASSUME ListInv, NavigateStat PROVE ListInv'
  OBVIOUS
<1>1. /\ xpc = "stat" /\ target' = Root
      /\ UNCHANGED <<fsVars, m_entries, m_selected_index, files, quiet>>
      /\ \/ m_current_path' = target /\ xpc' = "list"
         \/ xpc' = "idle" /\ UNCHANGED m_current_path
  BY DEF NavigateStat
<1>2. target' \in Path /\ Settled(target')
  BY <1>1, RootSettled
<1>3. CASE m_current_path' = target /\ xpc' = "list"
  <2>1. m_current_path' \in Path /\ Settled(m_current_path')
    BY <1>3 DEF ListInv, ViewInv, TypeOK, SettledInv
  <2> QED
    BY <1>1, <1>2, <1>3, <2>1, NotListedStep
<1>4. CASE xpc' = "idle" /\ UNCHANGED m_current_path
  <2>1. m_selected_index' \in 0 .. Len(m_entries)
    BY <1>1 DEF ListInv, ViewInv, TypeOK
  <2> QED
    BY <1>1, <1>2, <1>4, <2>1, RowsStay
<1> QED
  BY <1>1, <1>3, <1>4

\* refresh_current_directory() begins: all names of the directory wait.
LEMMA RefreshListStep == ListInv /\ RefreshList => ListInv'
<1> SUFFICES ASSUME ListInv, RefreshList PROVE ListInv'
  OBVIOUS
<1> DEFINE K == HeldBy[m_current_path]
           t == Kept(NameOrder, K)
<1>1. /\ m_current_path \in Path /\ Settled(m_current_path)
      /\ target \in Path /\ Settled(target)
  BY DEF ListInv, ViewInv, TypeOK, SettledInv
<1>2. ListDirectory(AsString(m_current_path)) = K
  BY <1>1, SeenSo DEF Seen
<1>3. /\ files' = t /\ m_entries' = <<>> /\ m_selected_index' = 0
      /\ xpc' = IF files' = <<>> THEN "idle" ELSE "entries"
      /\ quiet' = TRUE
      /\ UNCHANGED <<fsVars, m_current_path, target>>
  BY <1>2 DEF RefreshList
<1>4. K \in SUBSET Names
  BY <1>1 DEF HeldBy
<1>5. /\ t \in Seq(Names) /\ Range(t) = K
      /\ \A i, j \in 1 .. Len(t) : i < j => Before(t[i], t[j])
  BY <1>4, ListIs
<1> HIDE DEF t, K
<1>6. FsInv' /\ FsTypeOK' /\ DirectoryPaths' = DirectoryPaths /\ HeldBy' = HeldBy
  BY <1>3, SameFs DEF ListInv, SameTree
<1>7. Len(m_entries') = 0 /\ m_entries' \in Seq(Entry)
  BY <1>3, EmptySeq
<1>8. ViewInv'
  <2>1. m_selected_index' \in 0 .. Len(m_entries')
    BY <1>3, <1>7
  <2>2. /\ xpc' \in {"new", "idle", "stat", "list", "entries"}
        /\ files' # <<>> => xpc' = "entries"
        /\ quiet' \in BOOLEAN
    BY <1>3
  <2>3. files' \in Seq(Names)
    BY <1>3, <1>5
  <2>4. TypeOK'
    BY <1>1, <1>3, <1>6, <1>7, <2>1, <2>2, <2>3 DEF TypeOK, Entry
  <2>5. SettledInv'
    BY <1>1, <1>3 DEF SettledInv
  <2>6. ListedInv'
    BY <1>7 DEF ListedInv
  <2> QED
    BY <2>4, <2>5, <2>6 DEF ViewInv
<1>9. WaitingInv'
  BY <1>3, <1>5, <1>7 DEF WaitingInv
<1>10. OrderedInv'
  BY <1>7 DEF OrderedInv
<1>11. RowsExact'
  <2>1. Range(files') = K
    BY <1>3, <1>5
  <2>2. {m_entries'[i].name : i \in 1 .. Len(m_entries')} = {}
    BY <1>7
  <2>3. HeldBy'[m_current_path'] = K
    BY <1>3, <1>6 DEF K
  <2> QED
    BY <1>7, <2>1, <2>2, <2>3 DEF RowsExact
<1> QED
  BY <1>6, <1>8, <1>9, <1>10, <1>11 DEF ListInv

\* The first of a sequence, and the rest of it.
LEMMA HeadAndTail ==
  ASSUME NEW S, NEW s \in Seq(S), s # <<>>
  PROVE  /\ Head(s) = s[1] /\ Head(s) \in S /\ Len(s) \in Nat \ {0}
         /\ Tail(s) \in Seq(S) /\ Len(Tail(s)) = Len(s) - 1
         /\ \A i \in 1 .. Len(s) - 1 : Tail(s)[i] = s[i + 1]
         /\ Range(s) = {s[1]} \cup Range(Tail(s))
<1>1. /\ Head(s) = s[1] /\ Head(s) \in S /\ Len(s) \in Nat \ {0}
      /\ Tail(s) \in Seq(S) /\ Len(Tail(s)) = Len(s) - 1
      /\ \A i \in 1 .. Len(s) - 1 : Tail(s)[i] = s[i + 1]
  BY HeadTailProperties, EmptySeq, LenProperties, ElementOfSeq
<1> DEFINE t == Tail(s)
<1> HIDE DEF t
<1>2. /\ Range(s) = {s[i] : i \in 1 .. Len(s)}
      /\ Range(t) = {t[i] : i \in 1 .. Len(t)}
  BY <1>1, RangeEquality DEF t
<1>3. /\ Len(t) = Len(s) - 1 /\ \A i \in 1 .. Len(s) - 1 : t[i] = s[i + 1]
      /\ Len(s) \in Nat \ {0}
  BY <1>1 DEF t
<1>4. ASSUME NEW x \in Range(s) PROVE x = s[1] \/ x \in Range(t)
  <2>1. PICK i \in 1 .. Len(s) : x = s[i]
    BY <1>2
  <2>2. CASE i # 1
    <3>1. i - 1 \in 1 .. Len(t) /\ t[i - 1] = x
      BY <1>3, <2>1, <2>2
    <3> QED
      BY <1>2, <3>1
  <2> QED
    BY <2>1, <2>2
<1>5. ASSUME NEW x \in Range(t) PROVE x \in Range(s)
  <2>1. PICK i \in 1 .. Len(t) : x = t[i]
    BY <1>2
  <2>2. i + 1 \in 1 .. Len(s) /\ s[i + 1] = x
    BY <1>3, <2>1
  <2> QED
    BY <1>2, <2>2
<1>6. 1 \in 1 .. Len(s)
  BY <1>3
<1>7. Range(s) = {s[1]} \cup Range(t)
  BY <1>2, <1>4, <1>5, <1>6
<1> QED
  BY <1>1, <1>7 DEF t

\* What stat() of the next name makes of the rows.
Found ==
  LET entry == EntryOf(Head(files))
  IN  IF Exists(AsString(entry.full_path)) THEN Append(m_entries, entry) ELSE m_entries

LEMMA FoundIs ==
  ASSUME ListInv, xpc = "entries"
  PROVE  /\ Found \in Seq(Entry)
         /\ \A i \in 1 .. Len(Found) : Found[i].full_path
              = AppendComponent(m_current_path, Component(Found[i].name))
         /\ \A i, j \in 1 .. Len(Found) : i < j =>
              Before(Found[i].name, Found[j].name)
         /\ \A i \in 1 .. Len(Found), j \in 1 .. Len(Tail(files)) :
              Before(Found[i].name, Tail(files)[j])
         /\ quiet =>
              /\ \A i \in 1 .. Len(Found) :
                   Found[i].is_directory = (Found[i].full_path \in DirectoryPaths)
              /\ {Found[i].name : i \in 1 .. Len(Found)} \cup Range(Tail(files))
                   = HeldBy[m_current_path]
<1> DEFINE n == Len(m_entries)
           t == Tail(files)
           name == Head(files)
           e == EntryOf(name)
<1>1. /\ m_current_path \in Path /\ Settled(m_current_path)
      /\ m_entries \in Seq(Entry) /\ files \in Seq(Names) /\ files # <<>>
      /\ n \in Nat /\ FsInv /\ Listed
  <2>1. m_entries \in Seq(Entry)
    BY DEF ListInv, ViewInv, TypeOK, Entry
  <2> QED
    BY <2>1, LenProperties DEF ListInv, ViewInv, TypeOK, SettledInv, WaitingInv, Listed
<1>2. /\ name = files[1] /\ name \in Names /\ Len(files) \in Nat \ {0}
      /\ Len(t) = Len(files) - 1 /\ t \in Seq(Names)
      /\ \A i \in 1 .. Len(files) - 1 : t[i] = files[i + 1]
      /\ Range(files) = {files[1]} \cup Range(t)
  BY <1>1, HeadAndTail
<1> HIDE DEF name, t
<1> DEFINE row == AppendComponent(m_current_path, Component(name))
<1>3. row \in Path /\ Settled(row)
  BY <1>1, <1>2, RowPaths
<1>4. /\ e = [name |-> name, full_path |-> row,
              is_directory |-> (row \in DirectoryPaths)]
      /\ e \in Entry
  <2>1. IsDirectory(AsString(row)) = (row \in DirectoryPaths)
    BY <1>3, SeenSo DEF Seen
  <2>2. e = [name |-> name, full_path |-> row,
             is_directory |-> (row \in DirectoryPaths)]
    BY <2>1 DEF EntryOf
  <2>3. (row \in DirectoryPaths) \in BOOLEAN
    OBVIOUS
  <2> HIDE DEF row, e
  <2> QED
    BY <1>2, <1>3, <2>2, <2>3 DEF Entry
<1>5. e.name = name /\ e.full_path = row /\ e.is_directory = (row \in DirectoryPaths)
  BY <1>4
<1>6. Found = IF Exists(AsString(row)) THEN Append(m_entries, e) ELSE m_entries
  BY <1>5 DEF Found, name
<1> HIDE DEF e
<1>7. /\ \A i \in 1 .. n : m_entries[i].full_path
           = AppendComponent(m_current_path, Component(m_entries[i].name))
      /\ \A i, j \in 1 .. n : i < j => Before(m_entries[i].name, m_entries[j].name)
      /\ \A i, j \in 1 .. Len(files) : i < j => Before(files[i], files[j])
      /\ \A i \in 1 .. n, j \in 1 .. Len(files) : Before(m_entries[i].name, files[j])
      /\ quiet =>
           /\ \A i \in 1 .. n :
                m_entries[i].is_directory = (m_entries[i].full_path \in DirectoryPaths)
           /\ {m_entries[i].name : i \in 1 .. n} \cup Range(files) = HeldBy[m_current_path]
  BY <1>1 DEF ListInv, ViewInv, ListedInv, WaitingInv, RowsExact
<1>8. \A j \in 1 .. Len(t) : /\ t[j] = files[j + 1]
                             /\ j + 1 \in 1 .. Len(files) /\ 1 < j + 1
  BY <1>2
<1>9. 1 \in 1 .. Len(files)
  BY <1>2
<1>10. CASE ~Exists(AsString(row))
  <2>1. Found = m_entries
    BY <1>6, <1>10
  <2>2. ~quiet
    <3> SUFFICES ASSUME quiet PROVE FALSE
      OBVIOUS
    <3>1. name \in HeldBy[m_current_path]
      BY <1>2, <1>7
    <3> QED
      BY <1>1, <1>10, <3>1, RowExists
  <2>3. \A i \in 1 .. n, j \in 1 .. Len(t) : Before(m_entries[i].name, t[j])
    BY <1>7, <1>8
  <2> HIDE DEF row, n
  <2> QED
    BY <1>1, <1>7, <2>1, <2>2, <2>3 DEF t, n
<1>11. CASE Exists(AsString(row))
  <2> DEFINE u == Append(m_entries, e)
  <2>1. Found = u
    BY <1>6, <1>11
  <2>2. /\ u \in Seq(Entry) /\ Len(u) = n + 1 /\ u[n + 1] = e
        /\ \A i \in 1 .. n : u[i] = m_entries[i]
    BY <1>1, <1>4, AppendIs
  <2> HIDE DEF u, n
  <2>3. \A i \in 1 .. Len(u) : i \in 1 .. n \/ i = n + 1
    BY <1>1, <2>2
  <2>4. \A i \in 1 .. Len(u) :
          u[i].full_path = AppendComponent(m_current_path, Component(u[i].name))
    BY <1>5, <1>7, <2>2, <2>3 DEF row
  <2> HIDE DEF row
  <2>5. ASSUME NEW i \in 1 .. Len(u), NEW j \in 1 .. Len(u), i < j
        PROVE  Before(u[i].name, u[j].name)
    <3>1. i \in 1 .. n
      BY <1>1, <2>2, <2>5
    <3>2. CASE j \in 1 .. n
      BY <1>7, <2>2, <2>5, <3>1, <3>2
    <3>3. CASE j = n + 1
      BY <1>2, <1>5, <1>7, <1>9, <2>2, <3>1, <3>3
    <3> QED
      BY <2>3, <3>2, <3>3
  <2>6. ASSUME NEW i \in 1 .. Len(u), NEW j \in 1 .. Len(t)
        PROVE  Before(u[i].name, t[j])
    <3>1. CASE i \in 1 .. n
      BY <1>7, <1>8, <2>2, <3>1
    <3>2. CASE i = n + 1
      BY <1>2, <1>5, <1>7, <1>8, <1>9, <2>2, <3>2
    <3> QED
      BY <2>3, <3>1, <3>2
  <2>7. ASSUME quiet
        PROVE  /\ \A i \in 1 .. Len(u) :
                    u[i].is_directory = (u[i].full_path \in DirectoryPaths)
               /\ {u[i].name : i \in 1 .. Len(u)} \cup Range(t)
                    = HeldBy[m_current_path]
    <3>1. \A i \in 1 .. Len(u) :
            u[i].is_directory = (u[i].full_path \in DirectoryPaths)
      BY <1>5, <1>7, <2>2, <2>3, <2>7
    <3>2. {u[i].name : i \in 1 .. Len(u)}
            = {m_entries[i].name : i \in 1 .. n} \cup {files[1]}
      <4>1. \A i \in 1 .. n : i \in 1 .. Len(u) /\ u[i].name = m_entries[i].name
        BY <1>1, <2>2
      <4>2. n + 1 \in 1 .. Len(u) /\ u[n + 1].name = files[1]
        BY <1>1, <1>2, <1>5, <2>2
      <4> QED
        BY <2>3, <4>1, <4>2
    <3> QED
      BY <1>2, <1>7, <2>7, <3>1, <3>2
  <2> QED
    BY <2>1, <2>2, <2>4, <2>5, <2>6, <2>7 DEF t
<1> QED
  BY <1>10, <1>11

\* refresh_current_directory(), name by name, and the sort at its end.
LEMMA RefreshStatStep == ListInv /\ RefreshStat => ListInv'
<1> SUFFICES ASSUME ListInv, RefreshStat PROVE ListInv'
  OBVIOUS
<1> DEFINE t == Tail(files)
           f == Found
           cur == m_current_path
<1>1. /\ xpc = "entries" /\ files' = t
      /\ IF t = <<>> THEN m_entries' = Sorted(f) /\ xpc' = "idle"
                     ELSE m_entries' = f /\ xpc' = "entries"
      /\ UNCHANGED <<fsVars, m_current_path, m_selected_index, target, quiet>>
  BY DEF RefreshStat, Found
<1>2. /\ f \in Seq(Entry)
      /\ \A i \in 1 .. Len(f) : f[i].full_path
           = AppendComponent(cur, Component(f[i].name))
      /\ \A i, j \in 1 .. Len(f) : i < j => Before(f[i].name, f[j].name)
      /\ \A i \in 1 .. Len(f), j \in 1 .. Len(t) : Before(f[i].name, t[j])
      /\ quiet =>
           /\ \A i \in 1 .. Len(f) :
                f[i].is_directory = (f[i].full_path \in DirectoryPaths)
           /\ {f[i].name : i \in 1 .. Len(f)} \cup Range(t) = HeldBy[cur]
  BY <1>1, FoundIs
<1>3. /\ files \in Seq(Names) /\ files # <<>> /\ m_selected_index = 0
      /\ \A i, j \in 1 .. Len(files) : i < j => Before(files[i], files[j])
      /\ SettledInv /\ target \in Path /\ cur \in Path /\ quiet \in BOOLEAN
  BY <1>1 DEF ListInv, ViewInv, TypeOK, WaitingInv
<1>4. /\ t \in Seq(Names)
      /\ \A i, j \in 1 .. Len(t) : i < j => Before(t[i], t[j])
  <2>1. /\ t \in Seq(Names) /\ Len(t) = Len(files) - 1 /\ Len(files) \in Nat \ {0}
        /\ \A i \in 1 .. Len(files) - 1 : t[i] = files[i + 1]
    BY <1>3, HeadAndTail
  <2> HIDE DEF t
  <2>2. ASSUME NEW i \in 1 .. Len(t), NEW j \in 1 .. Len(t), i < j
        PROVE  Before(t[i], t[j])
    <3>1. /\ i + 1 \in 1 .. Len(files) /\ j + 1 \in 1 .. Len(files) /\ i + 1 < j + 1
          /\ t[i] = files[i + 1] /\ t[j] = files[j + 1]
      BY <2>1, <2>2
    <3> QED
      BY <1>3, <3>1
  <2> QED
    BY <2>1, <2>2
<1>5. FsInv' /\ FsTypeOK' /\ DirectoryPaths' = DirectoryPaths /\ HeldBy' = HeldBy
  BY <1>1, SameFs DEF ListInv, SameTree
<1> HIDE DEF f, t
<1>6. CASE t # <<>>
  <2>1. m_entries' = f /\ xpc' = "entries"
    BY <1>1, <1>6
  <2>2. m_selected_index' \in 0 .. Len(m_entries')
    BY <1>1, <1>2, <1>3, <2>1, LenProperties
  <2>3. TypeOK'
    BY <1>1, <1>2, <1>3, <1>4, <1>5, <2>1, <2>2 DEF TypeOK, Entry
  <2>4. SettledInv' /\ ListedInv'
    BY <1>1, <1>2, <1>3, <2>1 DEF SettledInv, ListedInv
  <2>5. WaitingInv'
    BY <1>1, <1>2, <1>3, <1>4, <1>6, <2>1 DEF WaitingInv
  <2>6. OrderedInv'
    BY <2>1 DEF OrderedInv
  <2>7. RowsExact'
    BY <1>1, <1>2, <1>5, <2>1 DEF RowsExact
  <2> QED
    BY <1>5, <2>3, <2>4, <2>5, <2>6, <2>7 DEF ListInv, ViewInv
<1>7. CASE t = <<>>
  <2> DEFINE r == Sorted(f)
  <2>1. m_entries' = r /\ xpc' = "idle"
    BY <1>1, <1>7
  <2>2. /\ r \in Seq(Entry)
        /\ \A i \in 1 .. Len(r) : \E k \in 1 .. Len(f) : r[i] = f[k]
        /\ \A k \in 1 .. Len(f) : \E i \in 1 .. Len(r) : r[i] = f[k]
        /\ \A i, j \in 1 .. Len(r) : i < j =>
             \/ r[i].is_directory /\ ~r[j].is_directory
             \/ /\ r[i].is_directory = r[j].is_directory
                /\ \E k, l \in 1 .. Len(f) : k < l /\ r[i] = f[k] /\ r[j] = f[l]
    BY <1>2, SortedIs
  <2> HIDE DEF r
  <2>3. m_selected_index' \in 0 .. Len(m_entries')
    BY <1>1, <1>3, <2>1, <2>2, LenProperties
  <2>4. TypeOK'
    BY <1>1, <1>2, <1>3, <1>4, <1>5, <1>7, <2>1, <2>2, <2>3 DEF TypeOK, Entry
  <2>5. SettledInv' /\ ListedInv'
    BY <1>1, <1>2, <1>3, <2>1, <2>2 DEF SettledInv, ListedInv
  <2>6. WaitingInv'
    BY <2>1 DEF WaitingInv
  <2>7. OrderedInv'
    <3> SUFFICES ASSUME NEW i \in 1 .. Len(r), NEW j \in 1 .. Len(r), i < j
                 PROVE  \/ r[i].is_directory /\ ~r[j].is_directory
                        \/ /\ r[i].is_directory = r[j].is_directory
                           /\ Before(r[i].name, r[j].name)
      BY <2>1 DEF OrderedInv
    <3>1. CASE r[i].is_directory /\ ~r[j].is_directory
      BY <3>1
    <3>2. CASE /\ r[i].is_directory = r[j].is_directory
               /\ \E k, l \in 1 .. Len(f) : k < l /\ r[i] = f[k] /\ r[j] = f[l]
      <4>1. Before(r[i].name, r[j].name)
        BY <1>2, <3>2
      <4> QED
        BY <3>2, <4>1
    <3> QED
      BY <2>2, <3>1, <3>2
  <2>8. RowsExact'
    <3>1. {r[i].name : i \in 1 .. Len(r)} = {f[i].name : i \in 1 .. Len(f)}
      <4>1. \A i \in 1 .. Len(r) : \E k \in 1 .. Len(f) : r[i].name = f[k].name
        BY <2>2
      <4>2. \A k \in 1 .. Len(f) : \E i \in 1 .. Len(r) : f[k].name = r[i].name
        BY <2>2
      <4>3. ASSUME NEW x
            PROVE  x \in {r[i].name : i \in 1 .. Len(r)}
                     <=> x \in {f[i].name : i \in 1 .. Len(f)}
        BY <4>1, <4>2
      <4> QED
        BY <4>3
    <3>2. ASSUME quiet, NEW i \in 1 .. Len(r)
          PROVE  r[i].is_directory = (r[i].full_path \in DirectoryPaths)
      <4>1. PICK k \in 1 .. Len(f) : r[i] = f[k]
        BY <2>2
      <4>2. f[k].is_directory = (f[k].full_path \in DirectoryPaths)
        BY <1>2, <3>2
      <4> QED
        BY <4>1, <4>2
    <3> QED
      BY <1>1, <1>2, <1>5, <2>1, <3>1, <3>2 DEF RowsExact
  <2> QED
    BY <1>5, <2>4, <2>5, <2>6, <2>7, <2>8 DEF ListInv, ViewInv
<1> QED
  BY <1>6, <1>7

LEMMA ListInduction == ListInv /\ [Next]_vars => ListInv'
<1> SUFFICES ASSUME ListInv, [Next]_vars PROVE ListInv'
  OBVIOUS
<1>1. CASE Explorer
  BY <1>1, InitializeStep, ClickStep, NavigateStep, RefreshListStep, RefreshStatStep
     DEF Explorer
<1>2. CASE OtherTree
  <2>1. /\ TreeOperation /\ UNCHANGED <<viewVars, xpc, target, files>>
        /\ quiet' = (quiet /\ kind' = kind /\ children' = children)
    BY <1>2 DEF OtherTree
  <2>2. FsInv /\ FsInv' /\ quiet \in BOOLEAN
    BY <2>1, TreeOperationKeeps DEF ListInv, ViewInv, TypeOK
  <2>3. quiet' \in BOOLEAN /\ (quiet' => quiet /\ UNCHANGED <<kind, children>>)
    BY <2>1
  <2>4. quiet' => quiet /\ SameTree
    BY <2>2, <2>3, TreeLooksSame
  <2> QED
    BY <2>1, <2>2, <2>3, <2>4, TreeStep
<1>3. CASE OtherHandle
  <2>1. HandleOperation /\ UNCHANGED <<viewVars, xpc, target, files, quiet>>
    BY <1>3 DEF OtherHandle, explorerVars
  <2>2. FsInv /\ FsInv' /\ UNCHANGED children /\ quiet \in BOOLEAN
    BY <2>1, HandleOperationKeeps DEF ListInv, ViewInv, TypeOK
  <2>3. \A n \in Linked \cup {m_root} : kind'[n] = kind[n]
    BY <2>1, <2>2, HandlesKeepKinds
  <2>4. SameTree
    BY <2>2, <2>3, TreeLooksSame
  <2> QED
    BY <2>1, <2>2, <2>4, TreeStep
<1>4. CASE UNCHANGED vars
  <2>1. UNCHANGED <<fsVars, viewVars, xpc, target, files, quiet>>
    BY <1>4 DEF vars, explorerVars
  <2>2. FsInv' /\ SameTree /\ quiet \in BOOLEAN
    BY <2>1, SameFs DEF ListInv, ViewInv, TypeOK
  <2> QED
    BY <2>1, <2>2, TreeStep
<1> QED
  BY <1>1, <1>2, <1>3, <1>4 DEF Next

\* The inductive invariant of the explorer on a tree that others change.
THEOREM ExplorerInvariance == Spec => []ExplorerInv
<1>1. ListInv => ExplorerInv
  BY QuietIs DEF ListInv, ViewInv, ExplorerInv
<1> QED
  BY <1>1, InitList, ListInduction, PTL DEF Spec

\* The state of the file system and of the explorer keeps its types.
THEOREM TypeCorrect == Spec => []TypeOK
<1>1. ExplorerInv => TypeOK
  BY DEF ExplorerInv
<1> QED
  BY <1>1, ExplorerInvariance, PTL

\* QuietRowsExact: whatever the others did before, a listing during which the
\* tree stayed as it was has a row for every name and no other row.
THEOREM QuietListing == Spec => []QuietRowsExact
<1>1. ExplorerInv => QuietRowsExact
  <2> SUFFICES ASSUME ExplorerInv, quiet, xpc = "idle"
               PROVE  {<<e.name, e.is_directory>> : e \in Range(m_entries)}
                        = {<<name, IsDirectory(AsString(
                             AppendComponent(m_current_path, Component(name))))>> :
                             name \in ListDirectory(AsString(m_current_path))}
    BY DEF QuietRowsExact
  <2> DEFINE n == Len(m_entries)
             Is(name) == IsDirectory(AsString(
                           AppendComponent(m_current_path, Component(name))))
             L == ListDirectory(AsString(m_current_path))
  <2>1. /\ files = <<>> /\ m_entries \in Seq(Entry) /\ Listed
    BY DEF ExplorerInv, TypeOK, Listed, Entry
  <2>2. Range(files) = {}
    BY <2>1 DEF Range
  <2>3. Range(m_entries) = {m_entries[i] : i \in 1 .. n}
    BY <2>1, RangeEquality
  <2>4. \A i \in 1 .. n : m_entries[i].is_directory = Is(m_entries[i].name)
    BY <2>1 DEF ExplorerInv, ListedInv, QuietInv
  <2>5. {m_entries[i].name : i \in 1 .. n} = L
    BY <2>1, <2>2 DEF ExplorerInv, QuietInv
  <2> HIDE DEF n, Is, L
  <2>6. ASSUME NEW e \in Range(m_entries)
        PROVE  e.name \in L /\ e.is_directory = Is(e.name)
    BY <2>3, <2>4, <2>5
  <2>7. ASSUME NEW name \in L
        PROVE  \E e \in Range(m_entries) : e.name = name
    BY <2>3, <2>5
  <2>8. {<<e.name, e.is_directory>> : e \in Range(m_entries)}
          = {<<name, Is(name)>> : name \in L}
    BY <2>6, <2>7
  <2> QED
    BY <2>8 DEF Is, L
<1> QED
  BY <1>1, ExplorerInvariance, PTL

-----------------------------------------------------------------------------
(* The picture *)

\* What is drawn in the colour of the selection is the bar of row k.
Bar(call, k) ==
  call.color = Highlight =>
    k \in Nat \ {0} /\ call.y = RowTop(k) /\ call.height = 30
Lit(s, k) == s \in Seq(Range(s)) /\ \A call \in Range(s) : Bar(call, k)

LEMMA LitIn ==
  ASSUME NEW S, NEW s \in Seq(S), NEW k,
         \A i \in 1 .. Len(s) : Bar(s[i], k)
  PROVE  Lit(s, k)
<1>1. /\ Range(s) = {s[i] : i \in 1 .. Len(s)} /\ Len(s) \in Nat
      /\ s \in [1 .. Len(s) -> S]
  BY RangeEquality, LenProperties
<1>2. s \in [1 .. Len(s) -> Range(s)]
  BY <1>1
<1>3. s \in Seq(Range(s))
  BY <1>1, <1>2, SeqDef
<1> QED
  BY <1>1, <1>3 DEF Lit

LEMMA LitConcat ==
  ASSUME NEW s, NEW t, NEW k, Lit(s, k), Lit(t, k)
  PROVE  Lit(s \o t, k)
<1> DEFINE S == Range(s) \cup Range(t)
           u == s \o t
<1>1. s \in Seq(S) /\ t \in Seq(S)
  BY SeqMonotonic DEF Lit
<1>2. /\ Range(s) = {s[i] : i \in 1 .. Len(s)} /\ Len(s) \in Nat
      /\ Range(t) = {t[i] : i \in 1 .. Len(t)} /\ Len(t) \in Nat
  BY <1>1, RangeEquality, LenProperties
<1>3. /\ u \in Seq(S) /\ Len(u) = Len(s) + Len(t)
      /\ \A i \in 1 .. Len(s) + Len(t) :
           u[i] = IF i <= Len(s) THEN s[i] ELSE t[i - Len(s)]
  BY <1>1, ConcatProperties
<1> HIDE DEF u
<1>4. ASSUME NEW i \in 1 .. Len(u) PROVE Bar(u[i], k)
  <2>1. CASE i <= Len(s)
    <3>1. i \in 1 .. Len(s) /\ u[i] = s[i]
      BY <1>2, <1>3, <2>1
    <3> QED
      BY <1>2, <3>1 DEF Lit
  <2>2. CASE ~(i <= Len(s))
    <3>1. i - Len(s) \in 1 .. Len(t) /\ u[i] = t[i - Len(s)]
      BY <1>2, <1>3, <2>2
    <3> QED
      BY <1>2, <3>1 DEF Lit
  <2> QED
    BY <2>1, <2>2
<1> HIDE DEF S
<1>5. Lit(u, k)
  BY <1>3, <1>4, LitIn
<1> QED
  BY <1>5 DEF u

LEMMA LitOne ==
  ASSUME NEW x, NEW y, NEW width, NEW height, NEW color, NEW k,
         Bar(Rect(x, y, width, height, color), k)
  PROVE  Lit(<< Rect(x, y, width, height, color) >>, k)
<1> DEFINE r == Rect(x, y, width, height, color)
<1> HIDE DEF r
<1>1. <<r>> \in Seq({r}) /\ Len(<<r>>) = 1 /\ <<r>>[1] = r
  OBVIOUS
<1>2. Bar(r, k)
  BY DEF r
<1>3. \A i \in 1 .. Len(<<r>>) : Bar(<<r>>[i], k)
  BY <1>1, <1>2
<1>4. Lit(<<r>>, k)
  BY <1>1, <1>3, LitIn
<1> QED
  BY <1>4 DEF r

LEMMA LitText ==
  ASSUME NEW x, NEW y, NEW a, NEW b, NEW color, NEW k, color # Highlight
  PROVE  Lit(DrawText(x, y, <<a, b>>, color), k)
<1> DEFINE text == <<a, b>>
           s == DrawText(x, y, text, color)
           S == {Char(x + 8 * (i - 1), y, text[i], color) : i \in 1 .. 2}
<1>1. s = [i \in 1 .. 2 |-> Char(x + 8 * (i - 1), y, text[i], color)]
  BY DEF DrawText
<1> HIDE DEF text, s
<1>2. s \in [1 .. 2 -> S] /\ \A i \in 1 .. 2 : s[i] = Char(x + 8 * (i - 1), y, text[i], color)
  BY <1>1
<1>3. 2 \in Nat /\ s \in Seq(S)
  <2> HIDE DEF S
  <2> QED
    BY <1>2, SeqDef
<1>4. Len(s) = 2
  BY <1>2, <1>3, LenProperties
<1>5. ASSUME NEW i \in 1 .. Len(s) PROVE Bar(s[i], k)
  <2>1. s[i].color = color
    BY <1>2, <1>4 DEF Char
  <2> QED
    BY <2>1 DEF Bar
<1> HIDE DEF S
<1>6. Lit(s, k)
  BY <1>3, <1>5, LitIn
<1> QED
  BY <1>6 DEF s, text

\* FlattenSeq() is the concatenation of all.
LEMMA FlattenIs ==
  ASSUME NEW S, NEW n \in Nat, NEW seqs \in [1 .. n -> Seq(S)]
  PROVE  FlattenSeq(seqs) \in Seq(S)
<1> DEFINE Z == Seq(S)
           step == [x \in Z \X (1 .. n) |-> x[1] \o seqs[x[2]]]
           Is(f) == f = [i \in 1 .. n |->
                           IF i = 1 THEN seqs[i] ELSE f[i - 1] \o seqs[i]]
           all == CHOOSE f : Is(f)
<1>1. <<>> \in Z /\ \A x \in Z, i \in 1 .. n : x \o seqs[i] \in Z /\ <<>> \o seqs[i] = seqs[i]
  BY EmptySeq, ConcatProperties, ConcatEmptySeq
<1>2. seqs \in Seq(Z) /\ Len(seqs) = n
  <2>1. seqs \in Seq(Z)
    BY SeqDef
  <2> HIDE DEF Z
  <2>2. DOMAIN seqs = 1 .. Len(seqs) /\ Len(seqs) \in Nat /\ DOMAIN seqs = 1 .. n
    BY <2>1, LenProperties
  <2>3. Len(seqs) = n
    BY <2>2
  <2> QED
    BY <2>1, <2>3
<1>3. CASE n = 0
  <2>1. Len(seqs) = 0
    BY <1>2, <1>3
  <2>2. seqs = <<>>
    BY <1>2, <2>1, EmptySeq
  <2> QED
    BY <1>1, <2>1, <2>2 DEF FlattenSeq
<1>4. CASE n # 0
  <2>1. step \in [Z \X (1 .. n) -> Z]
    <3> HIDE DEF Z
    <3> QED
      BY <1>1
  <2>2. PICK g \in [0 .. n -> Z] : Iterates(g, n, <<>>, step)
    <3> HIDE DEF Z, step
    <3> QED
      BY <1>1, <2>1, LoopExists
  <2> DEFINE h == [i \in 1 .. n |-> g[i]]
  <2>3. Is(h)
    <3>1. ASSUME NEW i \in 1 .. n
          PROVE  g[i] = g[i - 1] \o seqs[i] /\ g[i - 1] \in Z
      <4>1. i \in 0 .. n /\ i # 0 /\ i - 1 \in 0 .. n
        OBVIOUS
      <4>2. g[i] = step[<<g[i - 1], i>>]
        <5> HIDE DEF step
        <5> QED
          BY <2>2, <4>1 DEF Iterates
      <4>3. g[i - 1] \in Z
        BY <2>2, <4>1
      <4> HIDE DEF Z
      <4> QED
        BY <4>2, <4>3
    <3>2. g[0] = <<>>
      <4>1. 0 \in 0 .. n
        OBVIOUS
      <4> HIDE DEF step
      <4> QED
        BY <2>2, <4>1 DEF Iterates
    <3>3. ASSUME NEW i \in 1 .. n
          PROVE  g[i] = IF i = 1 THEN seqs[i] ELSE h[i - 1] \o seqs[i]
      <4>1. CASE i = 1
        <5>1. g[i] = g[0] \o seqs[i]
          BY <3>1, <4>1
        <5> QED
          BY <1>1, <3>2, <4>1, <5>1
      <4>2. CASE i # 1
        <5>1. i - 1 \in 1 .. n
          BY <4>2
        <5>2. h[i - 1] = g[i - 1]
          BY <5>1
        <5> QED
          BY <3>1, <4>2, <5>2
      <4> QED
        BY <4>1, <4>2
    <3> QED
      BY <3>3
  <2>4. Is(all)
    <3> HIDE DEF Is
    <3> QED
      BY <2>3
  <2>5. /\ all[1] = seqs[1]
        /\ \A i \in 1 .. n : i # 1 => all[i] = all[i - 1] \o seqs[i]
    <3>1. 1 \in 1 .. n
      BY <1>4
    <3> HIDE DEF all
    <3> QED
      BY <2>4, <3>1
  <2> HIDE DEF all
  <2> DEFINE T == {i \in 0 .. n : i = 0 \/ all[i] \in Z}
  <2>6. 0 \in T
    OBVIOUS
  <2>7. ASSUME NEW i \in 1 .. n, i - 1 \in T PROVE i \in T
    <3>1. CASE i = 1
      <4>1. seqs[1] \in Z
        BY <3>1
      <4> QED
        BY <2>5, <3>1, <4>1
    <3>2. CASE i # 1
      <4>1. all[i - 1] \in Z
        BY <2>7, <3>2
      <4>2. all[i] \in Z
        BY <1>1, <2>5, <3>2, <4>1
      <4> QED
        BY <4>2
    <3> QED
      BY <3>1, <3>2
  <2> HIDE DEF T
  <2>8. n \in T
    <3>1. \A i \in 0 .. n : i \in T
      BY <2>6, <2>7, UpTo
    <3> QED
      BY <3>1
  <2>9. all[n] \in Z
    BY <1>4, <2>8 DEF T
  <2>10. FlattenSeq(seqs) = all[n]
    <3> HIDE DEF Z
    <3> QED
      BY <1>2, <1>4 DEF FlattenSeq, all
  <2> QED
    BY <2>9, <2>10
<1> QED
  BY <1>3, <1>4

LEMMA LitRow ==
  ASSUME NEW i \in Nat \ {0}, NEW width, NEW k, k = m_selected_index
  PROVE  Lit(RowPicture(i, width), k)
<1> DEFINE a == IF i # m_selected_index THEN <<>>
                ELSE << Rect(10, RowTop(i), width - 20, 30, Highlight) >>
           label == IF m_entries[i].is_directory THEN "[DIR]" ELSE "[FILE]"
           b == DrawText(20, RowTop(i) + 10, << label, m_entries[i].name >>,
                         Color("grey", Opaque))
<1>1. Lit(a, k)
  <2>1. CASE i # m_selected_index
    <3>1. <<>> \in Seq({}) /\ Len(<<>>) = 0
      BY EmptySeq
    <3>2. \A j \in 1 .. Len(<<>>) : Bar(<<>>[j], k)
      BY <3>1
    <3> QED
      BY <2>1, <3>1, <3>2, LitIn
  <2>2. CASE i = m_selected_index
    <3>1. Bar(Rect(10, RowTop(i), width - 20, 30, Highlight), k)
      BY <2>2 DEF Bar, Rect
    <3> QED
      BY <2>2, <3>1, LitOne
  <2> QED
    BY <2>1, <2>2
<1>2. Color("grey", Opaque) # Highlight
  <2>1. Color("grey", Opaque).name = "grey" /\ Highlight.name = "highlight"
    BY DEF Color, Highlight
  <2> QED
    BY <2>1
<1>3. Lit(b, k)
  BY <1>2, LitText
<1>4. RowPicture(i, width) = a \o b
  BY DEF RowPicture
<1> HIDE DEF a, b
<1> QED
  BY <1>1, <1>3, <1>4, LitConcat

LEMMA LitRows ==
  ASSUME m_entries \in Seq(Entry), NEW width, NEW k, k = m_selected_index
  PROVE  Lit(FlattenSeq([i \in DOMAIN m_entries |-> RowPicture(i, width)]), k)
<1> DEFINE n == Len(m_entries)
           rows == [i \in DOMAIN m_entries |-> RowPicture(i, width)]
           S == UNION {Range(RowPicture(i, width)) : i \in 1 .. n}
<1>1. n \in Nat /\ DOMAIN m_entries = 1 .. n
  BY LenProperties
<1>2. ASSUME NEW i \in 1 .. n
      PROVE  Lit(RowPicture(i, width), k)
  BY LitRow
<1>3. ASSUME NEW i \in 1 .. n PROVE RowPicture(i, width) \in Seq(S)
  <2>1. RowPicture(i, width) \in Seq(Range(RowPicture(i, width)))
    BY <1>2 DEF Lit
  <2>2. Range(RowPicture(i, width)) \subseteq S
    OBVIOUS
  <2> HIDE DEF S
  <2> QED
    BY <2>1, <2>2, SeqMonotonic
<1>4. \A call \in S : Bar(call, k)
  BY <1>2 DEF Lit
<1> HIDE DEF n, S
<1>5. rows \in [1 .. n -> Seq(S)]
  BY <1>1, <1>3
<1> HIDE DEF rows
<1>6. FlattenSeq(rows) \in Seq(S)
  BY <1>1, <1>5, FlattenIs
<1>7. \A i \in 1 .. Len(FlattenSeq(rows)) : Bar(FlattenSeq(rows)[i], k)
  BY <1>4, <1>6, ElementOfSeq
<1>8. Lit(FlattenSeq(rows), k)
  BY <1>6, <1>7, LitIn
<1> QED
  BY <1>8 DEF rows

LEMMA OtherColors ==
  \A name \in {"panel", "bar", "button", "top", "bottom", "white", "grey",
               "status", "dim"} : Color(name, Opaque) # Highlight
<1> SUFFICES ASSUME NEW name \in {"panel", "bar", "button", "top", "bottom", "white",
                                  "grey", "status", "dim"}
             PROVE  Color(name, Opaque) # Highlight
  OBVIOUS
<1>1. Color(name, Opaque).name = name /\ Highlight.name = "highlight"
  BY DEF Color, Highlight
<1>2. name # "highlight"
  OBVIOUS
<1> QED
  BY <1>1, <1>2

LEMMA PlainRect ==
  ASSUME NEW x, NEW y, NEW width, NEW height, NEW color, NEW k, color # Highlight
  PROVE  Bar(Rect(x, y, width, height, color), k)
BY DEF Bar, Rect

LEMMA LitPicture ==
  ASSUME m_entries \in Seq(Entry), NEW width, NEW height, NEW k,
         k = m_selected_index
  PROVE  Lit(Picture(width, height), k)
<1> DEFINE panel == << Rect(0, 0, width, height, Color("panel", Opaque)) >>
           bar == << Rect(0, 0, width, 30, Color("bar", Opaque)) >>
           title == DrawText(10, 10, << "File Explorer - ", m_current_path >>, White)
           up == DrawButton(10, 40, 40, 30, << "U", "p" >>)
           rows == FlattenSeq([i \in DOMAIN m_entries |-> RowPicture(i, width)])
           status == << Rect(0, height - 20, width, 20, Color("status", Opaque)) >>
           items == DrawText(10, height - 15, << "Items: ", Len(m_entries) >>,
                             Color("dim", Opaque))
<1>1. Lit(panel, k) /\ Lit(bar, k) /\ Lit(status, k)
  BY OtherColors, PlainRect, LitOne
<1>2. White # Highlight
  BY OtherColors DEF White
<1>3. Lit(title, k) /\ Lit(items, k)
  BY <1>2, OtherColors, LitText
<1>4. Lit(up, k)
  <2> DEFINE r1 == Rect(10, 40, 40, 30, Color("button", Opaque))
             r2 == Rect(10, 40, 40, 2, Color("top", Opaque))
             r3 == Rect(10, 40 + 30 - 2, 40, 2, Color("bottom", Opaque))
             label == DrawText(10 + 10, 40 + (30 \div 2) - 4, << "U", "p" >>, White)
  <2>1. Bar(r1, k) /\ Bar(r2, k) /\ Bar(r3, k)
    BY OtherColors, PlainRect
  <2>2. Lit(label, k)
    BY <1>2, LitText
  <2>3. up = << r1, r2, r3 >> \o label
    BY DEF DrawButton
  <2> HIDE DEF r1, r2, r3, label
  <2>4. << r1, r2, r3 >> \in Seq({r1, r2, r3}) /\ Len(<< r1, r2, r3 >>) = 3
    OBVIOUS
  <2>5. \A i \in 1 .. 3 : Bar(<< r1, r2, r3 >>[i], k)
    BY <2>1
  <2>6. Lit(<< r1, r2, r3 >>, k)
    BY <2>4, <2>5, LitIn
  <2> HIDE DEF up
  <2> QED
    BY <2>2, <2>3, <2>6, LitConcat
<1>5. Lit(rows, k)
  BY LitRows
<1>6. Picture(width, height)
        = panel \o bar \o title \o up \o rows \o status \o items
  BY DEF Picture, DrawPanel
<1> HIDE DEF panel, bar, title, up, rows, status, items
<1>7. Lit(panel \o bar \o title \o up \o rows \o status \o items, k)
  <2>1. Lit(panel \o bar, k)
    BY <1>1, LitConcat
  <2>2. Lit(panel \o bar \o title, k)
    BY <1>3, <2>1, LitConcat
  <2>3. Lit(panel \o bar \o title \o up, k)
    BY <1>4, <2>2, LitConcat
  <2>4. Lit(panel \o bar \o title \o up \o rows, k)
    BY <1>5, <2>3, LitConcat
  <2>5. Lit(panel \o bar \o title \o up \o rows \o status, k)
    BY <1>1, <2>4, LitConcat
  <2> QED
    BY <1>3, <2>5, LitConcat
<1> QED
  BY <1>6, <1>7

\* A click on any line of the bar of a row is a click on that row.
LEMMA RowAtTop ==
  ASSUME NEW k \in Nat \ {0}, NEW y \in RowTop(k) .. RowTop(k) + 29
  PROVE  RowAt(y) = k
BY DEF RowAt, RowTop

\* RowsBelong: the rows are those of one directory, sorted, and clicked where
\* they are drawn, whatever the others do to the tree while they are listed.
THEOREM RowsAreOfOneDirectory == Spec => []RowsBelong
<1>1. ExplorerInv => RowsBelong
  <2> SUFFICES ASSUME ExplorerInv, xpc \in {"idle", "stat"}
               PROVE  RowsBelong
    BY DEF RowsBelong
  <2>1. Listed /\ ViewInv /\ OrderedInv /\ m_entries \in Seq(Entry)
    BY DEF Listed, ExplorerInv, ViewInv, TypeOK, Entry
  <2>2. ASSUME NEW i \in 1 .. Len(m_entries)
        PROVE  /\ Parent(m_entries[i].full_path) = m_current_path
               /\ Filename(m_entries[i].full_path) = m_entries[i].name
    BY <2>1, RowsSettled
  <2>3. ASSUME NEW i \in 1 .. Len(m_entries), NEW j \in 1 .. Len(m_entries), i < j
        PROVE  \/ m_entries[i].is_directory /\ ~m_entries[j].is_directory
               \/ /\ m_entries[i].is_directory = m_entries[j].is_directory
                  /\ \E k, l \in 1 .. Len(NameOrder) :
                       /\ k < l
                       /\ NameOrder[k] = m_entries[i].name
                       /\ NameOrder[l] = m_entries[j].name
    <3>1. \/ m_entries[i].is_directory /\ ~m_entries[j].is_directory
          \/ /\ m_entries[i].is_directory = m_entries[j].is_directory
             /\ Before(m_entries[i].name, m_entries[j].name)
      BY <2>1, <2>3 DEF OrderedInv
    <3>2. CASE m_entries[i].is_directory /\ ~m_entries[j].is_directory
      BY <3>2
    <3>3. CASE /\ m_entries[i].is_directory = m_entries[j].is_directory
               /\ Before(m_entries[i].name, m_entries[j].name)
      BY <3>3 DEF Before
    <3> QED
      BY <3>1, <3>2, <3>3
  <2>4. ASSUME NEW call \in Range(Picture(700, 500)), call.color = Highlight,
               NEW y \in call.y .. call.y + call.height - 1
        PROVE  RowAt(y) = m_selected_index
    <3> DEFINE k == m_selected_index
    <3>1. Lit(Picture(700, 500), k)
      BY <2>1, LitPicture
    <3> HIDE DEF k
    <3>2. k \in Nat \ {0} /\ call.y = RowTop(k) /\ call.height = 30
      BY <2>4, <3>1 DEF Lit, Bar
    <3>3. y \in RowTop(k) .. RowTop(k) + 29
      <4>1. RowTop(k) \in Int
        BY <3>2 DEF RowTop
      <4> QED
        BY <2>4, <3>2, <4>1
    <3>4. RowAt(y) = k
      BY <3>2, <3>3, RowAtTop
    <3> QED
      BY <3>4 DEF k
  <2> QED
    BY <2>2, <2>3, <2>4 DEF RowsBelong
<1> QED
  BY <1>1, ExplorerInvariance, PTL
=============================================================================
