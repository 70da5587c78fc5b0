-------------------------- MODULE Compositor_proofs --------------------------
(***************************************************************************)
(* For a display and surfaces of any size, any drawings and windows        *)
(* anywhere within reach of the display: the index arithmetic of           *)
(* blend_surface(), every pixel of a frame, and the target of a click.     *)
(***************************************************************************)
EXTENDS Compositor, WindowManager_proofs, SequenceTheorems

-----------------------------------------------------------------------------
(* Loops over the first n numbers *)

\* What holds at 0 and goes from each number to the next holds at all of them;
\* the property is the set of the numbers that have it.
LEMMA UpTo ==
  ASSUME NEW n \in Nat, NEW T, 0 \in T,
         \A i \in 1 .. n : i - 1 \in T => i \in T
  PROVE  \A i \in 0 .. n : i \in T
<1> DEFINE B == {i \in 0 .. n : i \notin T}
<1>1. SUFFICES ASSUME B # {} PROVE FALSE
  OBVIOUS
<1>2. B \subseteq Nat
  OBVIOUS
<1>3. PICK x \in B : \A y \in B : ~(<<y, x>> \in OpToRel(<, Nat))
  BY <1>1, <1>2, NatLessThanWellFounded, WFMin
<1>4. \A y \in B : ~(y < x)
  BY <1>2, <1>3 DEF OpToRel
<1>5. x \in 1 .. n /\ x - 1 \in 0 .. n /\ x - 1 < x
  OBVIOUS
<1>6. x - 1 \in T
  BY <1>4, <1>5
<1> QED
  BY <1>5, <1>6

\* What a loop computes, iteration by iteration.
Iterates(f, n, base, step) ==
  f = [i \in 0 .. n |-> IF i = 0 THEN base ELSE step[<<f[i - 1], i>>]]

\* A loop whose step stays in S computes something, and stays in S.
LEMMA LoopExists ==
  ASSUME NEW n \in Nat, NEW S, NEW base \in S, NEW step \in [S \X (1 .. n) -> S]
  PROVE  \E f \in [0 .. n -> S] : Iterates(f, n, base, step)
<1> DEFINE T == {k \in 0 .. n : \E f \in [0 .. k -> S] : Iterates(f, k, base, step)}
<1>1. 0 \in T
  <2> DEFINE f == [i \in 0 .. 0 |-> base]
  <2>1. f \in [0 .. 0 -> S]
    OBVIOUS
  <2>2. f = [i \in 0 .. 0 |-> IF i = 0 THEN base ELSE step[<<f[i - 1], i>>]]
    OBVIOUS
  <2> HIDE DEF f
  <2> QED
    BY <2>1, <2>2 DEF Iterates
<1>2. ASSUME NEW k \in 1 .. n, k - 1 \in T PROVE k \in T
  <2>1. PICK f \in [0 .. k - 1 -> S] : Iterates(f, k - 1, base, step)
    BY <1>2
  <2>2. /\ \A i \in 0 .. k - 1 : f[i] = IF i = 0 THEN base ELSE step[<<f[i - 1], i>>]
    BY <2>1 DEF Iterates
  <2> DEFINE g == [i \in 0 .. k |-> IF i = k THEN step[<<f[k - 1], k>>] ELSE f[i]]
  <2>3. f[k - 1] \in S /\ step[<<f[k - 1], k>>] \in S /\ k # 0 /\ k \in Nat
    OBVIOUS
  <2>4. \A i \in 0 .. k : i # k => i \in 0 .. k - 1
    OBVIOUS
  <2>5. g \in [0 .. k -> S]
    BY <2>3, <2>4
  <2>6. ASSUME NEW i \in 0 .. k
        PROVE  g[i] = IF i = 0 THEN base ELSE step[<<g[i - 1], i>>]
    <3>1. CASE i = k
      <4>1. k - 1 \in 0 .. k /\ k - 1 # k
        BY <2>3
      <4> QED
        BY <2>3, <3>1, <4>1
    <3>2. CASE i # k
      <4>1. i \in 0 .. k - 1 /\ (i # 0 => i - 1 \in 0 .. k /\ i - 1 # k)
        BY <3>2
      <4> QED
        BY <2>2, <3>2, <4>1
    <3> QED
      BY <3>1, <3>2
  <2>7. g = [i \in 0 .. k |-> IF i = 0 THEN base ELSE step[<<g[i - 1], i>>]]
    <3>1. g = [i \in 0 .. k |-> g[i]]
      OBVIOUS
    <3> HIDE DEF g
    <3> QED
      BY <2>6, <3>1
  <2>8. Iterates(g, k, base, step)
    <3> HIDE DEF g
    <3> QED
      BY <2>7 DEF Iterates
  <2>9. k \in 0 .. n
    OBVIOUS
  <2>10. \E h \in [0 .. k -> S] : Iterates(h, k, base, step)
    <3> HIDE DEF g
    <3> QED
      BY <2>5, <2>8
  <2> QED
    BY <2>9, <2>10
<1>3. n \in T
  <2> HIDE DEF T
  <2>1. \A i \in 0 .. n : i \in T
    BY <1>1, <1>2, UpTo
  <2> QED
    BY <2>1
<1> QED
  BY <1>3

-----------------------------------------------------------------------------
(* Arithmetic *)

\* The rows of a buffer of w by h pixels come one after the other.
LEMMA RowInBuffer ==
  ASSUME NEW w \in Nat, NEW h \in Nat, NEW y \in Int, 0 <= y, y < h
  PROVE  0 <= y * w /\ y * w + w <= w * h
<1>1. PICK d \in Nat : h = y + 1 + d
  <2>1. h - y - 1 \in Nat /\ h = y + 1 + (h - y - 1)
    OBVIOUS
  <2> QED
    BY <2>1
<1>2. w * h = y * w + w + d * w
  BY <1>1
<1>3. d * w >= 0 /\ y * w >= 0
  OBVIOUS
<1> QED
  BY <1>2, <1>3

\* A stretch of a row that ends inside the row ends inside the buffer.
LEMMA StretchInBuffer ==
  ASSUME NEW w \in Nat, NEW h \in Nat, NEW y \in Int, 0 <= y, y < h,
         NEW x \in Int, NEW n \in Int, 0 <= x, x + n <= w
  PROVE  0 <= y * w + x /\ y * w + x + n <= w * h
<1>1. 0 <= y * w /\ y * w + w <= w * h
  BY RowInBuffer
<1>2. PICK row \in Int : row = y * w
  OBVIOUS
<1>3. PICK all \in Int : all = w * h
  OBVIOUS
<1> QED
  BY <1>1, <1>2, <1>3

-----------------------------------------------------------------------------
(* blend_surface() *)

\* What is clipped lies inside the display and inside the surface, and is not
\* of negative width.
LEMMA ClippedInside ==
  ASSUME NEW pos \in Int \X Int,
         NEW surface, surface.width \in Nat, surface.height \in Nat,
         pos[1] < DisplayWidth, pos[1] + surface.width > 0,
         NEW y \in Rows(pos, surface)
  PROVE  /\ y \in Int /\ 0 <= y /\ y < DisplayHeight
         /\ 0 <= y - pos[2] /\ y - pos[2] < surface.height
         /\ StartX(pos) \in Int /\ Count(pos, surface) \in Int
         /\ 0 <= Count(pos, surface)
         /\ 0 <= StartX(pos) /\ StartX(pos) + Count(pos, surface) <= DisplayWidth
         /\ 0 <= StartX(pos) - pos[1]
         /\ StartX(pos) - pos[1] + Count(pos, surface) <= surface.width
<1>1. pos[1] \in Int /\ pos[2] \in Int
  OBVIOUS
<1>2. DisplayWidth \in Nat \ {0} /\ DisplayHeight \in Nat \ {0}
  BY CompositorAssumption
<1>3. /\ y \in Int /\ 0 <= y /\ y < DisplayHeight
      /\ 0 <= y - pos[2] /\ y - pos[2] < surface.height
  BY <1>1, <1>2 DEF Rows, StartY, EndY, MaxOf, MinOf
<1> QED
  BY <1>1, <1>2, <1>3 DEF Count, StartX, EndX, MaxOf, MinOf

\* A row that is blended lies inside the framebuffer and inside the surface.
LEMMA RowIsInside ==
  ASSUME NEW pos \in Int \X Int,
         NEW surface, surface.width \in Nat, surface.height \in Nat,
         pos[1] < DisplayWidth, pos[1] + surface.width > 0,
         NEW y \in Rows(pos, surface)
  PROVE  RowFits(pos, surface, y)
<1> DEFINE count == Count(pos, surface)
           left == StartX(pos) - pos[1]
           line == y - pos[2]
<1>1. /\ y \in Int /\ 0 <= y /\ y < DisplayHeight
      /\ line \in Int /\ 0 <= line /\ line < surface.height
      /\ StartX(pos) \in Int /\ count \in Int /\ left \in Int
      /\ 0 <= count
      /\ 0 <= StartX(pos) /\ StartX(pos) + count <= DisplayWidth
      /\ 0 <= left /\ left + count <= surface.width
  BY ClippedInside
<1>2. DisplayWidth \in Nat /\ DisplayHeight \in Nat
  BY CompositorAssumption
<1>3. /\ 0 <= y * DisplayWidth + StartX(pos)
      /\ y * DisplayWidth + StartX(pos) + count <= DisplayWidth * DisplayHeight
  BY <1>1, <1>2, StretchInBuffer
<1>4. /\ 0 <= line * surface.width + left
      /\ line * surface.width + left + count <= surface.width * surface.height
  <2> HIDE DEF line, left, count
  <2> QED
    BY <1>1, StretchInBuffer
<1> QED
  BY <1>1, <1>3, <1>4 DEF RowFits, DstIdx, SrcIdx

\* Painting a surface leaves its size as it was created.
LEMMA SurfaceSize ==
  ASSUME NEW id \in DOMAIN Drawings
  PROVE  /\ SurfaceOf[id].width = Drawings[id].width
         /\ SurfaceOf[id].height = Drawings[id].height
BY DEF SurfaceOf, Paint, CreateSurface

-----------------------------------------------------------------------------
(* The theorem. *)

LEMMA InvCopies == Inv => CopiesFit
<1> SUFFICES ASSUME Inv, NEW id \in WindowIds,
                    NEW y \in Rows(m_windows[id].pos, SurfaceOf[id])
             PROVE  RowFits(m_windows[id].pos, SurfaceOf[id], y)
  BY DEF CopiesFit
<1>1. m_windows[id].pos \in Positions
  BY DEF Inv, TypeOK, WindowIds, WindowState
<1>2. id \in DOMAIN Drawings
  BY CompositorAssumption, WindowManagerAssumption
     DEF Inv, IdInv, TypeOK
<1>3. /\ SurfaceOf[id].width \in Nat /\ SurfaceOf[id].height \in Nat
      /\ m_windows[id].pos[1] < DisplayWidth
      /\ m_windows[id].pos[1] + SurfaceOf[id].width > 0
  BY <1>1, <1>2, SurfaceSize, CompositorAssumption, WindowsReachDisplay
<1>4. m_windows[id].pos \in Int \X Int
  BY <1>1, WindowManagerAssumption
<1> QED
  BY <1>3, <1>4, RowIsInside

\* After any calls and clicks, no row of any window is read or written outside
\* the buffers, and none is copied with a negative length.
THEOREM CopiesInside == Spec => []CopiesFit
<1>1. NoWrap
  BY CompositorAssumption DEF NoWrap
<1> QED
  BY <1>1, InvCopies, Invariance, PTL

-----------------------------------------------------------------------------
(* Pixels *)

CallsOf == UNION {Range(Drawings[id].calls) : id \in DOMAIN Drawings}
ColorNames == {call.color.name : call \in CallsOf}
Pixel == [mix : Seq(ColorNames), alpha : {Clear, Translucent, Opaque}]

LEMMA Alphas == Clear = 0 /\ Translucent = 1 /\ Opaque = 2
BY DEF Clear, Translucent, Opaque

\* Copying an opaque pixel and blending it are the same.
LEMMA OpaqueOver ==
  ASSUME NEW src, NEW dst, src.alpha = Opaque
  PROVE  Over(src, dst) = src
BY Alphas DEF Over

LEMMA OverIsPixel ==
  ASSUME NEW src \in Pixel, NEW dst \in Pixel
  PROVE  Over(src, dst) \in Pixel
<1>1. CASE src.alpha = Opaque
  BY <1>1, OpaqueOver
<1>2. CASE src.alpha = Translucent
  <2>1. Over(src, dst) = [mix |-> src.mix \o dst.mix,
                          alpha |-> MaxOf(dst.alpha, src.alpha)]
    BY <1>2, Alphas DEF Over
  <2>2. src.mix \o dst.mix \in Seq(ColorNames)
    BY ConcatProperties DEF Pixel
  <2>3. MaxOf(dst.alpha, src.alpha) \in {Clear, Translucent, Opaque}
    BY DEF MaxOf, Pixel
  <2> QED
    BY <2>1, <2>2, <2>3 DEF Pixel
<1>3. CASE src.alpha = Clear
  BY <1>3, Alphas DEF Over
<1> QED
  BY <1>1, <1>2, <1>3 DEF Pixel

LEMMA BlackIsPixel == Black \in Pixel
<1>1. <<>> \in Seq(ColorNames)
  BY EmptySeq
<1> QED
  BY <1>1 DEF Black, Pixel

LEMMA FillIsPixel ==
  ASSUME NEW call \in CallsOf
  PROVE  Fill(call.color) \in Pixel
<1> DEFINE name == call.color.name
<1>1. name \in ColorNames
  BY DEF ColorNames
<1>2. call.color.alpha \in {Clear, Translucent, Opaque}
  BY CompositorAssumption DEF CallsOf, IsCall
<1>3. Fill(call.color) = [mix |-> <<name>>, alpha |-> call.color.alpha]
  BY DEF Fill
<1> HIDE DEF name
<1>4. <<name>> \in Seq(ColorNames)
  BY <1>1
<1> QED
  BY <1>2, <1>3, <1>4 DEF Pixel

-----------------------------------------------------------------------------
(* The numbers of pixels *)

LEMMA NumberInBuffer ==
  ASSUME NEW w \in Nat, NEW h \in Nat, NEW i \in 0 .. w - 1, NEW j \in 0 .. h - 1
  PROVE  j * w + i \in 0 .. w * h - 1
<1>1. 0 <= j * w + i /\ j * w + i + 1 <= w * h
  BY StretchInBuffer
<1>2. PICK n \in Int : n = j * w + i
  OBVIOUS
<1>3. PICK all \in Int : all = w * h
  OBVIOUS
<1> QED
  BY <1>1, <1>2, <1>3

\* No two pixels have the same number.
LEMMA RowsApart ==
  ASSUME NEW w \in Nat, NEW i \in 0 .. w - 1, NEW k \in 0 .. w - 1,
         NEW j \in Int, NEW l \in Int, j < l
  PROVE  j * w + i < l * w + k
<1>1. PICK d \in Nat : l = j + 1 + d
  <2>1. l - j - 1 \in Nat /\ l = j + 1 + (l - j - 1)
    OBVIOUS
  <2> QED
    BY <2>1
<1>2. l * w = j * w + w + d * w
  BY <1>1
<1>3. d * w >= 0
  OBVIOUS
<1>4. PICK a \in Int, b \in Int, c \in Int : a = j * w /\ b = l * w /\ c = d * w
  OBVIOUS
<1> QED
  BY <1>2, <1>3, <1>4

LEMMA NumberOnce ==
  ASSUME NEW w \in Nat, NEW i \in 0 .. w - 1, NEW k \in 0 .. w - 1,
         NEW j \in Int, NEW l \in Int, j * w + i = l * w + k
  PROVE  j = l /\ i = k
<1>1. j = l
  <2>1. ~(j < l)
    <3> SUFFICES ASSUME j < l PROVE FALSE
      OBVIOUS
    <3>1. j * w + i < l * w + k
      BY RowsApart
    <3>2. PICK a \in Int : a = l * w + k
      OBVIOUS
    <3> QED
      BY <3>1, <3>2
  <2>2. ~(l < j)
    <3> SUFFICES ASSUME l < j PROVE FALSE
      OBVIOUS
    <3>1. l * w + k < j * w + i
      BY RowsApart
    <3>2. PICK a \in Int : a = l * w + k
      OBVIOUS
    <3> QED
      BY <3>1, <3>2
  <2> QED
    BY <2>1, <2>2
<1>2. PICK a \in Int : a = j * w /\ a = l * w
  BY <1>1
<1> QED
  BY <1>1, <1>2

-----------------------------------------------------------------------------
(* Drawing *)

Surfaces(w, h) == [width : {w}, height : {h}, pixels : [0 .. w * h - 1 -> Pixel]]

\* What draw_rect() does to the pixel in column i of row j.
LEMMA DrawRectIs ==
  ASSUME NEW w \in Nat, NEW h \in Nat, NEW s \in Surfaces(w, h),
         NEW call \in CallsOf, call.op = "rect",
         NEW i \in 0 .. w - 1, NEW j \in 0 .. h - 1
  PROVE  DrawRect(s, call).pixels[j * w + i]
           = IF Touches(call, <<i, j>>) THEN Over(Fill(call.color), s.pixels[j * w + i])
             ELSE s.pixels[j * w + i]
<1> DEFINE startX == MaxOf(0, call.x)
           startY == MaxOf(0, call.y)
           endX == MinOf(w, call.x + call.width)
           endY == MinOf(h, call.y + call.height)
           idx == {row * w + col : row \in startY .. endY - 1,
                                   col \in startX .. endX - 1}
           n == j * w + i
<1>1. s.width = w /\ s.height = h /\ DOMAIN s.pixels = 0 .. w * h - 1
  BY DEF Surfaces
<1>2. /\ call.x \in Int /\ call.y \in Int /\ call.width \in Nat /\ call.height \in Nat
  BY CompositorAssumption DEF CallsOf, IsCall
<1>3. n \in 0 .. w * h - 1
  BY NumberInBuffer
<1>4. DrawRect(s, call).pixels
        = [m \in DOMAIN s.pixels |-> IF m \in idx THEN Over(Fill(call.color), s.pixels[m])
                                     ELSE s.pixels[m]]
  BY <1>1 DEF DrawRect, Surfaces
<1>5. startX .. endX - 1 \subseteq 0 .. w - 1 /\ startY .. endY - 1 \subseteq Int
  BY <1>2 DEF MaxOf, MinOf
<1>6. i \in startX .. endX - 1 /\ j \in startY .. endY - 1
        <=> Touches(call, <<i, j>>)
  BY <1>2 DEF MaxOf, MinOf, Touches
<1> HIDE DEF startX, startY, endX, endY
<1>7. n \in idx <=> Touches(call, <<i, j>>)
  <2>1. ASSUME n \in idx PROVE Touches(call, <<i, j>>)
    <3>1. PICK row \in startY .. endY - 1, col \in startX .. endX - 1 :
            j * w + i = row * w + col
      BY <2>1
    <3>2. j = row /\ i = col
      BY <1>5, <3>1, NumberOnce
    <3> QED
      BY <1>6, <3>1, <3>2
  <2> QED
    BY <1>6, <2>1
<1> HIDE DEF idx, n
<1> QED
  BY <1>1, <1>3, <1>4, <1>7 DEF n

\* The same of draw_char().
LEMMA DrawCharIs ==
  ASSUME NEW w \in Nat, NEW h \in Nat, NEW s \in Surfaces(w, h),
         NEW call \in CallsOf, call.op # "rect",
         NEW i \in 0 .. w - 1, NEW j \in 0 .. h - 1
  PROVE  DrawChar(s, call).pixels[j * w + i]
           = IF Touches(call, <<i, j>>) THEN Fill(call.color)
             ELSE s.pixels[j * w + i]
<1> DEFINE lit == IF call.char \in DOMAIN Font THEN Font[call.char] ELSE {}
           inside == {p \in {<<call.x + q[1], call.y + q[2]>> : q \in lit} :
                        /\ 0 <= p[1] /\ p[1] < w
                        /\ 0 <= p[2] /\ p[2] < h}
           idx == {p[2] * w + p[1] : p \in inside}
           n == j * w + i
<1>1. s.width = w /\ s.height = h /\ DOMAIN s.pixels = 0 .. w * h - 1
  BY DEF Surfaces
<1>2. call.x \in Int /\ call.y \in Int
  BY CompositorAssumption DEF CallsOf, IsCall
<1>3. n \in 0 .. w * h - 1
  BY NumberInBuffer
<1>4. DrawChar(s, call).pixels
        = [m \in DOMAIN s.pixels |-> IF m \in idx THEN Fill(call.color)
                                     ELSE s.pixels[m]]
  BY <1>1 DEF DrawChar, Surfaces
<1>5. lit \subseteq Int \X Int
  BY FontAssumption
<1>6. \A p \in inside : p[1] \in 0 .. w - 1 /\ p[2] \in Int /\ p = <<p[1], p[2]>>
  BY <1>2, <1>5
<1>7. <<i, j>> \in inside <=> Touches(call, <<i, j>>)
  <2>1. ASSUME <<i, j>> \in inside PROVE Touches(call, <<i, j>>)
    <3>1. PICK q \in lit : <<i, j>> = <<call.x + q[1], call.y + q[2]>>
      BY <2>1
    <3>2. i = call.x + q[1] /\ j = call.y + q[2] /\ q \in Int \X Int
      BY <1>5, <3>1
    <3>3. q = <<i - call.x, j - call.y>>
      BY <1>2, <3>2
    <3>4. call.char \in DOMAIN Font /\ q \in Font[call.char]
      BY <3>1
    <3> QED
      BY <3>3, <3>4 DEF Touches
  <2>2. ASSUME Touches(call, <<i, j>>) PROVE <<i, j>> \in inside
    <3> DEFINE q == <<i - call.x, j - call.y>>
    <3>1. q \in lit
      BY <2>2 DEF Touches
    <3>2. <<i, j>> = <<call.x + q[1], call.y + q[2]>>
      BY <1>2
    <3>3. 0 <= i /\ i < w /\ 0 <= j /\ j < h
      OBVIOUS
    <3> HIDE DEF q, lit
    <3> QED
      BY <3>1, <3>2, <3>3
  <2> QED
    BY <2>1, <2>2
<1> HIDE DEF inside, lit
<1>8. n \in idx <=> Touches(call, <<i, j>>)
  <2>1. ASSUME n \in idx PROVE <<i, j>> \in inside
    <3>1. PICK p \in inside : j * w + i = p[2] * w + p[1]
      BY <2>1
    <3>2. j = p[2] /\ i = p[1]
      BY <1>6, <3>1, NumberOnce
    <3> QED
      BY <1>6, <3>1, <3>2
  <2>2. ASSUME <<i, j>> \in inside PROVE n \in idx
    <3>1. <<i, j>>[2] * w + <<i, j>>[1] = n
      OBVIOUS
    <3> HIDE DEF n
    <3> QED
      BY <2>2, <3>1
  <2> QED
    BY <1>7, <2>1, <2>2
<1> HIDE DEF idx, n
<1> QED
  BY <1>1, <1>3, <1>4, <1>8 DEF n

LEMMA DrawCallIs ==
  ASSUME NEW w \in Nat, NEW h \in Nat, NEW s \in Surfaces(w, h), NEW call \in CallsOf
  PROVE  /\ DrawCall(s, call) \in Surfaces(w, h)
         /\ \A i \in 0 .. w - 1, j \in 0 .. h - 1 :
              DrawCall(s, call).pixels[j * w + i]
                = IF ~Touches(call, <<i, j>>) THEN s.pixels[j * w + i]
                  ELSE IF call.op = "rect"
                    THEN Over(Fill(call.color), s.pixels[j * w + i])
                  ELSE Fill(call.color)
<1>1. Fill(call.color) \in Pixel
  BY FillIsPixel
<1>2. \A m \in 0 .. w * h - 1 : s.pixels[m] \in Pixel
  BY DEF Surfaces
<1>3. \A m \in 0 .. w * h - 1 : Over(Fill(call.color), s.pixels[m]) \in Pixel
  BY <1>1, <1>2, OverIsPixel
<1>4. DrawRect(s, call) \in Surfaces(w, h)
  <2> DEFINE idx == {row * s.width + col :
                row \in MaxOf(0, call.y) .. MinOf(s.height, call.y + call.height) - 1,
                col \in MaxOf(0, call.x) .. MinOf(s.width, call.x + call.width) - 1}
             pixels == [m \in DOMAIN s.pixels |->
               IF m \in idx THEN Over(Fill(call.color), s.pixels[m]) ELSE s.pixels[m]]
  <2>1. DrawRect(s, call) = [s EXCEPT !.pixels = pixels]
    BY DEF DrawRect
  <2> HIDE DEF idx
  <2>2. DOMAIN s.pixels = 0 .. w * h - 1
    BY DEF Surfaces
  <2>3. pixels \in [0 .. w * h - 1 -> Pixel]
    BY <1>2, <1>3, <2>2
  <2> HIDE DEF pixels
  <2> QED
    BY <2>1, <2>3 DEF Surfaces
<1>5. DrawChar(s, call) \in Surfaces(w, h)
  BY <1>1, <1>2 DEF DrawChar, Surfaces
<1>6. DrawCall(s, call) \in Surfaces(w, h)
  BY <1>4, <1>5 DEF DrawCall
<1>7. ASSUME NEW i \in 0 .. w - 1, NEW j \in 0 .. h - 1
      PROVE  DrawCall(s, call).pixels[j * w + i]
                = IF ~Touches(call, <<i, j>>) THEN s.pixels[j * w + i]
                  ELSE IF call.op = "rect"
                    THEN Over(Fill(call.color), s.pixels[j * w + i])
                  ELSE Fill(call.color)
  <2>1. CASE call.op = "rect"
    BY <2>1, DrawRectIs DEF DrawCall
  <2>2. CASE call.op # "rect"
    BY <2>2, DrawCharIs DEF DrawCall
  <2> QED
    BY <2>1, <2>2
<1> QED
  BY <1>6, <1>7

\* draw_*() calls one after the other, on the surface create_surface() made.
LEMMA PaintLoop ==
  ASSUME NEW id \in DOMAIN Drawings
  PROVE  \E at :
           LET w == Drawings[id].width
               h == Drawings[id].height
               calls == Drawings[id].calls
           IN /\ at[0] = CreateSurface(w, h)
              /\ \A n \in 0 .. Len(calls) : at[n] \in Surfaces(w, h)
              /\ \A n \in 1 .. Len(calls) : at[n] = DrawCall(at[n - 1], calls[n])
              /\ SurfaceOf[id] = [CreateSurface(w, h) EXCEPT
                                    !.pixels = at[Len(calls)].pixels]
<1> DEFINE w == Drawings[id].width
           h == Drawings[id].height
           calls == Drawings[id].calls
           last == Len(calls)
           base == CreateSurface(w, h)
           Z == Surfaces(w, h)
           step == [x \in Z \X (1 .. last) |-> DrawCall(x[1], calls[x[2]])]
           Is(f) == f = [n \in 0 .. last |->
                           IF n = 0 THEN base ELSE DrawCall(f[n - 1], calls[n])]
           at == CHOOSE f : Is(f)
<1>1. /\ w \in Nat /\ h \in Nat /\ last \in Nat
      /\ \A n \in 1 .. last : calls[n] \in CallsOf
  <2>1. w \in Nat /\ h \in Nat /\ calls \in Seq(Range(calls))
    BY CompositorAssumption
  <2>2. last \in Nat /\ \A n \in 1 .. last : calls[n] \in Range(calls)
    BY <2>1, LenProperties, ElementOfSeq
  <2> QED
    BY <2>1, <2>2 DEF CallsOf
<1>2. base \in Z
  BY BlackIsPixel DEF CreateSurface, Surfaces
<1>3. \A s \in Z, n \in 1 .. last : DrawCall(s, calls[n]) \in Z
  <2> HIDE DEF w, h, calls, last
  <2> QED
    BY <1>1, DrawCallIs
<1>4. step \in [Z \X (1 .. last) -> Z]
  <2> HIDE DEF Z, last, calls
  <2> QED
    BY <1>3
<1>5. PICK f \in [0 .. last -> Z] : Iterates(f, last, base, step)
  <2> HIDE DEF Z, last, base, step
  <2> QED
    BY <1>1, <1>2, <1>4, LoopExists
<1>6. Is(f)
  <2>1. f = [n \in 0 .. last |-> IF n = 0 THEN base ELSE step[<<f[n - 1], n>>]]
    BY <1>5 DEF Iterates
  <2>2. ASSUME NEW n \in 0 .. last, n # 0
        PROVE  step[<<f[n - 1], n>>] = DrawCall(f[n - 1], calls[n])
    <3> HIDE DEF Z, last, calls
    <3>1. n \in 1 .. last /\ f[n - 1] \in Z
      BY <1>1, <1>5, <2>2
    <3> QED
      BY <3>1
  <2>3. f = [n \in 0 .. last |-> IF n = 0 THEN base ELSE DrawCall(f[n - 1], calls[n])]
    <3> HIDE DEF Z, last, step, base, calls
    <3> QED
      BY <2>1, <2>2
  <2> QED
    BY <2>3
<1>7. Is(at)
  <2> HIDE DEF Is
  <2> QED
    BY <1>6
<1>8. at[0] = base /\ \A n \in 1 .. last : at[n] = DrawCall(at[n - 1], calls[n])
  <2>1. at = [n \in 0 .. last |-> IF n = 0 THEN base ELSE DrawCall(at[n - 1], calls[n])]
    <3> HIDE DEF at, last, base, calls
    <3> QED
      BY <1>7
  <2> HIDE DEF at, last, base, calls
  <2>2. 0 \in 0 .. last /\ \A n \in 1 .. last : n \in 0 .. last /\ n # 0
    BY <1>1
  <2> QED
    BY <2>1, <2>2
<1>9. \A n \in 0 .. last : at[n] \in Z
  <2> DEFINE T == {n \in 0 .. last : at[n] \in Z}
  <2> HIDE DEF at, last, base, calls, Z
  <2>1. 0 \in T
    BY <1>1, <1>2, <1>8
  <2>2. ASSUME NEW n \in 1 .. last, n - 1 \in T PROVE n \in T
    BY <1>3, <1>8, <2>2
  <2> HIDE DEF T
  <2>3. \A n \in 0 .. last : n \in T
    BY <1>1, <2>1, <2>2, UpTo
  <2> QED
    BY <2>3 DEF T
<1>10. SurfaceOf[id] = [base EXCEPT !.pixels = at[last].pixels]
  BY DEF SurfaceOf, Paint
<1> HIDE DEF at
<1> QED
  BY <1>8, <1>9, <1>10

\* The calls over a pixel, one after the other.
LEMMA DrawnLoop ==
  ASSUME NEW id \in DOMAIN Drawings, NEW p
  PROVE  \E over :
           LET calls == Drawings[id].calls
           IN /\ over[0] = Black
              /\ \A n \in 0 .. Len(calls) : over[n] \in Pixel
              /\ \A n \in 1 .. Len(calls) :
                   over[n] = IF ~Touches(calls[n], p) THEN over[n - 1]
                             ELSE IF calls[n].op = "rect"
                               THEN Over(Fill(calls[n].color), over[n - 1])
                             ELSE Fill(calls[n].color)
              /\ Drawn(Drawings[id], p) = over[Len(calls)]
<1> DEFINE calls == Drawings[id].calls
           last == Len(calls)
           Do(x, n) == IF ~Touches(calls[n], p) THEN x
                       ELSE IF calls[n].op = "rect"
                         THEN Over(Fill(calls[n].color), x)
                       ELSE Fill(calls[n].color)
           step == [x \in Pixel \X (1 .. last) |-> Do(x[1], x[2])]
           Is(f) == f = [n \in 0 .. last |-> IF n = 0 THEN Black
                           ELSE IF ~Touches(calls[n], p) THEN f[n - 1]
                           ELSE IF calls[n].op = "rect"
                             THEN Over(Fill(calls[n].color), f[n - 1])
                           ELSE Fill(calls[n].color)]
           over == CHOOSE f : Is(f)
<1>1. last \in Nat /\ \A n \in 1 .. last : calls[n] \in CallsOf
  <2>1. calls \in Seq(Range(calls))
    BY CompositorAssumption
  <2>2. last \in Nat /\ \A n \in 1 .. last : calls[n] \in Range(calls)
    BY <2>1, LenProperties, ElementOfSeq
  <2> QED
    BY <2>1, <2>2 DEF CallsOf
<1>2. Black \in Pixel
  BY BlackIsPixel
<1>3. ASSUME NEW x \in Pixel, NEW n \in 1 .. last PROVE Do(x, n) \in Pixel
  <2>1. Fill(calls[n].color) \in Pixel
    <3> HIDE DEF calls, last
    <3> QED
      BY <1>1, FillIsPixel
  <2>2. Over(Fill(calls[n].color), x) \in Pixel
    BY <2>1, OverIsPixel
  <2> HIDE DEF calls
  <2> QED
    BY <2>1, <2>2
<1>4. step \in [Pixel \X (1 .. last) -> Pixel]
  <2> HIDE DEF last, Do
  <2> QED
    BY <1>3
<1>5. PICK f \in [0 .. last -> Pixel] : Iterates(f, last, Black, step)
  <2> HIDE DEF last, step
  <2> QED
    BY <1>1, <1>2, <1>4, LoopExists
<1>6. Is(f)
  <2>1. f = [n \in 0 .. last |-> IF n = 0 THEN Black ELSE step[<<f[n - 1], n>>]]
    BY <1>5 DEF Iterates
  <2>2. ASSUME NEW n \in 0 .. last, n # 0
        PROVE  step[<<f[n - 1], n>>] = Do(f[n - 1], n)
    <3>1. n \in 1 .. last /\ f[n - 1] \in Pixel
      BY <1>1, <1>5, <2>2
    <3> HIDE DEF last, Do
    <3> QED
      BY <3>1
  <2>3. f = [n \in 0 .. last |-> IF n = 0 THEN Black ELSE Do(f[n - 1], n)]
    <3> HIDE DEF last, step, Do
    <3> QED
      BY <2>1, <2>2
  <2> QED
    BY <2>3
<1>7. Is(over)
  <2> HIDE DEF Is
  <2> QED
    BY <1>6
<1>8. over[0] = Black /\ \A n \in 1 .. last : over[n] = Do(over[n - 1], n)
  <2>1. over = [n \in 0 .. last |-> IF n = 0 THEN Black ELSE Do(over[n - 1], n)]
    <3> HIDE DEF over, last, calls
    <3> QED
      BY <1>7
  <2> HIDE DEF over, last, Do
  <2>2. 0 \in 0 .. last /\ \A n \in 1 .. last : n \in 0 .. last /\ n # 0
    BY <1>1
  <2> QED
    BY <2>1, <2>2
<1>9. \A n \in 0 .. last : over[n] \in Pixel
  <2> DEFINE T == {n \in 0 .. last : over[n] \in Pixel}
  <2> HIDE DEF over, last, Do
  <2>1. 0 \in T
    BY <1>1, <1>2, <1>8
  <2>2. ASSUME NEW n \in 1 .. last, n - 1 \in T PROVE n \in T
    BY <1>3, <1>8, <2>2
  <2> HIDE DEF T
  <2>3. \A n \in 0 .. last : n \in T
    BY <1>1, <2>1, <2>2, UpTo
  <2> QED
    BY <2>3 DEF T
<1>10. Drawn(Drawings[id], p) = over[last]
  BY DEF Drawn
<1> HIDE DEF over
<1> QED
  BY <1>8, <1>9, <1>10

\* Every pixel of a surface is what the calls drew there.
LEMMA PaintIs ==
  ASSUME NEW id \in DOMAIN Drawings
  PROVE  /\ SurfaceOf[id] \in Surfaces(Drawings[id].width, Drawings[id].height)
         /\ \A i \in 0 .. Drawings[id].width - 1, j \in 0 .. Drawings[id].height - 1 :
              /\ DrawnPixels[id][<<i, j>>] \in Pixel
              /\ SurfaceOf[id].pixels[j * Drawings[id].width + i]
                   = DrawnPixels[id][<<i, j>>]
<1> DEFINE w == Drawings[id].width
           h == Drawings[id].height
           calls == Drawings[id].calls
           last == Len(calls)
<1>1. w \in Nat /\ h \in Nat /\ last \in Nat
      /\ \A n \in 1 .. last : calls[n] \in CallsOf
  <2>1. w \in Nat /\ h \in Nat /\ calls \in Seq(Range(calls))
    BY CompositorAssumption
  <2>2. last \in Nat /\ \A n \in 1 .. last : calls[n] \in Range(calls)
    BY <2>1, LenProperties, ElementOfSeq
  <2> QED
    BY <2>1, <2>2 DEF CallsOf
<1>2. PICK at :
        /\ at[0] = CreateSurface(w, h)
        /\ \A n \in 0 .. last : at[n] \in Surfaces(w, h)
        /\ \A n \in 1 .. last : at[n] = DrawCall(at[n - 1], calls[n])
        /\ SurfaceOf[id] = [CreateSurface(w, h) EXCEPT !.pixels = at[last].pixels]
  BY PaintLoop
<1>3. at[last] \in Surfaces(w, h)
  BY <1>1, <1>2
<1>4. SurfaceOf[id] \in Surfaces(w, h) /\ SurfaceOf[id].pixels = at[last].pixels
  BY <1>2, <1>3 DEF CreateSurface, Surfaces
<1>5. ASSUME NEW i \in 0 .. w - 1, NEW j \in 0 .. h - 1
      PROVE  /\ DrawnPixels[id][<<i, j>>] \in Pixel
             /\ SurfaceOf[id].pixels[j * w + i] = DrawnPixels[id][<<i, j>>]
  <2> DEFINE p == <<i, j>>
             m == j * w + i
  <2>1. PICK over :
          /\ over[0] = Black
          /\ \A n \in 0 .. last : over[n] \in Pixel
          /\ \A n \in 1 .. last :
               over[n] = IF ~Touches(calls[n], p) THEN over[n - 1]
                         ELSE IF calls[n].op = "rect"
                           THEN Over(Fill(calls[n].color), over[n - 1])
                         ELSE Fill(calls[n].color)
          /\ Drawn(Drawings[id], p) = over[last]
    BY DrawnLoop
  <2>2. DrawnPixels[id][p] = over[last]
    BY <2>1 DEF DrawnPixels
  <2> DEFINE T == {n \in 0 .. last : at[n].pixels[m] = over[n]}
  <2>3. at[0].pixels[m] = Black
    <3>1. m \in 0 .. w * h - 1
      <4> HIDE DEF w, h
      <4> QED
        BY <1>1, NumberInBuffer
    <3> HIDE DEF m, w, h
    <3> QED
      BY <1>2, <3>1 DEF CreateSurface
  <2>4. 0 \in T
    <3> HIDE DEF m, last
    <3> QED
      BY <1>1, <2>1, <2>3
  <2>5. ASSUME NEW n \in 1 .. last, n - 1 \in T PROVE n \in T
    <3>1. n \in 0 .. last /\ n - 1 \in 0 .. last /\ calls[n] \in CallsOf
      <4> HIDE DEF last
      <4> QED
        BY <1>1
    <3>2. at[n - 1] \in Surfaces(w, h) /\ at[n] = DrawCall(at[n - 1], calls[n])
      BY <1>2, <3>1
    <3>3. at[n].pixels[m]
            = IF ~Touches(calls[n], p) THEN at[n - 1].pixels[m]
              ELSE IF calls[n].op = "rect"
                THEN Over(Fill(calls[n].color), at[n - 1].pixels[m])
              ELSE Fill(calls[n].color)
      <4> HIDE DEF w, h, calls, last
      <4>1. \A k \in 0 .. w - 1, l \in 0 .. h - 1 :
              DrawCall(at[n - 1], calls[n]).pixels[l * w + k]
                = IF ~Touches(calls[n], <<k, l>>) THEN at[n - 1].pixels[l * w + k]
                  ELSE IF calls[n].op = "rect"
                    THEN Over(Fill(calls[n].color), at[n - 1].pixels[l * w + k])
                  ELSE Fill(calls[n].color)
        BY <1>1, <3>1, <3>2, DrawCallIs
      <4> QED
        BY <3>2, <4>1
    <3>4. at[n - 1].pixels[m] = over[n - 1]
      BY <2>5
    <3>5. over[n] = IF ~Touches(calls[n], p) THEN over[n - 1]
                    ELSE IF calls[n].op = "rect"
                      THEN Over(Fill(calls[n].color), over[n - 1])
                    ELSE Fill(calls[n].color)
      BY <2>1
    <3> HIDE DEF m, p, last, calls
    <3> QED
      BY <3>1, <3>3, <3>4, <3>5
  <2>6. last \in T
    <3> HIDE DEF T, last
    <3>1. \A n \in 0 .. last : n \in T
      BY <1>1, <2>4, <2>5, UpTo
    <3> QED
      BY <1>1, <3>1
  <2>7. over[last] \in Pixel
    BY <1>1, <2>1
  <2> HIDE DEF m, p, last
  <2> QED
    BY <1>4, <2>2, <2>6, <2>7 DEF m, p
<1> QED
  BY <1>4, <1>5

-----------------------------------------------------------------------------
(* Blending *)

Framebuffers == [0 .. DisplayWidth * DisplayHeight - 1 -> Pixel]
Columns == 0 .. DisplayWidth - 1
Lines == 0 .. DisplayHeight - 1

\* A surface of w by h pixels that reaches into the display.
Reaches(pos, w) ==
  pos \in Int \X Int /\ pos[1] < DisplayWidth /\ pos[1] + w > 0

\* The pixel at column i of line j once the surface lies over it.
LaidOver(fb, pos, s, i, j) ==
  Over(s.pixels[(j - pos[2]) * s.width + (i - pos[1])], fb[j * DisplayWidth + i])

\* The pixels of a row are blended where the surface is, and copying an opaque
\* row is blending it.
LEMMA BlendRowIs ==
  ASSUME NEW w \in Nat, NEW h \in Nat, NEW s \in Surfaces(w, h),
         NEW pos, Reaches(pos, w), NEW y \in Rows(pos, s), NEW fb \in Framebuffers
  PROVE  /\ BlendRow(fb, pos, s, y) \in Framebuffers
         /\ \A i \in Columns, j \in Lines :
              BlendRow(fb, pos, s, y)[j * DisplayWidth + i]
                = IF j = y /\ i - pos[1] \in 0 .. w - 1
                    THEN LaidOver(fb, pos, s, i, j)
                  ELSE fb[j * DisplayWidth + i]
<1> DEFINE count == Count(pos, s)
           dst == DstIdx(pos, y)
           src == SrcIdx(pos, s, y)
           all == DisplayWidth * DisplayHeight
<1>1. s.width = w /\ s.height = h /\ s.pixels \in [0 .. w * h - 1 -> Pixel]
  BY DEF Surfaces
<1>2. /\ pos \in Int \X Int /\ pos[1] \in Int /\ pos[2] \in Int
      /\ pos[1] < DisplayWidth /\ pos[1] + s.width > 0
  BY <1>1 DEF Reaches
<1>3. /\ y \in Int /\ 0 <= y /\ y < DisplayHeight
      /\ StartX(pos) \in Int /\ count \in Int /\ 0 <= StartX(pos)
      /\ StartX(pos) + count <= DisplayWidth
  <2> HIDE DEF count
  <2>1. s.width \in Nat /\ s.height \in Nat
    BY <1>1
  <2> QED
    BY <1>2, <2>1, ClippedInside DEF count
<1>4. RowFits(pos, s, y)
  BY <1>1, <1>2, RowIsInside
<1>5. DisplayWidth \in Nat /\ DisplayHeight \in Nat
  BY CompositorAssumption
<1>6. src \in Int /\ src >= 0 /\ src + count <= w * h
  <2>1. src >= 0 /\ src + count <= w * h
    BY <1>1, <1>4 DEF RowFits
  <2>2. src \in Int
    BY <1>1, <1>2, <1>3 DEF SrcIdx
  <2> QED
    BY <2>1, <2>2
<1>7. dst \in Int /\ all \in Nat
  BY <1>3, <1>5 DEF DstIdx
<1>8. DOMAIN fb = 0 .. all - 1 /\ \A m \in 0 .. all - 1 : fb[m] \in Pixel
  BY DEF Framebuffers
<1>9. ASSUME NEW k \in 0 .. count - 1 PROVE s.pixels[src + k] \in Pixel
  <2>1. PICK size \in Nat : size = w * h
    OBVIOUS
  <2>2. src + k \in 0 .. w * h - 1
    <3> HIDE DEF src, count
    <3> QED
      BY <1>3, <1>6, <2>1
  <2> HIDE DEF src
  <2> QED
    BY <1>1, <2>2
<1>10. ASSUME NEW k \in 0 .. count - 1, NEW x \in Pixel
       PROVE  (IF RowOpaque(pos, s, y) THEN s.pixels[src + k]
               ELSE Over(s.pixels[src + k], x)) = Over(s.pixels[src + k], x)
  <2>1. RowOpaque(pos, s, y) => s.pixels[src + k].alpha = Opaque
    BY DEF RowOpaque
  <2> QED
    BY <2>1, OpaqueOver
<1>11. BlendRow(fb, pos, s, y)
         = [m \in 0 .. all - 1 |-> IF m - dst \in 0 .. count - 1
              THEN Over(s.pixels[src + (m - dst)], fb[m]) ELSE fb[m]]
  <2>1. BlendRow(fb, pos, s, y)
          = [m \in 0 .. all - 1 |-> IF m - dst \notin 0 .. count - 1 THEN fb[m]
               ELSE IF RowOpaque(pos, s, y) THEN s.pixels[src + (m - dst)]
               ELSE Over(s.pixels[src + (m - dst)], fb[m])]
    BY <1>8 DEF BlendRow
  <2> HIDE DEF dst, src, count, all
  <2> QED
    BY <1>8, <1>10, <2>1
<1>12. BlendRow(fb, pos, s, y) \in Framebuffers
  <2>1. ASSUME NEW m \in 0 .. all - 1, m - dst \in 0 .. count - 1
        PROVE  Over(s.pixels[src + (m - dst)], fb[m]) \in Pixel
    <3> HIDE DEF dst, src, count, all
    <3> QED
      BY <1>8, <1>9, <2>1, OverIsPixel
  <2> HIDE DEF dst, src, count, all
  <2>2. [m \in 0 .. all - 1 |-> IF m - dst \in 0 .. count - 1
              THEN Over(s.pixels[src + (m - dst)], fb[m]) ELSE fb[m]]
          \in [0 .. all - 1 -> Pixel]
    BY <1>8, <2>1
  <2> QED
    BY <1>11, <2>2 DEF Framebuffers, all
<1>13. ASSUME NEW i \in Columns, NEW j \in Lines
       PROVE  BlendRow(fb, pos, s, y)[j * DisplayWidth + i]
                = IF j = y /\ i - pos[1] \in 0 .. w - 1
                    THEN LaidOver(fb, pos, s, i, j)
                  ELSE fb[j * DisplayWidth + i]
  <2> DEFINE m == j * DisplayWidth + i
             k == m - dst
  <2>1. m \in 0 .. all - 1 /\ i \in Int /\ j \in Int
    BY <1>5, NumberInBuffer DEF Columns, Lines
  <2>2. i \in StartX(pos) .. StartX(pos) + count - 1
          <=> i - pos[1] \in 0 .. w - 1
    BY <1>1, <1>2, <1>5 DEF Count, StartX, EndX, MaxOf, MinOf, Columns
  <2>3. j = y => k = i - StartX(pos)
    <3>1. PICK row \in Int : row = y * DisplayWidth
      BY <1>3, <1>5
    <3> QED
      BY <1>3, <2>1, <3>1 DEF DstIdx
  <2>4. ASSUME k \in 0 .. count - 1
        PROVE  j = y /\ i = StartX(pos) + k
    <3>1. StartX(pos) + k \in 0 .. DisplayWidth - 1
      <4> HIDE DEF k, count
      <4> QED
        BY <1>3, <1>5, <2>4
    <3>2. m = y * DisplayWidth + (StartX(pos) + k)
      <4>1. PICK row \in Int : row = y * DisplayWidth
        BY <1>3, <1>5
      <4>2. dst = row + StartX(pos)
        BY <4>1 DEF DstIdx
      <4> HIDE DEF m, dst
      <4>3. k = m - (row + StartX(pos)) /\ m \in Int
        BY <2>1, <4>2
      <4> HIDE DEF k
      <4> QED
        BY <1>3, <4>1, <4>3
    <3> DEFINE c == StartX(pos) + k
    <3>3. c \in 0 .. DisplayWidth - 1 /\ j * DisplayWidth + i = y * DisplayWidth + c
      BY <3>1, <3>2
    <3> HIDE DEF c
    <3>4. j = y /\ i = c
      BY <1>3, <1>5, <2>1, <3>3, NumberOnce DEF Columns
    <3> QED
      BY <3>4 DEF c
  <2>5. k \in 0 .. count - 1 <=> j = y /\ i - pos[1] \in 0 .. w - 1
    <3> HIDE DEF k, m, count
    <3> QED
      BY <1>3, <2>1, <2>2, <2>3, <2>4
  <2>6. ASSUME k \in 0 .. count - 1
        PROVE  src + k = (j - pos[2]) * s.width + (i - pos[1])
    <3>1. PICK row \in Int : row = (y - pos[2]) * s.width
      BY <1>1, <1>2, <1>3
    <3>2. src = row + (StartX(pos) - pos[1]) /\ j = y /\ k = i - StartX(pos)
      BY <2>3, <2>4, <2>6, <3>1 DEF SrcIdx
    <3> HIDE DEF src, k
    <3> QED
      BY <1>2, <1>3, <2>1, <3>1, <3>2
  <2>7. BlendRow(fb, pos, s, y)[m]
          = IF k \in 0 .. count - 1 THEN Over(s.pixels[src + k], fb[m]) ELSE fb[m]
    <3> HIDE DEF m, dst, src, count, all
    <3> QED
      BY <1>11, <2>1
  <2> HIDE DEF k, src, count
  <2> QED
    BY <2>5, <2>6, <2>7 DEF LaidOver
<1> QED
  BY <1>12, <1>13

\* blend_surface(), row by row.
LEMMA BlendLoop ==
  ASSUME NEW w \in Nat, NEW h \in Nat, NEW s \in Surfaces(w, h),
         NEW pos, Reaches(pos, w), NEW fb \in Framebuffers,
         EndY(pos, s) - StartY(pos) > 0
  PROVE  LET height == EndY(pos, s) - StartY(pos)
         IN  \E at : /\ at[0] = fb
                     /\ \A n \in 0 .. height : at[n] \in Framebuffers
                     /\ \A n \in 1 .. height :
                          at[n] = BlendRow(at[n - 1], pos, s, StartY(pos) + n - 1)
                     /\ BlendSurface(fb, pos, s) = at[height]
<1> DEFINE height == EndY(pos, s) - StartY(pos)
           Z == Framebuffers
           Do(x, n) == BlendRow(x, pos, s, StartY(pos) + n - 1)
           step == [x \in Z \X (1 .. height) |-> Do(x[1], x[2])]
           Is(f) == f = [n \in 0 .. height |-> IF n = 0 THEN fb
                           ELSE BlendRow(f[n - 1], pos, s, StartY(pos) + n - 1)]
           at == CHOOSE f : Is(f)
<1>1. s.width = w /\ s.height = h /\ pos[1] \in Int /\ pos[2] \in Int
  BY DEF Surfaces, Reaches
<1>2. DisplayWidth \in Nat /\ DisplayHeight \in Nat
  BY CompositorAssumption
<1>3. height \in Nat /\ \A n \in 1 .. height : StartY(pos) + n - 1 \in Rows(pos, s)
  BY <1>1, <1>2 DEF Rows, StartY, EndY, MaxOf, MinOf
<1>4. \A x \in Z, n \in 1 .. height : Do(x, n) \in Z
  <2> HIDE DEF height
  <2> QED
    BY <1>3, BlendRowIs
<1>5. step \in [Z \X (1 .. height) -> Z]
  <2> HIDE DEF Z, height, Do
  <2> QED
    BY <1>4
<1>6. PICK f \in [0 .. height -> Z] : Iterates(f, height, fb, step)
  <2>1. fb \in Z
    OBVIOUS
  <2> HIDE DEF Z, height, step
  <2> QED
    BY <1>3, <1>5, <2>1, LoopExists
<1>7. Is(f)
  <2>1. f = [n \in 0 .. height |-> IF n = 0 THEN fb ELSE step[<<f[n - 1], n>>]]
    BY <1>6 DEF Iterates
  <2>2. ASSUME NEW n \in 0 .. height, n # 0
        PROVE  step[<<f[n - 1], n>>] = Do(f[n - 1], n)
    <3> HIDE DEF Z, height, Do
    <3>1. n \in 1 .. height /\ f[n - 1] \in Z
      BY <1>3, <1>6, <2>2
    <3> QED
      BY <3>1
  <2>3. f = [n \in 0 .. height |-> IF n = 0 THEN fb ELSE Do(f[n - 1], n)]
    <3> HIDE DEF Z, height, step, Do
    <3> QED
      BY <2>1, <2>2
  <2> QED
    BY <2>3
<1>8. Is(at)
  <2> HIDE DEF Is
  <2> QED
    BY <1>7
<1>9. at[0] = fb /\ \A n \in 1 .. height : at[n] = Do(at[n - 1], n)
  <2>1. at = [n \in 0 .. height |-> IF n = 0 THEN fb ELSE Do(at[n - 1], n)]
    <3> HIDE DEF at, height
    <3> QED
      BY <1>8
  <2> HIDE DEF at, height, Do
  <2>2. 0 \in 0 .. height /\ \A n \in 1 .. height : n \in 0 .. height /\ n # 0
    BY <1>3
  <2> QED
    BY <2>1, <2>2
<1>10. \A n \in 0 .. height : at[n] \in Z
  <2> DEFINE T == {n \in 0 .. height : at[n] \in Z}
  <2>1. fb \in Z
    OBVIOUS
  <2> HIDE DEF at, height, Z, Do
  <2>2. 0 \in T
    BY <1>3, <1>9, <2>1
  <2>3. ASSUME NEW n \in 1 .. height, n - 1 \in T PROVE n \in T
    BY <1>4, <1>9, <2>3
  <2> HIDE DEF T
  <2>4. \A n \in 0 .. height : n \in T
    BY <1>3, <2>2, <2>3, UpTo
  <2> QED
    BY <2>4 DEF T
<1>11. BlendSurface(fb, pos, s) = at[height]
  <2>1. ~(height <= 0)
    BY <1>3
  <2> QED
    BY <2>1 DEF BlendSurface
<1> HIDE DEF at
<1> QED
  BY <1>9, <1>10, <1>11

\* The pixel is inside the surface of w by h pixels at pos.
Covers(pos, w, h, i, j) == i - pos[1] \in 0 .. w - 1 /\ j - pos[2] \in 0 .. h - 1

\* What blend_surface() does to every pixel of the display.
LEMMA BlendSurfaceIs ==
  ASSUME NEW w \in Nat, NEW h \in Nat, NEW s \in Surfaces(w, h),
         NEW pos, Reaches(pos, w), NEW fb \in Framebuffers
  PROVE  /\ BlendSurface(fb, pos, s) \in Framebuffers
         /\ \A i \in Columns, j \in Lines :
              BlendSurface(fb, pos, s)[j * DisplayWidth + i]
                = IF Covers(pos, w, h, i, j) THEN LaidOver(fb, pos, s, i, j)
                  ELSE fb[j * DisplayWidth + i]
<1> DEFINE height == EndY(pos, s) - StartY(pos)
<1>1. s.width = w /\ s.height = h /\ pos[1] \in Int /\ pos[2] \in Int
  BY DEF Surfaces, Reaches
<1>2. DisplayWidth \in Nat /\ DisplayHeight \in Nat
  BY CompositorAssumption
<1>3. height \in Int /\ StartY(pos) \in Int
  BY <1>1, <1>2 DEF StartY, EndY, MaxOf, MinOf
<1>4. \A j \in Lines : j - pos[2] \in 0 .. h - 1
                         <=> j \in StartY(pos) .. StartY(pos) + height - 1
  BY <1>1, <1>2 DEF StartY, EndY, MaxOf, MinOf, Lines
<1>5. CASE height <= 0
  <2>1. BlendSurface(fb, pos, s) = fb
    BY <1>5 DEF BlendSurface
  <2>2. ASSUME NEW i \in Columns, NEW j \in Lines PROVE ~Covers(pos, w, h, i, j)
    <3> HIDE DEF height
    <3>1. ~(j \in StartY(pos) .. StartY(pos) + height - 1)
      BY <1>3, <1>5
    <3> QED
      BY <1>4, <3>1 DEF Covers
  <2> QED
    BY <2>1, <2>2
<1>6. CASE height > 0
  <2>1. height \in Nat
    BY <1>3, <1>6
  <2>2. PICK at : /\ at[0] = fb
                  /\ \A n \in 0 .. height : at[n] \in Framebuffers
                  /\ \A n \in 1 .. height :
                       at[n] = BlendRow(at[n - 1], pos, s, StartY(pos) + n - 1)
                  /\ BlendSurface(fb, pos, s) = at[height]
    BY <1>6, BlendLoop
  <2>3. \A n \in 1 .. height : StartY(pos) + n - 1 \in Rows(pos, s)
    BY <1>1, <1>2 DEF Rows, StartY, EndY, MaxOf, MinOf
  <2>4. ASSUME NEW i \in Columns, NEW j \in Lines
        PROVE  BlendSurface(fb, pos, s)[j * DisplayWidth + i]
                 = IF Covers(pos, w, h, i, j) THEN LaidOver(fb, pos, s, i, j)
                   ELSE fb[j * DisplayWidth + i]
    <3> DEFINE m == j * DisplayWidth + i
               top == StartY(pos)
               Wide == i - pos[1] \in 0 .. w - 1
               T == {n \in 0 .. height :
                       at[n][m] = IF j \in top .. top + n - 1 /\ Wide
                                    THEN LaidOver(fb, pos, s, i, j) ELSE fb[m]}
    <3>1. top \in Int /\ j \in Int
      BY <1>3, <1>2 DEF Lines
    <3>2. 0 \in T
      <4>1. ~(j \in top .. top + 0 - 1)
        <5> HIDE DEF top
        <5> QED
          BY <3>1
      <4> HIDE DEF top, height, Wide, m
      <4> QED
        BY <2>1, <2>2, <4>1
    <3>3. ASSUME NEW n \in 1 .. height, n - 1 \in T PROVE n \in T
      <4>1. n \in 0 .. height /\ n - 1 \in 0 .. height
        <5> HIDE DEF height
        <5> QED
          BY <2>1
      <4> DEFINE y == top + n - 1
      <4>2. y \in Rows(pos, s) /\ at[n - 1] \in Framebuffers
            /\ at[n] = BlendRow(at[n - 1], pos, s, y)
        BY <2>2, <2>3, <4>1
      <4>3. at[n][m] = IF j = y /\ Wide THEN LaidOver(at[n - 1], pos, s, i, j)
                       ELSE at[n - 1][m]
        <5> HIDE DEF y, height, top
        <5>1. \A k \in Columns, l \in Lines :
                BlendRow(at[n - 1], pos, s, y)[l * DisplayWidth + k]
                  = IF l = y /\ k - pos[1] \in 0 .. w - 1
                      THEN LaidOver(at[n - 1], pos, s, k, l)
                    ELSE at[n - 1][l * DisplayWidth + k]
          BY <4>2, BlendRowIs
        <5> QED
          BY <4>2, <5>1
      <4>4. at[n - 1][m] = IF j \in top .. top + (n - 1) - 1 /\ Wide
                             THEN LaidOver(fb, pos, s, i, j) ELSE fb[m]
        BY <3>3
      <4>5. LaidOver(at[n - 1], pos, s, i, j) = LaidOver(fb, pos, s, i, j)
              \/ at[n - 1][m] # fb[m]
        BY DEF LaidOver
      <4>6. /\ j = y => ~(j \in top .. top + (n - 1) - 1)
            /\ j \in top .. top + n - 1 <=> j = y \/ j \in top .. top + (n - 1) - 1
        <5> HIDE DEF top
        <5> QED
          BY <3>1
      <4>7. at[n][m] = IF j \in top .. top + n - 1 /\ Wide
                         THEN LaidOver(fb, pos, s, i, j) ELSE fb[m]
        <5> HIDE DEF y, m, Wide, top
        <5> QED
          BY <4>3, <4>4, <4>5, <4>6
      <4> HIDE DEF m, Wide, top, height
      <4> QED
        BY <4>1, <4>7
    <3>4. height \in T
      <4> HIDE DEF T, height
      <4>1. \A n \in 0 .. height : n \in T
        BY <2>1, <3>2, <3>3, UpTo
      <4> QED
        BY <2>1, <4>1
    <3>5. at[height][m] = IF j \in top .. top + height - 1 /\ Wide
                            THEN LaidOver(fb, pos, s, i, j) ELSE fb[m]
      BY <3>4
    <3> HIDE DEF m, height, top
    <3> QED
      BY <1>4, <2>2, <3>5 DEF Covers, m, top
  <2>5. BlendSurface(fb, pos, s) \in Framebuffers
    <3> HIDE DEF height
    <3> QED
      BY <2>1, <2>2
  <2> QED
    BY <2>4, <2>5
<1>7. height <= 0 \/ height > 0
  BY <1>3
<1> QED
  BY <1>5, <1>6, <1>7

-----------------------------------------------------------------------------
(* The scene *)

\* Every open window has a surface that reaches into the display.
LEMMA WindowReaches ==
  ASSUME Inv, NEW id \in WindowIds
  PROVE  /\ id \in DOMAIN Drawings
         /\ Drawings[id].width \in Nat /\ Drawings[id].height \in Nat
         /\ Reaches(m_windows[id].pos, Drawings[id].width)
<1>1. m_windows[id].pos \in Positions
  BY DEF Inv, TypeOK, WindowIds, WindowState
<1>2. id \in DOMAIN Drawings
  BY CompositorAssumption, WindowManagerAssumption
     DEF Inv, IdInv, TypeOK
<1>3. m_windows[id].pos \in Int \X Int
  BY <1>1, WindowManagerAssumption
<1> QED
  BY <1>1, <1>2, <1>3, CompositorAssumption, WindowsReachDisplay DEF Reaches

\* build_scene(): the layers found up to each place of the z-order.
LEMMA SceneLoop ==
  ASSUME Inv
  PROVE  \E at :
           /\ at[0] = <<>>
           /\ \A n \in 0 .. Len(m_z_order) : at[n] \in Seq(WindowIds)
           /\ \A n \in 1 .. Len(m_z_order) :
                at[n] = IF IsLayer(m_z_order[n]) THEN Append(at[n - 1], m_z_order[n])
                        ELSE at[n - 1]
           /\ Scene = at[Len(m_z_order)]
<1> DEFINE last == Len(m_z_order)
           Z == Seq(WindowIds)
           Do(x, n) == IF IsLayer(m_z_order[n]) THEN Append(x, m_z_order[n]) ELSE x
           step == [x \in Z \X (1 .. last) |-> Do(x[1], x[2])]
           Is(f) == f = [n \in 0 .. last |-> IF n = 0 THEN <<>>
                           ELSE IF IsLayer(m_z_order[n])
                             THEN Append(f[n - 1], m_z_order[n])
                           ELSE f[n - 1]]
           at == CHOOSE f : Is(f)
<1>1. last \in Nat
  BY LenProperties DEF Inv, TypeOK
<1>2. <<>> \in Z
  BY EmptySeq
<1>3. ASSUME NEW x \in Z, NEW n \in 1 .. last PROVE Do(x, n) \in Z
  <2>1. CASE IsLayer(m_z_order[n])
    <3>1. m_z_order[n] \in WindowIds
      BY <2>1 DEF IsLayer
    <3>2. Append(x, m_z_order[n]) \in Seq(WindowIds)
      BY <3>1, AppendProperties
    <3> QED
      BY <2>1, <3>2
  <2>2. CASE ~IsLayer(m_z_order[n])
    BY <2>2
  <2> QED
    BY <2>1, <2>2
<1>4. step \in [Z \X (1 .. last) -> Z]
  <2> HIDE DEF Z, last, Do
  <2> QED
    BY <1>3
<1>5. PICK f \in [0 .. last -> Z] : Iterates(f, last, <<>>, step)
  <2> HIDE DEF Z, last, step
  <2> QED
    BY <1>1, <1>2, <1>4, LoopExists
<1>6. Is(f)
  <2>1. f = [n \in 0 .. last |-> IF n = 0 THEN <<>> ELSE step[<<f[n - 1], n>>]]
    BY <1>5 DEF Iterates
  <2>2. ASSUME NEW n \in 0 .. last, n # 0
        PROVE  step[<<f[n - 1], n>>] = Do(f[n - 1], n)
    <3> HIDE DEF Z, last, Do
    <3>1. n \in 1 .. last /\ f[n - 1] \in Z
      BY <1>1, <1>5, <2>2
    <3> QED
      BY <3>1
  <2>3. f = [n \in 0 .. last |-> IF n = 0 THEN <<>> ELSE Do(f[n - 1], n)]
    <3> HIDE DEF Z, last, step, Do
    <3> QED
      BY <2>1, <2>2
  <2> QED
    BY <2>3
<1>7. Is(at)
  <2> HIDE DEF Is
  <2> QED
    BY <1>6
<1>8. at[0] = <<>> /\ \A n \in 1 .. last : at[n] = Do(at[n - 1], n)
  <2>1. at = [n \in 0 .. last |-> IF n = 0 THEN <<>> ELSE Do(at[n - 1], n)]
    <3> HIDE DEF at, last
    <3> QED
      BY <1>7
  <2> HIDE DEF at, last, Do
  <2>2. 0 \in 0 .. last /\ \A n \in 1 .. last : n \in 0 .. last /\ n # 0
    BY <1>1
  <2> QED
    BY <2>1, <2>2
<1>9. \A n \in 0 .. last : at[n] \in Z
  <2> DEFINE T == {n \in 0 .. last : at[n] \in Z}
  <2> HIDE DEF at, last, Z, Do
  <2>1. 0 \in T
    BY <1>1, <1>2, <1>8
  <2>2. ASSUME NEW n \in 1 .. last, n - 1 \in T PROVE n \in T
    BY <1>3, <1>8, <2>2
  <2> HIDE DEF T
  <2>3. \A n \in 0 .. last : n \in T
    BY <1>1, <2>1, <2>2, UpTo
  <2> QED
    BY <2>3 DEF T
<1>10. Scene = at[last]
  BY DEF Scene
<1> HIDE DEF at
<1> QED
  BY <1>8, <1>9, <1>10

\* s is the beginning of t.
Begins(s, t) == Len(s) <= Len(t) /\ \A k \in 1 .. Len(s) : t[k] = s[k]

\* Where each place of the z-order is in the scene: pos[n] layers are found up
\* to n, the last of them that at n if it is one.
LEMMA SceneIs ==
  ASSUME Inv
  PROVE  /\ Scene \in Seq(WindowIds)
         /\ \E pos \in [0 .. Len(m_z_order) -> 0 .. Len(Scene)] :
              /\ pos[0] = 0 /\ pos[Len(m_z_order)] = Len(Scene)
              /\ \A n \in 1 .. Len(m_z_order) :
                   IF IsLayer(m_z_order[n])
                     THEN pos[n] = pos[n - 1] + 1 /\ Scene[pos[n]] = m_z_order[n]
                   ELSE pos[n] = pos[n - 1]
<1> DEFINE last == Len(m_z_order)
<1>1. PICK at :
        /\ at[0] = <<>>
        /\ \A n \in 0 .. last : at[n] \in Seq(WindowIds)
        /\ \A n \in 1 .. last :
             at[n] = IF IsLayer(m_z_order[n]) THEN Append(at[n - 1], m_z_order[n])
                     ELSE at[n - 1]
        /\ Scene = at[last]
  BY SceneLoop
<1>2. last \in Nat
  BY LenProperties DEF Inv, TypeOK
<1>3. Scene \in Seq(WindowIds)
  BY <1>1, <1>2
<1>4. \A n \in 0 .. last : Len(at[n]) \in Nat
  BY <1>1, LenProperties
<1>5. ASSUME NEW n \in 1 .. last
      PROVE  /\ Begins(at[n - 1], at[n])
             /\ IF IsLayer(m_z_order[n])
                  THEN Len(at[n]) = Len(at[n - 1]) + 1 /\ at[n][Len(at[n])] = m_z_order[n]
                ELSE Len(at[n]) = Len(at[n - 1])
  <2> HIDE DEF last
  <2>1. at[n - 1] \in Seq(WindowIds) /\ Len(at[n - 1]) \in Nat
    BY <1>1, <1>2, <1>4
  <2>2. CASE IsLayer(m_z_order[n])
    <3>1. at[n] = Append(at[n - 1], m_z_order[n]) /\ m_z_order[n] \in WindowIds
      BY <1>1, <2>2 DEF IsLayer
    <3>2. /\ Len(at[n]) = Len(at[n - 1]) + 1
          /\ \A i \in 1 .. Len(at[n - 1]) : at[n][i] = at[n - 1][i]
          /\ at[n][Len(at[n - 1]) + 1] = m_z_order[n]
      BY <2>1, <3>1, AppendProperties
    <3> QED
      BY <2>1, <2>2, <3>2 DEF Begins
  <2>3. CASE ~IsLayer(m_z_order[n])
    <3>1. at[n] = at[n - 1]
      BY <1>1, <2>3
    <3> QED
      BY <2>1, <2>3, <3>1 DEF Begins
  <2> QED
    BY <2>2, <2>3
<1>6. ASSUME NEW n \in 0 .. last PROVE Begins(at[n], Scene)
  <2> DEFINE T == {m \in 0 .. last : n <= m => Begins(at[n], at[m])}
  <2> HIDE DEF last
  <2>1. Begins(at[n], at[n])
    BY <1>4 DEF Begins
  <2>2. 0 \in T
    <3>1. n <= 0 => n = 0
      BY <1>2
    <3> QED
      BY <1>2, <2>1, <3>1
  <2>3. ASSUME NEW m \in 1 .. last, m - 1 \in T PROVE m \in T
    <3>1. m \in 0 .. last /\ m - 1 \in 0 .. last
      BY <1>2
    <3>2. CASE n <= m - 1
      <4>1. Begins(at[n], at[m - 1]) /\ Begins(at[m - 1], at[m])
        BY <1>5, <2>3, <3>2
      <4>2. Len(at[n]) \in Nat /\ Len(at[m - 1]) \in Nat /\ Len(at[m]) \in Nat
        BY <1>4, <3>1
      <4>3. Begins(at[n], at[m])
        BY <4>1, <4>2 DEF Begins
      <4> QED
        BY <3>1, <4>3
    <3>3. CASE ~(n <= m - 1)
      <4>1. n <= m => n = m
        BY <1>2, <3>1, <3>3
      <4> QED
        BY <2>1, <3>1, <4>1
    <3> QED
      BY <3>2, <3>3
  <2>4. last \in T
    <3> HIDE DEF T
    <3>1. \A m \in 0 .. last : m \in T
      BY <1>2, <2>2, <2>3, UpTo
    <3> QED
      BY <1>2, <3>1
  <2>5. n <= last
    BY <1>2
  <2> QED
    BY <1>1, <2>4, <2>5 DEF last
<1> DEFINE pos == [n \in 0 .. last |-> Len(at[n])]
<1>7. \A n \in 0 .. last : pos[n] = Len(at[n]) /\ pos[n] \in 0 .. Len(Scene)
  <2> HIDE DEF last
  <2>1. Len(Scene) \in Nat
    BY <1>3, LenProperties
  <2> QED
    BY <1>4, <1>6, <2>1 DEF Begins
<1>8. pos \in [0 .. last -> 0 .. Len(Scene)]
  <2> HIDE DEF last
  <2> QED
    BY <1>7
<1>9. pos[0] = 0 /\ pos[last] = Len(Scene)
  <2>1. Len(at[0]) = 0
    BY <1>1, EmptySeq
  <2>2. 0 \in 0 .. last /\ last \in 0 .. last
    BY <1>2
  <2> HIDE DEF pos
  <2> QED
    BY <1>1, <1>7, <2>1, <2>2
<1>10. ASSUME NEW n \in 1 .. last
       PROVE  IF IsLayer(m_z_order[n])
                THEN pos[n] = pos[n - 1] + 1 /\ Scene[pos[n]] = m_z_order[n]
              ELSE pos[n] = pos[n - 1]
  <2>1. n \in 0 .. last /\ n - 1 \in 0 .. last
    <3> HIDE DEF last
    <3> QED
      BY <1>2
  <2> HIDE DEF last, pos
  <2>2. /\ pos[n] = Len(at[n]) /\ pos[n - 1] = Len(at[n - 1])
        /\ Len(at[n]) \in Nat /\ Len(at[n - 1]) \in Nat
    BY <1>4, <1>7, <2>1
  <2>3. CASE IsLayer(m_z_order[n])
    <3>1. Len(at[n]) = Len(at[n - 1]) + 1 /\ at[n][Len(at[n])] = m_z_order[n]
      BY <1>5, <2>3
    <3>2. Scene[Len(at[n])] = at[n][Len(at[n])]
      BY <1>6, <2>1, <2>2, <3>1 DEF Begins
    <3> QED
      BY <2>2, <2>3, <3>1, <3>2
  <2>4. CASE ~IsLayer(m_z_order[n])
    BY <1>5, <2>2, <2>4
  <2> QED
    BY <2>3, <2>4
<1> HIDE DEF pos
<1> QED
  BY <1>3, <1>8, <1>9, <1>10

-----------------------------------------------------------------------------
(* The frame *)

LEMMA ResetIsBlank ==
  ASSUME NEW fb \in {NoPixels, [i \in DOMAIN Blank |-> Fill(White)]}
  PROVE  ResetFramebuffer(fb) = Blank
<1>1. CASE fb = NoPixels
  BY <1>1 DEF ResetFramebuffer
<1>2. CASE fb # NoPixels
  <2>1. DOMAIN fb = 0 .. DisplayWidth * DisplayHeight - 1
    BY <1>2 DEF Blank
  <2> QED
    BY <1>2, <2>1 DEF ResetFramebuffer, Blank
<1> QED
  BY <1>1, <1>2

\* The layers blended one after the other into a black framebuffer.
LEMMA RenderLoop ==
  ASSUME Inv, NEW fb, ResetFramebuffer(fb) = Blank
  PROVE  \E at :
           /\ at[0] = Blank
           /\ \A n \in 0 .. Len(Scene) : at[n] \in Framebuffers
           /\ \A n \in 1 .. Len(Scene) :
                at[n] = BlendSurface(at[n - 1], m_windows[Scene[n]].pos,
                                     SurfaceOf[Scene[n]])
           /\ RenderScene(fb, Scene) = at[Len(Scene)]
<1> DEFINE scene == Scene
           last == Len(scene)
           Z == Framebuffers
           Do(x, n) == BlendSurface(x, m_windows[scene[n]].pos, SurfaceOf[scene[n]])
           step == [x \in Z \X (1 .. last) |-> Do(x[1], x[2])]
           Is(f) == f = [n \in 0 .. last |-> IF n = 0 THEN ResetFramebuffer(fb)
                           ELSE BlendSurface(f[n - 1], m_windows[scene[n]].pos,
                                             SurfaceOf[scene[n]])]
           at == CHOOSE f : Is(f)
<1>1. last \in Nat /\ \A n \in 1 .. last : scene[n] \in WindowIds
  <2>1. scene \in Seq(WindowIds)
    BY SceneIs
  <2> HIDE DEF scene
  <2> QED
    BY <2>1, LenProperties, ElementOfSeq
<1>2. Blank \in Z
  BY BlackIsPixel DEF Blank, Framebuffers
<1> HIDE DEF scene
<1>3. ASSUME NEW x \in Z, NEW n \in 1 .. last PROVE Do(x, n) \in Z
  <2> DEFINE id == scene[n]
  <2>1. id \in WindowIds
    BY <1>1
  <2> HIDE DEF id
  <2>2. /\ id \in DOMAIN Drawings
        /\ Drawings[id].width \in Nat /\ Drawings[id].height \in Nat
        /\ Reaches(m_windows[id].pos, Drawings[id].width)
    BY <2>1, WindowReaches
  <2>3. SurfaceOf[id] \in Surfaces(Drawings[id].width, Drawings[id].height)
    BY <2>2, PaintIs
  <2>4. BlendSurface(x, m_windows[id].pos, SurfaceOf[id]) \in Framebuffers
    BY <2>2, <2>3, BlendSurfaceIs
  <2> QED
    BY <2>4 DEF id
<1>4. step \in [Z \X (1 .. last) -> Z]
  <2> HIDE DEF Z, last, Do
  <2> QED
    BY <1>3
<1>5. PICK f \in [0 .. last -> Z] : Iterates(f, last, Blank, step)
  <2> HIDE DEF Z, last, step
  <2> QED
    BY <1>1, <1>2, <1>4, LoopExists
<1>6. Is(f)
  <2>1. f = [n \in 0 .. last |-> IF n = 0 THEN Blank ELSE step[<<f[n - 1], n>>]]
    BY <1>5 DEF Iterates
  <2>2. ASSUME NEW n \in 0 .. last, n # 0
        PROVE  step[<<f[n - 1], n>>] = Do(f[n - 1], n)
    <3> HIDE DEF Z, last, Do
    <3>1. n \in 1 .. last /\ f[n - 1] \in Z
      BY <1>1, <1>5, <2>2
    <3> QED
      BY <3>1
  <2>3. f = [n \in 0 .. last |-> IF n = 0 THEN Blank ELSE Do(f[n - 1], n)]
    <3> HIDE DEF Z, last, step, Do
    <3> QED
      BY <2>1, <2>2
  <2> QED
    BY <2>3
<1>7. Is(at)
  <2> HIDE DEF Is
  <2> QED
    BY <1>6
<1>8. at[0] = Blank /\ \A n \in 1 .. last : at[n] = Do(at[n - 1], n)
  <2>1. at = [n \in 0 .. last |-> IF n = 0 THEN Blank ELSE Do(at[n - 1], n)]
    <3> HIDE DEF at, last
    <3> QED
      BY <1>7
  <2> HIDE DEF at, last, Do
  <2>2. 0 \in 0 .. last /\ \A n \in 1 .. last : n \in 0 .. last /\ n # 0
    BY <1>1
  <2> QED
    BY <2>1, <2>2
<1>9. \A n \in 0 .. last : at[n] \in Z
  <2> DEFINE T == {n \in 0 .. last : at[n] \in Z}
  <2> HIDE DEF at, last, Z, Do
  <2>1. 0 \in T
    BY <1>1, <1>2, <1>8
  <2>2. ASSUME NEW n \in 1 .. last, n - 1 \in T PROVE n \in T
    BY <1>3, <1>8, <2>2
  <2> HIDE DEF T
  <2>3. \A n \in 0 .. last : n \in T
    BY <1>1, <2>1, <2>2, UpTo
  <2> QED
    BY <2>3 DEF T
<1>10. RenderScene(fb, scene) = at[last]
  BY DEF RenderScene
<1> HIDE DEF at
<1> QED
  BY <1>8, <1>9, <1>10 DEF scene

\* What the window puts over the pixel q.
Layer(id, q, x) ==
  IF IsLayer(id) /\ HasPixel(id, q) THEN Over(DrawnPixels[id][Offset(id, q)], x) ELSE x

\* The windows over a pixel, one after the other.
LEMMA ShownLoop ==
  ASSUME Inv, NEW q \in DisplayPixels
  PROVE  \E over :
           /\ over[0] = Black
           /\ \A n \in 1 .. Len(m_z_order) :
                over[n] = Layer(m_z_order[n], q, over[n - 1])
           /\ Shown(q) = over[Len(m_z_order)]
<1> DEFINE last == Len(m_z_order)
           Do(x, n) == Layer(m_z_order[n], q, x)
           step == [x \in Pixel \X (1 .. last) |-> Do(x[1], x[2])]
           Is(f) == f = [n \in 0 .. last |-> IF n = 0 THEN Black
                           ELSE LET id == m_z_order[n]
                                IN  IF IsLayer(id) /\ HasPixel(id, q)
                                      THEN Over(DrawnPixels[id][Offset(id, q)], f[n - 1])
                                    ELSE f[n - 1]]
           over == CHOOSE f : Is(f)
<1>1. last \in Nat
  BY LenProperties DEF Inv, TypeOK
<1>2. Black \in Pixel
  BY BlackIsPixel
<1>3. ASSUME NEW x \in Pixel, NEW n \in 1 .. last PROVE Do(x, n) \in Pixel
  <2> DEFINE id == m_z_order[n]
  <2>1. CASE IsLayer(id) /\ HasPixel(id, q)
    <3>1. id \in DOMAIN Drawings
      BY <2>1, WindowReaches DEF IsLayer
    <3>2. Offset(id, q) = <<Offset(id, q)[1], Offset(id, q)[2]>>
      BY DEF Offset
    <3>3. DrawnPixels[id][Offset(id, q)] \in Pixel
      <4> HIDE DEF id
      <4> QED
        BY <2>1, <3>1, <3>2, PaintIs DEF HasPixel
    <3>4. Over(DrawnPixels[id][Offset(id, q)], x) \in Pixel
      BY <3>3, OverIsPixel
    <3> HIDE DEF id
    <3> QED
      BY <2>1, <3>4 DEF Layer, id
  <2>2. CASE ~(IsLayer(id) /\ HasPixel(id, q))
    BY <2>2 DEF Layer
  <2> QED
    BY <2>1, <2>2
<1>4. step \in [Pixel \X (1 .. last) -> Pixel]
  <2> HIDE DEF last, Do
  <2> QED
    BY <1>3
<1>5. PICK f \in [0 .. last -> Pixel] : Iterates(f, last, Black, step)
  <2> HIDE DEF last, step
  <2> QED
    BY <1>1, <1>2, <1>4, LoopExists
<1>6. Is(f)
  <2>1. f = [n \in 0 .. last |-> IF n = 0 THEN Black ELSE step[<<f[n - 1], n>>]]
    BY <1>5 DEF Iterates
  <2>2. ASSUME NEW n \in 0 .. last, n # 0
        PROVE  step[<<f[n - 1], n>>] = Do(f[n - 1], n)
    <3> HIDE DEF last, Do
    <3>1. n \in 1 .. last /\ f[n - 1] \in Pixel
      BY <1>1, <1>5, <2>2
    <3> QED
      BY <3>1
  <2>3. f = [n \in 0 .. last |-> IF n = 0 THEN Black ELSE Do(f[n - 1], n)]
    <3> HIDE DEF last, step, Do
    <3> QED
      BY <2>1, <2>2
  <2> QED
    BY <2>3 DEF Layer
<1>7. Is(over)
  <2> HIDE DEF Is
  <2> QED
    BY <1>6
<1>8. over[0] = Black /\ \A n \in 1 .. last : over[n] = Do(over[n - 1], n)
  <2>1. over = [n \in 0 .. last |-> IF n = 0 THEN Black ELSE Do(over[n - 1], n)]
    <3> HIDE DEF over, last
    <3> QED
      BY <1>7 DEF Layer
  <2> HIDE DEF over, last, Do
  <2>2. 0 \in 0 .. last /\ \A n \in 1 .. last : n \in 0 .. last /\ n # 0
    BY <1>1
  <2> QED
    BY <2>1, <2>2
<1>9. Shown(q) = over[last]
  BY DEF Shown
<1> HIDE DEF over
<1> QED
  BY <1>8, <1>9

\* A layer of the scene puts its pixel over q, or leaves it.
LEMMA LayerIs ==
  ASSUME Inv, NEW id \in WindowIds, IsLayer(id), NEW q \in DisplayPixels,
         NEW fb \in Framebuffers
  PROVE  BlendSurface(fb, m_windows[id].pos, SurfaceOf[id])[q[2] * DisplayWidth + q[1]]
           = Layer(id, q, fb[q[2] * DisplayWidth + q[1]])
<1> DEFINE w == Drawings[id].width
           h == Drawings[id].height
           pos == m_windows[id].pos
           s == SurfaceOf[id]
           i == q[1]
           j == q[2]
<1>1. id \in DOMAIN Drawings /\ w \in Nat /\ h \in Nat /\ Reaches(pos, w)
  BY WindowReaches
<1>2. s \in Surfaces(w, h)
  BY <1>1, PaintIs
<1>3. i \in Columns /\ j \in Lines
  BY DEF DisplayPixels, Columns, Lines
<1>4. BlendSurface(fb, pos, s)[j * DisplayWidth + i]
        = IF Covers(pos, w, h, i, j) THEN LaidOver(fb, pos, s, i, j)
          ELSE fb[j * DisplayWidth + i]
  <2> HIDE DEF w, h, pos, s, i, j
  <2>1. \A k \in Columns, l \in Lines :
          BlendSurface(fb, pos, s)[l * DisplayWidth + k]
            = IF Covers(pos, w, h, k, l) THEN LaidOver(fb, pos, s, k, l)
              ELSE fb[l * DisplayWidth + k]
    BY <1>1, <1>2, BlendSurfaceIs
  <2> QED
    BY <1>3, <2>1
<1>5. Covers(pos, w, h, i, j) <=> HasPixel(id, q)
  BY DEF Covers, HasPixel, Offset
<1>6. Offset(id, q) = <<i - pos[1], j - pos[2]>>
  BY DEF Offset
<1>7. ASSUME Covers(pos, w, h, i, j)
      PROVE  LaidOver(fb, pos, s, i, j)
               = Over(DrawnPixels[id][Offset(id, q)], fb[j * DisplayWidth + i])
  <2> DEFINE x == i - pos[1]
             y == j - pos[2]
  <2>1. x \in 0 .. w - 1 /\ y \in 0 .. h - 1
    BY <1>7 DEF Covers
  <2>2. s.width = w
    BY <1>2 DEF Surfaces
  <2>3. \A k \in 0 .. w - 1, l \in 0 .. h - 1 :
          s.pixels[l * w + k] = DrawnPixels[id][<<k, l>>]
    BY <1>1, PaintIs
  <2> HIDE DEF x, y, w, h, s
  <2>4. s.pixels[y * w + x] = DrawnPixels[id][<<x, y>>]
    BY <2>1, <2>3
  <2>5. LaidOver(fb, pos, s, i, j) = Over(s.pixels[y * w + x], fb[j * DisplayWidth + i])
    BY <2>2 DEF LaidOver, x, y
  <2> QED
    BY <1>6, <2>4, <2>5 DEF x, y
<1> HIDE DEF i, j, w, h, s, pos
<1> QED
  BY <1>4, <1>5, <1>7 DEF Layer, i, j, s, pos

\* Every pixel of the frame is what the windows there show.
LEMMA FrameIs ==
  ASSUME Inv, NEW fb, ResetFramebuffer(fb) = Blank, NEW q \in DisplayPixels
  PROVE  RenderScene(fb, Scene)[q[2] * DisplayWidth + q[1]] = Shown(q)
<1> DEFINE last == Len(m_z_order)
           m == q[2] * DisplayWidth + q[1]
<1>1. PICK over :
        /\ over[0] = Black
        /\ \A n \in 1 .. last : over[n] = Layer(m_z_order[n], q, over[n - 1])
        /\ Shown(q) = over[last]
  BY ShownLoop
<1>2. PICK at :
        /\ at[0] = Blank
        /\ \A n \in 0 .. Len(Scene) : at[n] \in Framebuffers
        /\ \A n \in 1 .. Len(Scene) :
             at[n] = BlendSurface(at[n - 1], m_windows[Scene[n]].pos, SurfaceOf[Scene[n]])
        /\ RenderScene(fb, Scene) = at[Len(Scene)]
  BY RenderLoop
<1>3. PICK pos \in [0 .. last -> 0 .. Len(Scene)] :
        /\ pos[0] = 0 /\ pos[last] = Len(Scene)
        /\ \A n \in 1 .. last :
             IF IsLayer(m_z_order[n])
               THEN pos[n] = pos[n - 1] + 1 /\ Scene[pos[n]] = m_z_order[n]
             ELSE pos[n] = pos[n - 1]
  BY SceneIs
<1>4. last \in Nat /\ Len(Scene) \in Nat
  BY SceneIs, LenProperties DEF Inv, TypeOK
<1>5. m \in 0 .. DisplayWidth * DisplayHeight - 1
  <2>1. q[1] \in 0 .. DisplayWidth - 1 /\ q[2] \in 0 .. DisplayHeight - 1
    BY DEF DisplayPixels
  <2> QED
    BY <2>1, CompositorAssumption, NumberInBuffer
<1> DEFINE T == {n \in 0 .. last : at[pos[n]][m] = over[n]}
<1> HIDE DEF last, m
<1>6. 0 \in T
  <2>1. Blank[m] = Black
    BY <1>5 DEF Blank
  <2>2. at[pos[0]][m] = over[0]
    BY <1>1, <1>2, <1>3, <2>1
  <2> QED
    BY <1>4, <2>2
<1>7. ASSUME NEW n \in 1 .. last, n - 1 \in T PROVE n \in T
  <2> DEFINE id == m_z_order[n]
  <2>1. /\ n \in 0 .. last /\ n - 1 \in 0 .. last
        /\ pos[n] \in 0 .. Len(Scene) /\ pos[n - 1] \in 0 .. Len(Scene)
    BY <1>3, <1>4
  <2>2. over[n] = Layer(id, q, over[n - 1]) /\ at[pos[n - 1]][m] = over[n - 1]
    BY <1>1, <1>7
  <2>3. CASE IsLayer(id)
    <3>1. id \in WindowIds
      BY <2>3 DEF IsLayer
    <3>2. pos[n] = pos[n - 1] + 1 /\ Scene[pos[n]] = id
      BY <1>3, <2>3
    <3>3. pos[n] \in 1 .. Len(Scene) /\ pos[n] - 1 = pos[n - 1]
      BY <1>4, <2>1, <3>2
    <3>4. /\ at[pos[n]] = BlendSurface(at[pos[n - 1]], m_windows[id].pos, SurfaceOf[id])
          /\ at[pos[n - 1]] \in Framebuffers
      BY <1>2, <2>1, <3>2, <3>3
    <3>5. at[pos[n]][m] = Layer(id, q, at[pos[n - 1]][m])
      <4> HIDE DEF id
      <4> QED
        BY <2>3, <3>1, <3>4, LayerIs DEF m
    <3> QED
      BY <2>1, <2>2, <3>5
  <2>4. CASE ~IsLayer(id)
    <3>1. pos[n] = pos[n - 1]
      BY <1>3, <2>4
    <3> QED
      BY <2>1, <2>2, <2>4, <3>1 DEF Layer
  <2> QED
    BY <2>3, <2>4
<1>8. last \in T
  <2> HIDE DEF T
  <2>1. \A n \in 0 .. last : n \in T
    BY <1>4, <1>6, <1>7, UpTo
  <2> QED
    BY <1>4, <2>1
<1> QED
  BY <1>1, <1>2, <1>3, <1>8 DEF m

LEMMA InvFrame == Inv => FrameAgrees
<1> SUFFICES ASSUME Inv PROVE FrameAgrees
  OBVIOUS
<1>1. CopiesFit
  BY InvCopies
<1>2. ASSUME NEW fb \in {NoPixels, [i \in DOMAIN Blank |-> Fill(White)]},
             NEW q \in DisplayPixels
      PROVE  RenderScene(fb, Scene)[q[2] * DisplayWidth + q[1]] = Shown(q)
  BY ResetIsBlank, FrameIs
<1> QED
  BY <1>1, <1>2 DEF FrameAgrees

\* After any calls and clicks, and whatever frame was drawn before, every pixel
\* of the next frame shows the windows there in their z-order.
THEOREM FramesShowWindows == Spec => []FrameAgrees
<1>1. NoWrap
  BY CompositorAssumption DEF NoWrap
<1> QED
  BY <1>1, InvFrame, Invariance, PTL

-----------------------------------------------------------------------------
(* The hit test and the frame *)

\* The mouse event of a click on the pixel q, and what ClickHitsWhatIsShown asks
\* of the windows there.
ClickAt(q) == [x |-> q[1], y |-> q[2], button_state |-> 1]
Around(q) == {id \in WindowIds :
                \/ m_windows[id].visible /\ Encloses(m_windows[id], ClickAt(q))
                \/ IsLayer(id) /\ HasPixel(id, q)}
Plain(id, q) ==
  /\ m_windows[id].title # "Wallpaper"
  /\ m_windows[id].surface /\ HasPixel(id, q)
  /\ DrawnPixels[id][Offset(id, q)].alpha = Opaque
  /\ Offset(id, q)[1] < m_windows[id].size[1]
  /\ Offset(id, q)[2] < m_windows[id].size[2]

\* The window the hit test stops at covers what lies below it, and no layer
\* above it has the pixel.
LEMMA HitIsShown ==
  ASSUME Inv, NEW q \in DisplayPixels, Under(ClickAt(q)) # {},
         \A id \in Around(q) : Plain(id, q)
  PROVE  Shown(q) = DrawnPixels[TopHit(ClickAt(q))][Offset(TopHit(ClickAt(q)), q)]
<1> DEFINE ev == ClickAt(q)
           last == Len(m_z_order)
           top == TopHit(ev)
<1>1. last \in Nat /\ DOMAIN m_z_order = 1 .. last
  BY LenProperties DEF Inv, TypeOK
<1>2. Under(ev) \subseteq 1 .. last
  BY <1>1 DEF Under
<1>3. \E n \in Under(ev) : \A k \in Under(ev) : k <= n
  <2> HIDE DEF ev, last
  <2> QED
    BY <1>1, <1>2, LargestIndex DEF ev
<1>4. PICK t \in Under(ev) : top = m_z_order[t] /\ \A k \in Under(ev) : k <= t
  BY <1>3 DEF TopHit
<1>5. t \in 1 .. last /\ Clickable(top, ev)
  BY <1>2, <1>4 DEF Under
<1>6. \A n \in 1 .. last : m_z_order[n] \in WindowIds
  BY <1>1 DEF Inv, ZOrderIsPermutation
<1>7. top \in Around(q)
  BY <1>4, <1>5, <1>6 DEF Around, Clickable
<1>8. ASSUME NEW n \in 1 .. last, t < n
      PROVE  ~(IsLayer(m_z_order[n]) /\ HasPixel(m_z_order[n], q))
  <2> DEFINE id == m_z_order[n]
  <2> SUFFICES ASSUME IsLayer(id), HasPixel(id, q) PROVE FALSE
    OBVIOUS
  <2>1. id \in WindowIds
    BY <1>6
  <2> HIDE DEF id, last
  <2>2. id \in Around(q)
    BY <2>1 DEF Around
  <2>3. Plain(id, q) /\ m_windows[id].visible
    BY <2>2 DEF IsLayer
  <2>4. /\ m_windows[id].pos \in Int \X Int /\ m_windows[id].size \in Nat \X Nat
        /\ q[1] \in Int /\ q[2] \in Int
    <3>1. m_windows[id].pos \in Positions /\ m_windows[id].size \in Sizes
      BY <2>1 DEF Inv, TypeOK, WindowIds, WindowState
    <3>2. q[1] \in 0 .. DisplayWidth - 1 /\ q[2] \in 0 .. DisplayHeight - 1
      BY DEF DisplayPixels
    <3> QED
      BY <3>1, <3>2, WindowManagerAssumption
  <2>5. /\ 0 <= q[1] - m_windows[id].pos[1] /\ 0 <= q[2] - m_windows[id].pos[2]
        /\ q[1] - m_windows[id].pos[1] < m_windows[id].size[1]
        /\ q[2] - m_windows[id].pos[2] < m_windows[id].size[2]
    BY <2>1, <2>3, <2>4, WindowReaches DEF Plain, HasPixel, Offset
  <2>6. Encloses(m_windows[id], ev)
    BY <2>4, <2>5 DEF Encloses, ClickAt
  <2>7. Clickable(id, ev)
    BY <2>3, <2>6 DEF Clickable, Plain
  <2>8. n \in Under(ev)
    BY <1>1, <2>7 DEF Under, id
  <2> QED
    BY <1>1, <1>4, <1>5, <1>8, <2>8
<1>9. Plain(top, q) /\ IsLayer(top)
  BY <1>4, <1>5, <1>6, <1>7 DEF IsLayer, Plain, Clickable
<1>10. PICK over :
         /\ over[0] = Black
         /\ \A n \in 1 .. last : over[n] = Layer(m_z_order[n], q, over[n - 1])
         /\ Shown(q) = over[last]
  BY ShownLoop
<1> DEFINE pixel == DrawnPixels[top][Offset(top, q)]
           T == {n \in 0 .. last : t <= n => over[n] = pixel}
<1>11. over[t] = pixel
  <2>1. over[t] = Layer(top, q, over[t - 1])
    BY <1>4, <1>5, <1>10
  <2> HIDE DEF top
  <2>2. Layer(top, q, over[t - 1]) = Over(pixel, over[t - 1])
    BY <1>9 DEF Layer, Plain
  <2> QED
    BY <1>9, <2>1, <2>2, OpaqueOver DEF Plain
<1> HIDE DEF last, pixel, top, ev
<1>12. 0 \in T
  BY <1>1, <1>5
<1>13. ASSUME NEW n \in 1 .. last, n - 1 \in T PROVE n \in T
  <2>1. n \in 0 .. last /\ (t <= n => t = n \/ (t < n /\ t <= n - 1))
    BY <1>1, <1>5
  <2>2. ASSUME t < n, t <= n - 1 PROVE over[n] = pixel
    <3>1. over[n] = over[n - 1]
      BY <1>8, <1>10, <2>2 DEF Layer
    <3> QED
      BY <1>13, <2>2, <3>1
  <2> QED
    BY <1>11, <2>1, <2>2
<1>14. last \in T
  <2> HIDE DEF T
  <2>1. \A n \in 0 .. last : n \in T
    BY <1>1, <1>12, <1>13, UpTo
  <2> QED
    BY <1>1, <2>1
<1> QED
  BY <1>1, <1>5, <1>10, <1>14 DEF pixel, top, ev

LEMMA InvClick == Inv => ClickHitsWhatIsShown
<1> SUFFICES ASSUME Inv, NEW q \in DisplayPixels, Under(ClickAt(q)) # {},
                    \A id \in Around(q) : Plain(id, q)
             PROVE  RenderScene(NoPixels, Scene)[q[2] * DisplayWidth + q[1]]
                      = DrawnPixels[TopHit(ClickAt(q))][Offset(TopHit(ClickAt(q)), q)]
  BY DEF ClickHitsWhatIsShown, ClickAt, Around, Plain
<1>1. ResetFramebuffer(NoPixels) = Blank
  BY ResetIsBlank
<1> QED
  BY <1>1, FrameIs, HitIsShown

\* Wherever only plain windows are, a click goes to the window whose pixel the
\* frame shows, for every order in which windows were opened, raised and moved.
THEOREM ClicksHitTheirTarget == Spec => []ClickHitsWhatIsShown
<1>1. NoWrap
  BY CompositorAssumption DEF NoWrap
<1> QED
  BY <1>1, InvClick, Invariance, PTL
=============================================================================
