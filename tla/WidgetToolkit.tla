---------------------------- MODULE WidgetToolkit ----------------------------
(***************************************************************************)
(* BasicWidgetToolkit and SoftwareSurface.  A widget is the sequence of    *)
(* the rectangles and characters it is drawn with, each a call of          *)
(* draw_rect() or draw_char().  A pixel is kept symbolically: the colours  *)
(* mixed in it, the topmost first, over the black every surface starts     *)
(* with, and its alpha, of which 0, 255 and the values between matter.     *)
(***************************************************************************)
EXTENDS Integers, SequencesExt

CONSTANT Font  \* font8x8_basic: the <<column, row>> each character lights

ASSUME FontAssumption == \A c \in DOMAIN Font : Font[c] \subseteq (0 .. 7) \X (0 .. 7)

Clear == 0
Translucent == 1
Opaque == 2

\* desktop::Color; the name stands for the three channels.
Color(name, alpha) == [name |-> name, alpha |-> alpha]
White == Color("white", Opaque)

MaxOf(a, b) == IF a >= b THEN a ELSE b
MinOf(a, b) == IF a <= b THEN a ELSE b

-----------------------------------------------------------------------------
(* Widgets *)

Rect(x, y, width, height, color) ==
  [op |-> "rect", x |-> x, y |-> y, width |-> width, height |-> height,
   color |-> color]

Char(x, y, c, color) ==
  [op |-> "char", x |-> x, y |-> y, char |-> c, color |-> color]

\* Characters are 8 pixels wide.
DrawText(x, y, text, color) ==
  [i \in DOMAIN text |-> Char(x + 8 * (i - 1), y, text[i], color)]

DrawPanel(x, y, width, height) ==
  << Rect(x, y, width, height, Color("panel", Opaque)) >>

DrawButton(x, y, width, height, label) ==
  << Rect(x, y, width, height, Color("button", Opaque)),
     Rect(x, y, width, 2, Color("top", Opaque)),
     Rect(x, y + height - 2, width, 2, Color("bottom", Opaque)) >>
  \o DrawText(x + 10, y + (height \div 2) - 4, label, White)

-----------------------------------------------------------------------------
(* Pixels and surfaces *)

Black == [mix |-> <<>>, alpha |-> Clear]
Fill(color) == [mix |-> <<color.name>>, alpha |-> color.alpha]

\* A source over a pixel: it replaces it, is mixed in, or does nothing.
Over(src, dst) ==
  CASE src.alpha = Opaque -> src
    [] src.alpha = Translucent ->
         [mix |-> src.mix \o dst.mix, alpha |-> MaxOf(dst.alpha, src.alpha)]
    [] src.alpha = Clear -> dst

\* Pixels are numbered from 0, row by row; all are transparent black.
CreateSurface(width, height) ==
  [width |-> width, height |-> height,
   pixels |-> [i \in 0 .. width * height - 1 |-> Black]]

\* The part of the rectangle inside the surface, row by row.
DrawRect(surface, call) ==
  LET startX == MaxOf(0, call.x)
      startY == MaxOf(0, call.y)
      endX == MinOf(surface.width, call.x + call.width)
      endY == MinOf(surface.height, call.y + call.height)
      idx == {row * surface.width + col :
                row \in startY .. endY - 1, col \in startX .. endX - 1}
  IN [surface EXCEPT !.pixels = [i \in DOMAIN @ |->
       IF i \in idx THEN Over(Fill(call.color), @[i]) ELSE @[i]]]

\* A lit pixel is overwritten whatever the alpha of the colour; a character
\* the font does not have draws nothing.
DrawChar(surface, call) ==
  LET lit == IF call.char \in DOMAIN Font THEN Font[call.char] ELSE {}
      inside == {p \in {<<call.x + q[1], call.y + q[2]>> : q \in lit} :
                   /\ 0 <= p[1] /\ p[1] < surface.width
                   /\ 0 <= p[2] /\ p[2] < surface.height}
      idx == {p[2] * surface.width + p[1] : p \in inside}
  IN [surface EXCEPT !.pixels = [i \in DOMAIN @ |->
       IF i \in idx THEN Fill(call.color) ELSE @[i]]]

DrawCall(surface, call) ==
  IF call.op = "rect" THEN DrawRect(surface, call) ELSE DrawChar(surface, call)

\* Drawing changes nothing but the pixels.
Paint(surface, calls) ==
  LET painted[n \in 0 .. Len(calls)] ==
        IF n = 0 THEN surface ELSE DrawCall(painted[n - 1], calls[n])
  IN [surface EXCEPT !.pixels = painted[Len(calls)].pixels]

\* The call covers the pixel p.
Touches(call, p) ==
  IF call.op = "rect"
    THEN /\ p[1] - call.x \in 0 .. call.width - 1
         /\ p[2] - call.y \in 0 .. call.height - 1
    ELSE call.char \in DOMAIN Font
         /\ <<p[1] - call.x, p[2] - call.y>> \in Font[call.char]
=============================================================================
