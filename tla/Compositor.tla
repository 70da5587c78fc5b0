----------------------------- MODULE Compositor -----------------------------
(***************************************************************************)
(* BasicCompositor: a frame is the scene of the window manager blended     *)
(* into the framebuffer, which still holds an earlier frame.  Each window  *)
(* has the surface its application created and painted, whose size need    *)
(* not be that of the window.                                              *)
(***************************************************************************)
EXTENDS WindowManager, WidgetToolkit

CONSTANTS
  DisplayWidth, DisplayHeight,  \* 1920 and 1080
  Drawings   \* for each window id its surface: [width, height, calls]

IsCall(call) ==
  /\ call.x \in Int /\ call.y \in Int
  /\ call.op = "rect" => call.width \in Nat /\ call.height \in Nat
  /\ call.color.alpha \in {Clear, Translucent, Opaque}

ASSUME CompositorAssumption ==
  /\ DisplayWidth \in Nat \ {0} /\ DisplayHeight \in Nat \ {0}
  /\ MaxCreates < IdModulus /\ 1 .. MaxCreates \subseteq DOMAIN Drawings
  /\ \A id \in DOMAIN Drawings :
       /\ Drawings[id].width \in Nat /\ Drawings[id].height \in Nat
       /\ Drawings[id].calls \in Seq(Range(Drawings[id].calls))
       /\ \A call \in Range(Drawings[id].calls) : IsCall(call)

\* Every window reaches into the display from the side: see CopiesFit.
ASSUME WindowsReachDisplay ==
  \A pos \in Positions, id \in DOMAIN Drawings :
    pos[1] < DisplayWidth /\ pos[1] + Drawings[id].width > 0

SurfaceOf == [id \in DOMAIN Drawings |->
  Paint(CreateSurface(Drawings[id].width, Drawings[id].height),
        Drawings[id].calls)]

NoPixels == <<>>
Blank == [i \in 0 .. DisplayWidth * DisplayHeight - 1 |-> Black]

\* Allocated for the first frame, filled with zeroes for the others.
ResetFramebuffer(fb) ==
  IF fb = NoPixels THEN Blank ELSE [i \in DOMAIN fb |-> Black]

\* No layer has a clip of its own: what is drawn is limited by the display.
StartX(pos) == MaxOf(pos[1], 0)
StartY(pos) == MaxOf(pos[2], 0)
EndX(pos, surface) == MinOf(pos[1] + surface.width, DisplayWidth)
EndY(pos, surface) == MinOf(pos[2] + surface.height, DisplayHeight)
Rows(pos, surface) == StartY(pos) .. EndY(pos, surface) - 1

DstIdx(pos, y) == y * DisplayWidth + StartX(pos)
SrcIdx(pos, surface, y) ==
  (y - pos[2]) * surface.width + (StartX(pos) - pos[1])
Count(pos, surface) == EndX(pos, surface) - StartX(pos)

\* Mutant: a row is taken for opaque when its first pixel is.
RowOpaqueFirst(pos, surface, y) ==
  surface.pixels[SrcIdx(pos, surface, y)].alpha = Opaque

\* The fast path: a fully opaque row is copied.
RowOpaque(pos, surface, y) ==
  \A k \in 0 .. Count(pos, surface) - 1 :
    surface.pixels[SrcIdx(pos, surface, y) + k].alpha = Opaque

BlendRow(fb, pos, surface, y) ==
  [i \in DOMAIN fb |->
    LET k == i - DstIdx(pos, y)
        src == surface.pixels[SrcIdx(pos, surface, y) + k]
    IN IF k \notin 0 .. Count(pos, surface) - 1 THEN fb[i]
       ELSE IF RowOpaque(pos, surface, y) THEN src
       ELSE Over(src, fb[i])]

BlendSurface(fb, pos, surface) ==
  LET height == EndY(pos, surface) - StartY(pos)
      blended[n \in 0 .. height] ==
        IF n = 0 THEN fb
        ELSE BlendRow(blended[n - 1], pos, surface, StartY(pos) + n - 1)
  IN IF height <= 0 THEN fb ELSE blended[height]

\* The layers of the scene from bottom to top; opacity is 1 throughout.
RenderScene(fb, scene) ==
  LET drawn[n \in 0 .. Len(scene)] ==
        IF n = 0 THEN ResetFramebuffer(fb)
        ELSE BlendSurface(drawn[n - 1], m_windows[scene[n]].pos,
                          SurfaceOf[scene[n]])
  IN drawn[Len(scene)]

-----------------------------------------------------------------------------
(* The same frame, pixel by pixel. *)

DisplayPixels == (0 .. DisplayWidth - 1) \X (0 .. DisplayHeight - 1)

\* The pixel p of a drawing: the calls that touch it, one over the other.
Drawn(drawing, p) ==
  LET over[n \in 0 .. Len(drawing.calls)] ==
        IF n = 0 THEN Black
        ELSE IF ~Touches(drawing.calls[n], p) THEN over[n - 1]
        ELSE IF drawing.calls[n].op = "rect"
          THEN Over(Fill(drawing.calls[n].color), over[n - 1])
        ELSE Fill(drawing.calls[n].color)
  IN over[Len(drawing.calls)]

\* What window id puts at the pixel q of the display.
Offset(id, q) == <<q[1] - m_windows[id].pos[1], q[2] - m_windows[id].pos[2]>>
HasPixel(id, q) ==
  /\ Offset(id, q)[1] \in 0 .. Drawings[id].width - 1
  /\ Offset(id, q)[2] \in 0 .. Drawings[id].height - 1

\* Every pixel of every drawing, once and for all.
DrawnPixels == [id \in DOMAIN Drawings |->
  [p \in (0 .. Drawings[id].width - 1) \X (0 .. Drawings[id].height - 1) |->
     Drawn(Drawings[id], p)]]

Shown(q) ==
  LET over[n \in 0 .. Len(m_z_order)] ==
        IF n = 0 THEN Black
        ELSE LET id == m_z_order[n]
             IN  IF IsLayer(id) /\ HasPixel(id, q)
                   THEN Over(DrawnPixels[id][Offset(id, q)], over[n - 1])
                   ELSE over[n - 1]
  IN over[Len(m_z_order)]

-----------------------------------------------------------------------------
(* Properties *)

\* The row y of a surface at pos lies inside the framebuffer and inside the
\* surface, and is not of negative length.
RowFits(pos, surface, y) ==
  LET count == Count(pos, surface)
      dst == DstIdx(pos, y)
      src == SrcIdx(pos, surface, y)
  IN /\ count >= 0
     /\ dst >= 0 /\ dst + count <= DisplayWidth * DisplayHeight
     /\ src >= 0 /\ src + count <= surface.width * surface.height

\* Wherever a window is and however its surface is clipped, the rows that are
\* copied or blended for it lie inside both buffers, and no copy has a negative
\* length.
CopiesFit ==
  \A id \in WindowIds :
    LET pos == m_windows[id].pos
        surface == SurfaceOf[id]
    IN \A y \in Rows(pos, surface) : RowFits(pos, surface, y)

\* Whatever windows were opened, moved, raised, hidden or closed, and whatever
\* frame the buffer held before, each pixel of the frame shows the windows
\* there in their z-order and nothing else: the arithmetic on rows and
\* indices, the copy of opaque rows and the clipping at all four edges neither
\* miss nor misplace a pixel.
FrameAgrees ==
  /\ CopiesFit
  /\ \A fb \in {NoPixels, [i \in DOMAIN Blank |-> Fill(White)]} :
       LET frame == RenderScene(fb, Scene)
       IN \A q \in DisplayPixels :
            frame[q[2] * DisplayWidth + q[1]] = Shown(q)

\* Where all windows at a pixel are hit by a click and drawn opaque there, the
\* click goes to the window the compositor shows: the hit test walks the
\* z-order from the top and the compositor from the bottom.  Not so on the right
\* and bottom edge, which the hit test counts as inside, nor where a surface is
\* larger than its window, nor under a wallpaper that was raised, which takes
\* no clicks.
ClickHitsWhatIsShown ==
  LET frame == RenderScene(NoPixels, Scene)
  IN \A q \in DisplayPixels :
       LET ev == [x |-> q[1], y |-> q[2], button_state |-> 1]
           around == {id \in WindowIds :
                        \/ m_windows[id].visible /\ Encloses(m_windows[id], ev)
                        \/ IsLayer(id) /\ HasPixel(id, q)}
       IN /\ Under(ev) # {}
          /\ \A id \in around :
               /\ m_windows[id].title # "Wallpaper"
               /\ m_windows[id].surface /\ HasPixel(id, q)
               /\ DrawnPixels[id][Offset(id, q)].alpha = Opaque
               /\ Offset(id, q)[1] < m_windows[id].size[1]
               /\ Offset(id, q)[2] < m_windows[id].size[2]
          => frame[q[2] * DisplayWidth + q[1]]
               = DrawnPixels[TopHit(ev)][Offset(TopHit(ev), q)]
=============================================================================
