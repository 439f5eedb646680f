--------------------------- MODULE CachedRenderer ---------------------------
(***************************************************************************)
(* CachedOverlayRenderer::Render (src/src/renderer/debug_renderer.cc:      *)
(* 498-632): draws an overlay frame into a buffer that still holds the     *)
(* previous one, repainting only what it takes for changed, and must end   *)
(* with the picture that RenderOverlayFrameRgba (717-740) draws on an      *)
(* empty canvas.                                                           *)
(*                                                                         *)
(* Ink is translucent, so a pixel is the sequence of layers painted on it  *)
(* since it was cleared.  The canvas is reduced to cells: the widgets on   *)
(* the left, the rest of that side, and the pixel columns from frame_x on, *)
(* numbered from the left edge of the track square; the columns stand for  *)
(* the rows as well, which Render treats alike.  The track's place and     *)
(* size never change: a renderer belongs to one stream.                    *)
(***************************************************************************)
EXTENDS Integers, Sequences

CONSTANTS
  Columns,     \* columns from frame_x to the right edge of the canvas
  track_size,  \* of these, the track square
  arrow_size,  \* how far the tip of the arrow is from its position
  ArrowXs,     \* the track positions, relative to the square
  Snapshots,   \* the track images, numbered in the order they are made
  Forces,      \* g-force readings
  Magnitude,   \* reading -> the text below the dial
  WideTexts,   \* texts that reach beyond the dial's region
  Speeds,      \* displayed speeds
  None

Square == 0 .. track_size - 1

\* The left side: the dial, the text below it, the speeds, and the rest.
dial == -4
caption == -3
speeds == -2
rest == -1

LeftSide == {dial, caption, speeds, rest}

Cells == LeftSide \cup (0 .. Columns - 1)

Arrows == [x : ArrowXs, heading : {"east", "west"}] \cup {None}

Frames == [arrow : Arrows, track : Snapshots, force : Forces, speed : Speeds]

\* A track point lies inside the square, with the padding around the plot
\* (debug_renderer.cc:646-661).
ASSUME RendererAssumption ==
  /\ track_size \in Nat /\ arrow_size \in Nat \ {0}
  /\ Columns \in Nat /\ track_size <= Columns
  /\ ArrowXs \subseteq 0 .. track_size - 1
  /\ Snapshots \subseteq Nat
  /\ None \notin Frames

VARIABLES
  layout,                 \* which widgets overlap, given by the dimensions
  pixels,                 \* state.pixels
  gauge_background,       \* the cached dial, without and
  gauge_text_background,  \*   with the text below it
  initialized,
  previous                \* the frame drawn last: the track snapshot, the
                          \*   reading, its text and the speeds of state

vars == <<layout, pixels, gauge_background, gauge_text_background,
          initialized, previous>>

\* apart: the rectangles of the widgets and of the track do not overlap;
\* text_below_dot: the dot can not reach the text.
Layouts == [apart : BOOLEAN, text_below_dot : BOOLEAN]
-----------------------------------------------------------------------------
(* Drawing on a canvas, a function from cells to layers.                   *)

Blank == [c \in Cells |-> <<>>]

Clear(canvas, cells) ==
  [c \in Cells |-> IF c \in cells THEN <<>> ELSE canvas[c]]

Paint(canvas, cells, layer) ==
  [c \in Cells |->
     IF c \in cells THEN Append(canvas[c], layer) ELSE canvas[c]]

\* Copies whole pixels: what they held is gone.
Blit(canvas, cells, source) ==
  [c \in Cells |-> IF c \in cells THEN source[c] ELSE canvas[c]]

CopyRegion(canvas, cells) == [c \in cells |-> canvas[c]]

Gauge == {dial, caption}

\* Where widgets overlap, a readout also covers a column of the track.
SpeedCells == {speeds} \cup IF layout.apart THEN {} ELSE {0}

DotCells == IF layout.text_below_dot THEN {dial} ELSE Gauge

\* The arrow points away from its position; what lies left of the square is
\* on the left side, what lies right of the canvas is clipped.
ArrowCells(arrow) ==
  LET columns == IF arrow.heading = "east"
                 THEN arrow.x .. arrow.x + arrow_size
                 ELSE arrow.x - arrow_size .. arrow.x
  IN  (columns \cap 0 .. Columns - 1)
      \cup IF \E column \in columns : column < 0 THEN {rest} ELSE {}

DrawArrow(canvas, arrow) ==
  IF arrow = None THEN canvas
  ELSE Paint(canvas, ArrowCells(arrow), <<"arrow", arrow>>)

TrackImage(snapshot) == [c \in Square |-> <<<<"track", snapshot>>>>]

BlitTrack(canvas, snapshot) == Blit(canvas, Square, TrackImage(snapshot))

RestoreTrack(canvas, snapshot, x, radius) ==
  Blit(canvas, Square \cap (x - radius .. x + radius), TrackImage(snapshot))

DrawGForceBackground(canvas) == Paint(canvas, {dial}, <<"background">>)

DrawGForceDot(canvas, force) == Paint(canvas, DotCells, <<"dot", force>>)

TextCells(force) ==
  {caption} \cup IF Magnitude[force] \in WideTexts THEN {rest} ELSE {}

DrawMagnitude(canvas, force) ==
  Paint(canvas, TextCells(force), <<"text", Magnitude[force]>>)

DrawGauge(canvas, force) == DrawMagnitude(DrawGForceDot(canvas, force), force)

DrawSpeed(canvas, speed) == Paint(canvas, SpeedCells, <<"speed", speed>>)

DrawReadouts(canvas, frame) ==
  DrawSpeed(DrawGauge(DrawGForceBackground(canvas), frame.force), frame.speed)

\* RenderOverlayFrameRgba.
Reference(frame) ==
  DrawReadouts(DrawArrow(BlitTrack(Blank, frame.track), frame.arrow), frame)
-----------------------------------------------------------------------------
(* Render.                                                                 *)

\* Mutant: the radius of the arrow is the width of its base.
BaseRadius == arrow_size - 1

arrow_radius == arrow_size + 2

Separate(frame) ==
  /\ layout.apart
  /\ Magnitude[frame.force] \notin WideTexts
  /\ frame.arrow # None => /\ frame.arrow.x >= arrow_radius
                           /\ frame.arrow.x + arrow_radius < track_size

\* The part of the picture from frame_x on.  Only the surroundings of the old
\* arrow are repainted if the image of the track is the one drawn before.
DrawTrack(canvas, frame, warm) ==
  LET based ==
        IF warm /\ previous.track = frame.track
        THEN IF previous.arrow = None THEN canvas
             ELSE RestoreTrack(canvas, frame.track, previous.arrow.x,
                               arrow_radius)
        ELSE BlitTrack(canvas, frame.track)
  IN  DrawArrow(based, frame.arrow)

Init ==
  /\ layout \in Layouts
  /\ pixels = Blank
  /\ gauge_background = None /\ gauge_text_background = None
  /\ initialized = FALSE
  /\ previous = None

\* Overlapping widgets, or an arrow close to the edge of the track: draw
\* everything in the order of the reference, and forget the caches.
RenderInOrder(frame) ==
  /\ ~Separate(frame)
  /\ pixels' = DrawReadouts(DrawTrack(Blank, frame, FALSE), frame)
  /\ gauge_background' = None /\ gauge_text_background' = None
  /\ initialized' = FALSE
  /\ previous' = frame
  /\ UNCHANGED layout

TextIsCached(frame) ==
  initialized /\ Magnitude[previous.force] = Magnitude[frame.force]

\* The gauge is left alone if the reading has not changed.
GaugeIsCurrent(frame) == initialized /\ previous.force = frame.force

\* The cached dial with the text of the frame below it.
TextBackground(canvas, background, frame) ==
  IF TextIsCached(frame) THEN gauge_text_background
  ELSE CopyRegion(DrawMagnitude(Blit(canvas, Gauge, background), frame.force),
                  Gauge)

UpdateGauge(canvas, background, frame) ==
  IF GaugeIsCurrent(frame) THEN canvas
  ELSE IF layout.text_below_dot
  THEN DrawGForceDot(Blit(canvas, Gauge,
                          TextBackground(canvas, background, frame)),
                     frame.force)
  ELSE DrawGauge(Blit(canvas, Gauge, background), frame.force)

UpdateSpeed(canvas, frame) ==
  IF initialized /\ previous.speed = frame.speed THEN canvas
  ELSE DrawSpeed(Clear(canvas, {speeds}), frame.speed)

\* Each widget has its own rectangle: repaint those that changed, or all of
\* them if the caches are cold.  The very first frame starts from an empty
\* buffer.
RenderSeparately(frame) ==
  LET tracked == DrawTrack(pixels, frame, initialized)
      left == IF initialized THEN tracked
              ELSE DrawGForceBackground(Clear(tracked, LeftSide))
      background ==
        IF initialized THEN gauge_background ELSE CopyRegion(left, Gauge)
  IN  /\ Separate(frame)
      /\ gauge_background' = background
      /\ gauge_text_background' =
           IF layout.text_below_dot /\ ~GaugeIsCurrent(frame)
           THEN TextBackground(left, background, frame)
           ELSE gauge_text_background
      /\ pixels' = UpdateSpeed(UpdateGauge(left, background, frame), frame)
      /\ initialized' = TRUE
      /\ previous' = frame
      /\ UNCHANGED layout

\* A stream's track only moves forwards: newer images, and an arrow once
\* there has been one.
Render(frame) ==
  /\ previous # None =>
       /\ frame.track >= previous.track
       /\ previous.arrow # None => frame.arrow # None
  /\ RenderInOrder(frame) \/ RenderSeparately(frame)

Next == \E frame \in Frames : Render(frame)

Spec == Init /\ [][Next]_vars
-----------------------------------------------------------------------------
(* Properties. *)

\* Whatever was drawn into the buffer before, it holds exactly the reference
\* picture of the last frame: no ink of an older one shows through, none is
\* painted twice, and nothing is missing.  This is what the renderer's test
\* compares (tests/debug_renderer_test.cc:71-128).
CachedIsReference == previous # None => pixels = Reference(previous)

\* An arrow inside the square wherever it stands, as the padding of the track
\* provides for all but small layouts.
ArrowsFit ==
  \A x \in ArrowXs : arrow_size <= x /\ x + arrow_size < track_size

Dial == DrawGForceBackground(Blank)

\* The caches hold what would be drawn again.
CacheInv ==
  initialized =>
    /\ previous # None /\ Separate(previous)
    /\ gauge_background = CopyRegion(Dial, Gauge)
    /\ layout.text_below_dot =>
         gauge_text_background =
           CopyRegion(DrawMagnitude(Dial, previous.force), Gauge)

\* The inductive invariant, where arrows fit.
IInv ==
  /\ layout \in Layouts
  /\ initialized \in BOOLEAN
  /\ previous \in Frames \cup {None}
  /\ previous = None => pixels = Blank
  /\ CachedIsReference
  /\ CacheInv
=============================================================================
