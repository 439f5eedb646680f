--------------------------- MODULE OverlayProofs ---------------------------
(***************************************************************************)
(* What the overlay shows, and how it is drawn.                            *)
(*                                                                         *)
(* CachedRenderer draws the reference picture, for any size of the track   *)
(* and any readings, as long as arrows fit inside the track square.  Two   *)
(* pictures are equal if they are equal cell by cell, so the lemmas say    *)
(* what each step of the drawing leaves in the cells of the widgets and in *)
(* the columns of the track.                                               *)
(*                                                                         *)
(* OverlayData draws the drive, for any samples, places, speeds and        *)
(* ranges.  The invariant says of each stage what it leaves to the next:   *)
(* the filter, samples in the order of time; the projection, the clip of   *)
(* these; the navigation, how far the search for the next course has got.  *)
(* Sums over legs and counts of samples are reasoned about by the least    *)
(* number for which a statement fails.                                     *)
(***************************************************************************)
EXTENDS CachedRenderer, OverlayData, FiniteSetTheorems, WellFoundedInduction,
        TLAPS


TrackColumns == 0 .. Columns - 1

\* The picture of a frame whose widgets are apart, cell by cell.
PictureAt(f, c) ==
  IF c = dial THEN Append(Append(<<>>, <<"background">>), <<"dot", f.force>>)
  ELSE IF c = caption
  THEN Append(IF layout.text_below_dot THEN <<>>
              ELSE Append(<<>>, <<"dot", f.force>>),
              <<"text", Magnitude[f.force]>>)
  ELSE IF c = speeds THEN Append(<<>>, <<"speed", f.speed>>)
  ELSE IF c = rest THEN <<>>
  ELSE DrawArrow(BlitTrack(Blank, f.track), f.arrow)[c]

\* The cells are the four on the left and the columns of the track, and no
\* cell is two of them.
LEMMA CellCases ==
  ASSUME NEW c \in Cells
  PROVE  \/ c = dial \/ c = caption \/ c = speeds \/ c = rest
         \/ c \in TrackColumns
  BY DEF Cells, LeftSide, TrackColumns

LEMMA CellsDiffer ==
  /\ dial # caption /\ dial # speeds /\ dial # rest
  /\ caption # speeds /\ caption # rest /\ speeds # rest
  /\ \A c \in TrackColumns : c \notin LeftSide /\ c \in Cells
  /\ \A c \in LeftSide : c \in Cells /\ c \notin TrackColumns /\ c \notin Square
  /\ Square \subseteq TrackColumns
  BY RendererAssumption
     DEF dial, caption, speeds, rest, TrackColumns, LeftSide, Cells, Square

\* An arrow that fits is drawn inside the track square.
LEMMA ArrowInside ==
  ASSUME ArrowsFit, NEW arrow \in Arrows, arrow # None
  PROVE  /\ arrow.x \in Square
         /\ ArrowCells(arrow) \subseteq Square
         /\ ArrowCells(arrow) \subseteq
              arrow.x - arrow_radius .. arrow.x + arrow_radius
<1>1. /\ arrow.x \in ArrowXs /\ arrow.x \in Int
      /\ arrow_size <= arrow.x /\ arrow.x + arrow_size < track_size
  <2>1. arrow \in [x : ArrowXs, heading : {"east", "west"}]
    BY DEF Arrows
  <2>2. arrow.x \in ArrowXs
    BY <2>1
  <2>3. \A x \in ArrowXs :
          x \in Int /\ arrow_size <= x /\ x + arrow_size < track_size
    BY RendererAssumption DEF ArrowsFit
  <2> QED
    BY <2>2, <2>3
<1> DEFINE columns == IF arrow.heading = "east"
                      THEN arrow.x .. arrow.x + arrow_size
                      ELSE arrow.x - arrow_size .. arrow.x
<1>2. \A column \in columns :
        /\ column \in Int /\ 0 <= column /\ column < track_size
        /\ arrow.x - arrow_radius <= column
        /\ column <= arrow.x + arrow_radius
  BY <1>1, RendererAssumption DEF arrow_radius
<1>3. ArrowCells(arrow) = columns \cap TrackColumns
  BY <1>2 DEF ArrowCells, TrackColumns
<1> QED
  BY <1>1, <1>2, <1>3, RendererAssumption DEF Square

\* What the track and its arrow leave untouched.
LEMMA TrackOnBlank ==
  ASSUME ArrowsFit, NEW f \in Frames
  PROVE  LET drawn == DrawArrow(BlitTrack(Blank, f.track), f.arrow)
         IN  /\ drawn = [c \in Cells |-> drawn[c]]
             /\ \A c \in Cells \ Square : drawn[c] = <<>>
             /\ \A c \in Square :
                  drawn[c] =
                    IF f.arrow # None /\ c \in ArrowCells(f.arrow)
                    THEN Append(TrackImage(f.track)[c], <<"arrow", f.arrow>>)
                    ELSE TrackImage(f.track)[c]
<1>1. f.arrow \in Arrows
  BY DEF Frames
<1>2. CASE f.arrow = None
  BY <1>2, CellsDiffer DEF DrawArrow, BlitTrack, Blit, Blank
<1>3. CASE f.arrow # None
  <2>1. ArrowCells(f.arrow) \subseteq Square
    BY <1>1, <1>3, ArrowInside
  <2> QED
    BY <1>3, <2>1, CellsDiffer DEF DrawArrow, BlitTrack, Blit, Blank, Paint
<1> QED
  BY <1>2, <1>3

\* The reference picture, cell by cell.
LEMMA ReferenceCells ==
  ASSUME ArrowsFit, NEW f \in Frames, Separate(f)
  PROVE  Reference(f) = [c \in Cells |-> PictureAt(f, c)]
<1> DEFINE drawn == DrawArrow(BlitTrack(Blank, f.track), f.arrow)
<1>1. /\ drawn = [c \in Cells |-> drawn[c]]
      /\ \A c \in LeftSide : drawn[c] = <<>>
  BY TrackOnBlank, CellsDiffer
<1>2. /\ SpeedCells = {speeds} /\ TextCells(f.force) = {caption}
      /\ DotCells = IF layout.text_below_dot THEN {dial} ELSE {dial, caption}
  BY DEF Separate, SpeedCells, TextCells, DotCells, Gauge
<1> HIDE DEF drawn
<1>3. Reference(f) = DrawReadouts(drawn, f)
  BY DEF Reference, drawn
<1>4. DrawReadouts(drawn, f) =
        [c \in Cells |->
           Paint(Paint(Paint(Paint(drawn, {dial}, <<"background">>),
                             DotCells, <<"dot", f.force>>),
                       {caption}, <<"text", Magnitude[f.force]>>),
                 {speeds}, <<"speed", f.speed>>)[c]]
  BY <1>2, SMTT(30)
     DEF DrawReadouts, DrawSpeed, DrawGauge, DrawMagnitude, DrawGForceDot,
         DrawGForceBackground, Paint
<1>5. ASSUME NEW c \in Cells
      PROVE  Paint(Paint(Paint(Paint(drawn, {dial}, <<"background">>),
                               DotCells, <<"dot", f.force>>),
                         {caption}, <<"text", Magnitude[f.force]>>),
                   {speeds}, <<"speed", f.speed>>)[c] = PictureAt(f, c)
  <2> USE <1>1, <1>2, CellsDiffer DEF Paint, LeftSide
  <2>1. CASE c = dial
    BY <2>1 DEF PictureAt
  <2>2. CASE c = caption
    BY <2>2 DEF PictureAt
  <2>3. CASE c = speeds
    BY <2>3 DEF PictureAt
  <2>4. CASE c = rest
    BY <2>4 DEF PictureAt
  <2>5. CASE c \in TrackColumns
    BY <2>5 DEF PictureAt, drawn
  <2> QED
    BY <2>1, <2>2, <2>3, <2>4, <2>5, CellCases
<1> QED
  BY <1>3, <1>4, <1>5

\* Even a picture drawn in order leaves the columns beyond the track empty,
\* if the widgets are apart.
LEMMA ReferenceBeyond ==
  ASSUME ArrowsFit, layout.apart, NEW f \in Frames
  PROVE  /\ Reference(f) = [c \in Cells |-> Reference(f)[c]]
         /\ \A c \in TrackColumns \ Square : Reference(f)[c] = <<>>
<1> DEFINE drawn == DrawArrow(BlitTrack(Blank, f.track), f.arrow)
<1>1. /\ drawn = [c \in Cells |-> drawn[c]]
      /\ \A c \in TrackColumns \ Square : drawn[c] = <<>>
  BY TrackOnBlank, CellsDiffer
<1>2. /\ SpeedCells \subseteq LeftSide /\ TextCells(f.force) \subseteq LeftSide
      /\ DotCells \subseteq LeftSide /\ {dial} \subseteq LeftSide
  BY DEF SpeedCells, TextCells, DotCells, Gauge, LeftSide
<1> HIDE DEF drawn
<1>3. ASSUME NEW canvas, NEW cells, NEW layer, cells \subseteq LeftSide,
             \A c \in TrackColumns \ Square : canvas[c] = <<>>
      PROVE  /\ Paint(canvas, cells, layer)
                  = [c \in Cells |-> Paint(canvas, cells, layer)[c]]
             /\ \A c \in TrackColumns \ Square :
                  Paint(canvas, cells, layer)[c] = <<>>
  BY <1>3, CellsDiffer DEF Paint
<1>4. Reference(f) =
        Paint(Paint(Paint(Paint(drawn, {dial}, <<"background">>),
                          DotCells, <<"dot", f.force>>),
                    TextCells(f.force), <<"text", Magnitude[f.force]>>),
              SpeedCells, <<"speed", f.speed>>)
  BY DEF Reference, drawn, DrawReadouts, DrawSpeed, DrawGauge, DrawMagnitude,
         DrawGForceDot, DrawGForceBackground
<1> DEFINE background == Paint(drawn, {dial}, <<"background">>)
           dotted == Paint(background, DotCells, <<"dot", f.force>>)
           texted == Paint(dotted, TextCells(f.force),
                           <<"text", Magnitude[f.force]>>)
<1>5. \A c \in TrackColumns \ Square : background[c] = <<>>
  BY <1>1, <1>2, <1>3
<1>6. \A c \in TrackColumns \ Square : dotted[c] = <<>>
  <2> HIDE DEF background
  <2> QED  BY <1>5, <1>2, <1>3
<1>7. \A c \in TrackColumns \ Square : texted[c] = <<>>
  <2> HIDE DEF dotted
  <2> QED  BY <1>6, <1>2, <1>3
<1> HIDE DEF texted
<1>8. Reference(f) = Paint(texted, SpeedCells, <<"speed", f.speed>>)
  BY <1>4 DEF texted
<1> QED
  BY <1>7, <1>8, <1>2, <1>3
-----------------------------------------------------------------------------
(* Repainting the track.                                                   *)

\* What the buffer holds before a frame with its own rectangles is drawn.
LEMMA BeforeTrack ==
  ASSUME ArrowsFit, IInv, layout.apart
  PROVE  /\ pixels = [c \in Cells |-> pixels[c]]
         /\ \A c \in TrackColumns \ Square : pixels[c] = <<>>
         /\ initialized =>
              /\ previous \in Frames /\ previous.arrow \in Arrows
              /\ Separate(previous)
              /\ \A c \in Cells : pixels[c] = PictureAt(previous, c)
<1>1. CASE previous = None
  BY <1>1, CellsDiffer DEF IInv, CacheInv, Blank
<1>2. CASE previous # None
  <2>1. previous \in Frames /\ pixels = Reference(previous)
    BY <1>2 DEF IInv, CachedIsReference
  <2>2. initialized => Separate(previous)
    BY DEF IInv, CacheInv
  <2>3. previous.arrow \in Arrows
    BY <2>1 DEF Frames
  <2> QED
    BY <2>1, <2>2, <2>3, ReferenceBeyond, ReferenceCells
<1> QED
  BY <1>1, <1>2

\* The part from frame_x on becomes that of the reference picture, and the
\* left side stays as it was.
LEMMA TrackRedrawn ==
  ASSUME ArrowsFit, IInv, NEW f \in Frames, Separate(f)
  PROVE  LET tracked == DrawTrack(pixels, f, initialized)
         IN  /\ tracked = [c \in Cells |-> tracked[c]]
             /\ \A c \in LeftSide : tracked[c] = pixels[c]
             /\ \A c \in TrackColumns :
                  tracked[c] =
                    DrawArrow(BlitTrack(Blank, f.track), f.arrow)[c]
<1> DEFINE based ==
             IF initialized /\ previous.track = f.track
             THEN IF previous.arrow = None THEN pixels
                  ELSE RestoreTrack(pixels, f.track, previous.arrow.x,
                                    arrow_radius)
             ELSE BlitTrack(pixels, f.track)
<1>1. f.arrow \in Arrows /\ layout.apart
  BY DEF Frames, Separate
<1>2. /\ based = [c \in Cells |-> based[c]]
      /\ \A c \in Cells \ Square : based[c] = pixels[c]
      /\ \A c \in Square : based[c] = TrackImage(f.track)[c]
  <2>1. CASE ~(initialized /\ previous.track = f.track)
    BY <2>1, CellsDiffer DEF BlitTrack, Blit
  <2>2. CASE initialized /\ previous.track = f.track
    <3>1. /\ previous \in Frames /\ previous.arrow \in Arrows
          /\ pixels = [c \in Cells |-> pixels[c]]
      BY <2>2, <1>1, BeforeTrack
    <3>2. \A c \in Square :
            pixels[c] =
              DrawArrow(BlitTrack(Blank, previous.track), previous.arrow)[c]
      BY <2>2, <1>1, BeforeTrack, CellsDiffer DEF PictureAt, LeftSide
    <3>3. \A c \in Square :
            ~(previous.arrow # None /\ c \in ArrowCells(previous.arrow)) =>
              pixels[c] = TrackImage(f.track)[c]
      BY <2>2, <3>1, <3>2, TrackOnBlank
    <3>4. CASE previous.arrow = None
      BY <2>2, <3>1, <3>3, <3>4
    <3>5. CASE previous.arrow # None
      <4>1. ArrowCells(previous.arrow) \subseteq
              previous.arrow.x - arrow_radius .. previous.arrow.x + arrow_radius
        BY <3>1, <3>5, ArrowInside
      <4>2. based = [c \in Cells |->
                       IF c \in Square \cap
                            (previous.arrow.x - arrow_radius
                               .. previous.arrow.x + arrow_radius)
                       THEN TrackImage(f.track)[c] ELSE pixels[c]]
        BY <2>2, <3>5 DEF RestoreTrack, Blit
      <4> QED
        BY <3>3, <4>1, <4>2, CellsDiffer
    <3> QED
      BY <3>4, <3>5
  <2> QED
    BY <2>1, <2>2
<1> HIDE DEF based
<1>3. DrawTrack(pixels, f, initialized) = DrawArrow(based, f.arrow)
  BY DEF DrawTrack, based
<1>4. \A c \in TrackColumns \ Square : based[c] = <<>>
  BY <1>1, <1>2, BeforeTrack, CellsDiffer
<1> DEFINE drawn == DrawArrow(BlitTrack(Blank, f.track), f.arrow)
           tracked == DrawArrow(based, f.arrow)
<1>7. /\ \A c \in Cells \ Square : drawn[c] = <<>>
      /\ \A c \in Square :
           drawn[c] = IF f.arrow # None /\ c \in ArrowCells(f.arrow)
                      THEN Append(TrackImage(f.track)[c], <<"arrow", f.arrow>>)
                      ELSE TrackImage(f.track)[c]
  BY TrackOnBlank
<1> HIDE DEF drawn
<1> SUFFICES /\ tracked = [c \in Cells |-> tracked[c]]
             /\ \A c \in LeftSide : tracked[c] = pixels[c]
             /\ \A c \in TrackColumns : tracked[c] = drawn[c]
  BY <1>3 DEF drawn
<1>5. CASE f.arrow = None
  <2>1. tracked = based
    BY <1>5 DEF DrawArrow
  <2> HIDE DEF tracked
  <2> QED
    BY <1>2, <1>4, <1>5, <1>7, <2>1, CellsDiffer
<1>6. CASE f.arrow # None
  <2>1. ArrowCells(f.arrow) \subseteq Square
    BY <1>1, <1>6, ArrowInside
  <2>2. tracked =
          [c \in Cells |-> IF c \in ArrowCells(f.arrow)
                           THEN Append(based[c], <<"arrow", f.arrow>>)
                           ELSE based[c]]
    BY <1>6 DEF DrawArrow, Paint
  <2> HIDE DEF tracked
  <2> QED
    BY <1>2, <1>4, <1>6, <1>7, <2>1, <2>2, CellsDiffer
<1> QED
  BY <1>5, <1>6
-----------------------------------------------------------------------------
(* Repainting the gauge and the speeds.                                    *)

DialAt(c) == IF c = dial THEN Append(<<>>, <<"background">>) ELSE <<>>

LEMMA Caches ==
  ASSUME NEW force, Magnitude[force] \notin WideTexts
  PROVE  /\ Gauge \subseteq Cells /\ Gauge \subseteq LeftSide
         /\ CopyRegion(Dial, Gauge) = [c \in Gauge |-> DialAt(c)]
         /\ CopyRegion(DrawMagnitude(Dial, force), Gauge)
              = [c \in Gauge |->
                   IF c = caption
                   THEN Append(<<>>, <<"text", Magnitude[force]>>)
                   ELSE DialAt(c)]
<1>1. Gauge \subseteq Cells /\ Gauge \subseteq LeftSide
  BY CellsDiffer DEF Gauge, LeftSide
<1>2. Dial = [c \in Cells |-> DialAt(c)]
  BY DEF Dial, DrawGForceBackground, Paint, Blank, DialAt
<1>3. TextCells(force) = {caption}
  BY DEF TextCells
<1>4. DrawMagnitude(Dial, force)
        = [c \in Cells |-> IF c = caption
                           THEN Append(DialAt(c), <<"text", Magnitude[force]>>)
                           ELSE DialAt(c)]
  BY <1>2, <1>3 DEF DrawMagnitude, Paint
<1>5. DialAt(caption) = <<>>
  BY CellsDiffer DEF DialAt
<1> QED
  BY <1>1, <1>2, <1>4, <1>5 DEF CopyRegion

\* The dial with the text is that of the frame, whether it was cached or not.
LEMMA TextBackgroundCells ==
  ASSUME ArrowsFit, IInv, NEW f \in Frames, Separate(f),
         layout.text_below_dot, NEW canvas, NEW background,
         background = CopyRegion(Dial, Gauge)
  PROVE  TextBackground(canvas, background, f)
           = CopyRegion(DrawMagnitude(Dial, f.force), Gauge)
<1>1. Magnitude[f.force] \notin WideTexts
  BY DEF Separate
<1>2. CASE TextIsCached(f)
  <2>1. /\ initialized /\ Magnitude[previous.force] = Magnitude[f.force]
        /\ gauge_text_background
             = CopyRegion(DrawMagnitude(Dial, previous.force), Gauge)
    BY <1>2 DEF TextIsCached, IInv, CacheInv
  <2>2. DrawMagnitude(Dial, previous.force) = DrawMagnitude(Dial, f.force)
    BY <2>1 DEF DrawMagnitude, TextCells
  <2> QED
    BY <1>2, <2>1, <2>2 DEF TextBackground
<1>3. CASE ~TextIsCached(f)
  <2>1. TextCells(f.force) = {caption}
    BY <1>1 DEF TextCells
  <2>2. CopyRegion(DrawMagnitude(Blit(canvas, Gauge, background), f.force),
                   Gauge)
          = [c \in Gauge |->
               IF c = caption
               THEN Append(background[c], <<"text", Magnitude[f.force]>>)
               ELSE background[c]]
    BY <1>1, <2>1, Caches DEF CopyRegion, DrawMagnitude, Paint, Blit
  <2>3. /\ \A c \in Gauge : background[c] = DialAt(c)
        /\ DialAt(caption) = <<>>
    BY <1>1, Caches, CellsDiffer DEF DialAt
  <2> QED
    BY <1>1, <1>3, <2>2, <2>3, Caches DEF TextBackground
<1> QED
  BY <1>2, <1>3

\* Only the gauge is repainted, and it becomes that of the frame.
LEMMA GaugeRedrawn ==
  ASSUME ArrowsFit, IInv, NEW f \in Frames, Separate(f),
         NEW left, left = [c \in Cells |-> left[c]],
         initialized => \A c \in LeftSide : left[c] = PictureAt(previous, c),
         NEW background, background = CopyRegion(Dial, Gauge)
  PROVE  LET gauge == UpdateGauge(left, background, f)
         IN  /\ gauge = [c \in Cells |-> gauge[c]]
             /\ \A c \in Cells \ Gauge : gauge[c] = left[c]
             /\ \A c \in Gauge : gauge[c] = PictureAt(f, c)
<1>1. /\ Magnitude[f.force] \notin WideTexts
      /\ TextCells(f.force) = {caption}
  BY DEF Separate, TextCells
<1>2. \A c \in Gauge : background[c] = DialAt(c) /\ c \in Cells
  BY <1>1, Caches
<1>3. CASE GaugeIsCurrent(f)
  <2>1. UpdateGauge(left, background, f) = left
    BY <1>3 DEF UpdateGauge
  <2>2. \A c \in Gauge : PictureAt(previous, c) = PictureAt(f, c)
    BY <1>3, CellsDiffer DEF GaugeIsCurrent, PictureAt, Gauge
  <2>3. \A c \in Gauge : left[c] = PictureAt(previous, c)
    BY <1>1, <1>3, Caches DEF GaugeIsCurrent
  <2> QED
    BY <2>1, <2>2, <2>3
<1>4. CASE ~GaugeIsCurrent(f) /\ layout.text_below_dot
  <2> DEFINE text == CopyRegion(DrawMagnitude(Dial, f.force), Gauge)
  <2>1. text = [c \in Gauge |->
                  IF c = caption
                  THEN Append(<<>>, <<"text", Magnitude[f.force]>>)
                  ELSE DialAt(c)]
    BY <1>1, Caches
  <2>2. UpdateGauge(left, background, f)
          = DrawGForceDot(Blit(left, Gauge, text), f.force)
    BY <1>4, TextBackgroundCells DEF UpdateGauge
  <2> HIDE DEF text
  <2>3. UpdateGauge(left, background, f)
          = [c \in Cells |->
               IF c = dial
               THEN Append(IF c \in Gauge THEN text[c] ELSE left[c],
                           <<"dot", f.force>>)
               ELSE IF c \in Gauge THEN text[c] ELSE left[c]]
    BY <1>4, <2>2 DEF DrawGForceDot, Paint, Blit, DotCells
  <2> QED
    BY <1>2, <1>4, <2>1, <2>3, CellsDiffer DEF Gauge, PictureAt, DialAt
<1>5. CASE ~GaugeIsCurrent(f) /\ ~layout.text_below_dot
  <2>1. DotCells = Gauge
    BY <1>5 DEF DotCells
  <2>2. UpdateGauge(left, background, f)
          = Paint(Paint(Blit(left, Gauge, background), Gauge,
                        <<"dot", f.force>>),
                  {caption}, <<"text", Magnitude[f.force]>>)
    BY <1>1, <1>5, <2>1
       DEF UpdateGauge, DrawGauge, DrawGForceDot, DrawMagnitude
  <2>3. UpdateGauge(left, background, f)
          = [c \in Cells |->
               IF c = caption
               THEN Append(IF c \in Gauge
                           THEN Append(background[c], <<"dot", f.force>>)
                           ELSE left[c], <<"text", Magnitude[f.force]>>)
               ELSE IF c \in Gauge
               THEN Append(background[c], <<"dot", f.force>>)
               ELSE left[c]]
    BY <2>2 DEF Paint, Blit
  <2> QED
    BY <1>2, <1>5, <2>3, CellsDiffer DEF Gauge, PictureAt, DialAt
<1> QED
  BY <1>3, <1>4, <1>5

\* Only the speeds are repainted, and they become those of the frame.
LEMMA SpeedRedrawn ==
  ASSUME NEW f \in Frames, Separate(f),
         NEW canvas, canvas = [c \in Cells |-> canvas[c]],
         initialized => canvas[speeds] = PictureAt(previous, speeds)
  PROVE  LET drawn == UpdateSpeed(canvas, f)
         IN  /\ drawn = [c \in Cells |-> drawn[c]]
             /\ \A c \in Cells \ {speeds} : drawn[c] = canvas[c]
             /\ drawn[speeds] = PictureAt(f, speeds)
<1>1. SpeedCells = {speeds} /\ speeds \in Cells
  BY CellsDiffer DEF Separate, SpeedCells, LeftSide
<1>2. CASE initialized /\ previous.speed = f.speed
  BY <1>2, CellsDiffer DEF UpdateSpeed, PictureAt
<1>3. CASE ~(initialized /\ previous.speed = f.speed)
  <2>1. UpdateSpeed(canvas, f)
          = [c \in Cells |-> IF c = speeds
                             THEN Append(<<>>, <<"speed", f.speed>>)
                             ELSE canvas[c]]
    BY <1>1, <1>3 DEF UpdateSpeed, DrawSpeed, Paint, Clear
  <2> QED
    BY <1>1, <2>1, CellsDiffer DEF PictureAt
<1> QED
  BY <1>2, <1>3
-----------------------------------------------------------------------------
(* A frame whose widgets have rectangles of their own.                     *)

LEMMA SeparatelyDrawn ==
  ASSUME ArrowsFit, IInv, NEW f \in Frames, RenderSeparately(f)
  PROVE  /\ pixels' = Reference(f)
         /\ initialized' = TRUE /\ previous' = f /\ layout' = layout
         /\ gauge_background' = CopyRegion(Dial, Gauge)
         /\ layout.text_below_dot =>
              gauge_text_background' =
                CopyRegion(DrawMagnitude(Dial, f.force), Gauge)
<1> DEFINE tracked == DrawTrack(pixels, f, initialized)
           left == IF initialized THEN tracked
                   ELSE DrawGForceBackground(Clear(tracked, LeftSide))
           background == IF initialized THEN gauge_background
                         ELSE CopyRegion(left, Gauge)
           gauge == UpdateGauge(left, background, f)
           drawn == UpdateSpeed(gauge, f)
           picture == DrawArrow(BlitTrack(Blank, f.track), f.arrow)
<1>1. /\ Separate(f) /\ layout.apart
      /\ Magnitude[f.force] \notin WideTexts
      /\ gauge_background' = background
      /\ gauge_text_background' =
           IF layout.text_below_dot /\ ~GaugeIsCurrent(f)
           THEN TextBackground(left, background, f)
           ELSE gauge_text_background
      /\ pixels' = drawn
      /\ initialized' = TRUE /\ previous' = f /\ layout' = layout
  BY DEF RenderSeparately, Separate
<1>2. /\ tracked = [c \in Cells |-> tracked[c]]
      /\ \A c \in LeftSide : tracked[c] = pixels[c]
      /\ \A c \in TrackColumns : tracked[c] = picture[c]
  BY <1>1, TrackRedrawn
<1> HIDE DEF tracked, picture
<1>3. /\ left = [c \in Cells |-> left[c]]
      /\ \A c \in TrackColumns : left[c] = picture[c]
      /\ initialized => \A c \in LeftSide : left[c] = PictureAt(previous, c)
      /\ ~initialized => \A c \in LeftSide : left[c] = DialAt(c)
      /\ left[rest] = <<>>
  <2>1. CASE initialized
    <3>1. /\ left = tracked
          /\ \A c \in Cells : pixels[c] = PictureAt(previous, c)
      BY <1>1, <2>1, BeforeTrack
    <3>2. PictureAt(previous, rest) = <<>>
      BY CellsDiffer DEF PictureAt
    <3> HIDE DEF left
    <3> QED
      BY <1>2, <2>1, <3>1, <3>2, CellsDiffer DEF LeftSide
  <2>2. CASE ~initialized
    <3>1. left = [c \in Cells |->
                    IF c = dial
                    THEN Append(IF c \in LeftSide THEN <<>> ELSE tracked[c],
                                <<"background">>)
                    ELSE IF c \in LeftSide THEN <<>> ELSE tracked[c]]
      BY <2>2 DEF DrawGForceBackground, Paint, Clear
    <3> HIDE DEF left
    <3> QED
      BY <1>2, <2>2, <3>1, CellsDiffer DEF DialAt, LeftSide
  <2> QED
    BY <2>1, <2>2
<1>4. background = CopyRegion(Dial, Gauge)
  <2>1. CASE initialized
    BY <2>1 DEF IInv, CacheInv
  <2>2. CASE ~initialized
    <3>1. background = [c \in Gauge |-> left[c]]
      BY <2>2 DEF CopyRegion
    <3> HIDE DEF background, left
    <3>2. /\ \A c \in Gauge : left[c] = DialAt(c)
          /\ CopyRegion(Dial, Gauge) = [c \in Gauge |-> DialAt(c)]
      BY <1>1, <1>3, <2>2, Caches
    <3> QED
      BY <3>1, <3>2
  <2> QED
    BY <2>1, <2>2
<1> HIDE DEF left, background
<1>5. /\ gauge = [c \in Cells |-> gauge[c]]
      /\ \A c \in Cells \ Gauge : gauge[c] = left[c]
      /\ \A c \in Gauge : gauge[c] = PictureAt(f, c)
  BY <1>1, <1>3, <1>4, GaugeRedrawn
<1> HIDE DEF gauge
<1>6. initialized => gauge[speeds] = PictureAt(previous, speeds)
  BY <1>3, <1>5, CellsDiffer DEF LeftSide, Gauge
<1>7. /\ drawn = [c \in Cells |-> drawn[c]]
      /\ \A c \in Cells \ {speeds} : drawn[c] = gauge[c]
      /\ drawn[speeds] = PictureAt(f, speeds)
  BY <1>1, <1>5, <1>6, SpeedRedrawn
<1> HIDE DEF drawn
<1>8. ASSUME NEW c \in Cells
      PROVE  drawn[c] = PictureAt(f, c)
  <2>1. CASE c = dial \/ c = caption \/ c = speeds
    BY <2>1, <1>5, <1>7, CellsDiffer DEF Gauge
  <2>2. CASE c = rest
    BY <2>2, <1>3, <1>5, <1>7, CellsDiffer DEF Gauge, PictureAt
  <2>3. CASE c \in TrackColumns
    <3>1. c \notin LeftSide /\ c \notin Gauge /\ c # speeds
      BY <2>3, CellsDiffer DEF LeftSide, Gauge
    <3>2. drawn[c] = picture[c]
      BY <2>3, <3>1, <1>3, <1>5, <1>7
    <3> QED
      BY <3>1, <3>2 DEF PictureAt, LeftSide, picture
  <2> QED
    BY <2>1, <2>2, <2>3, CellCases
<1>9. pixels' = Reference(f)
  BY <1>1, <1>7, <1>8, ReferenceCells
<1>10. ASSUME layout.text_below_dot
       PROVE  gauge_text_background' =
                CopyRegion(DrawMagnitude(Dial, f.force), Gauge)
  <2>1. CASE GaugeIsCurrent(f)
    BY <1>1, <1>10, <2>1 DEF GaugeIsCurrent, IInv, CacheInv
  <2>2. CASE ~GaugeIsCurrent(f)
    BY <1>1, <1>4, <1>10, <2>2, TextBackgroundCells
  <2> QED
    BY <2>1, <2>2
<1> QED
  BY <1>1, <1>4, <1>9, <1>10

\* What a picture of the frame drawn last is does not depend on the step.
LEMMA SameLayout ==
  ASSUME layout' = layout, NEW f, previous' = f
  PROVE  /\ Reference(previous)' = Reference(f)
         /\ Separate(previous)' <=> Separate(f)
         /\ DrawMagnitude(Dial, previous.force)' = DrawMagnitude(Dial, f.force)
         /\ Dial' = Dial
  BY DEF Reference, DrawReadouts, DrawSpeed, DrawGauge, DrawMagnitude,
         DrawGForceDot, DrawGForceBackground, DrawArrow, ArrowCells, BlitTrack,
         Blit, TrackImage, Paint, Blank, SpeedCells, DotCells, TextCells,
         Separate, Dial
-----------------------------------------------------------------------------
\* The inductive invariant of the renderer: where arrows fit inside the track
\* square, the buffer is the reference picture and the caches are what would
\* be drawn again (debug_renderer.cc:498-632).
THEOREM Invariance == ASSUME ArrowsFit PROVE Spec => []IInv
<1>1. ASSUME Init
      PROVE  IInv
  BY <1>1, RendererAssumption DEF Init, IInv, CachedIsReference, CacheInv
<1>2. ASSUME IInv, [Next]_vars
      PROVE  IInv'
  <2>1. CASE UNCHANGED vars
    BY <1>2, <2>1, SameLayout
       DEF vars, IInv, CachedIsReference, CacheInv, CopyRegion, Blank, Frames
  <2>2. ASSUME NEW f \in Frames, RenderInOrder(f)
        PROVE  IInv'
    <3>1. /\ pixels' = Reference(f) /\ initialized' = FALSE
          /\ previous' = f /\ layout' = layout
      BY <2>2 DEF RenderInOrder, Reference, DrawTrack
    <3>2. previous' # None
      BY <2>2, <3>1, RendererAssumption
    <3>3. CachedIsReference'
      BY <3>1, SameLayout DEF CachedIsReference
    <3> QED
      BY <1>2, <2>2, <3>1, <3>2, <3>3 DEF IInv, CacheInv, Layouts
  <2>3. ASSUME NEW f \in Frames, RenderSeparately(f)
        PROVE  IInv'
    <3>1. /\ pixels' = Reference(f) /\ initialized' = TRUE
          /\ previous' = f /\ layout' = layout
          /\ gauge_background' = CopyRegion(Dial, Gauge)
          /\ layout.text_below_dot =>
               gauge_text_background' =
                 CopyRegion(DrawMagnitude(Dial, f.force), Gauge)
      BY <1>2, <2>3, SeparatelyDrawn
    <3>2. previous' # None /\ Separate(f)
      BY <2>3, <3>1, RendererAssumption DEF RenderSeparately
    <3>3. CachedIsReference'
      BY <3>1, SameLayout DEF CachedIsReference
    <3>4. CacheInv'
      BY <3>1, <3>2, SameLayout DEF CacheInv, CopyRegion
    <3> QED
      BY <1>2, <2>3, <3>1, <3>2, <3>3, <3>4 DEF IInv, Layouts
  <2> QED
    BY <1>2, <2>1, <2>2, <2>3 DEF Next, Render
<1> QED
  BY <1>1, <1>2, PTL DEF Spec

\* Where arrows fit, drawing only what changed gives the picture that drawing
\* everything would give, whatever was drawn before.
THEOREM DrawsTheReference ==
  ASSUME ArrowsFit PROVE Spec => []CachedIsReference
<1>1. IInv => CachedIsReference
  BY DEF IInv
<1> QED
  BY <1>1, Invariance, PTL
-----------------------------------------------------------------------------
(* The samples that are kept.                                              *)

Stages == {"filter", "project", "navigate", "frames", "failed"}
Courses == {Eighth * n : n \in 0 .. 7}

DataTypeOK ==
  /\ stage \in Stages
  /\ given \in Seq(Sample \cup {Unusable})
  /\ valid \in Seq(Sample)
  /\ range \in Ranges \cup {WholeTrack}
  /\ track \in Seq([timestamp : Moments, x : Int, y : Int])
  /\ navigation \in Seq([timestamp : Moments, heading : Courses])
  /\ heading_target \in Nat \ {0}
  /\ sampled \in [timestamp : Times, heading : Int, explored : Nat]
                   \cup {NoFrame}

KeptInOrder ==
  \A i, j \in 1 .. Len(valid) : i < j => valid[i].timestamp < valid[j].timestamp

EnoughKept == stage \in {"project", "navigate", "frames"} => Len(valid) >= 2

PlausibleDriveKept == PlausibleDrive(given) => valid = given

\* The values of a sample that is not skipped at once.
LEMMA SampleTypes ==
  ASSUME NEW s \in Sample
  PROVE  /\ s.timestamp \in Nat /\ s.timestamp \in Times
         /\ s.timestamp \in Moments
         /\ s.place.longitude \in Int
         /\ -180 <= s.place.longitude /\ s.place.longitude <= 180
         /\ s.place.latitude \in Int
         /\ s # Unusable
<1>1. s.timestamp \in Times /\ s.place \in Place
  BY OverlayDataAssumption DEF Sample
<1>2. /\ s.place.longitude \in Int
      /\ -180 <= s.place.longitude /\ s.place.longitude <= 180
      /\ s.place.latitude \in Int
  BY <1>1, OverlayDataAssumption DEF Place
<1>3. Unusable.place.longitude = 181
  BY DEF Unusable
<1>4. s # Unusable
  BY <1>2, <1>3
<1>5. s.timestamp \in Nat /\ s.timestamp \in Moments
  BY <1>1, OverlayDataAssumption DEF Moments
<1> QED
  BY <1>1, <1>2, <1>4, <1>5

\* The samples that are kept.
LEMMA ValidTypes ==
  ASSUME DataTypeOK
  PROVE  /\ Len(valid) \in Nat /\ DOMAIN valid = 1 .. Len(valid)
         /\ valid # << >> <=> Len(valid) > 0
         /\ \A i \in 1 .. Len(valid) : valid[i] \in Sample
  BY DEF DataTypeOK

\* The samples that are given.
LEMMA GivenTypes ==
  ASSUME DataTypeOK
  PROVE  /\ Len(given) \in Nat /\ DOMAIN given = 1 .. Len(given)
         /\ given # << >> <=> Len(given) > 0
         /\ \A i \in 1 .. Len(given) : given[i] \in Sample \cup {Unusable}
  BY DEF DataTypeOK

\* A sequence with one more element.
LEMMA Appended ==
  ASSUME NEW S, NEW s \in Seq(S), NEW e
  PROVE  /\ Len(Append(s, e)) = Len(s) + 1
         /\ DOMAIN Append(s, e) = 1 .. Len(s) + 1
         /\ \A i \in 1 .. Len(s) : Append(s, e)[i] = s[i]
         /\ Append(s, e)[Len(s) + 1] = e
  OBVIOUS

\* the samples kept
LEMMA KeptStep ==
  ASSUME DataTypeOK, KeptInOrder, NEW s \in Sample, Keep(s)
  PROVE  KeptInOrder'
<1>1. valid' = Append(valid, s) /\ Ordered(s) /\ s.timestamp \in Nat
  BY SampleTypes DEF Keep
<1>2. /\ Len(valid') = Len(valid) + 1
      /\ \A i \in 1 .. Len(valid) : valid'[i] = valid[i]
      /\ valid'[Len(valid) + 1] = s
  BY <1>1, Appended DEF DataTypeOK
<1>3. ASSUME NEW i \in 1 .. Len(valid)
      PROVE  valid[i].timestamp < s.timestamp
  <2>1. valid[Len(valid)].timestamp < s.timestamp
    BY <1>1, ValidTypes DEF Ordered
  <2>2. valid[i].timestamp \in Nat /\ valid[Len(valid)].timestamp \in Nat
    BY ValidTypes, SampleTypes
  <2>3. i < Len(valid) => valid[i].timestamp < valid[Len(valid)].timestamp
    <3>1. Len(valid) \in Nat
      BY ValidTypes
    <3> QED
      BY <3>1 DEF KeptInOrder
  <2> QED
    BY <1>1, <2>1, <2>2, <2>3, ValidTypes
<1> QED
  BY <1>2, <1>3, ValidTypes DEF KeptInOrder

\* If the samples make a plausible drive with one more, they did without,
\* and the last follows the one before it.
LEMMA PlausibleStep ==
  ASSUME DataTypeOK, PlausibleDriveKept, NEW s, Read(s)
  PROVE  /\ PlausibleDrive(given)' => PlausibleDrive(given) /\ s # Unusable
         /\ PlausibleDrive(given)' /\ given # << >> =>
              /\ given[Len(given)].timestamp < s.timestamp
              /\ Plausible(given[Len(given)], s)
<1>1. given' = Append(given, s)
  BY DEF Read
<1>2. /\ Len(given') = Len(given) + 1 /\ DOMAIN given' = 1 .. Len(given) + 1
      /\ \A i \in 1 .. Len(given) : given'[i] = given[i]
      /\ given'[Len(given) + 1] = s
  BY <1>1, Appended DEF DataTypeOK
<1>3. Len(given) \in Nat /\ DOMAIN given = 1 .. Len(given)
  BY GivenTypes
<1> SUFFICES ASSUME PlausibleDrive(given)'
    PROVE  /\ PlausibleDrive(given) /\ s # Unusable
           /\ given # << >> => /\ given[Len(given)].timestamp < s.timestamp
                               /\ Plausible(given[Len(given)], s)
  OBVIOUS
<1>4. /\ \A i \in 1 .. Len(given) + 1 : given'[i] # Unusable
      /\ \A i \in 1 .. Len(given) :
           /\ given'[i].timestamp < given'[i + 1].timestamp
           /\ Plausible(given'[i], given'[i + 1])
  BY <1>2, <1>3 DEF PlausibleDrive
<1>5. \A i \in 1 .. Len(given) - 1 :
        given'[i] = given[i] /\ given'[i + 1] = given[i + 1]
  BY <1>2, <1>3
<1>6. PlausibleDrive(given)
  BY <1>2, <1>3, <1>4, <1>5 DEF PlausibleDrive
<1>7. s # Unusable
  BY <1>2, <1>3, <1>4
<1>8. ASSUME given # << >>
      PROVE  /\ given[Len(given)].timestamp < s.timestamp
             /\ Plausible(given[Len(given)], s)
  <2>1. Len(given) \in 1 .. Len(given)
    BY <1>8, GivenTypes
  <2> QED
    BY <1>2, <1>4, <2>1
<1> QED
  BY <1>6, <1>7, <1>8

\* what Without leaves
LEMMA WithoutIs ==
  ASSUME DataTypeOK, NEW s \in Sample \cup {Unusable}, Read(s),
         NEW k \in 2 .. Len(given)
  PROVE  /\ Without(k) \in Seq(Sample \cup {Unusable})
         /\ Len(Without(k)) = Len(given) - 1
         /\ Without(k)' = Append(Without(k), s)
         /\ given'[k] = given[k] /\ given'[k - 1] = given[k - 1]
         /\ Without(k)[Len(given) - 1] =
              IF k = Len(given) THEN given[k - 1] ELSE given[Len(given)]
<1>1. given' = Append(given, s)
  BY DEF Read
<1>2. /\ Len(given') = Len(given) + 1 /\ DOMAIN given' = 1 .. Len(given) + 1
      /\ \A i \in 1 .. Len(given) : given'[i] = given[i]
      /\ given'[Len(given) + 1] = s
  BY <1>1, Appended DEF DataTypeOK
<1>3. Len(given) \in Nat
  BY GivenTypes
<1> DEFINE n == Len(given) - 1
           w == [i \in 1 .. n |-> IF i < k THEN given[i] ELSE given[i + 1]]
<1>4. /\ w \in Seq(Sample \cup {Unusable}) /\ Len(w) = n
  <2>1. \A i \in 1 .. n : w[i] \in Sample \cup {Unusable}
    BY <1>3, GivenTypes
  <2>2. w \in [1 .. n -> Sample \cup {Unusable}] /\ n \in Nat
    BY <1>3, <2>1
  <2> HIDE DEF w
  <2> QED
    BY <2>2
<1>5. Without(k) = w
  BY DEF Without
<1>6. Without(k)' =
        [i \in 1 .. n + 1 |-> IF i < k THEN given'[i] ELSE given'[i + 1]]
  BY <1>2, <1>3 DEF Without
<1>7. Without(k)' = Append(w, s)
  <2> DEFINE a == Append(w, s)
             b == [i \in 1 .. n + 1 |->
                     IF i < k THEN given'[i] ELSE given'[i + 1]]
  <2>1. a \in [1 .. n + 1 -> Sample \cup {Unusable}]
    <3>1. n \in Nat
      BY <1>3
    <3> DEFINE S == Sample \cup {Unusable}
    <3>2. w \in Seq(S) /\ s \in S /\ Len(w) = n
      BY <1>4
    <3>3. a \in Seq(S) /\ Len(a) = n + 1
      <4> HIDE DEF S, w, n
      <4> QED
        BY <3>1, <3>2
    <3>4. a \in [1 .. n + 1 -> S]
      <4> HIDE DEF S, n, a
      <4> QED
        BY <3>1, <3>3
    <3> QED
      BY <3>4
  <2>2. ASSUME NEW i \in 1 .. n + 1
        PROVE  a[i] = IF i < k THEN given'[i] ELSE given'[i + 1]
    <3>1. i = n + 1 => a[i] = s
      BY <1>4, Appended
    <3>2. i # n + 1 => i \in 1 .. n /\ a[i] = w[i]
      <4>1. n \in Nat
        BY <1>3
      <4> HIDE DEF w, n
      <4> QED
        BY <1>4, <4>1, Appended
    <3> HIDE DEF a
    <3> QED
      BY <1>2, <1>3, <3>1, <3>2
  <2>3. a = b
    <3> HIDE DEF n, a
    <3> QED
      BY <2>1, <2>2
  <2> QED
    BY <2>3, <1>6
<1> QED
  BY <1>2, <1>3, <1>4, <1>5, <1>7

\* What steps that read nothing leave.
LEMMA StrayUnchanged ==
  ASSUME PlausibleDriveKept, StrayFixCostsOnlyItself, UNCHANGED <<given, valid>>
  PROVE  PlausibleDriveKept' /\ StrayFixCostsOnlyItself'
<1>1. PlausibleDriveKept'
  BY DEF PlausibleDriveKept, PlausibleDrive, Plausible,
         GeographicDistance2, Squared, ShortWay
<1>2. StrayFixCostsOnlyItself'
  <2> SUFFICES ASSUME NEW k \in 2 .. Len(given'),
                      PlausibleDrive(Without(k))', Stray(k)'
               PROVE  valid' = Without(k)'
    BY DEF StrayFixCostsOnlyItself
  <2>1. Without(k)' = Without(k) /\ k \in 2 .. Len(given)
    BY DEF Without
  <2>2. PlausibleDrive(Without(k)')
    BY DEF PlausibleDrive, Plausible, GeographicDistance2, Squared, ShortWay
  <2>3. Stray(k)
    BY DEF Stray, Plausible, GeographicDistance2, Squared, ShortWay
  <2> QED
    BY <2>1, <2>2, <2>3 DEF StrayFixCostsOnlyItself
<1> QED
  BY <1>1, <1>2

\* A plausible drive is kept whole.
LEMMA PlausibleDriveKeptStep ==
  ASSUME DataTypeOK, PlausibleDriveKept, StrayFixCostsOnlyItself, DataNext
  PROVE  PlausibleDriveKept'
<1>1. CASE SkipUnusable
  <2>1. ~PlausibleDrive(given)'
    BY <1>1, PlausibleStep DEF SkipUnusable
  <2> QED
    BY <2>1 DEF PlausibleDriveKept
<1>2. ASSUME NEW sample \in Sample,
             NotIncreasing(sample) \/ SkipImplausible(sample) \/ Keep(sample)
      PROVE  PlausibleDriveKept'
  <2>1. Read(sample)
    BY <1>2 DEF NotIncreasing, SkipImplausible, Keep
  <2> SUFFICES ASSUME PlausibleDrive(given)' PROVE given' = valid'
    BY DEF PlausibleDriveKept
  <2>2. PlausibleDrive(given) /\ valid = given
    BY <2>1, PlausibleStep DEF PlausibleDriveKept
  <2>3. Ordered(sample) /\ Follows(sample)
    BY <2>1, <2>2, PlausibleStep DEF Ordered, Follows
  <2>4. Keep(sample)
    BY <1>2, <2>3 DEF NotIncreasing, SkipImplausible
  <2> QED
    BY <2>1, <2>2, <2>4 DEF Keep, Read
<1>3. CASE UNCHANGED <<given, valid>>
  BY <1>3, StrayUnchanged
<1>4. CASE EndOfGps \/ (\E r \in Ranges : NoOverlap(r) \/ Project(r))
           \/ AddNavigation \/ Built \/ NoGForce
           \/ (\E time \in Times : SampleOverlayFrame(time)) \/ Finished
  BY <1>3, <1>4
     DEF EndOfGps, NoOverlap, Project, AddNavigation, Built, NoGForce,
         SampleOverlayFrame, Finished, data_vars
<1> QED
  BY <1>1, <1>2, <1>4 DEF DataNext

\* When a stray sample is the last, the ones before it were all kept, and it
\* is not; whatever follows is compared with what was kept.
LEMMA StrayStep ==
  ASSUME DataTypeOK, PlausibleDriveKept, StrayFixCostsOnlyItself, DataNext
  PROVE  StrayFixCostsOnlyItself'
<1>1. ASSUME NEW s \in Sample \cup {Unusable}, Read(s),
             s \in Sample => NotIncreasing(s) \/ SkipImplausible(s) \/ Keep(s)
      PROVE  StrayFixCostsOnlyItself'
  <2>1. given' = Append(given, s)
    BY <1>1 DEF Read
  <2>2. /\ Len(given') = Len(given) + 1
        /\ \A i \in 1 .. Len(given) : given'[i] = given[i]
        /\ given'[Len(given) + 1] = s
    BY <2>1, Appended DEF DataTypeOK
  <2>3. Len(given) \in Nat
    BY GivenTypes
  <2> SUFFICES ASSUME NEW k \in 2 .. Len(given'),
                      PlausibleDrive(Without(k))', Stray(k)'
               PROVE  valid' = Without(k)'
    BY DEF StrayFixCostsOnlyItself
  <2>6. PlausibleDrive(Without(k)')
    BY DEF PlausibleDrive, Plausible, GeographicDistance2, Squared, ShortWay
  <2>4. CASE k = Len(given) + 1
    <3>1. Without(k)' = given
      <4>1. Without(k)' = [i \in 1 .. Len(given) |-> given[i]]
        BY <2>2, <2>3, <2>4 DEF Without
      <4>2. given \in Seq(Sample \cup {Unusable})
        BY DEF DataTypeOK
      <4> QED
        BY <4>1, <4>2
    <3>2. PlausibleDrive(given)
      BY <2>6, <3>1
    <3>3. valid = given /\ Len(given) \in 1 .. Len(given)
      BY <2>3, <2>4, <3>2 DEF PlausibleDriveKept
    <3>4. /\ s # Unusable /\ given[Len(given)].timestamp < s.timestamp
          /\ ~Plausible(given[Len(given)], s)
      BY <2>2, <2>3, <2>4
         DEF Stray, Plausible, GeographicDistance2, Squared, ShortWay
    <3>5. Ordered(s) /\ ~Follows(s)
      BY <3>3, <3>4, GivenTypes DEF Ordered, Follows
    <3>6. SkipImplausible(s)
      BY <1>1, <3>4, <3>5 DEF NotIncreasing, Keep
    <3> QED
      BY <3>1, <3>3, <3>6 DEF SkipImplausible
  <2>5. CASE k \in 2 .. Len(given)
    <3> DEFINE w == Without(k)
    <3>1. /\ w \in Seq(Sample \cup {Unusable}) /\ Len(w) = Len(given) - 1
          /\ Without(k)' = Append(w, s)
          /\ given'[k] = given[k] /\ given'[k - 1] = given[k - 1]
      BY <1>1, <2>5, WithoutIs
    <3>2. Stray(k)
      BY <3>1 DEF Stray, Plausible, GeographicDistance2, Squared, ShortWay
    <3>3. PlausibleDrive(Append(w, s))
      BY <2>6, <3>1
    <3>4. /\ PlausibleDrive(w) /\ s # Unusable
          /\ w[Len(w)].timestamp < s.timestamp
          /\ Plausible(w[Len(w)], s)
      <4> HIDE DEF w
      <4>1. /\ Len(Append(w, s)) = Len(w) + 1
            /\ DOMAIN Append(w, s) = 1 .. Len(w) + 1
            /\ \A i \in 1 .. Len(w) : Append(w, s)[i] = w[i]
            /\ Append(w, s)[Len(w) + 1] = s
        BY <3>1, Appended
      <4>2. Len(w) \in Nat \ {0} /\ DOMAIN w = 1 .. Len(w)
        BY <2>3, <2>5, <3>1
      <4>3. /\ \A i \in 1 .. Len(w) + 1 : Append(w, s)[i] # Unusable
            /\ \A i \in 1 .. Len(w) :
                 /\ Append(w, s)[i].timestamp < Append(w, s)[i + 1].timestamp
                 /\ Plausible(Append(w, s)[i], Append(w, s)[i + 1])
        <5> DEFINE a == Append(w, s)
        <5> HIDE DEF a
        <5>1. /\ PlausibleDrive(a) /\ Len(a) = Len(w) + 1
              /\ DOMAIN a = 1 .. Len(w) + 1
          BY <3>3, <4>1 DEF a
        <5>2. /\ \A i \in 1 .. Len(w) + 1 : a[i] # Unusable
              /\ \A i \in 1 .. Len(w) + 1 - 1 :
                   /\ a[i].timestamp < a[i + 1].timestamp
                   /\ Plausible(a[i], a[i + 1])
          BY <5>1 DEF PlausibleDrive
        <5> QED
          BY <4>2, <5>2 DEF a
      <4>4. \A i \in 1 .. Len(w) - 1 :
              Append(w, s)[i] = w[i] /\ Append(w, s)[i + 1] = w[i + 1]
        BY <4>1, <4>2
      <4>5. PlausibleDrive(w)
        BY <4>1, <4>2, <4>3, <4>4 DEF PlausibleDrive
      <4>6. Len(w) \in 1 .. Len(w)
        BY <4>2
      <4>7. /\ w[Len(w)].timestamp < s.timestamp
            /\ Plausible(w[Len(w)], s)
        BY <4>1, <4>3, <4>6
      <4>8. s # Unusable
        BY <4>1, <4>2, <4>3
      <4> QED
        BY <4>5, <4>7, <4>8
    <3>5. valid = w
      BY <2>5, <3>2, <3>4 DEF StrayFixCostsOnlyItself
    <3>6. Ordered(s) /\ Follows(s)
      BY <3>4, <3>5 DEF Ordered, Follows
    <3>7. Keep(s)
      BY <1>1, <3>4, <3>6 DEF NotIncreasing, SkipImplausible
    <3> QED
      BY <3>1, <3>5, <3>7 DEF Keep
  <2> QED
    BY <2>2, <2>3, <2>4, <2>5
<1>2. CASE SkipUnusable
  BY <1>1, <1>2, SampleTypes DEF SkipUnusable
<1>3. ASSUME NEW s \in Sample,
             NotIncreasing(s) \/ SkipImplausible(s) \/ Keep(s)
      PROVE  StrayFixCostsOnlyItself'
  BY <1>1, <1>3 DEF NotIncreasing, SkipImplausible, Keep
<1>4. CASE UNCHANGED <<given, valid>>
  BY <1>4, StrayUnchanged
<1>5. CASE EndOfGps \/ (\E r \in Ranges : NoOverlap(r) \/ Project(r))
           \/ AddNavigation \/ Built \/ NoGForce
           \/ (\E time \in Times : SampleOverlayFrame(time)) \/ Finished
  BY <1>4, <1>5
     DEF EndOfGps, NoOverlap, Project, AddNavigation, Built, NoGForce,
         SampleOverlayFrame, Finished, data_vars
<1> QED
  BY <1>2, <1>3, <1>5 DEF DataNext

-----------------------------------------------------------------------------
(* Least elements, and places in an ordered sequence.                      *)

\* A set of natural numbers has a least element.
LEMMA NatLeast ==
  ASSUME NEW S \in SUBSET Nat, S # {}
  PROVE  \E n \in S : \A m \in S : n <= m
<1>1. IsWellFoundedOn(OpToRel(<, Nat), Nat)
  BY NatLessThanWellFounded
<1>2. PICK n \in S : \A m \in S : ~ (<<m, n>> \in OpToRel(<, Nat))
  BY <1>1, WFMin
<1>3. \A m \in S : ~(m < n)
  BY <1>2 DEF OpToRel
<1> QED
  BY <1>3

\* Induction, as a least element that is not in the set.
LEMMA Induction ==
  ASSUME NEW S, 0 \in S, \A n \in Nat : n \in S => n + 1 \in S
  PROVE  Nat \subseteq S
<1> SUFFICES ASSUME Nat \ S # {} PROVE FALSE
  OBVIOUS
<1>1. PICK n \in Nat \ S : \A m \in Nat \ S : n <= m
  <2>1. (Nat \ S) \in SUBSET Nat
    OBVIOUS
  <2> QED
    BY <2>1, NatLeast
<1>2. n # 0
  OBVIOUS
<1>3. n - 1 \in Nat /\ n - 1 \in S
  BY <1>1, <1>2
<1> QED
  BY <1>3

\* A set that holds every number below one of its own is 1 .. k.
LEMMA InitialSegment ==
  ASSUME NEW n \in Nat, NEW S \in SUBSET (1 .. n),
         \A j \in S : \A i \in 1 .. n : i < j => i \in S
  PROVE  Cardinality(S) \in 0 .. n /\ S = 1 .. Cardinality(S)
<1> DEFINE Rest == {i \in Nat \ {0} : i \notin S}
<1>1. n + 1 \in Rest
  OBVIOUS
<1>2. PICK k \in Rest : \A m \in Rest : k <= m
  <2>1. Rest \in SUBSET Nat /\ Rest # {}
    BY <1>1
  <2> HIDE DEF Rest
  <2> QED
    BY <2>1, NatLeast
<1>3. k - 1 \in 0 .. n
  BY <1>1, <1>2
<1>4. S = 1 .. k - 1
  <2>1. ASSUME NEW i \in 1 .. k - 1 PROVE i \in S
    BY <1>2
  <2>2. ASSUME NEW i \in S PROVE i \in 1 .. k - 1
    BY <1>2
  <2> QED
    BY <2>1, <2>2
<1>5. Cardinality(1 .. k - 1) = k - 1
  <2>1. 1 \in Int /\ k - 1 \in Int
    BY <1>3
  <2>2. Cardinality(1 .. k - 1) = IF 1 > k - 1 THEN 0 ELSE (k - 1) - 1 + 1
    BY <2>1, FS_Interval
  <2> QED
    BY <1>3, <2>2
<1> QED
  BY <1>3, <1>4, <1>5

\* The larger of two numbers.
LEMMA MaxOfTwo ==
  ASSUME NEW a \in Int, NEW b \in Int
  PROVE  Max({a, b}) \in {a, b} /\ Max({a, b}) >= a /\ Max({a, b}) >= b
<1>1. \E x \in {a, b} : \A y \in {a, b} : x >= y
  OBVIOUS
<1> QED
  BY <1>1 DEF Max

\* The smaller of two numbers.
LEMMA MinOfTwo ==
  ASSUME NEW a \in Int, NEW b \in Int
  PROVE  Min({a, b}) \in {a, b} /\ Min({a, b}) <= a /\ Min({a, b}) <= b
<1>1. \E x \in {a, b} : \A y \in {a, b} : x <= y
  OBVIOUS
<1> QED
  BY <1>1 DEF Min

\* The samples at or before a time, and those before it.
LEMMA UpperIs ==
  ASSUME NEW samples, NEW n \in Nat, DOMAIN samples = 1 .. n,
         \A i \in 1 .. n : samples[i].timestamp \in Int,
         \A i, j \in 1 .. n :
           i < j => samples[i].timestamp < samples[j].timestamp,
         NEW time \in Int
  PROVE  /\ UpperIndex(samples, time) \in 0 .. n
         /\ \A i \in 1 .. n :
              samples[i].timestamp <= time <=> i <= UpperIndex(samples, time)
<1> DEFINE S == {i \in DOMAIN samples : samples[i].timestamp <= time}
<1>1. \A j \in S : \A i \in 1 .. n : i < j => i \in S
  OBVIOUS
<1>2. S \in SUBSET (1 .. n)
  OBVIOUS
<1>3. Cardinality(S) \in 0 .. n /\ S = 1 .. Cardinality(S)
  <2> HIDE DEF S
  <2> QED
    BY <1>1, <1>2, InitialSegment
<1>4. UpperIndex(samples, time) = Cardinality(S)
  BY DEF UpperIndex
<1>5. \A i \in 1 .. n : samples[i].timestamp <= time <=> i \in S
  OBVIOUS
<1> HIDE DEF S
<1> QED
  BY <1>3, <1>4, <1>5

\* The samples before a time.
LEMMA BeforeIs ==
  ASSUME NEW samples, NEW n \in Nat, DOMAIN samples = 1 .. n,
         \A i \in 1 .. n : samples[i].timestamp \in Int,
         \A i, j \in 1 .. n :
           i < j => samples[i].timestamp < samples[j].timestamp,
         NEW time \in Int
  PROVE  /\ BeforeIndex(samples, time) \in 0 .. n
         /\ \A i \in 1 .. n :
              samples[i].timestamp < time <=> i <= BeforeIndex(samples, time)
<1> DEFINE S == {i \in DOMAIN samples : samples[i].timestamp < time}
<1>1. \A j \in S : \A i \in 1 .. n : i < j => i \in S
  OBVIOUS
<1>2. S \in SUBSET (1 .. n)
  OBVIOUS
<1>3. Cardinality(S) \in 0 .. n /\ S = 1 .. Cardinality(S)
  <2> HIDE DEF S
  <2> QED
    BY <1>1, <1>2, InitialSegment
<1>4. BeforeIndex(samples, time) = Cardinality(S)
  BY DEF BeforeIndex
<1>5. \A i \in 1 .. n : samples[i].timestamp < time <=> i \in S
  OBVIOUS
<1> HIDE DEF S
<1> QED
  BY <1>3, <1>4, <1>5

-----------------------------------------------------------------------------
(* The way round, and the quotient of an interpolation.                    *)

\* The shorter way is at most half a turn.
LEMMA ShortWayIs ==
  ASSUME NEW d \in Int, -360 <= d, d <= 360
  PROVE  /\ ShortWay(d) \in Int /\ -180 <= ShortWay(d) /\ ShortWay(d) <= 180
         /\ -180 <= d /\ d <= 180 => ShortWay(d) = d
  BY DEF ShortWay

\* The shorter way leads to the same place.
LEMMA ShortWayTurns ==
  ASSUME NEW d \in Int
  PROVE  \E turns \in Int : ShortWay(d) = d + 360 * turns
<1>1. ShortWay(d) = d + 360 * 0 \/ ShortWay(d) = d + 360 * 1
      \/ ShortWay(d) = d + 360 * (-1)
  BY DEF ShortWay
<1>2. 0 \in Int /\ 1 \in Int /\ -1 \in Int
  OBVIOUS
<1> QED
  BY <1>1, <1>2

\* How far along a way.
LEMMA Quotient ==
  ASSUME NEW way \in Int, NEW u \in Nat, NEW d \in Nat \ {0}, u <= d
  PROVE  /\ (way * u) \div d \in Int
         /\ u = 0 => (way * u) \div d = 0
         /\ way >= 0 => 0 <= (way * u) \div d /\ (way * u) \div d <= way
         /\ way <= 0 => way <= (way * u) \div d /\ (way * u) \div d <= 0
<1> DEFINE x == way * u
           q == x \div d
<1>1. x \in Int
  OBVIOUS
<1>2. q \in Int /\ d * q <= x /\ x < d * q + d
  <2> HIDE DEF x
  <2> QED
    BY <1>1
<1>3. u = 0 => x = 0
  OBVIOUS
<1>4. way >= 0 => 0 <= x /\ x <= d * way
  <2> SUFFICES ASSUME way >= 0 PROVE 0 <= x /\ x <= d * way
    OBVIOUS
  <2>1. way * (d - u) >= 0 /\ way * u >= 0
    OBVIOUS
  <2> QED
    BY <2>1
<1>5. way <= 0 => d * way <= x /\ x <= 0
  <2> SUFFICES ASSUME way <= 0 PROVE d * way <= x /\ x <= 0
    OBVIOUS
  <2>1. way * (d - u) <= 0 /\ way * u <= 0
    OBVIOUS
  <2> QED
    BY <2>1
<1> HIDE DEF q, x
<1>6. x >= 0 => q >= 0
  <2> SUFFICES ASSUME x >= 0, q <= -1 PROVE FALSE
    BY <1>1, <1>2
  <2>1. d * q <= -d
    BY <1>2
  <2> QED
    BY <1>1, <1>2, <2>1
<1>7. x <= d * way => q <= way
  <2> SUFFICES ASSUME x <= d * way, q >= way + 1 PROVE FALSE
    BY <1>1, <1>2
  <2>1. d * q >= d * way + d
    <3>1. d * (q - way - 1) >= 0
      BY <1>2
    <3> QED
      BY <3>1, <1>2
  <2> QED
    BY <1>1, <1>2, <2>1
<1>8. d * way <= x => way <= q
  <2> SUFFICES ASSUME d * way <= x, q <= way - 1 PROVE FALSE
    BY <1>1, <1>2
  <2>1. d * q <= d * way - d
    <3>1. d * (way - 1 - q) >= 0
      BY <1>2
    <3> QED
      BY <3>1, <1>2
  <2> QED
    BY <1>1, <1>2, <2>1
<1>9. x <= 0 => q <= 0
  <2> SUFFICES ASSUME x <= 0, q >= 1 PROVE FALSE
    BY <1>1, <1>2
  <2>1. d * q >= d
    BY <1>2
  <2> QED
    BY <1>1, <1>2, <2>1
<1>10. x = 0 => q = 0
  BY <1>2, <1>6, <1>9
<1> QED
  BY <1>2, <1>3, <1>4, <1>5, <1>6, <1>7, <1>8, <1>9, <1>10 DEF q, x

-----------------------------------------------------------------------------
(* Where the drive is at a time.                                           *)

Kept == DataTypeOK /\ KeptInOrder /\ Len(valid) >= 2

Spanned(time) ==
  time \in valid[1].timestamp .. valid[Len(valid)].timestamp

PlaceAt(time) ==
  LET k == UpperIndex(valid, time)
  IN  IF k = Len(valid) THEN valid[k].place
      ELSE InterpolateGps(valid[k], valid[k + 1], time).place

\* What is known of the samples once the filter has ended.
LEMMA KeptFacts ==
  ASSUME Kept
  PROVE  /\ Len(valid) \in Nat /\ Len(valid) >= 2
         /\ DOMAIN valid = 1 .. Len(valid)
         /\ 1 \in 1 .. Len(valid) /\ Len(valid) \in 1 .. Len(valid)
         /\ \A i \in 1 .. Len(valid) :
              /\ valid[i] \in Sample
              /\ valid[i].timestamp \in Nat /\ valid[i].timestamp \in Int
              /\ valid[i].timestamp \in Moments
              /\ valid[i].place.longitude \in Int
              /\ -180 <= valid[i].place.longitude
              /\ valid[i].place.longitude <= 180
              /\ valid[i].place.latitude \in Int
         /\ \A i, j \in 1 .. Len(valid) :
              i < j => valid[i].timestamp < valid[j].timestamp
<1>1. DataTypeOK /\ KeptInOrder /\ Len(valid) >= 2
  BY DEF Kept
<1>2. /\ Len(valid) \in Nat /\ DOMAIN valid = 1 .. Len(valid)
      /\ \A i \in 1 .. Len(valid) : valid[i] \in Sample
  BY <1>1, ValidTypes
<1>3. \A i \in 1 .. Len(valid) :
        /\ valid[i].timestamp \in Nat /\ valid[i].timestamp \in Int
        /\ valid[i].timestamp \in Moments
        /\ valid[i].place.longitude \in Int
        /\ -180 <= valid[i].place.longitude
        /\ valid[i].place.longitude <= 180
        /\ valid[i].place.latitude \in Int
  BY <1>2, SampleTypes
<1> QED
  BY <1>1, <1>2, <1>3 DEF KeptInOrder

\* The samples before a time come first.
LEMMA UpperOfKept ==
  ASSUME Kept, NEW time \in Int
  PROVE  /\ UpperIndex(valid, time) \in 0 .. Len(valid)
         /\ \A i \in 1 .. Len(valid) :
              valid[i].timestamp <= time <=> i <= UpperIndex(valid, time)
         /\ BeforeIndex(valid, time) \in 0 .. Len(valid)
         /\ \A i \in 1 .. Len(valid) :
              valid[i].timestamp < time <=> i <= BeforeIndex(valid, time)
<1>1. /\ Len(valid) \in Nat /\ DOMAIN valid = 1 .. Len(valid)
      /\ \A i \in 1 .. Len(valid) : valid[i].timestamp \in Int
      /\ \A i, j \in 1 .. Len(valid) :
           i < j => valid[i].timestamp < valid[j].timestamp
  BY KeptFacts
<1> QED
  BY <1>1, UpperIs, BeforeIs

\* The leg that a time of the drive falls on.
LEMMA LegOfTime ==
  ASSUME Kept, NEW time \in Int, Spanned(time)
  PROVE  LET k == UpperIndex(valid, time)
         IN  /\ k \in 1 .. Len(valid) /\ valid[k].timestamp <= time
             /\ k < Len(valid) => /\ k + 1 \in 1 .. Len(valid)
                                  /\ time < valid[k + 1].timestamp
             /\ k = Len(valid) => time = valid[k].timestamp
<1> DEFINE k == UpperIndex(valid, time)
<1>1. /\ k \in 0 .. Len(valid)
      /\ \A i \in 1 .. Len(valid) : valid[i].timestamp <= time <=> i <= k
  BY UpperOfKept
<1>2. /\ valid[1].timestamp <= time
      /\ time <= valid[Len(valid)].timestamp
  BY KeptFacts DEF Spanned
<1> HIDE DEF k
<1>3. k \in 1 .. Len(valid)
  BY <1>1, <1>2, KeptFacts
<1>4. k < Len(valid) => /\ k + 1 \in 1 .. Len(valid)
                        /\ time < valid[k + 1].timestamp
  BY <1>1, <1>3, KeptFacts
<1> QED
  BY <1>1, <1>2, <1>3, <1>4, KeptFacts DEF k

\* Between two samples
LEMMA InterpolatedIs ==
  ASSUME Kept, NEW k \in 1 .. Len(valid) - 1, NEW time \in Int,
         valid[k].timestamp <= time, time <= valid[k + 1].timestamp
  PROVE  LET gps == InterpolateGps(valid[k], valid[k + 1], time)
             east == Between(valid[k], valid[k + 1], time, East[k])
             north == Between(valid[k], valid[k + 1], time, North[k])
         IN  /\ gps.timestamp = time
             /\ gps.place.longitude \in Int
             /\ -180 <= gps.place.longitude /\ gps.place.longitude <= 180
             /\ gps.place.latitude \in Int
             /\ east \in Int /\ north \in Int
             /\ \E turns \in Int :
                  gps.place.longitude
                    = valid[k].place.longitude + east + 360 * turns
             /\ gps.place.latitude = valid[k].place.latitude + north
             /\ time = valid[k].timestamp =>
                  /\ gps.place.longitude = valid[k].place.longitude
                  /\ east = 0 /\ north = 0
<1> DEFINE first == valid[k]
           second == valid[k + 1]
           a == first.place.longitude
           b == second.place.longitude
           u == time - first.timestamp
           d == second.timestamp - first.timestamp
           high == second.place.latitude - first.place.latitude
           gps == InterpolateGps(first, second, time)
           east == Between(first, second, time, East[k])
           north == Between(first, second, time, North[k])
<1>1. /\ k \in 1 .. Len(valid) /\ k + 1 \in 1 .. Len(valid)
      /\ k \in Nat /\ k < k + 1
  BY KeptFacts
<1>2. East[k] = ShortWay(b - a) /\ North[k] = high
  BY <1>1 DEF East, North
<1> HIDE DEF first, second
<1>3. /\ first.timestamp \in Nat /\ second.timestamp \in Nat
      /\ first.timestamp < second.timestamp
      /\ a \in Int /\ -180 <= a /\ a <= 180
      /\ b \in Int /\ -180 <= b /\ b <= 180
      /\ first.place.latitude \in Int /\ second.place.latitude \in Int
  <2>1. \A i \in 1 .. Len(valid) :
          /\ valid[i].timestamp \in Nat
          /\ valid[i].place.longitude \in Int
          /\ -180 <= valid[i].place.longitude
          /\ valid[i].place.longitude <= 180
          /\ valid[i].place.latitude \in Int
    BY KeptFacts
  <2>2. valid[k].timestamp < valid[k + 1].timestamp
    BY <1>1, KeptFacts
  <2> QED
    BY <1>1, <2>1, <2>2 DEF first, second
<1> HIDE DEF a, b, high, gps, east, north
<1>4. /\ u \in Nat /\ d \in Nat \ {0} /\ u <= d /\ high \in Int
      /\ time = first.timestamp => u = 0
  <2>1. first.timestamp <= time /\ time <= second.timestamp
    BY DEF first, second
  <2>2. high \in Int
    BY <1>3 DEF high
  <2> QED
    BY <1>3, <2>1, <2>2, SMTT(30)
<1>5. east = (ShortWay(b - a) * u) \div d /\ north = (high * u) \div d
  BY <1>2 DEF east, north, Between
<1>6. gps = [timestamp |-> time,
             place |-> [longitude |-> ShortWay(a + east),
                        latitude |-> first.place.latitude + north]]
  BY <1>2 DEF gps, east, north, InterpolateGps, a, b, high
<1> HIDE DEF u, d
<1>7. /\ east \in Int
      /\ ShortWay(a + east) \in Int
      /\ -180 <= ShortWay(a + east) /\ ShortWay(a + east) <= 180
      /\ \E turns \in Int : ShortWay(a + east) = a + east + 360 * turns
      /\ u = 0 => east = 0 /\ ShortWay(a + east) = a
  <2> DEFINE wide == ShortWay(b - a)
             sum == a + east
  <2>1. wide \in Int /\ -180 <= wide /\ wide <= 180
    <3>1. b - a \in Int /\ -360 <= b - a /\ b - a <= 360
      BY <1>3
    <3> QED
      BY <3>1, ShortWayIs
  <2>2. east = (wide * u) \div d
    BY <1>5
  <2> HIDE DEF wide
  <2>3. /\ east \in Int
        /\ u = 0 => east = 0
        /\ wide >= 0 => 0 <= east /\ east <= wide
        /\ wide <= 0 => wide <= east /\ east <= 0
    BY <1>4, <2>1, <2>2, Quotient
  <2>4. /\ sum \in Int /\ -360 <= sum /\ sum <= 360
        /\ u = 0 => sum = a
    BY <1>3, <2>1, <2>3
  <2>5. -180 <= a /\ a <= 180
    BY <1>3
  <2> HIDE DEF sum
  <2>6. /\ ShortWay(sum) \in Int
        /\ -180 <= ShortWay(sum) /\ ShortWay(sum) <= 180
        /\ -180 <= sum /\ sum <= 180 => ShortWay(sum) = sum
    BY <2>4, ShortWayIs
  <2>7. \E turns \in Int : ShortWay(sum) = sum + 360 * turns
    BY <2>4, ShortWayTurns
  <2> QED
    BY <2>3, <2>4, <2>5, <2>6, <2>7 DEF sum
<1>8. north \in Int /\ (u = 0 => north = 0)
  BY <1>4, <1>5, Quotient
<1>9. first.place.latitude + north \in Int
  BY <1>3, <1>8
<1> QED
  <2>1. /\ gps.timestamp = time
        /\ gps.place.longitude = ShortWay(a + east)
        /\ gps.place.latitude = first.place.latitude + north
    BY <1>6
  <2>2. time = first.timestamp =>
          ShortWay(a + east) = a /\ east = 0 /\ north = 0
    BY <1>4, <1>7, <1>8
  <2> QED
    BY <1>7, <1>8, <1>9, <2>1, <2>2 DEF first, second, gps, east, north, a

-----------------------------------------------------------------------------
(* The sums of the legs.                                                   *)

PartialSums(f, n) ==
  {s \in [0 .. n -> Int] :
     s[0] = 0 /\ \A k \in 1 .. n : s[k] = s[k - 1] + f[k]}

\* Partial sums do not depend on how far they go.
LEMMA PartialSumsAgree ==
  ASSUME NEW f, NEW n \in Nat, NEW m \in Nat,
         NEW s \in PartialSums(f, n), NEW r \in PartialSums(f, m)
  PROVE  \A k \in Nat : k <= n /\ k <= m => s[k] = r[k]
<1> DEFINE S == {k \in Nat : k <= n /\ k <= m => s[k] = r[k]}
<1>1. 0 \in S
  BY DEF PartialSums
<1>2. \A k \in Nat : k \in S => k + 1 \in S
  BY DEF PartialSums
<1>3. Nat \subseteq S
  <2> HIDE DEF S
  <2> QED
    BY <1>1, <1>2, Induction
<1> QED
  BY <1>3

\* There are partial sums of any length.
LEMMA PartialSumsExist ==
  ASSUME NEW f \in [Nat -> Int]
  PROVE  \A n \in Nat : PartialSums(f, n) # {}
<1> DEFINE S == {n \in Nat : PartialSums(f, n) # {}}
<1>1. 0 \in S
  <2>1. [k \in 0 .. 0 |-> 0] \in PartialSums(f, 0)
    BY DEF PartialSums
  <2> QED
    BY <2>1
<1>2. ASSUME NEW n \in Nat, n \in S
      PROVE  n + 1 \in S
  <2>1. PICK s : s \in PartialSums(f, n)
    BY <1>2
  <2> DEFINE r == [k \in 0 .. n + 1 |->
                    IF k = n + 1 THEN s[n] + f[n + 1] ELSE s[k]]
  <2>2. /\ s \in [0 .. n -> Int] /\ s[0] = 0
        /\ \A k \in 1 .. n : s[k] = s[k - 1] + f[k]
    BY <2>1 DEF PartialSums
  <2>3. r \in [0 .. n + 1 -> Int] /\ r[0] = 0
    BY <2>2
  <2>4. ASSUME NEW k \in 1 .. n + 1
        PROVE  r[k] = r[k - 1] + f[k]
    BY <2>2
  <2>5. r \in PartialSums(f, n + 1)
    <3> HIDE DEF r
    <3> QED
      BY <2>3, <2>4 DEF PartialSums
  <2> QED
    BY <2>5
<1>3. Nat \subseteq S
  <2> HIDE DEF S
  <2> QED
    BY <1>1, <1>2, Induction
<1> QED
  BY <1>3

\* The sum of legs, as its recursion has it.
LEMMA SumIs ==
  ASSUME NEW f \in [Nat -> Int]
  PROVE  /\ SumOf(f)[0] = 0
         /\ \A n \in Nat : SumOf(f)[n + 1] = SumOf(f)[n] + f[n + 1]
<1> DEFINE a(n) == CHOOSE s : s \in PartialSums(f, n)
           g == [n \in Nat |-> a(n)[n]]
<1>1. \A n \in Nat : a(n) \in PartialSums(f, n)
  BY PartialSumsExist
<1>2. ASSUME NEW n \in Nat
      PROVE  a(n + 1)[n + 1] = a(n + 1)[n] + f[n + 1] /\ a(n + 1)[n] = a(n)[n]
  <2>1. a(n + 1) \in PartialSums(f, n + 1) /\ a(n) \in PartialSums(f, n)
    BY <1>1
  <2> HIDE DEF a
  <2>2. a(n + 1)[n] = a(n)[n]
    BY <2>1, PartialSumsAgree
  <2> QED
    BY <2>1, <2>2 DEF PartialSums
<1>3. /\ g[0] = 0
      /\ \A n \in Nat : g[n] \in Int /\ g[n + 1] = g[n] + f[n + 1]
  <2> HIDE DEF a
  <2> QED
    BY <1>1, <1>2 DEF PartialSums
<1>4. g = [n \in Nat |-> IF n = 0 THEN 0 ELSE g[n - 1] + f[n]]
  <2>1. ASSUME NEW n \in Nat, n # 0
        PROVE  g[n] = g[n - 1] + f[n]
    <3>1. n - 1 \in Nat /\ (n - 1) + 1 = n
      BY <2>1
    <3> HIDE DEF g
    <3> QED
      BY <1>3, <3>1
  <2> HIDE DEF a
  <2> QED
    BY <2>1, <1>3
<1>5. SumOf(f) = [n \in Nat |-> IF n = 0 THEN 0 ELSE SumOf(f)[n - 1] + f[n]]
  <2> HIDE DEF g
  <2> QED
    BY <1>4 DEF SumOf
<1>6. \A h : h = [n \in Nat |-> IF n = 0 THEN 0 ELSE h[n - 1] + f[n]]
               => h[0] = 0 /\ \A n \in Nat : h[n + 1] = h[n] + f[n + 1]
  OBVIOUS
<1> QED
  BY <1>5, <1>6

\* The legs before a sample add up to where it is.
LEMMA LegsAddUp ==
  ASSUME Kept
  PROVE  \A n \in Nat : n < Len(valid) =>
           /\ SumOf(East)[n] \in Int /\ SumOf(North)[n] \in Int
           /\ \E turns \in Int :
                SumOf(East)[n] = valid[n + 1].place.longitude
                                   - valid[1].place.longitude + 360 * turns
           /\ SumOf(North)[n] = valid[n + 1].place.latitude
                                  - valid[1].place.latitude
<1> DEFINE lon(n) == valid[n].place.longitude
           lat(n) == valid[n].place.latitude
           N == Len(valid)
           Holds(n) ==
             /\ SumOf(East)[n] \in Int /\ SumOf(North)[n] \in Int
             /\ \E turns \in Int :
                  SumOf(East)[n] = lon(n + 1) - lon(1) + 360 * turns
             /\ SumOf(North)[n] = lat(n + 1) - lat(1)
           S == {n \in Nat : n < N => Holds(n)}
<1>1. /\ N \in Nat /\ N >= 2
      /\ \A i \in 1 .. N : lon(i) \in Int /\ lat(i) \in Int
                           /\ -180 <= lon(i) /\ lon(i) <= 180
  BY KeptFacts
<1>2. ASSUME NEW k \in 1 .. N - 1
      PROVE  /\ East[k] = ShortWay(lon(k + 1) - lon(k)) /\ East[k] \in Int
             /\ \E turns \in Int :
                  East[k] = lon(k + 1) - lon(k) + 360 * turns
             /\ North[k] = lat(k + 1) - lat(k) /\ North[k] \in Int
  <2>1. k \in Nat /\ k \in 1 .. Len(valid) - 1
    BY <1>1
  <2>2. /\ East[k] = ShortWay(lon(k + 1) - lon(k))
        /\ North[k] = lat(k + 1) - lat(k)
    BY <2>1 DEF East, North
  <2>3. lon(k) \in Int /\ lon(k + 1) \in Int /\ lat(k) \in Int
        /\ lat(k + 1) \in Int
    BY <1>1
  <2> DEFINE d == lon(k + 1) - lon(k)
  <2> HIDE DEF lon, lat
  <2>4. d \in Int
    BY <2>3
  <2> HIDE DEF d
  <2>5. \E turns \in Int : ShortWay(d) = d + 360 * turns
    BY <2>4, ShortWayTurns, ZenonT(40)
  <2>6. \E turns \in Int : East[k] = d + 360 * turns
    BY <2>2, <2>5 DEF d
  <2>7. East[k] \in Int
    BY <2>4, <2>6
  <2> QED
    BY <2>2, <2>3, <2>6, <2>7 DEF d
<1>3. East \in [Nat -> Int] /\ North \in [Nat -> Int]
  <2>1. ASSUME NEW k \in Nat
        PROVE  East[k] \in Int /\ North[k] \in Int
    <3>1. CASE k \in 1 .. N - 1
      BY <1>2, <3>1
    <3>2. CASE k \notin 1 .. N - 1
      BY <3>2 DEF East, North
    <3> QED
      BY <3>1, <3>2
  <2>2. East = [k \in Nat |-> East[k]] /\ North = [k \in Nat |-> North[k]]
    BY DEF East, North
  <2> QED
    BY <2>1, <2>2
<1>4. /\ SumOf(East)[0] = 0 /\ SumOf(North)[0] = 0
      /\ \A n \in Nat : SumOf(East)[n + 1] = SumOf(East)[n] + East[n + 1]
      /\ \A n \in Nat : SumOf(North)[n + 1] = SumOf(North)[n] + North[n + 1]
  BY <1>3, SumIs
<1> HIDE DEF N, lon, lat
<1>5. Holds(0)
  <2>1. lon(0 + 1) = lon(1) /\ lat(0 + 1) = lat(1)
    OBVIOUS
  <2>2. lon(1) \in Int /\ lat(1) \in Int
    BY <1>1
  <2>3. SumOf(East)[0] = lon(1) - lon(1) + 360 * 0 /\ 0 \in Int
    BY <1>4, <2>2
  <2>4. lon(1) - lon(1) + 360 * 0 = lon(0 + 1) - lon(1) + 360 * 0
    BY <2>1
  <2>5. \E turns \in Int :
          SumOf(East)[0] = lon(0 + 1) - lon(1) + 360 * turns
    BY <2>3, <2>4
  <2>6. /\ SumOf(East)[0] \in Int /\ SumOf(North)[0] \in Int
        /\ SumOf(North)[0] = lat(0 + 1) - lat(1)
    BY <1>4, <2>1, <2>2
  <2> QED
    BY <2>5, <2>6
<1>6. ASSUME NEW n \in Nat, n < N => Holds(n), n + 1 < N
      PROVE  Holds(n + 1)
  <2>1. n + 1 \in 1 .. N - 1 /\ n < N /\ (n + 1) + 1 \in 1 .. N /\ 1 \in 1 .. N
    BY <1>1, <1>6
  <2>2. Holds(n)
    BY <1>6, <2>1
  <2> DEFINE e == SumOf(East)[n]
             h == SumOf(North)[n]
             x == lon(n + 1)
             y == lon(n + 1 + 1)
             z == lon(1)
  <2>3. PICK t \in Int : e = x - z + 360 * t
    BY <2>2
  <2>4. PICK t2 \in Int : East[n + 1] = y - x + 360 * t2
    BY <1>2, <2>1
  <2>5. x \in Int /\ y \in Int /\ z \in Int /\ lat(n + 1) \in Int
        /\ lat(n + 1 + 1) \in Int /\ lat(1) \in Int
    BY <1>1, <2>1
  <2>6. /\ e \in Int /\ h \in Int /\ h = lat(n + 1) - lat(1)
    BY <2>2
  <2>7. North[n + 1] = lat(n + 1 + 1) - lat(n + 1)
    BY <1>2, <2>1
  <2>8. /\ SumOf(East)[n + 1] = e + East[n + 1]
        /\ SumOf(North)[n + 1] = h + North[n + 1]
    BY <1>4
  <2> HIDE DEF e, h, x, y, z
  <2>9. SumOf(North)[n + 1] = lat(n + 1 + 1) - lat(1)
        /\ SumOf(North)[n + 1] \in Int
    BY <2>5, <2>6, <2>7, <2>8
  <2>10. e + East[n + 1] = y - z + 360 * (t + t2) /\ t + t2 \in Int
         /\ e + East[n + 1] \in Int
    BY <2>3, <2>4, <2>5
  <2>11. \E turns \in Int : SumOf(East)[n + 1] = y - z + 360 * turns
    BY <2>8, <2>10, ZenonT(40)
  <2> QED
    BY <2>8, <2>9, <2>10, <2>11 DEF y, z
<1>7. Nat \subseteq S
  <2>1. 0 \in S
    BY <1>5
  <2>2. \A n \in Nat : n \in S => n + 1 \in S
    <3> HIDE DEF Holds
    <3> QED
      BY <1>1, <1>6
  <2> HIDE DEF S
  <2> QED
    BY <2>1, <2>2, Induction
<1>8. \A n \in Nat : n < N => Holds(n)
  <2> HIDE DEF Holds
  <2> QED
    BY <1>7
<1> QED
  BY <1>8 DEF lon, lat, N

\* On the drive, the legs before a time add up to where it is then.
LEMMA AlongIs ==
  ASSUME Kept, NEW time \in Int, Spanned(time)
  PROVE  LET place == PlaceAt(time)
         IN  /\ place.longitude \in Int
             /\ -180 <= place.longitude /\ place.longitude <= 180
             /\ place.latitude \in Int
             /\ Along(East, time) \in Int /\ Along(North, time) \in Int
             /\ \E turns \in Int :
                  Along(East, time) = place.longitude
                    - valid[1].place.longitude + 360 * turns
             /\ Along(North, time)
                  = place.latitude - valid[1].place.latitude
<1> DEFINE k == UpperIndex(valid, time)
           N == Len(valid)
           e == SumOf(East)[k - 1]
           h == SumOf(North)[k - 1]
           x == valid[k].place.longitude
           y == valid[k].place.latitude
           x1 == valid[1].place.longitude
           y1 == valid[1].place.latitude
<1>1. /\ k \in 1 .. N /\ valid[k].timestamp <= time
      /\ k < N => k + 1 \in 1 .. N /\ time < valid[k + 1].timestamp
      /\ k = N => time = valid[k].timestamp
  BY LegOfTime
<1>2. /\ N \in Nat /\ 1 \in 1 .. N
      /\ \A i \in 1 .. N :
           /\ valid[i].place.longitude \in Int
           /\ -180 <= valid[i].place.longitude
           /\ valid[i].place.longitude <= 180
           /\ valid[i].place.latitude \in Int
  BY KeptFacts
<1> HIDE DEF k
<1>3. /\ x \in Int /\ -180 <= x /\ x <= 180 /\ y \in Int
      /\ x1 \in Int /\ y1 \in Int
  BY <1>1, <1>2
<1>4. /\ e \in Int /\ h \in Int /\ h = y - y1
      /\ \E turns \in Int : e = x - x1 + 360 * turns
  <2>1. k - 1 \in Nat /\ k - 1 < N /\ (k - 1) + 1 = k
    BY <1>1, <1>2
  <2> QED
    BY <2>1, LegsAddUp, SMTT(30)
<1>5. PICK t \in Int : e = x - x1 + 360 * t
  BY <1>4
<1>6. CASE k = N
  <2>1. PlaceAt(time) = valid[k].place
    BY <1>6 DEF PlaceAt, k
  <2>2. Along(East, time) = e + 0 /\ Along(North, time) = h + 0
    BY <1>6 DEF Along, k
  <2> HIDE DEF e, h
  <2>3. Along(East, time) = e /\ Along(North, time) = h
    BY <1>4, <2>2
  <2> QED
    BY <1>3, <1>4, <2>1, <2>3
<1>7. CASE k < N
  <2> DEFINE gps == InterpolateGps(valid[k], valid[k + 1], time)
             east == Between(valid[k], valid[k + 1], time, East[k])
             north == Between(valid[k], valid[k + 1], time, North[k])
  <2>1. k \in 1 .. Len(valid) - 1
    BY <1>1, <1>2, <1>7
  <2>2. /\ gps.place.longitude \in Int
        /\ -180 <= gps.place.longitude /\ gps.place.longitude <= 180
        /\ gps.place.latitude \in Int
        /\ east \in Int /\ north \in Int
        /\ \E turns \in Int : gps.place.longitude = x + east + 360 * turns
        /\ gps.place.latitude = y + north
    <3>1. valid[k].timestamp <= time /\ time <= valid[k + 1].timestamp
      <4>1. valid[k + 1].timestamp \in Int
        <5>1. \A i \in 1 .. N : valid[i].timestamp \in Nat
          BY KeptFacts
        <5> QED
          BY <1>1, <1>7, <5>1
      <4> QED
        BY <1>1, <1>7, <4>1
    <3> QED
      BY <2>1, <3>1, InterpolatedIs
  <2>3. PICK u \in Int : gps.place.longitude = x + east + 360 * u
    BY <2>2
  <2>4. PlaceAt(time) = gps.place
    BY <1>1, <1>7 DEF PlaceAt, k
  <2>5. Along(East, time) = e + east /\ Along(North, time) = h + north
    BY <1>1, <1>7 DEF Along, k
  <2> DEFINE g == gps.place.longitude
             l == gps.place.latitude
  <2>6. /\ g \in Int /\ g = x + east + 360 * u /\ l = y + north
        /\ east \in Int /\ north \in Int
    BY <2>2, <2>3
  <2> HIDE DEF e, h, x, x1, y, y1, east, north, g, l
  <2>7. /\ e + east = g - x1 + 360 * (t - u) /\ t - u \in Int
        /\ e + east \in Int
    BY <1>3, <1>4, <1>5, <2>6
  <2>8. h + north = l - y1 /\ h + north \in Int
    BY <1>3, <1>4, <2>6
  <2>9. \E turns \in Int : Along(East, time) = g - x1 + 360 * turns
    BY <2>5, <2>7, ZenonT(40)
  <2> QED
    BY <2>2, <2>4, <2>5, <2>7, <2>8, <2>9 DEF g, l, x1, y1
<1> QED
  BY <1>1, <1>2, <1>6, <1>7

\* What is read at a time is where the drive is then.
LEMMA SampleAtIs ==
  ASSUME Kept, NEW time \in Int, Spanned(time)
  PROVE  /\ SampleAt(time).timestamp = time
         /\ SampleAt(time).place.longitude = PlaceAt(time).longitude
         /\ SampleAt(time).place.latitude = PlaceAt(time).latitude
<1> DEFINE k == UpperIndex(valid, time)
           b == BeforeIndex(valid, time)
           N == Len(valid)
<1>1. /\ k \in 1 .. N /\ valid[k].timestamp <= time
      /\ k < N => k + 1 \in 1 .. N /\ time < valid[k + 1].timestamp
      /\ k = N => time = valid[k].timestamp
  BY LegOfTime
<1>2. /\ N \in Nat
      /\ \A i \in 1 .. N : valid[i].timestamp \in Int
      /\ \A i, j \in 1 .. N :
           i < j => valid[i].timestamp < valid[j].timestamp
      /\ b \in 0 .. N
      /\ \A i \in 1 .. N : valid[i].timestamp < time <=> i <= b
  <2>1. /\ N \in Nat
        /\ \A i \in 1 .. N : valid[i].timestamp \in Int
        /\ \A i, j \in 1 .. N :
             i < j => valid[i].timestamp < valid[j].timestamp
    BY KeptFacts
  <2>2. /\ b \in 0 .. N
        /\ \A i \in 1 .. N : valid[i].timestamp < time <=> i <= b
    <3>1. /\ BeforeIndex(valid, time) \in 0 .. Len(valid)
          /\ \A i \in 1 .. Len(valid) :
               valid[i].timestamp < time <=> i <= BeforeIndex(valid, time)
      BY UpperOfKept
    <3> QED
      BY <3>1
  <2> QED
    BY <2>1, <2>2
<1> DEFINE upper == b + 1
<1>3. SampleAt(time) = IF valid[upper].timestamp = time THEN valid[upper]
                       ELSE InterpolateGps(valid[upper - 1], valid[upper], time)
  <2>1. upper = BeforeIndex(valid, time) + 1
    OBVIOUS
  <2> HIDE DEF upper
  <2> QED
    BY <2>1 DEF SampleAt
<1> HIDE DEF upper
<1>4. PlaceAt(time) = IF k = N THEN valid[k].place
                      ELSE InterpolateGps(valid[k], valid[k + 1], time).place
  BY DEF PlaceAt
<1> HIDE DEF k, b
<1>5. CASE valid[k].timestamp = time
  <2>1. b = k - 1
    <3>1. ~(k <= b)
      BY <1>1, <1>2, <1>5
    <3>2. k = 1 \/ (k - 1 \in 1 .. N /\ valid[k - 1].timestamp < time)
      BY <1>1, <1>2, <1>5
    <3> QED
      BY <1>1, <1>2, <3>1, <3>2
  <2>2. upper = k
    BY <1>1, <2>1 DEF upper
  <2>3. SampleAt(time) = valid[k]
    BY <1>3, <1>5, <2>2
  <2>4. CASE k = N
    BY <1>4, <1>5, <2>3, <2>4
  <2>5. CASE k < N
    <3>1. k \in 1 .. Len(valid) - 1
      BY <1>1, <1>2, <2>5
    <3> DEFINE gps == InterpolateGps(valid[k], valid[k + 1], time)
               north == Between(valid[k], valid[k + 1], time, North[k])
    <3>2. /\ gps.place.longitude = valid[k].place.longitude
          /\ gps.place.latitude = valid[k].place.latitude + north
          /\ north = 0
      <4>1. valid[k].timestamp <= time /\ time <= valid[k + 1].timestamp
        BY <1>1, <1>2, <2>5, SMTT(30)
      <4> QED
        BY <1>5, <3>1, <4>1, InterpolatedIs
    <3>3. valid[k].place.latitude \in Int
      BY <1>1, KeptFacts, ZenonT(40)
    <3>4. gps.place.latitude = valid[k].place.latitude
      <4> HIDE DEF gps, north
      <4> QED
        BY <3>2, <3>3
    <3>5. PlaceAt(time) = gps.place
      BY <1>1, <1>4, <2>5
    <3> QED
      BY <1>5, <2>3, <3>2, <3>4, <3>5
  <2> QED
    BY <1>1, <1>2, <2>4, <2>5
<1>6. CASE valid[k].timestamp # time
  <2>1. k < N /\ valid[k].timestamp < time
    BY <1>1, <1>2, <1>6
  <2>2. k <= b /\ ~(k + 1 <= b)
    BY <1>1, <1>2, <2>1
  <2>3. b = k
    BY <1>1, <1>2, <2>2
  <2>4. valid[k + 1].timestamp # time /\ k \in Nat
    BY <1>1, <1>2, <2>1
  <2>5. upper = k + 1 /\ upper - 1 = k
    BY <2>3, <2>4 DEF upper
  <2>6. SampleAt(time) = InterpolateGps(valid[k], valid[k + 1], time)
    BY <1>3, <2>4, <2>5
  <2>7. InterpolateGps(valid[k], valid[k + 1], time).timestamp = time
    BY DEF InterpolateGps
  <2> QED
    BY <1>4, <2>1, <2>6, <2>7, <1>1, <1>2
<1> QED
  BY <1>5, <1>6

-----------------------------------------------------------------------------
(* The clip of a range.                                                    *)

First(r) == IF r = WholeTrack THEN valid[1].timestamp ELSE Start(r)
Last(r) == IF r = WholeTrack THEN valid[Len(valid)].timestamp ELSE End(r)

\* The ends of a range that overlaps the drive.
LEMMA RangeIs ==
  ASSUME Kept, NEW r \in Ranges \cup {WholeTrack},
         r = WholeTrack \/ End(r) > Start(r)
  PROVE  /\ First(r) \in Moments /\ First(r) \in Nat /\ Spanned(First(r))
         /\ Last(r) \in Moments /\ Last(r) \in Nat /\ Spanned(Last(r))
         /\ First(r) < Last(r)
<1> DEFINE N == Len(valid)
           head == valid[1].timestamp
           tail == valid[N].timestamp
<1>1. /\ head \in Nat /\ tail \in Nat /\ head < tail
      /\ head \in Moments /\ tail \in Moments
  <2>1. 1 \in 1 .. N /\ N \in 1 .. N /\ 1 < N
    BY KeptFacts
  <2> QED
    BY <2>1, KeptFacts
<1>2. CASE r = WholeTrack
  BY <1>1, <1>2 DEF First, Last, Spanned
<1>3. CASE r # WholeTrack
  <2>1. r \in [start : Nat, end : Nat] /\ r \in Ranges \ {WholeTrack}
    BY <1>3, OverlayDataAssumption
  <2>2. r.start \in Nat /\ r.end \in Nat
    BY <2>1
  <2>3. r.start \in Moments /\ r.end \in Moments
    BY <2>1 DEF Moments
  <2>4. /\ Start(r) \in {r.start, head}
        /\ Start(r) >= head
    <3>1. head \in Int /\ r.start \in Int
      BY <1>1, <2>2
    <3>2. /\ Max({r.start, head}) \in {r.start, head}
          /\ Max({r.start, head}) >= head
      <4> HIDE DEF head
      <4> QED
        BY <3>1, MaxOfTwo
    <3> QED
      BY <3>2 DEF Start
  <2>5. /\ End(r) \in {r.end, tail}
        /\ End(r) <= tail
    <3>1. tail \in Int /\ r.end \in Int
      BY <1>1, <2>2
    <3>2. /\ Min({r.end, tail}) \in {r.end, tail}
          /\ Min({r.end, tail}) <= tail
      <4> HIDE DEF tail
      <4> QED
        BY <3>1, MinOfTwo
    <3> QED
      BY <3>2 DEF End
  <2>6. First(r) = Start(r) /\ Last(r) = End(r) /\ End(r) > Start(r)
    BY <1>3 DEF First, Last
  <2>7. /\ First(r) \in Nat /\ Last(r) \in Nat
        /\ First(r) \in Moments /\ Last(r) \in Moments
    BY <1>1, <2>2, <2>3, <2>4, <2>5, <2>6
  <2> QED
    BY <1>1, <2>4, <2>5, <2>6, <2>7 DEF Spanned
<1> QED
  BY <1>2, <1>3

\* A sequence between two elements.
LEMMA Framed ==
  ASSUME NEW S, NEW m \in Seq(S), NEW h \in S, NEW t \in S
  PROVE  LET c == <<h>> \o m \o <<t>>
         IN  /\ Len(m) \in Nat
             /\ Len(c) = Len(m) + 2 /\ DOMAIN c = 1 .. Len(m) + 2
             /\ c[1] = h /\ c[Len(m) + 2] = t
             /\ \A i \in 2 .. Len(m) + 1 : c[i] = m[i - 1]
  OBVIOUS

\* What clipping leaves.
LEMMA ClippedIs ==
  ASSUME Kept, NEW r \in Ranges \cup {WholeTrack},
         r = WholeTrack \/ End(r) > Start(r)
  PROVE  \E n \in Nat :
           LET c == Clipped(r)
           IN  /\ n >= 2 /\ DOMAIN c = 1 .. n /\ Len(c) = n
               /\ \A i \in 1 .. n :
                    /\ c[i].timestamp \in Moments
                    /\ c[i].timestamp \in Nat
                    /\ Spanned(c[i].timestamp)
                    /\ c[i].place.longitude = PlaceAt(c[i].timestamp).longitude
                    /\ c[i].place.latitude = PlaceAt(c[i].timestamp).latitude
               /\ \A i, j \in 1 .. n :
                    i < j => c[i].timestamp < c[j].timestamp
               /\ c[1].timestamp = First(r) /\ c[n].timestamp = Last(r)
               /\ \A i \in 1 .. Len(valid) :
                    First(r) <= valid[i].timestamp
                      /\ valid[i].timestamp <= Last(r)
                      => \E j \in 1 .. n :
                           c[j].timestamp = valid[i].timestamp
<1> DEFINE c == Clipped(r)
           N == Len(valid)
<1>1. /\ N \in Nat /\ N >= 2 /\ DOMAIN valid = 1 .. N
      /\ \A i \in 1 .. N : valid[i].timestamp \in Nat
                           /\ valid[i].timestamp \in Moments
      /\ \A i, j \in 1 .. N :
           i < j => valid[i].timestamp < valid[j].timestamp
  BY KeptFacts
<1>2. ASSUME NEW i \in 1 .. N
      PROVE  /\ Spanned(valid[i].timestamp)
             /\ valid[i].place.longitude
                  = PlaceAt(valid[i].timestamp).longitude
             /\ valid[i].place.latitude = PlaceAt(valid[i].timestamp).latitude
  <2> DEFINE time == valid[i].timestamp
             b == BeforeIndex(valid, time)
  <2>1. time \in Int
    BY <1>1
  <2>2. Spanned(time)
    <3>1. 1 \in 1 .. N /\ N \in 1 .. N
      BY <1>1
    <3>2. i = 1 \/ valid[1].timestamp < time
      BY <1>1, <3>1, SMTT(30)
    <3>3. i # N => time < valid[N].timestamp
      <4>1. i # N => i < N
        <5>1. N \in Nat
          BY <1>1
        <5> HIDE DEF N
        <5> QED
          BY <5>1
      <4> QED
        BY <1>1, <3>1, <4>1
    <3>4. valid[1].timestamp \in Int /\ valid[N].timestamp \in Int
      BY <1>1, <3>1
    <3> QED
      BY <2>1, <3>2, <3>3, <3>4 DEF Spanned
  <2>3. /\ b \in 0 .. N
        /\ \A j \in 1 .. N : valid[j].timestamp < time <=> j <= b
    BY <2>1, UpperOfKept
  <2>4. b = i - 1
    <3> HIDE DEF b
    <3>1. ~(i <= b)
      BY <1>1, <2>3
    <3>2. i = 1 \/ (i - 1 \in 1 .. N /\ valid[i - 1].timestamp < time)
      BY <1>1
    <3> QED
      BY <1>1, <2>3, <3>1, <3>2
  <2>5. b + 1 = i
    BY <1>1, <2>4
  <2>6. SampleAt(time) = valid[i]
    <3>1. BeforeIndex(valid, time) + 1 = i
      BY <2>5
    <3> HIDE DEF b
    <3> QED
      BY <3>1 DEF SampleAt
  <2> QED
    BY <2>1, <2>2, <2>6, SampleAtIs
<1>3. CASE r = WholeTrack
  <2>1. c = valid /\ First(r) = valid[1].timestamp
        /\ Last(r) = valid[N].timestamp
    BY <1>3 DEF Clipped, First, Last
  <2> HIDE DEF c
  <2>2. c[1].timestamp = First(r) /\ c[N].timestamp = Last(r)
    BY <2>1
  <2>3. /\ DOMAIN c = 1 .. N /\ Len(c) = N
        /\ \A i \in 1 .. N :
             /\ c[i].timestamp \in Moments
             /\ c[i].timestamp \in Nat
             /\ Spanned(c[i].timestamp)
             /\ c[i].place.longitude = PlaceAt(c[i].timestamp).longitude
             /\ c[i].place.latitude = PlaceAt(c[i].timestamp).latitude
        /\ \A i, j \in 1 .. N :
             i < j => c[i].timestamp < c[j].timestamp
        /\ \A i \in 1 .. N :
             \E j \in 1 .. N : c[j].timestamp = valid[i].timestamp
    BY <1>1, <1>2, <2>1
  <2> QED
    BY <1>1, <2>2, <2>3, Zenon DEF c
<1>4. CASE r # WholeTrack
  <2> DEFINE s == First(r)
             e == Last(r)
             a == UpperIndex(valid, s)
             b == BeforeIndex(valid, e)
             mid == SubSeq(valid, a + 1, b)
             head == SampleAt(s)
             tail == SampleAt(e)
             n == b - a + 2
  <2>1. /\ s \in Nat /\ e \in Nat /\ s < e
        /\ s \in Moments /\ e \in Moments
        /\ Spanned(s) /\ Spanned(e)
    BY RangeIs
  <2>2. s = Start(r) /\ e = End(r)
    BY <1>4 DEF First, Last
  <2>3. c = <<head>> \o mid \o <<tail>>
    BY <1>4, <2>2 DEF Clipped, Inside
  <2>4. /\ a \in 0 .. N
        /\ \A i \in 1 .. N : valid[i].timestamp <= s <=> i <= a
        /\ b \in 0 .. N
        /\ \A i \in 1 .. N : valid[i].timestamp < e <=> i <= b
    <3>1. /\ a \in 0 .. N
          /\ \A i \in 1 .. N : valid[i].timestamp <= s <=> i <= a
      <4>1. s \in Int
        BY <2>1
      <4> HIDE DEF s
      <4> QED
        BY <4>1, UpperOfKept
    <3>2. /\ b \in 0 .. N
          /\ \A i \in 1 .. N : valid[i].timestamp < e <=> i <= b
      <4>1. e \in Int
        BY <2>1
      <4> HIDE DEF e
      <4> QED
        BY <4>1, UpperOfKept
    <3> QED
      BY <3>1, <3>2
  <2>5. /\ head.timestamp = s /\ tail.timestamp = e
        /\ head.place.longitude = PlaceAt(s).longitude
        /\ head.place.latitude = PlaceAt(s).latitude
        /\ tail.place.longitude = PlaceAt(e).longitude
        /\ tail.place.latitude = PlaceAt(e).latitude
    BY <2>1, SampleAtIs
  <2> HIDE DEF s, e, a, b, head, tail
  <2>6. a <= b
    <3>1. CASE a = 0
      BY <2>4, <3>1
    <3>2. CASE a \in 1 .. N
      <4>1. valid[a].timestamp <= s /\ valid[a].timestamp \in Nat
        BY <1>1, <2>4, <3>2
      <4>2. valid[a].timestamp < e
        BY <2>1, <4>1
      <4> QED
        BY <2>4, <3>2, <4>2
    <3> QED
      BY <1>1, <2>4, <3>1, <3>2
  <2>7. n \in Nat /\ n >= 2 /\ b - a \in Nat
    BY <1>1, <2>4, <2>6
  <2>8. /\ mid \in Seq(Sample) /\ Len(mid) = b - a
        /\ \A i \in 1 .. b - a : mid[i] = valid[a + i]
    <3>1. valid \in Seq(Sample)
      BY DEF Kept, DataTypeOK
    <3>2. mid = [i \in 1 .. b - (a + 1) + 1 |-> valid[a + 1 + i - 1]]
      BY <1>1, <2>4, <2>6, <3>1 DEF mid
    <3> QED
      BY <1>1, <2>4, <2>6, <2>7, <3>1, <3>2
  <2> HIDE DEF mid
  <2>9. /\ DOMAIN c = 1 .. n /\ Len(c) = n
        /\ c[1] = head /\ c[n] = tail
        /\ \A i \in 2 .. n - 1 : c[i] = valid[a + (i - 1)]
    <3> DEFINE S == Sample \cup {head, tail}
    <3>1. mid \in Seq(S) /\ head \in S /\ tail \in S
      <4>1. \A i \in 1 .. Len(mid) : mid[i] \in Sample
        BY <2>8
      <4>2. Len(mid) \in Nat /\ mid \in [1 .. Len(mid) -> Sample]
        BY <2>7, <2>8
      <4>3. mid \in [1 .. Len(mid) -> S]
        BY <4>1, <4>2
      <4>4. head \in S /\ tail \in S
        OBVIOUS
      <4> HIDE DEF S
      <4> QED
        BY <4>2, <4>3, <4>4
    <3> HIDE DEF S
    <3>2. /\ Len(c) = Len(mid) + 2 /\ DOMAIN c = 1 .. Len(mid) + 2
          /\ c[1] = head /\ c[Len(mid) + 2] = tail
          /\ \A i \in 2 .. Len(mid) + 1 : c[i] = mid[i - 1]
      BY <2>3, <3>1, Framed
    <3>3. Len(mid) + 2 = n /\ Len(mid) + 1 = n - 1
      BY <2>7, <2>8
    <3>4. \A i \in 2 .. n - 1 : i - 1 \in 1 .. b - a
      BY <2>7
    <3> QED
      BY <2>8, <3>2, <3>3, <3>4
  <2> HIDE DEF c, n
  <2>10. ASSUME NEW i \in 2 .. n - 1
         PROVE  /\ a + (i - 1) \in 1 .. N /\ a + (i - 1) <= b
                /\ a < a + (i - 1)
                /\ c[i] = valid[a + (i - 1)]
                /\ s < c[i].timestamp /\ c[i].timestamp < e
    <3>1. /\ a + (i - 1) \in 1 .. N /\ a + (i - 1) <= b
          /\ a < a + (i - 1)
      BY <1>1, <2>4, <2>6, <2>7, SMTT(30) DEF n
    <3>2. c[i] = valid[a + (i - 1)]
      BY <2>9
    <3> DEFINE m == a + (i - 1)
    <3>3. m \in 1 .. N /\ m <= b /\ ~(m <= a) /\ c[i] = valid[m]
      BY <2>4, <3>1, <3>2
    <3> HIDE DEF m
    <3>4. valid[m].timestamp < e /\ ~(valid[m].timestamp <= s)
          /\ valid[m].timestamp \in Nat
      BY <1>1, <2>4, <3>3
    <3> QED
      BY <2>1, <3>1, <3>2, <3>3, <3>4
  <2>11. ASSUME NEW i \in 1 .. n
         PROVE  i = 1 \/ i = n \/ i \in 2 .. n - 1
    BY <2>7
  <2>12. ASSUME NEW i \in 1 .. n
         PROVE  /\ c[i].timestamp \in Moments
                /\ c[i].timestamp \in Nat
                /\ Spanned(c[i].timestamp)
                /\ c[i].place.longitude = PlaceAt(c[i].timestamp).longitude
                /\ c[i].place.latitude = PlaceAt(c[i].timestamp).latitude
    <3>1. CASE i = 1
      BY <2>1, <2>5, <2>9, <3>1
    <3>2. CASE i = n
      BY <2>1, <2>5, <2>9, <3>2
    <3>3. CASE i \in 2 .. n - 1
      BY <1>1, <1>2, <2>10, <3>3
    <3> QED
      BY <2>11, <3>1, <3>2, <3>3
  <2>13. ASSUME NEW i \in 1 .. n, NEW j \in 1 .. n, i < j
         PROVE  c[i].timestamp < c[j].timestamp
    <3>1. CASE i = 1 /\ j = n
      BY <2>1, <2>5, <2>9, <3>1
    <3>2. CASE i = 1 /\ j \in 2 .. n - 1
      BY <2>5, <2>9, <2>10, <3>2
    <3>3. CASE i \in 2 .. n - 1 /\ j = n
      BY <2>5, <2>9, <2>10, <3>3
    <3>4. CASE i \in 2 .. n - 1 /\ j \in 2 .. n - 1
      <4>1. /\ a + (i - 1) \in 1 .. N /\ c[i] = valid[a + (i - 1)]
            /\ a + (j - 1) \in 1 .. N /\ c[j] = valid[a + (j - 1)]
        BY <2>10, <3>4
      <4>2. a + (i - 1) < a + (j - 1)
        BY <2>4, <2>7, <2>13 DEF n
      <4> QED
        BY <1>1, <4>1, <4>2
    <3> QED
      BY <2>7, <2>13, <2>11, <3>1, <3>2, <3>3, <3>4
  <2>14. ASSUME NEW i \in 1 .. N,
                s <= valid[i].timestamp, valid[i].timestamp <= e
         PROVE  \E j \in 1 .. n : c[j].timestamp = valid[i].timestamp
    <3>1. 1 \in 1 .. n /\ n \in 1 .. n
      BY <2>7
    <3>2. CASE valid[i].timestamp = s
      BY <2>5, <2>9, <3>1, <3>2
    <3>3. CASE valid[i].timestamp = e
      BY <2>5, <2>9, <3>1, <3>3
    <3>4. CASE valid[i].timestamp # s /\ valid[i].timestamp # e
      <4>1. valid[i].timestamp < e /\ ~(valid[i].timestamp <= s)
        BY <1>1, <2>1, <2>14, <3>4
      <4>2. i <= b /\ ~(i <= a)
        BY <2>4, <4>1
      <4> DEFINE j == i - a + 1
      <4>3. j \in 2 .. n - 1 /\ j \in 1 .. n /\ a + (j - 1) = i
        BY <1>1, <2>4, <2>7, <4>2 DEF n
      <4> HIDE DEF j
      <4>4. c[j] = valid[i]
        BY <2>9, <4>3
      <4> QED
        BY <4>3, <4>4
    <3> QED
      BY <3>2, <3>3, <3>4
  <2>15. c[1].timestamp = s /\ c[n].timestamp = e
    BY <2>5, <2>9
  <2>16. n \in Nat /\ n >= 2
    BY <2>7
  <2> QED
    BY <2>9, <2>12, <2>13, <2>14, <2>15, <2>16 DEF c, s, e
<1> QED
  BY <1>3, <1>4

-----------------------------------------------------------------------------
(* What is drawn.                                                          *)

DrawnAsAsked ==
  Drawn => /\ range = WholeTrack \/ End(range) > Start(range)
           /\ track = Projected(Clipped(range))

\* A turn more or less makes no difference within half a turn.
LEMMA TurnsAgree ==
  ASSUME NEW d \in Int, -360 <= d, d <= 360, NEW x \in Int, -180 < x, x < 180,
         NEW t \in Int, x = d + 360 * t
  PROVE  ShortWay(d) = x
<1>1. t = 0 \/ t = 1 \/ t = -1
  OBVIOUS
<1> QED
  BY <1>1 DEF ShortWay

\* The points of a track: how many, when and where.
LEMMA ProjectedIs ==
  ASSUME Kept, NEW r \in Ranges \cup {WholeTrack},
         r = WholeTrack \/ End(r) > Start(r)
  PROVE  LET p == Projected(Clipped(r))
         IN  /\ p \in Seq([timestamp : Moments, x : Int, y : Int])
             /\ Len(p) >= 2
             /\ p[1].timestamp = First(r) /\ p[Len(p)].timestamp = Last(r)
             /\ \A i, j \in 1 .. Len(p) :
                  i < j => p[i].timestamp < p[j].timestamp
             /\ \A i \in 1 .. Len(p) :
                  LET x == Along(East, p[i].timestamp) - Along(East, First(r))
                  IN  x \in -179 .. 179 => p[i].x = x
             /\ \A i \in 1 .. Len(p) :
                  p[i].y - p[1].y = Along(North, p[i].timestamp)
                                      - Along(North, First(r))
             /\ \A i \in 1 .. Len(valid) :
                  First(r) <= valid[i].timestamp
                    /\ valid[i].timestamp <= Last(r)
                    => \E j \in 1 .. Len(p) :
                         p[j].timestamp = valid[i].timestamp
<1> DEFINE c == Clipped(r)
           p == Projected(c)
<1>1. PICK n \in Nat :
        /\ n >= 2 /\ DOMAIN c = 1 .. n /\ Len(c) = n
        /\ \A i \in 1 .. n :
             /\ c[i].timestamp \in Moments
             /\ c[i].timestamp \in Nat
             /\ Spanned(c[i].timestamp)
             /\ c[i].place.longitude = PlaceAt(c[i].timestamp).longitude
             /\ c[i].place.latitude = PlaceAt(c[i].timestamp).latitude
        /\ \A i, j \in 1 .. n : i < j => c[i].timestamp < c[j].timestamp
        /\ c[1].timestamp = First(r) /\ c[n].timestamp = Last(r)
        /\ \A i \in 1 .. Len(valid) :
             First(r) <= valid[i].timestamp /\ valid[i].timestamp <= Last(r)
               => \E j \in 1 .. n : c[j].timestamp = valid[i].timestamp
  BY ClippedIs
<1> DEFINE T == [timestamp : Moments, x : Int, y : Int]
           point(i) ==
             [timestamp |-> c[i].timestamp,
              x |-> ShortWay(c[i].place.longitude - c[1].place.longitude),
              y |-> c[i].place.latitude]
<1>2. p = [i \in 1 .. n |-> point(i)]
  BY <1>1 DEF Projected
<1> HIDE DEF c, p
<1>3. 1 \in 1 .. n /\ n \in 1 .. n
  BY <1>1
<1>4. ASSUME NEW i \in 1 .. n
      PROVE  /\ c[i].place.longitude \in Int
             /\ -180 <= c[i].place.longitude
             /\ c[i].place.longitude <= 180
             /\ c[i].place.latitude \in Int
             /\ Along(East, c[i].timestamp) \in Int
             /\ \E turns \in Int :
                  Along(East, c[i].timestamp) = c[i].place.longitude
                    - valid[1].place.longitude + 360 * turns
             /\ Along(North, c[i].timestamp)
                  = c[i].place.latitude - valid[1].place.latitude
  <2>1. c[i].timestamp \in Int /\ Spanned(c[i].timestamp)
    BY <1>1
  <2> DEFINE time == c[i].timestamp
             place == PlaceAt(time)
  <2> HIDE DEF time
  <2>2. /\ place.longitude \in Int
        /\ -180 <= place.longitude /\ place.longitude <= 180
        /\ place.latitude \in Int
        /\ Along(East, time) \in Int
        /\ \E turns \in Int :
             Along(East, time) = place.longitude
               - valid[1].place.longitude + 360 * turns
        /\ Along(North, time)
             = place.latitude - valid[1].place.latitude
    BY <2>1, AlongIs DEF time
  <2>3. c[i].place.longitude = place.longitude
        /\ c[i].place.latitude = place.latitude
    BY <1>1 DEF time
  <2> HIDE DEF place
  <2> QED
    BY <2>2, <2>3 DEF time
<1>5. ASSUME NEW i \in 1 .. n
      PROVE  /\ ShortWay(c[i].place.longitude - c[1].place.longitude) \in Int
             /\ p[i] = point(i)
  <2> DEFINE d == c[i].place.longitude - c[1].place.longitude
  <2>1. d \in Int
    BY <1>3, <1>4
  <2> HIDE DEF d
  <2>2. \E turns \in Int : ShortWay(d) = d + 360 * turns
    BY <2>1, ShortWayTurns
  <2>3. ShortWay(d) \in Int
    BY <2>1, <2>2
  <2> QED
    BY <1>2, <2>3 DEF d
<1>6. \A i \in 1 .. n : point(i) \in T
  <2> SUFFICES ASSUME NEW i \in 1 .. n PROVE point(i) \in T
    OBVIOUS
  <2>1. /\ c[i].timestamp \in Moments
        /\ ShortWay(c[i].place.longitude - c[1].place.longitude) \in Int
        /\ c[i].place.latitude \in Int
    BY <1>1, <1>4, <1>5, ZenonT(40)
  <2> QED
    BY <2>1
<1>7. p \in Seq(T) /\ Len(p) = n
  <2>1. p \in [1 .. n -> T]
    <3> HIDE DEF point, T
    <3> QED
      BY <1>2, <1>6
  <2> HIDE DEF T
  <2> QED
    BY <1>1, <2>1
<1>8. ASSUME NEW i \in 1 .. n
      PROVE  /\ p[i].timestamp = c[i].timestamp
             /\ p[i].x = ShortWay(c[i].place.longitude
                                    - c[1].place.longitude)
             /\ p[i].y = c[i].place.latitude
  <2>1. p[i] = point(i)
    BY <1>5
  <2>2. /\ point(i).timestamp = c[i].timestamp
        /\ point(i).x = ShortWay(c[i].place.longitude
                                   - c[1].place.longitude)
        /\ point(i).y = c[i].place.latitude
    OBVIOUS
  <2> HIDE DEF point
  <2> QED
    BY <2>1, <2>2
<1>9. ASSUME NEW i \in 1 .. n
      PROVE  LET x == Along(East, c[i].timestamp) - Along(East, First(r))
             IN  x \in -179 .. 179 => p[i].x = x
  <2> DEFINE a == c[i].place.longitude
             b == c[1].place.longitude
             ea == Along(East, c[i].timestamp)
             eb == Along(East, First(r))
             o == valid[1].place.longitude
  <2>1. PICK s \in Int : ea = a - o + 360 * s
    BY <1>4, ZenonT(40)
  <2>2. PICK t \in Int : eb = b - o + 360 * t
    <3>1. First(r) = c[1].timestamp
      BY <1>1
    <3>2. \E turns \in Int : Along(East, c[1].timestamp) = b - o + 360 * turns
      BY <1>3, <1>4
    <3> QED
      BY <3>1, <3>2, ZenonT(40)
  <2>3. /\ a \in Int /\ -180 <= a /\ a <= 180
        /\ b \in Int /\ -180 <= b /\ b <= 180
    BY <1>3, <1>4
  <2>4. o \in Int
    BY KeptFacts
  <2>5. p[i].x = ShortWay(a - b)
    BY <1>8
  <2> HIDE DEF a, b, ea, eb, o
  <2> SUFFICES ASSUME ea - eb \in -179 .. 179
               PROVE  p[i].x = ea - eb
    BY DEF ea, eb
  <2>6. /\ a - b \in Int /\ -360 <= a - b /\ a - b <= 360
        /\ ea - eb = (a - b) + 360 * (s - t) /\ s - t \in Int
        /\ ea - eb \in Int /\ -180 < ea - eb /\ ea - eb < 180
    BY <2>1, <2>2, <2>3, <2>4
  <2>7. ShortWay(a - b) = ea - eb
    <3> DEFINE d == a - b
               x == ea - eb
               u == s - t
    <3> HIDE DEF d, x, u
    <3>1. /\ d \in Int /\ -360 <= d /\ d <= 360 /\ u \in Int
          /\ x \in Int /\ -180 < x /\ x < 180 /\ x = d + 360 * u
      BY <2>6 DEF d, x, u
    <3>2. ShortWay(d) = x
      BY <3>1, TurnsAgree
    <3> QED
      BY <3>2 DEF d, x
  <2> QED
    BY <2>5, <2>7
<1>10. ASSUME NEW i \in 1 .. n
       PROVE  p[i].y - p[1].y = Along(North, p[i].timestamp)
                                  - Along(North, First(r))
  <2>1. valid[1].place.latitude \in Int
    BY KeptFacts
  <2>2. /\ Along(North, c[i].timestamp)
             = c[i].place.latitude - valid[1].place.latitude
        /\ c[i].place.latitude \in Int
        /\ Along(North, c[1].timestamp)
             = c[1].place.latitude - valid[1].place.latitude
        /\ c[1].place.latitude \in Int
    BY <1>3, <1>4
  <2> QED
    BY <1>1, <1>3, <1>8, <2>1, <2>2
<1>11. \A i, j \in 1 .. n : i < j => p[i].timestamp < p[j].timestamp
  BY <1>1, <1>8
<1>12. \A i \in 1 .. Len(valid) :
         First(r) <= valid[i].timestamp /\ valid[i].timestamp <= Last(r)
           => \E j \in 1 .. n : p[j].timestamp = valid[i].timestamp
  BY <1>1, <1>8
<1>13. p[1].timestamp = First(r) /\ p[n].timestamp = Last(r)
  BY <1>1, <1>3, <1>8, SMTT(30)
<1>14. \A i \in 1 .. n :
         LET x == Along(East, p[i].timestamp) - Along(East, First(r))
         IN  x \in -179 .. 179 => p[i].x = x
  BY <1>8, <1>9, ZenonT(40)
<1>15. n >= 2
  BY <1>1
<1> HIDE DEF T
<1> QED
  BY <1>7, <1>10, <1>11, <1>12, <1>13, <1>14, <1>15 DEF c, p, T

\* What is drawn.
LEMMA DrawnIs ==
  ASSUME Kept, DrawnAsAsked
  PROVE  TrackIsTheDrive
<1> SUFFICES ASSUME Drawn PROVE TrackIsTheDrive
  BY DEF TrackIsTheDrive
<1>1. /\ range \in Ranges \cup {WholeTrack}
      /\ range = WholeTrack \/ End(range) > Start(range)
      /\ track = Projected(Clipped(range))
  BY SMTT(30) DEF DrawnAsAsked, Kept, DataTypeOK
<1> DEFINE N == Len(track)
<1>2. /\ track \in Seq([timestamp : Moments, x : Int, y : Int])
      /\ N >= 2
      /\ track[1].timestamp = First(range) /\ track[N].timestamp = Last(range)
      /\ \A i, j \in 1 .. N : i < j => track[i].timestamp < track[j].timestamp
      /\ \A i \in 1 .. N :
           LET x == Along(East, track[i].timestamp) - Along(East, First(range))
           IN  x \in -179 .. 179 => track[i].x = x
      /\ \A i \in 1 .. N :
           track[i].y - track[1].y = Along(North, track[i].timestamp)
                                       - Along(North, First(range))
      /\ \A i \in 1 .. Len(valid) :
           First(range) <= valid[i].timestamp
             /\ valid[i].timestamp <= Last(range)
             => \E j \in 1 .. N : track[j].timestamp = valid[i].timestamp
  BY <1>1, ProjectedIs
<1>3. N \in Nat /\ DOMAIN track = 1 .. N
  BY <1>2
<1>4. /\ First(range) \in Nat /\ Last(range) \in Nat
      /\ DOMAIN valid = 1 .. Len(valid)
      /\ \A i \in 1 .. Len(valid) : valid[i].timestamp \in Nat
  BY <1>1, RangeIs, KeptFacts
<1>5. \A i \in 1 .. N - 1 : track[i].timestamp < track[i + 1].timestamp
  BY <1>2, <1>3
<1>6. \A i \in DOMAIN valid :
        valid[i].timestamp \in First(range) .. Last(range)
          => \E j \in DOMAIN track : track[j].timestamp = valid[i].timestamp
  <2> SUFFICES ASSUME NEW i \in 1 .. Len(valid),
                      valid[i].timestamp \in First(range) .. Last(range)
               PROVE  \E j \in 1 .. N : track[j].timestamp = valid[i].timestamp
    BY <1>3, <1>4
  <2>1. First(range) <= valid[i].timestamp /\ valid[i].timestamp <= Last(range)
    BY <1>4
  <2> QED
    BY <1>2, <2>1
<1>7. TrackIsTheDrive <=>
        /\ track[1].timestamp = First(range) /\ track[N].timestamp = Last(range)
        /\ \A i \in 1 .. N - 1 : track[i].timestamp < track[i + 1].timestamp
        /\ \A i \in DOMAIN track :
             /\ LET x == Along(East, track[i].timestamp)
                           - Along(East, First(range))
                IN  x \in -179 .. 179 => track[i].x = x
             /\ track[i].y - track[1].y
                  = Along(North, track[i].timestamp)
                      - Along(North, First(range))
        /\ \A i \in DOMAIN valid :
             valid[i].timestamp \in First(range) .. Last(range)
               => \E j \in DOMAIN track :
                    track[j].timestamp = valid[i].timestamp
  BY DEF TrackIsTheDrive, First, Last
<1> QED
  BY <1>2, <1>3, <1>5, <1>6, <1>7

-----------------------------------------------------------------------------
(* The course.                                                             *)

CourseFollowsTrack ==
  /\ stage \in {"filter", "project"} =>
       track = << >> /\ navigation = << >> /\ heading_target = 2
  /\ Len(navigation) <= Len(track)
  /\ \A i \in 1 .. Len(navigation) :
       navigation[i].timestamp = track[i].timestamp
  /\ stage = "frames" => Len(navigation) = Len(track)
  /\ track # << >> =>
       /\ heading_target \in 2 .. Len(track) + 1
       /\ heading_target = Len(track) + 1 =>
            \E passed \in 1 .. Len(navigation) :
              Distance2(track[passed], track[Len(track)])
                < Squared(MinimumBaseline)

FrameIsSampled ==
  sampled # NoFrame =>
    /\ stage = "frames" /\ sampled.timestamp \in Times
    /\ sampled.heading = FrameHeading(sampled.timestamp)
    /\ sampled.explored = UpperIndex(track, sampled.timestamp)

DataIInv ==
  /\ DataTypeOK /\ KeptInOrder /\ EnoughKept
  /\ PlausibleDriveKept /\ StrayFixCostsOnlyItself
  /\ DrawnAsAsked /\ CourseFollowsTrack /\ CourseIsMeasured
  /\ FrameIsSampled

Point == [timestamp : Moments, x : Int, y : Int]
Navigation == [timestamp : Moments, heading : Courses]

\* The unit of angle and the baseline are positive.
LEMMA EighthIs == Eighth \in Nat \ {0} /\ MinimumBaseline \in Nat \ {0}
  BY AngleAssumption, OverlayDataAssumption

\* Times of points are natural numbers.
LEMMA MomentsAreTimes == Moments \subseteq Nat
<1> SUFFICES ASSUME NEW t \in Moments PROVE t \in Nat
  OBVIOUS
<1>1. CASE t \in Times
  BY <1>1, OverlayDataAssumption
<1>2. CASE t \notin Times
  <2>1. PICK r \in Ranges \ {WholeTrack} : t \in {r.start, r.end}
    BY <1>2 DEF Moments
  <2>2. r \in [start : Nat, end : Nat]
    BY <2>1, OverlayDataAssumption
  <2> QED
    BY <2>1, <2>2
<1> QED
  BY <1>1, <1>2

\* The entries of the track and of the navigation.
LEMMA TrackTypes ==
  ASSUME DataTypeOK
  PROVE  /\ track \in Seq(Point) /\ navigation \in Seq(Navigation)
         /\ Len(track) \in Nat /\ DOMAIN track = 1 .. Len(track)
         /\ track # << >> <=> Len(track) > 0
         /\ \A i \in 1 .. Len(track) :
              /\ track[i].timestamp \in Moments /\ track[i].timestamp \in Nat
              /\ track[i].x \in Int /\ track[i].y \in Int
         /\ Len(navigation) \in Nat /\ DOMAIN navigation = 1 .. Len(navigation)
         /\ navigation # << >> <=> Len(navigation) > 0
         /\ \A i \in 1 .. Len(navigation) :
              /\ navigation[i].timestamp \in Moments
              /\ navigation[i].timestamp \in Nat
              /\ navigation[i].heading \in Courses
<1>1. track \in Seq(Point) /\ navigation \in Seq(Navigation)
  BY DEF DataTypeOK, Point, Navigation
<1>2. /\ Len(track) \in Nat /\ DOMAIN track = 1 .. Len(track)
      /\ track # << >> <=> Len(track) > 0
      /\ \A i \in 1 .. Len(track) : track[i] \in Point
      /\ Len(navigation) \in Nat /\ DOMAIN navigation = 1 .. Len(navigation)
      /\ navigation # << >> <=> Len(navigation) > 0
      /\ \A i \in 1 .. Len(navigation) : navigation[i] \in Navigation
  BY <1>1
<1>3. \A p \in Point : p.timestamp \in Moments /\ p.timestamp \in Nat
                       /\ p.x \in Int /\ p.y \in Int
  BY MomentsAreTimes DEF Point
<1>4. \A p \in Navigation : p.timestamp \in Moments /\ p.timestamp \in Nat
                            /\ p.heading \in Courses
  BY MomentsAreTimes DEF Navigation
<1> QED
  BY <1>1, <1>2, <1>3, <1>4

\* A course is one of the eight.
LEMMA HeadingIs ==
  ASSUME NEW p \in Point, NEW q \in Point
  PROVE  HeadingDegrees(p, q) \in Courses
<1>1. p.x \in Int /\ p.y \in Int /\ q.x \in Int /\ q.y \in Int
  BY DEF Point
<1>2. \E n \in 0 .. 7 : HeadingDegrees(p, q) = Eighth * n
  <2>1. \/ q.x = p.x /\ q.y >= p.y
        \/ q.x > p.x /\ q.y > p.y
        \/ q.x > p.x /\ q.y = p.y
        \/ q.x > p.x /\ q.y < p.y
        \/ q.x = p.x /\ q.y < p.y
        \/ q.x < p.x /\ q.y < p.y
        \/ q.x < p.x /\ q.y = p.y
        \/ q.x < p.x /\ q.y > p.y
    BY <1>1
  <2> DEFINE n == CASE q.x = p.x /\ q.y >= p.y -> 0
                    [] q.x > p.x /\ q.y > p.y -> 1
                    [] q.x > p.x /\ q.y = p.y -> 2
                    [] q.x > p.x /\ q.y < p.y -> 3
                    [] q.x = p.x /\ q.y < p.y -> 4
                    [] q.x < p.x /\ q.y < p.y -> 5
                    [] q.x < p.x /\ q.y = p.y -> 6
                    [] q.x < p.x /\ q.y > p.y -> 7
  <2>2. n \in 0 .. 7
    BY <1>1, <2>1
  <2> QED
    BY <2>2 DEF HeadingDegrees
<1> QED
  BY <1>2 DEF Courses

\* The course that is repeated.
LEMMA LastHeadingIs ==
  ASSUME DataTypeOK
  PROVE  LastHeading \in Courses
<1>1. CASE navigation = << >>
  <2>1. 0 = Eighth * 0 /\ 0 \in 0 .. 7
    BY EighthIs
  <2> QED
    BY <1>1, <2>1 DEF LastHeading, Courses
<1>2. CASE navigation # << >>
  <2>1. Len(navigation) \in 1 .. Len(navigation)
    BY <1>2, TrackTypes
  <2> QED
    BY <1>2, <2>1, TrackTypes DEF LastHeading
<1> QED
  BY <1>1, <1>2

\* Where the search of the course gets to.
LEMMA TargetIs ==
  ASSUME DataTypeOK, NEW point \in 1 .. Len(track),
         heading_target <= Len(track) + 1
  PROVE  LET from == Max({heading_target, point + 1})
             t == Target(point)
         IN  /\ from \in {heading_target, point + 1} /\ from >= point + 1
             /\ t \in Nat /\ t >= 2 /\ t <= Len(track) + 1
             /\ t <= Len(track) =>
                  /\ t >= point + 1
                  /\ Distance2(track[point], track[t])
                       >= Squared(MinimumBaseline)
             /\ t = Len(track) + 1 =>
                  \A j \in from .. Len(track) :
                    ~(Distance2(track[point], track[j])
                        >= Squared(MinimumBaseline))
<1> DEFINE from == Max({heading_target, point + 1})
           N == Len(track)
           S == {N + 1} \cup
                  {j \in from .. N :
                     Distance2(track[point], track[j])
                       >= Squared(MinimumBaseline)}
<1>1. N \in Nat /\ heading_target \in Nat \ {0} /\ point \in 1 .. N
  BY TrackTypes DEF DataTypeOK
<1>2. /\ from \in {heading_target, point + 1}
      /\ from >= point + 1 /\ from \in Nat
  <2> DEFINE next == point + 1
  <2>1. next \in Int /\ heading_target \in Int
    BY <1>1
  <2> HIDE DEF next
  <2>2. /\ Max({heading_target, next}) \in {heading_target, next}
        /\ Max({heading_target, next}) >= next
    BY <2>1, MaxOfTwo
  <2> QED
    BY <1>1, <2>2 DEF next
<1> HIDE DEF from, N
<1>3. S \in SUBSET Nat /\ N + 1 \in S
  BY <1>1, <1>2
<1>4. \E n \in S : \A m \in S : n <= m
  <2> HIDE DEF S
  <2> QED
    BY <1>3, NatLeast
<1>5. Min(S) \in S /\ \A m \in S : Min(S) <= m
  <2> HIDE DEF S
  <2> QED
    BY <1>4 DEF Min
<1>6. Target(point) = Min(S)
  BY DEF Target, from, N
<1> DEFINE t == Target(point)
<1>7. t \in S /\ t <= N + 1 /\ \A m \in S : t <= m
  <2> HIDE DEF S
  <2> QED
    BY <1>3, <1>5, <1>6
<1> HIDE DEF t
<1>8. t = N + 1 \/ (t \in from .. N /\ Distance2(track[point], track[t])
                                         >= Squared(MinimumBaseline))
  BY <1>7
<1>9. t \in Nat /\ t >= 2 /\ (t <= N => t >= point + 1)
  BY <1>1, <1>2, <1>8
<1>10. ASSUME t = N + 1, NEW j \in from .. N
       PROVE  ~(Distance2(track[point], track[j]) >= Squared(MinimumBaseline))
  <2>1. ~(t <= j) /\ j \in S => FALSE
    BY <1>7
  <2>2. ~(t <= j)
    BY <1>1, <1>2, <1>10
  <2> QED
    BY <2>1, <2>2
<1>11. t <= N => Distance2(track[point], track[t]) >= Squared(MinimumBaseline)
  BY <1>1, <1>8
<1> QED
  BY <1>2, <1>7, <1>9, <1>10, <1>11 DEF from, t, N

-----------------------------------------------------------------------------
(* Turns.                                                                  *)

\* A remainder is the one number of its range.
LEMMA Remainder ==
  ASSUME NEW n \in Nat \ {0}, NEW x \in Int, NEW z \in Int, NEW r \in Int,
         x = r + n * z, 0 <= r, r < n
  PROVE  x % n = r
<1> DEFINE q == x \div n
           s == x % n
<1>1. /\ q \in Int /\ s \in Int /\ 0 <= s /\ s < n /\ x = n * q + s
  OBVIOUS
<1> HIDE DEF q, s
<1>2. n * (q - z) = r - s
  BY <1>1
<1>3. -n < r - s /\ r - s < n
  BY <1>1
<1>4. q - z <= 0
  <2> SUFFICES ASSUME q - z >= 1 PROVE FALSE
    BY <1>1
  <2>1. n * (q - z) >= n
    BY <1>1
  <2> QED
    BY <1>1, <1>2, <1>3, <2>1
<1>5. q - z >= 0
  <2> SUFFICES ASSUME q - z <= -1 PROVE FALSE
    BY <1>1
  <2>1. n * (q - z) <= -n
    BY <1>1
  <2> QED
    BY <1>1, <1>2, <1>3, <2>1
<1>6. q = z
  BY <1>1, <1>4, <1>5
<1> QED
  BY <1>1, <1>6 DEF s

\* Division with a remainder.
LEMMA Division ==
  ASSUME NEW n \in Nat \ {0}, NEW x \in Int
  PROVE  \E q, s \in Int : /\ x % n = s /\ 0 <= s /\ s < n
                           /\ x = n * q + s
<1> DEFINE q == x \div n
           r == x - n * q
<1>1. q \in Int /\ n * q <= x /\ x < n * q + n
  OBVIOUS
<1> HIDE DEF q
<1>2. n * q \in Int
  BY <1>1
<1>3. r \in Int /\ 0 <= r /\ r < n /\ x = r + n * q /\ x = n * q + r
  BY <1>1, <1>2
<1> HIDE DEF r
<1>4. x % n = r
  BY <1>1, <1>3, Remainder
<1> QED
  BY <1>1, <1>3, <1>4

\* Division without one.
LEMMA ExactQuotient ==
  ASSUME NEW d \in Nat \ {0}, NEW x \in Int, NEW k \in Int, x = d * k
  PROVE  x \div d = k
<1> DEFINE q == x \div d
<1>1. q \in Int /\ d * q <= x /\ x < d * q + d
  OBVIOUS
<1> HIDE DEF q
<1>2. q >= k
  <2> SUFFICES ASSUME q <= k - 1 PROVE FALSE
    BY <1>1
  <2>1. d * (k - 1 - q) >= 0
    BY <1>1
  <2> QED
    BY <1>1, <2>1
<1>3. q <= k
  <2> SUFFICES ASSUME q >= k + 1 PROVE FALSE
    BY <1>1
  <2>1. d * (q - k - 1) >= 0
    BY <1>1
  <2> QED
    BY <1>1, <2>1
<1> QED
  BY <1>1, <1>2, <1>3 DEF q

\* The turn from one direction to another that is y further on.
LEMMA TurnIs ==
  ASSUME NEW a \in Int, NEW b \in Int, NEW y \in Int, NEW z \in Int,
         b - a = y + FullTurn * z, -HalfTurn <= y, y <= HalfTurn
  PROVE  Turn(a, b) = IF y >= 0 THEN y ELSE -y
<1>1. Eighth \in Nat \ {0}
  BY EighthIs
<1> DEFINE full == FullTurn
           d == (b - a) % full
<1>2. full = 8 * Eighth /\ HalfTurn = 4 * Eighth /\ full \in Nat \ {0}
  BY <1>1 DEF FullTurn, HalfTurn
<1>3. Turn(a, b) = IF d > 4 * Eighth THEN full - d ELSE d
  BY <1>2 DEF Turn
<1> HIDE DEF full
<1>4. b - a = y + full * z /\ -(4 * Eighth) <= y /\ y <= 4 * Eighth
  BY <1>2 DEF full
<1> DEFINE x == b - a
<1>5. x \in Int /\ x = y + full * z
  BY <1>4
<1>6. CASE y >= 0
  <2>1. d = y
    <3>1. 0 <= y /\ y < full
      BY <1>1, <1>2, <1>4, <1>6
    <3> HIDE DEF x
    <3>2. x % full = y
      BY <1>2, <1>5, <3>1, Remainder
    <3> QED
      BY <3>2 DEF x
  <2> HIDE DEF d
  <2> QED
    BY <1>1, <1>2, <1>3, <1>4, <1>6, <2>1
<1>7. CASE y < 0
  <2>1. d = y + full
    <3> DEFINE r == y + full
               w == z - 1
    <3>1. r \in Int /\ 0 <= r /\ r < full /\ w \in Int
      BY <1>1, <1>2, <1>4, <1>7
    <3>2. x = r + full * w
      BY <1>2, <1>5
    <3> HIDE DEF x, r, w
    <3>3. x % full = r
      BY <1>2, <1>5, <3>1, <3>2, Remainder
    <3> QED
      BY <3>3 DEF x, r
  <2> HIDE DEF d
  <2> QED
    BY <1>1, <1>2, <1>3, <1>4, <1>7, <2>1
<1> QED
  BY <1>6, <1>7

\* The turn that is interpolated: the shorter way, a whole number of eighths.
LEMMA DifferenceIs ==
  ASSUME NEW a \in Courses, NEW b \in Courses
  PROVE  LET d == Fmod(b - a + FullTurn + HalfTurn, FullTurn) - HalfTurn
         IN  /\ d \in Int /\ -HalfTurn <= d /\ d <= HalfTurn
             /\ \E z \in Int : b - a = d + FullTurn * z
             /\ \E k \in Int : d = Eighth * k
<1>1. PICK m \in 0 .. 7, n \in 0 .. 7 : a = Eighth * m /\ b = Eighth * n
  BY DEF Courses
<1>2. Eighth \in Nat \ {0}
  BY EighthIs
<1>3. /\ a \in Int /\ 0 <= a /\ a <= 7 * Eighth
      /\ b \in Int /\ 0 <= b /\ b <= 7 * Eighth
  <2>1. /\ Eighth * m >= 0 /\ Eighth * (7 - m) >= 0
        /\ Eighth * n >= 0 /\ Eighth * (7 - n) >= 0
    BY <1>2
  <2> QED
    BY <1>1, <1>2, <2>1
<1> DEFINE full == 8 * Eighth
           x == b - a + FullTurn + HalfTurn
           d == Fmod(x, FullTurn) - HalfTurn
<1>4. full \in Nat \ {0} /\ FullTurn = full /\ HalfTurn = 4 * Eighth
  BY <1>2 DEF FullTurn, HalfTurn
<1>5. x \in Int /\ x = b - a + 12 * Eighth /\ x >= 0
  BY <1>2, <1>3, <1>4
<1> HIDE DEF x
<1>6. PICK q, r \in Int :
        x % full = r /\ 0 <= r /\ r < full /\ x = full * q + r
  <2>1. full \in Nat \ {0} /\ x \in Int
    BY <1>4, <1>5
  <2> HIDE DEF full
  <2> QED
    BY <2>1, Division
<1>7. Fmod(x, FullTurn) = r
  BY <1>4, <1>5, <1>6 DEF Fmod
<1>8. d = r - 4 * Eighth
  BY <1>4, <1>7
<1> HIDE DEF d
<1>9. d \in Int /\ -HalfTurn <= d /\ d <= HalfTurn
  BY <1>2, <1>4, <1>6, <1>8
<1>10. b - a = d + FullTurn * (q - 1) /\ q - 1 \in Int
  <2>1. full * (q - 1) = full * q - full
    BY <1>2, <1>6
  <2> QED
    BY <1>2, <1>3, <1>4, <1>5, <1>6, <1>8, <2>1
<1>11. d = Eighth * (n - m - 8 * (q - 1)) /\ n - m - 8 * (q - 1) \in Int
  <2> DEFINE p == q - 1
  <2>1. p \in Int /\ b - a = d + 8 * Eighth * p
    BY <1>4, <1>10
  <2> HIDE DEF p
  <2>2. Eighth * (n - m - 8 * p) = Eighth * n - Eighth * m - 8 * Eighth * p
    BY <1>2, <2>1
  <2>3. 8 * Eighth * p \in Int /\ n - m - 8 * p \in Int
    BY <1>2, <2>1
  <2>4. d = Eighth * (n - m - 8 * p)
    BY <1>1, <1>3, <1>9, <2>1, <2>2, <2>3
  <2> QED
    BY <2>3, <2>4 DEF p
<1> QED
  BY <1>9, <1>10, <1>11 DEF d, x

\* A course interpolated between two samples.
LEMMA InterpolatedCourseIs ==
  ASSUME NEW p \in Navigation, NEW q \in Navigation, p.timestamp < q.timestamp,
         NEW time \in Int, p.timestamp <= time, time <= q.timestamp
  PROVE  LET h == InterpolateHeading(p, q, time)
         IN  /\ h \in Int /\ 0 <= h /\ h < FullTurn
             /\ Turn(p.heading, h)
                  = Between(p, q, time, Turn(p.heading, q.heading))
             /\ Turn(p.heading, q.heading)
                  = Turn(p.heading, h) + Turn(h, q.heading)
             /\ time = p.timestamp => h = p.heading
<1> DEFINE a == p.heading
           b == q.heading
           u == time - p.timestamp
           dt == q.timestamp - p.timestamp
           d == Fmod(b - a + FullTurn + HalfTurn, FullTurn) - HalfTurn
           B == (d * u) \div dt
           y == a + B
           full == FullTurn
           f == Fmod(y, full)
           h == InterpolateHeading(p, q, time)
<1>1. /\ a \in Courses /\ b \in Courses
      /\ p.timestamp \in Moments /\ q.timestamp \in Moments
      /\ p.timestamp \in Nat /\ q.timestamp \in Nat
  BY MomentsAreTimes DEF Navigation
<1>2. Eighth \in Nat \ {0} /\ HalfTurn = 4 * Eighth /\ full = 8 * Eighth
  BY EighthIs DEF FullTurn, HalfTurn
<1>3. /\ a \in Int /\ 0 <= a /\ a < full
      /\ b \in Int /\ 0 <= b /\ b < full
  <2>1. \A c \in Courses : c \in Int /\ 0 <= c /\ c < full
    <3> SUFFICES ASSUME NEW n \in 0 .. 7
                 PROVE  Eighth * n \in Int /\ 0 <= Eighth * n
                          /\ Eighth * n < full
      BY DEF Courses
    <3>1. Eighth * n >= 0 /\ Eighth * (7 - n) >= 0
      BY <1>2
    <3> QED
      BY <1>2, <3>1
  <2> HIDE DEF full
  <2> QED
    BY <1>1, <2>1
<1>4. /\ d \in Int /\ -HalfTurn <= d /\ d <= HalfTurn
      /\ \E z \in Int : b - a = d + full * z
      /\ \E k \in Int : d = Eighth * k
  BY <1>1, DifferenceIs
<1>5. u \in Nat /\ dt \in Nat \ {0} /\ u <= dt
      /\ (time = p.timestamp => u = 0)
  BY <1>1
<1>6. h = IF f < 0 THEN f + full ELSE f
  BY DEF InterpolateHeading, Between
<1>7. \A way : Between(p, q, time, way) = (way * u) \div dt
  BY DEF Between
<1>8. Eighth % dt = 0
  BY <1>1, AngleAssumption
<1> HIDE DEF a, b, u, dt, d, full, h
<1>9. /\ B \in Int
      /\ u = 0 => B = 0
      /\ d >= 0 => 0 <= B /\ B <= d
      /\ d <= 0 => d <= B /\ B <= 0
  BY <1>4, <1>5, Quotient
<1>10. PICK k \in Int : d = Eighth * k
  BY <1>4
<1>11. PICK z \in Int : b - a = d + full * z
  BY <1>4
<1>12. \E i \in Int : d * u = dt * i /\ B = i /\ ((-d) * u) \div dt = -i
  <2> DEFINE e == Eighth \div dt
  <2>1. e \in Int /\ Eighth = dt * e
    BY <1>2, <1>5, <1>8
  <2> HIDE DEF e
  <2> DEFINE i == e * k * u
             j == -i
             v == d * u
             w == (-d) * u
  <2>2. i \in Int /\ v \in Int /\ w \in Int /\ w = -v /\ j \in Int
    BY <1>4, <1>5, <2>1
  <2>3. v = dt * i
    <3>1. d = dt * (e * k)
      BY <1>5, <1>10, <2>1
    <3> QED
      BY <1>5, <2>1, <3>1
  <2>4. w = dt * j
    <3> HIDE DEF v, w, i
    <3> QED
      BY <1>5, <2>2, <2>3
  <2>5. v \div dt = i /\ w \div dt = j
    <3> HIDE DEF v, w, i, j
    <3> QED
      BY <1>5, <2>2, <2>3, <2>4, ExactQuotient
  <2>6. B = i /\ ((-d) * u) \div dt = -i /\ d * u = dt * i
    BY <2>3, <2>5
  <2> QED
    BY <2>2, <2>6
<1>13. ((-d) * u) \div dt = -B
  BY <1>12
<1> HIDE DEF B
<1>14. \E w \in Int : h = y + full * w /\ 0 <= h /\ h < full /\ h \in Int
                       /\ (B = 0 => h = a)
  <2>1. y \in Int /\ -full < y
    BY <1>2, <1>3, <1>4, <1>9
  <2>2. full \in Nat \ {0}
    BY <1>2
  <2>3. CASE y < 0
    <3> DEFINE m == -y
    <3>1. m \in Int /\ 0 <= m /\ m < full /\ m = m + full * 0
      BY <2>1, <2>2, <2>3
    <3> HIDE DEF m
    <3>2. m % full = m
      BY <2>2, <3>1, Remainder
    <3>3. f = -m
      BY <2>3, <3>2 DEF Fmod, m
    <3>4. f = y
      BY <2>1, <3>3 DEF m
    <3>5. h = y + full * 1 /\ 0 <= h /\ h < full /\ h \in Int
      <4> HIDE DEF f, y
      <4> QED
        BY <1>6, <2>1, <2>2, <2>3, <3>4
    <3>6. B # 0
      BY <1>3, <1>9, <2>3
    <3> QED
      BY <3>5, <3>6
  <2>4. CASE y >= 0
    <3> DEFINE r == y % full
               g == y \div full
    <3>1. /\ r \in Int /\ g \in Int /\ 0 <= r /\ r < full
          /\ y = full * g + r
      <4> HIDE DEF y
      <4> QED
        BY <2>1, <2>2
    <3>2. f = r
      BY <2>1, <2>4 DEF Fmod
    <3>3. B = 0 => r = a
      <4> SUFFICES ASSUME B = 0 PROVE r = a
        OBVIOUS
      <4>1. y = a
        BY <1>3
      <4>2. a = a + full * 0
        BY <1>3, <2>2
      <4>3. a % full = a
        BY <1>3, <2>2, <4>2, Remainder
      <4> HIDE DEF y
      <4> QED
        BY <4>1, <4>3
    <3> HIDE DEF r, g, f, y
    <3>4. h = r
      BY <1>6, <3>1, <3>2
    <3>5. h = y + full * (-g) /\ -g \in Int
      BY <2>1, <2>2, <3>1, <3>4
    <3> QED
      BY <3>1, <3>3, <3>4, <3>5
  <2> HIDE DEF y
  <2> QED
    BY <2>1, <2>3, <2>4
<1>15. PICK w \in Int : h = y + full * w /\ 0 <= h /\ h < full /\ h \in Int
                        /\ (B = 0 => h = a)
  BY <1>14
<1>16. Turn(a, b) = IF d >= 0 THEN d ELSE -d
  <2>1. b - a = d + FullTurn * z
    BY <1>11 DEF full
  <2> QED
    BY <1>3, <1>4, <2>1, TurnIs
<1>17. Turn(a, h) = IF B >= 0 THEN B ELSE -B
  <2>1. h - a = B + FullTurn * w /\ h \in Int
    <3>1. full * w \in Int
      BY <1>2
    <3> QED
      BY <1>3, <1>9, <1>15, <3>1 DEF full
  <2>2. -HalfTurn <= B /\ B <= HalfTurn
    BY <1>2, <1>4, <1>9
  <2> QED
    BY <1>3, <1>9, <2>1, <2>2, TurnIs
<1>18. Turn(h, b) = IF d - B >= 0 THEN d - B ELSE -(d - B)
  <2> DEFINE s == d - B
             t == z - w
  <2>1. b - h = s + FullTurn * t
    <3>1. full * w \in Int /\ full * z \in Int
          /\ full * (z - w) = full * z - full * w
      BY <1>2
    <3> QED
      BY <1>3, <1>4, <1>9, <1>11, <1>15, <3>1 DEF full
  <2>2. s \in Int /\ t \in Int /\ -HalfTurn <= s /\ s <= HalfTurn
    BY <1>2, <1>4, <1>9
  <2> HIDE DEF s, t
  <2>3. Turn(h, b) = IF s >= 0 THEN s ELSE -s
    BY <1>3, <1>15, <2>1, <2>2, TurnIs
  <2> QED
    BY <2>3 DEF s
<1>19. Turn(a, b) = Turn(a, h) + Turn(h, b)
  BY <1>4, <1>9, <1>16, <1>17, <1>18
<1>20. Turn(a, h) = Between(p, q, time, Turn(a, b))
  <2>1. Between(p, q, time, Turn(a, b)) = (Turn(a, b) * u) \div dt
    BY <1>7
  <2>2. CASE d >= 0
    BY <1>9, <1>16, <1>17, <2>1, <2>2 DEF B
  <2>3. CASE d < 0
    <3>1. Turn(a, b) = -d
      BY <1>4, <1>16, <2>3
    <3>2. Turn(a, h) = -B
      BY <1>4, <1>9, <1>17, <2>3
    <3> QED
      BY <1>13, <2>1, <3>1, <3>2
  <2> QED
    BY <1>4, <2>2, <2>3
<1>21. time = p.timestamp => h = a
  BY <1>5, <1>9, <1>15
<1> QED
  BY <1>15, <1>19, <1>20, <1>21 DEF h, a, b, full

\* What the search of the course has found out.
CourseFound ==
  CourseFollowsTrack /\ CourseIsMeasured

\* Distances between points of the track.
LEMMA DistanceIs ==
  ASSUME DataTypeOK, NEW i \in 1 .. Len(track), NEW j \in 1 .. Len(track)
  PROVE  /\ Distance2(track[i], track[j]) \in Int
         /\ i = j => Distance2(track[i], track[j]) = 0
         /\ Squared(MinimumBaseline) \in Int /\ Squared(MinimumBaseline) > 0
<1>1. /\ track[i].x \in Int /\ track[i].y \in Int
      /\ track[j].x \in Int /\ track[j].y \in Int
  BY TrackTypes
<1>2. Distance2(track[i], track[j]) \in Int
  BY <1>1 DEF Distance2, Squared
<1>3. i = j => Distance2(track[i], track[j]) = 0
  BY <1>1 DEF Distance2, Squared
<1>4. Squared(MinimumBaseline) \in Int /\ Squared(MinimumBaseline) > 0
  <2>1. \A n \in Nat \ {0} : n * n \in Int /\ n * n > 0
    <3> SUFFICES ASSUME NEW n \in Nat \ {0} PROVE n * n \in Int /\ n * n > 0
      OBVIOUS
    <3>1. n * (n - 1) >= 0
      OBVIOUS
    <3> QED
      BY <3>1
  <2> QED
    BY <2>1, EighthIs DEF Squared
<1> QED
  BY <1>2, <1>3, <1>4

\* One more course.
LEMMA NavigationStep ==
  ASSUME DataTypeOK, CourseFound, AddNavigation
  PROVE  /\ navigation' \in Seq(Navigation) /\ heading_target' \in Nat \ {0}
         /\ CourseFound'
<1> DEFINE N == Len(track)
           point == Len(navigation) + 1
           t == Target(point)
           h == IF t <= N THEN HeadingDegrees(track[point], track[t])
                ELSE LastHeading
           e == [timestamp |-> track[point].timestamp, heading |-> h]
           base == Squared(MinimumBaseline)
           far(i, j) == Distance2(track[i], track[j]) >= base
           near(i, j) == Distance2(track[i], track[j]) < base
<1>1. /\ stage = "navigate" /\ stage' = "navigate" /\ track' = track
      /\ point <= N /\ heading_target' = t
      /\ navigation' = Append(navigation, e)
  BY DEF AddNavigation
<1>2. /\ N \in Nat /\ N > 0 /\ point \in 1 .. N /\ point - 1 = Len(navigation)
      /\ N \in 1 .. N /\ track # << >>
      /\ navigation \in Seq(Navigation)
  BY <1>1, TrackTypes
<1>3. /\ heading_target \in 2 .. N + 1
      /\ heading_target = N + 1 =>
           \E passed \in 1 .. point - 1 : near(passed, N)
      /\ \A i \in 1 .. point - 1 :
           navigation[i].timestamp = track[i].timestamp
  BY <1>2 DEF CourseFound, CourseFollowsTrack
<1> DEFINE from == Max({heading_target, point + 1})
<1>4. /\ from \in {heading_target, point + 1} /\ from >= point + 1
      /\ t \in Nat /\ t >= 2 /\ t <= N + 1
      /\ t <= N => t >= point + 1 /\ far(point, t)
      /\ t = N + 1 => \A j \in from .. N : ~far(point, j)
  <2>1. point \in 1 .. Len(track) /\ heading_target <= Len(track) + 1
    BY <1>2, <1>3
  <2> HIDE DEF point
  <2> QED
    BY <2>1, TargetIs
<1>5. h \in Courses
  <2>1. CASE t <= N
    <3>1. t \in 1 .. N
      BY <1>4, <2>1
    <3>2. track[point] \in Point /\ track[t] \in Point
      BY <1>2, <3>1, TrackTypes
    <3> QED
      BY <2>1, <3>2, HeadingIs
  <2>2. CASE ~(t <= N)
    BY <2>2, LastHeadingIs
  <2> QED
    BY <2>1, <2>2
<1>6. e \in Navigation
  <2>1. track[point].timestamp \in Moments
    BY <1>2, TrackTypes
  <2> HIDE DEF h
  <2> QED
    BY <1>5, <2>1 DEF Navigation
<1>7. ASSUME t = N + 1
      PROVE  \E passed \in 1 .. point : near(passed, N)
  <2>1. CASE from <= N
    <3>1. N \in from .. N
      BY <1>2, <1>3, <1>4, <2>1
    <3>2. ~far(point, N)
      BY <1>4, <1>7, <3>1
    <3>3. near(point, N)
      BY <1>2, <3>2, DistanceIs, SMTT(30)
    <3> QED
      BY <1>2, <3>3
  <2>2. CASE from = heading_target /\ from = N + 1
    BY <1>2, <1>3, <2>2
  <2>3. CASE from = point + 1 /\ from = N + 1
    <3>1. point = N
      BY <1>2, <2>3
    <3>2. near(point, N)
      BY <1>2, <3>1, DistanceIs
    <3> QED
      BY <1>2, <3>2
  <2> QED
    BY <1>2, <1>3, <1>4, <2>1, <2>2, <2>3
<1> HIDE DEF h, t, from
<1>8. /\ Len(navigation') = point /\ DOMAIN navigation' = 1 .. point
      /\ \A i \in 1 .. point - 1 : navigation'[i] = navigation[i]
      /\ navigation'[point] = e
  <2> HIDE DEF e
  <2> QED
    BY <1>1, <1>2, Appended
<1>9. navigation' \in Seq(Navigation) /\ heading_target' \in Nat \ {0}
  <2> HIDE DEF e
  <2> QED
    BY <1>1, <1>2, <1>4, <1>6
<1>10. CourseFollowsTrack'
  <2>1. CourseFollowsTrack' <=>
          /\ stage' \in {"filter", "project"} =>
               track = << >> /\ navigation' = << >> /\ heading_target' = 2
          /\ Len(navigation') <= N
          /\ \A i \in 1 .. Len(navigation') :
               navigation'[i].timestamp = track[i].timestamp
          /\ stage' = "frames" => Len(navigation') = N
          /\ track # << >> =>
               /\ heading_target' \in 2 .. N + 1
               /\ heading_target' = N + 1 =>
                    \E passed \in 1 .. Len(navigation') : near(passed, N)
    BY <1>1 DEF CourseFollowsTrack, Distance2, Squared
  <2>2. \A i \in 1 .. point : navigation'[i].timestamp = track[i].timestamp
    BY <1>2, <1>3, <1>8
  <2>3. t \in 2 .. N + 1
    BY <1>2, <1>4
  <2> HIDE DEF N, point, e
  <2> QED
    BY <1>1, <1>7, <1>8, <2>1, <2>2, <2>3
<1>11. CourseIsMeasured'
  <2> DEFINE measured(i) ==
               \E j \in i + 1 .. N :
                 /\ far(i, j)
                 /\ navigation'[i].heading = HeadingDegrees(track[i], track[j])
             repeated(i) ==
               /\ navigation'[i].heading =
                    IF i = 1 THEN 0 ELSE navigation'[i - 1].heading
               /\ \E passed \in 1 .. i : near(passed, N)
  <2>1. CourseIsMeasured' <=>
          \A i \in DOMAIN navigation' : measured(i) \/ repeated(i)
    BY <1>1 DEF CourseIsMeasured, Distance2, Squared, HeadingDegrees
  <2>2. ASSUME NEW i \in 1 .. point - 1 PROVE measured(i) \/ repeated(i)
    <3>1. i \in DOMAIN navigation
      BY <1>2, TrackTypes
    <3>2. \/ \E j \in i + 1 .. N :
               /\ far(i, j)
               /\ navigation[i].heading = HeadingDegrees(track[i], track[j])
          \/ /\ navigation[i].heading =
                  IF i = 1 THEN 0 ELSE navigation[i - 1].heading
             /\ \E passed \in 1 .. i : near(passed, N)
      BY <3>1 DEF CourseFound, CourseIsMeasured
    <3>3. navigation'[i] = navigation[i]
      BY <1>8
    <3>4. i # 1 => navigation'[i - 1] = navigation[i - 1]
      BY <1>2, <1>8
    <3> HIDE DEF N, point, e
    <3> QED
      BY <3>2, <3>3, <3>4
  <2>3. measured(point) \/ repeated(point)
    <3>1. navigation'[point].heading = h
      BY <1>8
    <3>2. CASE t <= N
      <4>1. t \in point + 1 .. N /\ far(point, t)
        BY <1>2, <1>4, <3>2
      <4>2. h = HeadingDegrees(track[point], track[t])
        BY <3>2 DEF h
      <4> QED
        BY <3>1, <4>1, <4>2
    <3>3. CASE t = N + 1
      <4>1. h = LastHeading
        BY <1>2, <3>3 DEF h
      <4>2. LastHeading = IF point = 1 THEN 0 ELSE navigation[point - 1].heading
        BY <1>2, TrackTypes DEF LastHeading
      <4>3. point # 1 => navigation'[point - 1] = navigation[point - 1]
        BY <1>2, <1>8
      <4> QED
        BY <1>7, <3>1, <3>3, <4>1, <4>2, <4>3
    <3> QED
      BY <1>2, <1>4, <3>2, <3>3
  <2> HIDE DEF measured, repeated
  <2>4. \A i \in 1 .. point : measured(i) \/ repeated(i)
    BY <1>2, <2>2, <2>3
  <2> QED
    BY <1>8, <2>1, <2>4
<1> QED
  BY <1>9, <1>10, <1>11 DEF CourseFound

-----------------------------------------------------------------------------
(* Frames.                                                                 *)

\* What is drawn depends on the kept samples alone.
LEMMA ClippedUnchanged ==
  ASSUME UNCHANGED valid, NEW r
  PROVE  /\ Start(r)' = Start(r) /\ End(r)' = End(r)
         /\ Clipped(r)' = Clipped(r)
<1>1. Start(r)' = Start(r) /\ End(r)' = End(r)
  BY DEF Start, End, Max, Min
<1>2. Inside(r)' = Inside(r)
  BY <1>1 DEF Inside, UpperIndex, BeforeIndex
<1>3. SampleAt(Start(r))' = SampleAt(Start(r))
  <2> DEFINE u == BeforeIndex(valid, Start(r)) + 1
  <2>1. BeforeIndex(valid, Start(r))' = BeforeIndex(valid, Start(r))
    BY <1>1 DEF BeforeIndex
  <2>2. InterpolateGps(valid[u - 1], valid[u], Start(r))'
          = InterpolateGps(valid[u - 1], valid[u], Start(r))
    BY <1>1, <2>1 DEF InterpolateGps, Between, ShortWay
  <2> QED
    BY <1>1, <2>1, <2>2 DEF SampleAt
<1>4. SampleAt(End(r))' = SampleAt(End(r))
  <2> DEFINE u == BeforeIndex(valid, End(r)) + 1
  <2>1. BeforeIndex(valid, End(r))' = BeforeIndex(valid, End(r))
    BY <1>1 DEF BeforeIndex
  <2>2. InterpolateGps(valid[u - 1], valid[u], End(r))'
          = InterpolateGps(valid[u - 1], valid[u], End(r))
    BY <1>1, <2>1 DEF InterpolateGps, Between, ShortWay
  <2> QED
    BY <1>1, <2>1, <2>2 DEF SampleAt
<1> QED
  BY <1>1, <1>2, <1>3, <1>4 DEF Clipped, WholeTrack

\* The frames that are sampled.
LEMMA FrameIs ==
  ASSUME DataTypeOK, DrawnAsAsked, EnoughKept, KeptInOrder, stage = "frames",
         CourseFollowsTrack, NEW time \in Times
  PROVE  /\ UpperIndex(track, time) \in 0 .. Len(track)
         /\ UpperIndex(track, time) \in Nat
         /\ \A i \in 1 .. Len(track) :
              track[i].timestamp <= time <=> i <= UpperIndex(track, time)
         /\ FrameHeading(time) \in Int
<1>1. Kept
  BY DEF Kept, EnoughKept
<1> DEFINE N == Len(track)
<1>2. /\ N \in Nat /\ N >= 2 /\ N \in 1 .. N /\ 1 \in 1 .. N
      /\ \A i, j \in 1 .. N : i < j => track[i].timestamp < track[j].timestamp
  <2>1. /\ range \in Ranges \cup {WholeTrack}
        /\ range = WholeTrack \/ End(range) > Start(range)
        /\ track = Projected(Clipped(range))
    BY DEF DrawnAsAsked, DataTypeOK, Drawn
  <2>2. /\ N >= 2
        /\ \A i, j \in 1 .. N :
             i < j => track[i].timestamp < track[j].timestamp
    BY <1>1, <2>1, ProjectedIs
  <2>3. N \in Nat
    BY TrackTypes
  <2> QED
    BY <2>2, <2>3
<1>3. /\ DOMAIN track = 1 .. N
      /\ \A i \in 1 .. N : track[i].timestamp \in Int
      /\ time \in Int
  BY TrackTypes, OverlayDataAssumption
<1>4. /\ UpperIndex(track, time) \in 0 .. N
      /\ \A i \in 1 .. N :
           track[i].timestamp <= time <=> i <= UpperIndex(track, time)
  BY <1>2, <1>3, UpperIs
<1>5. /\ Len(navigation) = N /\ DOMAIN navigation = 1 .. N
      /\ \A i \in 1 .. N : /\ navigation[i].timestamp = track[i].timestamp
                           /\ navigation[i].heading \in Courses
                           /\ navigation[i] \in Navigation
  BY TrackTypes DEF CourseFollowsTrack
<1> DEFINE k == UpperIndex(navigation, time)
<1>6. /\ k \in 0 .. N
      /\ \A i \in 1 .. N : navigation[i].timestamp <= time <=> i <= k
  <2>1. /\ \A i \in 1 .. N : navigation[i].timestamp \in Int
        /\ \A i, j \in 1 .. N :
             i < j => navigation[i].timestamp < navigation[j].timestamp
    BY <1>2, <1>3, <1>5
  <2> HIDE DEF N
  <2> QED
    BY <1>2, <1>3, <1>5, <2>1, UpperIs
<1> HIDE DEF k
<1>7. \A c \in Courses : c \in Int
  BY EighthIs DEF Courses
<1>8. FrameHeading(time) =
        IF k = 0 THEN navigation[1].heading
        ELSE IF k = N THEN navigation[k].heading
        ELSE InterpolateHeading(navigation[k], navigation[k + 1], time)
  BY <1>5 DEF FrameHeading, k
<1>9. ASSUME k = 0 \/ k = N
      PROVE  FrameHeading(time) \in Int
  <2>1. navigation[1].heading \in Int /\ navigation[N].heading \in Int
    BY <1>2, <1>5, <1>7
  <2> HIDE DEF N
  <2> QED
    BY <1>4, <1>8, <1>9, <2>1
<1>10. ASSUME k # 0 /\ k # N
       PROVE  FrameHeading(time) \in Int
  <2>1. k \in 1 .. N /\ k + 1 \in 1 .. N
    BY <1>2, <1>6, <1>10
  <2> DEFINE p == navigation[k]
             q == navigation[k + 1]
  <2>2. p \in Navigation /\ q \in Navigation
    BY <1>5, <2>1
  <2>3. /\ p.timestamp <= time /\ ~(q.timestamp <= time)
        /\ p.timestamp \in Int /\ q.timestamp \in Int
    BY <1>3, <1>5, <1>6, <2>1
  <2> HIDE DEF p, q
  <2>4. InterpolateHeading(p, q, time) \in Int
    BY <1>3, <2>2, <2>3, InterpolatedCourseIs
  <2> QED
    BY <1>8, <1>10, <2>4 DEF p, q
<1> QED
  BY <1>4, <1>9, <1>10

\* What is drawn of a frame is a course between those of the samples.
LEMMA FrameTurns ==
  ASSUME DataTypeOK, DrawnAsAsked, EnoughKept, KeptInOrder,
         CourseFollowsTrack, FrameIsSampled
  PROVE  CourseTurnsTheShortWay
<1> SUFFICES ASSUME sampled # NoFrame PROVE CourseTurnsTheShortWay
  BY DEF CourseTurnsTheShortWay
<1> DEFINE time == sampled.timestamp
           N == Len(navigation)
           h == sampled.heading
<1>1. /\ stage = "frames" /\ time \in Times /\ time \in Int
      /\ h = FrameHeading(time)
  <2>1. stage = "frames" /\ time \in Times /\ h = FrameHeading(time)
    BY DEF FrameIsSampled
  <2> HIDE DEF time
  <2> QED
    BY <2>1, OverlayDataAssumption
<1>2. Kept
  BY <1>1 DEF Kept, EnoughKept
<1>3. /\ N \in Nat /\ N >= 2 /\ N \in 1 .. N /\ 1 \in 1 .. N
      /\ DOMAIN navigation = 1 .. N
      /\ \A i \in 1 .. N : /\ navigation[i] \in Navigation
                           /\ navigation[i].timestamp \in Int
                           /\ navigation[i].heading \in Courses
      /\ \A i, j \in 1 .. N :
           i < j => navigation[i].timestamp < navigation[j].timestamp
  <2>1. /\ range \in Ranges \cup {WholeTrack}
        /\ range = WholeTrack \/ End(range) > Start(range)
        /\ track = Projected(Clipped(range))
    BY <1>1 DEF DrawnAsAsked, DataTypeOK, Drawn
  <2>2. /\ Len(track) >= 2
        /\ \A i, j \in 1 .. Len(track) :
             i < j => track[i].timestamp < track[j].timestamp
    BY <1>2, <2>1, ProjectedIs
  <2>3. /\ Len(navigation) = Len(track)
        /\ \A i \in 1 .. Len(navigation) :
             navigation[i].timestamp = track[i].timestamp
    BY <1>1 DEF CourseFollowsTrack
  <2> QED
    BY <2>2, <2>3, TrackTypes
<1> DEFINE k == UpperIndex(navigation, time)
<1>4. /\ k \in 0 .. N
      /\ \A i \in 1 .. N : navigation[i].timestamp <= time <=> i <= k
  <2> HIDE DEF N, time
  <2> QED
    BY <1>1, <1>3, UpperIs
<1>5. h = IF k = 0 THEN navigation[1].heading
          ELSE IF k = N THEN navigation[k].heading
          ELSE InterpolateHeading(navigation[k], navigation[k + 1], time)
  BY <1>1 DEF FrameHeading
<1> HIDE DEF k, h, time, N
<1>6. \A c \in Courses : c \in Int /\ 0 <= c /\ c < FullTurn
  <2> SUFFICES ASSUME NEW n \in 0 .. 7
               PROVE  Eighth * n \in Int /\ 0 <= Eighth * n
                        /\ Eighth * n < FullTurn
    BY DEF Courses
  <2>1. Eighth * n >= 0 /\ Eighth * (7 - n) >= 0
    BY EighthIs
  <2> QED
    BY EighthIs, <2>1 DEF FullTurn
<1>7. FullTurn \in Nat
  BY EighthIs DEF FullTurn
<1>8. ASSUME k = 0 \/ k = N
      PROVE  h \in Courses
  <2>1. navigation[1].heading \in Courses /\ navigation[N].heading \in Courses
    BY <1>3
  <2> QED
    BY <1>3, <1>5, <1>8, <2>1
<1>9. ASSUME k # 0, k # N
      PROVE  LET p == navigation[k]
                 q == navigation[k + 1]
             IN  /\ k \in 1 .. N - 1 /\ k + 1 \in 1 .. N
                 /\ p.timestamp <= time /\ time < q.timestamp
                 /\ h \in Int /\ 0 <= h /\ h < FullTurn
                 /\ Turn(p.heading, h)
                      = Between(p, q, time, Turn(p.heading, q.heading))
                 /\ Turn(p.heading, q.heading)
                      = Turn(p.heading, h) + Turn(h, q.heading)
                 /\ time = p.timestamp => h = p.heading
  <2> DEFINE p == navigation[k]
             q == navigation[k + 1]
  <2>1. k \in 1 .. N - 1 /\ k \in 1 .. N /\ k + 1 \in 1 .. N
    BY <1>3, <1>4, <1>9
  <2>2. /\ p \in Navigation /\ q \in Navigation
        /\ p.timestamp \in Int /\ q.timestamp \in Int
        /\ p.timestamp <= time /\ ~(q.timestamp <= time)
    BY <1>3, <1>4, <2>1
  <2>3. /\ p.timestamp < q.timestamp /\ p.timestamp <= time
        /\ time <= q.timestamp /\ time < q.timestamp
    BY <1>1, <2>2
  <2>4. h = InterpolateHeading(p, q, time)
    BY <1>5, <1>9
  <2> HIDE DEF p, q
  <2>5. /\ h \in Int /\ 0 <= h /\ h < FullTurn
        /\ Turn(p.heading, h)
             = Between(p, q, time, Turn(p.heading, q.heading))
        /\ Turn(p.heading, q.heading)
             = Turn(p.heading, h) + Turn(h, q.heading)
        /\ time = p.timestamp => h = p.heading
    BY <1>1, <2>2, <2>3, <2>4, InterpolatedCourseIs
  <2> QED
    BY <2>1, <2>3, <2>5 DEF p, q
<1>10. h \in 0 .. FullTurn - 1
  <2>1. h \in Int /\ 0 <= h /\ h < FullTurn
    BY <1>6, <1>8, <1>9
  <2> QED
    BY <1>7, <2>1
<1> DEFINE turns(a, b) ==
             /\ Turn(a.heading, h)
                  = Between(a, b, time, Turn(a.heading, b.heading))
             /\ Turn(a.heading, b.heading)
                  = Turn(a.heading, h) + Turn(h, b.heading)
<1>11. ASSUME NEW i \in 1 .. N - 1,
              navigation[i].timestamp <= time,
              time <= navigation[i + 1].timestamp
       PROVE  turns(navigation[i], navigation[i + 1])
  <2> DEFINE a == navigation[i]
             b == navigation[i + 1]
  <2>1. /\ i \in 1 .. N /\ i + 1 \in 1 .. N /\ i <= k
        /\ a \in Navigation /\ b \in Navigation
        /\ a.timestamp \in Int /\ b.timestamp \in Int
        /\ a.timestamp < b.timestamp /\ time <= b.timestamp
    BY <1>3, <1>4, <1>11
  <2>2. CASE time < b.timestamp
    <3>1. ~(i + 1 <= k)
      BY <1>1, <1>4, <2>1, <2>2
    <3>2. k = i
      BY <1>3, <1>4, <2>1, <3>1
    <3>3. k # 0 /\ k # N
      BY <1>3, <3>2
    <3> QED
      BY <1>9, <3>2, <3>3
  <2>3. CASE ~(time < b.timestamp)
    <3>1. time = b.timestamp /\ i + 1 <= k
      BY <1>1, <1>4, <2>1, <2>3
    <3>2. k = i + 1
      <4> SUFFICES ASSUME k # i + 1 PROVE FALSE
        OBVIOUS
      <4>1. k \in 1 .. N /\ i + 1 < k
        BY <1>3, <1>4, <2>1, <3>1
      <4>2. b.timestamp < navigation[k].timestamp
        BY <1>3, <2>1, <4>1
      <4>3. navigation[k].timestamp <= time /\ navigation[k].timestamp \in Int
        BY <1>3, <1>4, <4>1
      <4> HIDE DEF b
      <4> QED
        BY <1>1, <2>1, <3>1, <4>2, <4>3
    <3>3. h = b.heading
      <4>1. k = N => h = b.heading
        BY <1>3, <1>5, <3>2
      <4>2. k # N => h = b.heading
        BY <1>3, <1>9, <3>1, <3>2
      <4> QED
        BY <4>1, <4>2
    <3> DEFINE g == a.heading
    <3>4. g \in Courses /\ h \in Courses /\ g \in Int /\ h \in Int
      BY <1>6, <2>1, <3>3 DEF Navigation
    <3> HIDE DEF a, b
    <3>5. Turn(g, h) \in Int
      <4> DEFINE d == Fmod(h - g + FullTurn + HalfTurn, FullTurn) - HalfTurn
      <4>1. /\ d \in Int /\ -HalfTurn <= d /\ d <= HalfTurn
            /\ \E z \in Int : h - g = d + FullTurn * z
        BY <3>4, DifferenceIs
      <4> HIDE DEF d
      <4>2. PICK z \in Int : h - g = d + FullTurn * z
        BY <4>1
      <4>3. Turn(g, h) = IF d >= 0 THEN d ELSE -d
        BY <3>4, <4>1, <4>2, TurnIs
      <4> QED
        BY <4>1, <4>3
    <3>6. Turn(h, h) = 0
      <4>1. /\ h - h = 0 + FullTurn * 0
            /\ -HalfTurn <= 0 /\ 0 <= HalfTurn /\ 0 \in Int
        BY <3>4, EighthIs DEF HalfTurn, FullTurn
      <4>2. Turn(h, h) = IF 0 >= 0 THEN 0 ELSE -0
        BY <3>4, <4>1, TurnIs
      <4> QED
        BY <4>2
    <3>7. Between(a, b, time, Turn(g, h)) = Turn(g, h)
      <4> DEFINE T == Turn(g, h)
                 dt == b.timestamp - a.timestamp
                 x == T * dt
      <4>1. T \in Int /\ dt \in Nat \ {0} /\ x \in Int /\ x = dt * T
        <5> HIDE DEF T
        <5> QED
          BY <2>1, <3>5 DEF T
      <4>2. Between(a, b, time, T) = x \div dt
        BY <3>1 DEF Between
      <4> HIDE DEF T, dt, x
      <4>3. x \div dt = T
        BY <4>1, ExactQuotient
      <4> QED
        BY <4>2, <4>3 DEF T
    <3>8. Turn(g, h) = Turn(g, h) + Turn(h, h)
      BY <3>5, <3>6
    <3> QED
      BY <3>3, <3>7, <3>8 DEF a, b
  <2> QED
    BY <2>2, <2>3
<1>12. \A i \in 1 .. N - 1 :
         time \in navigation[i].timestamp .. navigation[i + 1].timestamp
           => turns(navigation[i], navigation[i + 1])
  <2> SUFFICES ASSUME NEW i \in 1 .. N - 1,
                      time \in navigation[i].timestamp
                                 .. navigation[i + 1].timestamp
               PROVE  turns(navigation[i], navigation[i + 1])
    OBVIOUS
  <2>1. /\ navigation[i].timestamp <= time
        /\ time <= navigation[i + 1].timestamp
    <3>1. i \in 1 .. N /\ i + 1 \in 1 .. N
      BY <1>3
    <3> QED
      BY <1>3, <3>1
  <2> HIDE DEF turns
  <2> QED
    BY <1>11, <2>1
<1> QED
  BY <1>10, <1>12 DEF CourseTurnsTheShortWay, time, h, N

-----------------------------------------------------------------------------
(* The steps.                                                              *)

\* What the steps that only read, keep and end leave.
LEMMA BeforeDrawing ==
  ASSUME DataIInv, ~Drawn', UNCHANGED <<track, navigation, heading_target>>,
         stage = "filter" \/ stage = "project", sampled' = NoFrame
  PROVE  DrawnAsAsked' /\ CourseFound' /\ FrameIsSampled'
         /\ CourseTurnsTheShortWay'
<1>1. track = << >> /\ navigation = << >> /\ heading_target = 2
  BY DEF DataIInv, CourseFollowsTrack
<1>2. DrawnAsAsked'
  BY DEF DrawnAsAsked
<1>3. FrameIsSampled' /\ CourseTurnsTheShortWay'
  BY DEF FrameIsSampled, CourseTurnsTheShortWay, NoFrame
<1>4. CourseFollowsTrack' /\ CourseIsMeasured'
  BY <1>1 DEF CourseFollowsTrack, CourseIsMeasured, Drawn
<1> QED
  BY <1>2, <1>3, <1>4 DEF CourseFound

\* No frame is sampled before the data is built.
LEMMA NoFrameYet ==
  ASSUME DataIInv, stage # "frames"
  PROVE  sampled = NoFrame
BY DEF DataIInv, FrameIsSampled

\* Steps of the loop over telemetry.gps.
LEMMA ReadStep ==
  ASSUME DataIInv, NEW s \in Sample \cup {Unusable}, Read(s),
         \/ UNCHANGED <<stage, valid>>
         \/ stage' = "failed" /\ UNCHANGED valid
         \/ s \in Sample /\ Keep(s)
  PROVE  /\ DataTypeOK' /\ KeptInOrder' /\ EnoughKept' /\ DrawnAsAsked'
         /\ CourseFound' /\ FrameIsSampled'
<1>1. /\ DataTypeOK /\ KeptInOrder /\ stage = "filter"
      /\ given' = Append(given, s)
      /\ UNCHANGED <<range, track, navigation, heading_target, sampled>>
  BY DEF DataIInv, Read
<1>2. /\ given' \in Seq(Sample \cup {Unusable})
      /\ valid' \in Seq(Sample)
      /\ stage' \in {"filter", "failed"}
  <2>1. given \in Seq(Sample \cup {Unusable}) /\ valid \in Seq(Sample)
    BY <1>1 DEF DataTypeOK
  <2> DEFINE S == Sample \cup {Unusable}
  <2>2. given' \in Seq(S)
    <3>1. given \in Seq(S) /\ s \in S
      BY <2>1
    <3> HIDE DEF S
    <3> QED
      BY <1>1, <3>1
  <2> QED
    <3>1. s \in Sample /\ Keep(s) => valid' \in Seq(Sample) /\ stage' = stage
      <4> HIDE DEF S
      <4> QED
        BY <2>1 DEF Keep
    <3> QED
      BY <1>1, <2>1, <2>2, <3>1
<1>3. DataTypeOK'
  BY <1>1, <1>2 DEF DataTypeOK, Stages
<1>4. KeptInOrder'
  <2>1. CASE UNCHANGED valid
    BY <1>1, <2>1 DEF KeptInOrder
  <2>2. CASE s \in Sample /\ Keep(s)
    BY <1>1, <2>2, KeptStep
  <2> QED
    BY <2>1, <2>2
<1>5. EnoughKept'
  BY <1>2 DEF EnoughKept
<1>6. ~Drawn' /\ sampled' = NoFrame
  BY <1>1, <1>2, NoFrameYet DEF Drawn
<1> QED
  BY <1>1, <1>3, <1>4, <1>5, <1>6, BeforeDrawing

\* The end of telemetry.gps.
LEMMA EndOfGpsStep ==
  ASSUME DataIInv, EndOfGps
  PROVE  /\ DataTypeOK' /\ KeptInOrder' /\ EnoughKept' /\ DrawnAsAsked'
         /\ CourseFound' /\ FrameIsSampled'
<1>1. /\ DataTypeOK /\ KeptInOrder /\ stage = "filter"
      /\ stage' = IF Len(valid) < 2 THEN "failed" ELSE "project"
      /\ UNCHANGED <<given, valid, range, track, navigation, heading_target,
                     sampled>>
  BY DEF DataIInv, EndOfGps
<1>2. DataTypeOK' /\ KeptInOrder'
  BY <1>1 DEF DataTypeOK, Stages, KeptInOrder
<1>3. EnoughKept'
  BY <1>1, ValidTypes DEF EnoughKept
<1>4. ~Drawn' /\ sampled' = NoFrame
  BY <1>1, NoFrameYet DEF Drawn
<1> QED
  BY <1>1, <1>2, <1>3, <1>4, BeforeDrawing

\* A range without any of the drive.
LEMMA NoOverlapStep ==
  ASSUME DataIInv, NEW r \in Ranges, NoOverlap(r)
  PROVE  /\ DataTypeOK' /\ KeptInOrder' /\ EnoughKept' /\ DrawnAsAsked'
         /\ CourseFound' /\ FrameIsSampled'
<1>1. /\ DataTypeOK /\ KeptInOrder /\ stage = "project" /\ stage' = "failed"
      /\ range' = r
      /\ UNCHANGED <<given, valid, track, navigation, heading_target,
                     sampled>>
  BY DEF DataIInv, NoOverlap
<1>2. DataTypeOK' /\ KeptInOrder'
  BY <1>1 DEF DataTypeOK, Stages, KeptInOrder
<1>3. EnoughKept'
  BY <1>1 DEF EnoughKept
<1>4. ~Drawn' /\ sampled' = NoFrame
  BY <1>1, NoFrameYet DEF Drawn
<1> QED
  BY <1>1, <1>2, <1>3, <1>4, BeforeDrawing

\* The track is drawn.
LEMMA ProjectStep ==
  ASSUME DataIInv, NEW r \in Ranges, Project(r)
  PROVE  /\ DataTypeOK' /\ KeptInOrder' /\ EnoughKept' /\ DrawnAsAsked'
         /\ CourseFound' /\ FrameIsSampled'
<1> DEFINE points == Projected(Clipped(r))
<1>1. /\ DataTypeOK /\ KeptInOrder /\ EnoughKept /\ stage = "project"
      /\ r = WholeTrack \/ End(r) > Start(r)
      /\ range' = r
      /\ \/ stage' = "navigate" /\ track' = points
         \/ stage' = "failed" /\ UNCHANGED track
      /\ UNCHANGED <<given, valid, navigation, heading_target, sampled>>
  BY DEF DataIInv, Project
<1>2. track = << >> /\ navigation = << >> /\ heading_target = 2
  BY <1>1 DEF DataIInv, CourseFollowsTrack
<1>3. Kept
  BY <1>1 DEF Kept, EnoughKept
<1>4. /\ points \in Seq([timestamp : Moments, x : Int, y : Int])
      /\ Len(points) >= 2
  BY <1>1, <1>3, ProjectedIs
<1>5. Clipped(r)' = Clipped(r) /\ End(r)' = End(r) /\ Start(r)' = Start(r)
  BY <1>1, ClippedUnchanged
<1> HIDE DEF points
<1>6. DataTypeOK' /\ KeptInOrder'
  BY <1>1, <1>4 DEF DataTypeOK, Stages, KeptInOrder
<1>7. EnoughKept'
  BY <1>1 DEF EnoughKept
<1>8. sampled' = NoFrame
  BY <1>1, NoFrameYet
<1>9. CASE stage' = "failed" /\ UNCHANGED track
  <2>1. ~Drawn'
    BY <1>9 DEF Drawn
  <2> QED
    BY <1>1, <1>6, <1>7, <1>8, <1>9, <2>1, BeforeDrawing
<1>10. CASE stage' = "navigate" /\ track' = points
  <2>1. DrawnAsAsked'
    <3>1. Clipped(range)' = Clipped(r) /\ End(range)' = End(r)
          /\ Start(range)' = Start(r)
      BY <1>1, <1>5 DEF Clipped, WholeTrack, SampleAt, Start, End, Inside
    <3>2. Projected(Clipped(range))' = points
      BY <3>1 DEF Projected, ShortWay, points
    <3> QED
      BY <1>1, <1>10, <3>1, <3>2 DEF DrawnAsAsked, WholeTrack
  <2>2. FrameIsSampled'
    BY <1>8 DEF FrameIsSampled, NoFrame
  <2>3. CourseFound'
    <3>1. navigation' = << >> /\ heading_target' = 2 /\ Len(track') >= 2
          /\ stage' = "navigate" /\ Len(track') \in Nat
      BY <1>1, <1>2, <1>4, <1>10
    <3>2. Len(navigation') = 0 /\ DOMAIN navigation' = {}
      BY <3>1
    <3>3. CourseIsMeasured'
      BY <3>2 DEF CourseIsMeasured
    <3>4. CourseFollowsTrack'
      BY <3>1, <3>2 DEF CourseFollowsTrack
    <3> QED
      BY <3>3, <3>4 DEF CourseFound
  <2> QED
    BY <1>6, <1>7, <2>1, <2>2, <2>3
<1> QED
  BY <1>1, <1>9, <1>10

\* What later steps leave of what has been drawn.
LEMMA DrawnStays ==
  ASSUME DataIInv, UNCHANGED <<valid, range, track>>, stage' # "failed" => Drawn
  PROVE  DrawnAsAsked'
<1> SUFFICES ASSUME Drawn' PROVE DrawnAsAsked'
  BY DEF DrawnAsAsked
<1>1. Drawn
  BY DEF Drawn
<1>2. /\ range = WholeTrack \/ End(range) > Start(range)
      /\ track = Projected(Clipped(range))
  BY <1>1 DEF DataIInv, DrawnAsAsked
<1>3. /\ Clipped(range)' = Clipped(range)
      /\ End(range)' = End(range) /\ Start(range)' = Start(range)
  <2>1. PICK r : range = r
    OBVIOUS
  <2>2. Clipped(r)' = Clipped(r) /\ End(r)' = End(r) /\ Start(r)' = Start(r)
    BY ClippedUnchanged
  <2>3. range' = r
    BY <2>1
  <2>4. Clipped(range)' = Clipped(r)' /\ End(range)' = End(r)'
        /\ Start(range)' = Start(r)'
    BY <2>3 DEF Clipped, WholeTrack, SampleAt, Start, End, Inside
  <2> QED
    BY <2>1, <2>2, <2>4
<1>4. Projected(Clipped(range))' = Projected(Clipped(range))
  BY <1>3 DEF Projected, ShortWay
<1> QED
  BY <1>2, <1>3, <1>4 DEF DrawnAsAsked, WholeTrack

\* Courses stay measured while track and navigation stay.
LEMMA MeasuredUnchanged ==
  ASSUME CourseIsMeasured, UNCHANGED <<track, navigation>>
  PROVE  CourseIsMeasured'
<1> DEFINE measured(i) ==
             \/ \E j \in i + 1 .. Len(track) :
                  /\ Distance2(track[i], track[j]) >= Squared(MinimumBaseline)
                  /\ navigation[i].heading = HeadingDegrees(track[i], track[j])
             \/ /\ navigation[i].heading =
                     IF i = 1 THEN 0 ELSE navigation[i - 1].heading
                /\ \E passed \in 1 .. i :
                     Distance2(track[passed], track[Len(track)])
                       < Squared(MinimumBaseline)
<1>1. CourseIsMeasured' <=> \A i \in DOMAIN navigation : measured(i)
  BY DEF CourseIsMeasured, Distance2, Squared, HeadingDegrees
<1>2. \A i \in DOMAIN navigation : measured(i)
  BY DEF CourseIsMeasured
<1> QED
  BY <1>1, <1>2

\* What steps that add no course leave of the courses.
LEMMA CourseStays ==
  ASSUME DataIInv, UNCHANGED <<track, navigation, heading_target>>,
         stage' \notin {"filter", "project"},
         stage' = "frames" => Len(navigation) = Len(track)
  PROVE  CourseFound'
<1>1. CourseFollowsTrack /\ CourseIsMeasured
  BY DEF DataIInv
<1>2. CourseFollowsTrack'
  BY <1>1 DEF CourseFollowsTrack, Distance2, Squared
<1>3. CourseIsMeasured'
  BY <1>1, MeasuredUnchanged
<1> QED
  BY <1>2, <1>3 DEF CourseFound

\* The course of a frame depends on its time and the navigation alone.
LEMMA HeadingUnchanged ==
  ASSUME UNCHANGED navigation, NEW time, sampled'.timestamp = time
  PROVE  FrameHeading(sampled.timestamp)' = FrameHeading(time)
<1> DEFINE k == UpperIndex(navigation, time)
<1>1. UpperIndex(navigation, sampled.timestamp)' = k
  BY DEF UpperIndex
<1> QED
  BY <1>1 DEF FrameHeading, InterpolateHeading, Between, Fmod, FullTurn,
              HalfTurn

\* One more course.
LEMMA AddNavigationStep ==
  ASSUME DataIInv, AddNavigation
  PROVE  /\ DataTypeOK' /\ KeptInOrder' /\ EnoughKept' /\ DrawnAsAsked'
         /\ CourseFound' /\ FrameIsSampled'
<1>1. /\ DataTypeOK /\ KeptInOrder /\ EnoughKept /\ CourseFound
      /\ stage = "navigate"
      /\ UNCHANGED <<stage, given, valid, range, track, sampled>>
  BY DEF DataIInv, AddNavigation, CourseFound
<1>2. /\ navigation' \in Seq(Navigation) /\ heading_target' \in Nat \ {0}
      /\ CourseFound'
  BY <1>1, NavigationStep
<1>3. DataTypeOK' /\ KeptInOrder' /\ EnoughKept'
  BY <1>1, <1>2 DEF DataTypeOK, KeptInOrder, EnoughKept, Navigation
<1>4. FrameIsSampled'
  BY <1>1, NoFrameYet DEF FrameIsSampled, NoFrame
<1>5. DrawnAsAsked'
  BY <1>1, DrawnStays DEF Drawn
<1> QED
  BY <1>2, <1>3, <1>4, <1>5

\* The end of the loop over projected.
LEMMA BuiltStep ==
  ASSUME DataIInv, Built
  PROVE  /\ DataTypeOK' /\ KeptInOrder' /\ EnoughKept' /\ DrawnAsAsked'
         /\ CourseFound' /\ FrameIsSampled'
<1>1. /\ DataTypeOK /\ KeptInOrder /\ EnoughKept
      /\ stage = "navigate" /\ stage' = "frames"
      /\ Len(navigation) = Len(track)
      /\ UNCHANGED <<given, valid, range, track, navigation, heading_target,
                     sampled>>
  BY DEF DataIInv, Built
<1>2. DataTypeOK' /\ KeptInOrder' /\ EnoughKept'
  BY <1>1 DEF DataTypeOK, Stages, KeptInOrder, EnoughKept
<1>3. FrameIsSampled'
  BY <1>1, NoFrameYet DEF FrameIsSampled, NoFrame
<1>4. DrawnAsAsked'
  BY <1>1, DrawnStays DEF Drawn
<1>5. CourseFound'
  BY <1>1, CourseStays
<1> QED
  BY <1>2, <1>3, <1>4, <1>5

\* Telemetry without g-forces.
LEMMA NoGForceStep ==
  ASSUME DataIInv, NoGForce
  PROVE  /\ DataTypeOK' /\ KeptInOrder' /\ EnoughKept' /\ DrawnAsAsked'
         /\ CourseFound' /\ FrameIsSampled'
<1>1. /\ DataTypeOK /\ KeptInOrder /\ stage' = "failed"
      /\ sampled = NoFrame
      /\ UNCHANGED <<given, valid, range, track, navigation, heading_target,
                     sampled>>
  BY DEF DataIInv, NoGForce
<1>2. DataTypeOK' /\ KeptInOrder' /\ EnoughKept'
  BY <1>1 DEF DataTypeOK, Stages, KeptInOrder, EnoughKept
<1>3. FrameIsSampled'
  BY <1>1 DEF FrameIsSampled, NoFrame
<1>4. DrawnAsAsked'
  BY <1>1, DrawnStays
<1>5. CourseFound'
  BY <1>1, CourseStays
<1> QED
  BY <1>2, <1>3, <1>4, <1>5

\* One more frame.
LEMMA SampleStep ==
  ASSUME DataIInv, NEW time \in Times, SampleOverlayFrame(time)
  PROVE  /\ DataTypeOK' /\ KeptInOrder' /\ EnoughKept' /\ DrawnAsAsked'
         /\ CourseFound' /\ FrameIsSampled'
<1>1. /\ DataTypeOK /\ KeptInOrder /\ EnoughKept /\ DrawnAsAsked
      /\ CourseFollowsTrack
      /\ stage = "frames" /\ stage' = "frames"
      /\ sampled' = [timestamp |-> time, heading |-> FrameHeading(time),
                     explored |-> UpperIndex(track, time)]
      /\ UNCHANGED <<given, valid, range, track, navigation, heading_target>>
  BY DEF DataIInv, SampleOverlayFrame
<1>2. FrameHeading(time) \in Int /\ UpperIndex(track, time) \in Nat
  BY <1>1, FrameIs
<1>3. sampled' \in [timestamp : Times, heading : Int, explored : Nat]
  BY <1>1, <1>2
<1>4. DataTypeOK' /\ KeptInOrder' /\ EnoughKept'
  BY <1>1, <1>3 DEF DataTypeOK, KeptInOrder, EnoughKept
<1>5. FrameIsSampled'
  <2>1. /\ sampled'.timestamp = time /\ sampled'.heading = FrameHeading(time)
        /\ sampled'.explored = UpperIndex(track, time)
    BY <1>1
  <2>2. FrameHeading(sampled.timestamp)' = FrameHeading(time)
    BY <1>1, <2>1, HeadingUnchanged
  <2>3. UpperIndex(track, sampled.timestamp)' = UpperIndex(track, time)
    BY <1>1, <2>1 DEF UpperIndex
  <2> QED
    BY <1>1, <2>1, <2>2, <2>3 DEF FrameIsSampled
<1>6. DrawnAsAsked'
  BY <1>1, DrawnStays DEF Drawn
<1>7. CourseFound'
  BY <1>1, CourseStays DEF CourseFollowsTrack
<1> QED
  BY <1>4, <1>5, <1>6, <1>7

\* Steps that change nothing.
LEMMA StillStep ==
  ASSUME DataIInv, UNCHANGED data_vars
  PROVE  /\ DataTypeOK' /\ KeptInOrder' /\ EnoughKept' /\ DrawnAsAsked'
         /\ CourseFound' /\ FrameIsSampled'
<1>1. /\ DataTypeOK /\ KeptInOrder /\ EnoughKept
      /\ UNCHANGED <<stage, given, valid, range, track, navigation,
                     heading_target, sampled>>
  BY DEF DataIInv, data_vars
<1>2. DataTypeOK' /\ KeptInOrder' /\ EnoughKept'
  BY <1>1 DEF DataTypeOK, KeptInOrder, EnoughKept
<1>3. FrameIsSampled'
  <2>1. PICK time : sampled.timestamp = time
    OBVIOUS
  <2>2. FrameHeading(sampled.timestamp)' = FrameHeading(time)
    BY <1>1, <2>1, HeadingUnchanged
  <2>3. FrameHeading(sampled.timestamp) = FrameHeading(time)
    BY <2>1
  <2>4. UpperIndex(track, sampled.timestamp)'
          = UpperIndex(track, sampled.timestamp)
    BY <1>1 DEF UpperIndex
  <2> QED
    BY <1>1, <2>2, <2>3, <2>4 DEF DataIInv, FrameIsSampled, NoFrame
<1>4. DrawnAsAsked'
  <2>1. CASE Drawn
    BY <1>1, <2>1, DrawnStays
  <2>2. CASE ~Drawn
    BY <1>1, <2>2 DEF DrawnAsAsked, Drawn
  <2> QED
    BY <2>1, <2>2
<1>5. CourseFound'
  <2>1. CourseIsMeasured'
    BY <1>1, MeasuredUnchanged DEF DataIInv
  <2>2. CourseFollowsTrack'
    BY <1>1 DEF DataIInv, CourseFollowsTrack, Distance2, Squared
  <2> QED
    BY <2>1, <2>2 DEF CourseFound
<1> QED
  BY <1>2, <1>3, <1>4, <1>5

-----------------------------------------------------------------------------
(* The theorems.                                                           *)

\* The initial state.
LEMMA DataInitially == DataInit => DataIInv
<1> SUFFICES ASSUME DataInit PROVE DataIInv
  OBVIOUS
<1>1. /\ stage = "filter" /\ given = << >> /\ valid = << >>
      /\ range = WholeTrack /\ track = << >> /\ navigation = << >>
      /\ heading_target = 2 /\ sampled = NoFrame
  BY DEF DataInit
<1>2. DataTypeOK
  BY <1>1 DEF DataTypeOK, Stages
<1>3. /\ KeptInOrder /\ EnoughKept /\ PlausibleDriveKept
      /\ StrayFixCostsOnlyItself
  BY <1>1 DEF KeptInOrder, EnoughKept, PlausibleDriveKept,
              StrayFixCostsOnlyItself
<1>4. DrawnAsAsked /\ CourseFollowsTrack /\ CourseIsMeasured /\ FrameIsSampled
  BY <1>1 DEF DrawnAsAsked, Drawn, CourseFollowsTrack, CourseIsMeasured,
              FrameIsSampled
<1> QED
  BY <1>2, <1>3, <1>4 DEF DataIInv

\* No step leaves the invariant.
LEMMA DataStep == DataIInv /\ [DataNext]_data_vars => DataIInv'
<1> SUFFICES ASSUME DataIInv, [DataNext]_data_vars PROVE DataIInv'
  OBVIOUS
<1> DEFINE Rest == /\ DataTypeOK' /\ KeptInOrder' /\ EnoughKept'
                   /\ DrawnAsAsked' /\ CourseFound' /\ FrameIsSampled'
<1>1. PlausibleDriveKept' /\ StrayFixCostsOnlyItself'
  <2>1. CASE DataNext
    BY <2>1, PlausibleDriveKeptStep, StrayStep DEF DataIInv
  <2>2. CASE UNCHANGED data_vars
    <3>1. UNCHANGED <<given, valid>>
      BY <2>2 DEF data_vars
    <3> QED
      BY <3>1, StrayUnchanged DEF DataIInv
  <2> QED
    BY <2>1, <2>2
<1>2. Rest
  <2> HIDE DEF Rest
  <2>1. CASE SkipUnusable
    BY <2>1, ReadStep DEF SkipUnusable, Rest
  <2>2. ASSUME NEW s \in Sample, NotIncreasing(s)
        PROVE  Rest
    BY <2>2, ReadStep DEF NotIncreasing, Rest
  <2>3. ASSUME NEW s \in Sample, SkipImplausible(s)
        PROVE  Rest
    BY <2>3, ReadStep DEF SkipImplausible, Rest
  <2>4. ASSUME NEW s \in Sample, Keep(s)
        PROVE  Rest
    <3>1. Read(s)
      BY <2>4 DEF Keep
    <3> QED
      BY <2>4, <3>1, ReadStep DEF Rest
  <2>5. CASE EndOfGps
    BY <2>5, EndOfGpsStep DEF Rest
  <2>6. ASSUME NEW r \in Ranges, NoOverlap(r)
        PROVE  Rest
    BY <2>6, NoOverlapStep DEF Rest
  <2>7. ASSUME NEW r \in Ranges, Project(r)
        PROVE  Rest
    BY <2>7, ProjectStep DEF Rest
  <2>8. CASE AddNavigation
    BY <2>8, AddNavigationStep DEF Rest
  <2>9. CASE Built
    BY <2>9, BuiltStep DEF Rest
  <2>10. CASE NoGForce
    BY <2>10, NoGForceStep DEF Rest
  <2>11. ASSUME NEW time \in Times, SampleOverlayFrame(time)
         PROVE  Rest
    BY <2>11, SampleStep DEF Rest
  <2>12. CASE Finished \/ UNCHANGED data_vars
    BY <2>12, StillStep DEF Finished, Rest
  <2> QED
    BY <2>1, <2>2, <2>3, <2>4, <2>5, <2>6, <2>7, <2>8, <2>9, <2>10, <2>11,
       <2>12 DEF DataNext
<1> QED
  BY <1>1, <1>2 DEF DataIInv, CourseFound

\* The inductive invariant of the overlay data.
THEOREM DataInvariant == DataSpec => []DataIInv
BY DataInitially, DataStep, PTL DEF DataSpec

\* Every value of the overlay data has its type.
THEOREM DataTypes == DataSpec => []DataTypeOK
<1>1. DataIInv => DataTypeOK
  BY DEF DataIInv
<1> QED
  BY <1>1, DataInvariant, PTL

\* However many samples there are, and wherever a stray one lies, it costs the
\* track no other sample (overlay_data.cc:136-158).
THEOREM StraysCostThemselves == DataSpec => []StrayFixCostsOnlyItself
<1>1. DataIInv => StrayFixCostsOnlyItself
  BY DEF DataIInv
<1> QED
  BY <1>1, DataInvariant, PTL

\* For any samples and any range the track is the drive within the range
\* (overlay_data.cc:160-215).
THEOREM DrawsTheDrive == DataSpec => []TrackIsTheDrive
<1>1. DataIInv => TrackIsTheDrive
  <2> SUFFICES ASSUME DataIInv PROVE TrackIsTheDrive
    OBVIOUS
  <2>1. CASE Drawn
    <3>1. Kept /\ DrawnAsAsked
      BY <2>1 DEF DataIInv, Kept, EnoughKept, Drawn
    <3> QED
      BY <3>1, DrawnIs
  <2>2. CASE ~Drawn
    BY <2>2 DEF TrackIsTheDrive
  <2> QED
    BY <2>1, <2>2
<1> QED
  BY <1>1, DataInvariant, PTL

\* For any track each course is measured over the baseline, or repeated near
\* the end only (overlay_data.cc:237-260).
THEOREM MeasuresTheCourse == DataSpec => []CourseIsMeasured
<1>1. DataIInv => CourseIsMeasured
  BY DEF DataIInv
<1> QED
  BY <1>1, DataInvariant, PTL

\* In every frame the course lies evenly on the shorter way between those of
\* the samples around it (overlay_data.cc:111-127, 285-307).
THEOREM TurnsTheShortWay == DataSpec => []CourseTurnsTheShortWay
<1>1. DataIInv => CourseTurnsTheShortWay
  BY FrameTurns DEF DataIInv
<1> QED
  BY <1>1, DataInvariant, PTL

\* The number of points drawn as driven never falls.
ExploredGrows == sampled'.explored >= sampled.explored

\* The track that has been driven never shrinks from a frame to a later one:
\* what OverlayPipeline assumes of ExploredPoints.
THEOREM ExploresOnwards == DataSpec => [][ExploredGrows]_data_vars
<1>1. DataIInv /\ [DataNext]_data_vars => [ExploredGrows]_data_vars
  <2> SUFFICES ASSUME DataIInv, DataNext
               PROVE  ExploredGrows \/ UNCHANGED data_vars
    OBVIOUS
  <2>1. CASE UNCHANGED sampled
    <3>1. sampled.explored \in Nat
      <4>1. \/ sampled \in [timestamp : Times, heading : Int, explored : Nat]
            \/ sampled = NoFrame
        BY DEF DataIInv, DataTypeOK
      <4> QED
        BY <4>1 DEF NoFrame
    <3> QED
      BY <2>1, <3>1 DEF ExploredGrows
  <2>2. ASSUME NEW time \in Times, SampleOverlayFrame(time)
        PROVE  ExploredGrows
    <3> DEFINE old == sampled.explored
               new == UpperIndex(track, time)
    <3>1. /\ sampled'.explored = new /\ time > sampled.timestamp
          /\ stage = "frames" /\ time \in Nat
      BY <2>2, OverlayDataAssumption DEF SampleOverlayFrame
    <3>2. /\ new \in Nat
          /\ \A i \in 1 .. Len(track) :
               track[i].timestamp <= time <=> i <= new
      BY <3>1, FrameIs DEF DataIInv
    <3>3. CASE sampled = NoFrame
      BY <3>1, <3>2, <3>3 DEF ExploredGrows, NoFrame
    <3>4. CASE sampled # NoFrame
      <4>1. /\ sampled.timestamp \in Times /\ sampled.timestamp \in Nat
            /\ old = UpperIndex(track, sampled.timestamp)
        BY <3>4, OverlayDataAssumption DEF DataIInv, FrameIsSampled
      <4>2. PICK t \in Times : t = sampled.timestamp /\ t \in Nat
        BY <4>1
      <4>3. /\ UpperIndex(track, t) \in 0 .. Len(track)
            /\ \A i \in 1 .. Len(track) :
                 track[i].timestamp <= t <=> i <= UpperIndex(track, t)
        BY <3>1, FrameIs DEF DataIInv
      <4>4. /\ old \in 0 .. Len(track)
            /\ old # 0 => track[old].timestamp <= t
        BY <4>1, <4>2, <4>3, TrackTypes DEF DataIInv
      <4>5. old # 0 => track[old].timestamp <= time
        BY <3>1, <4>2, <4>4, TrackTypes DEF DataIInv
      <4>6. old <= new
        BY <3>2, <4>4, <4>5, TrackTypes DEF DataIInv
      <4> QED
        BY <3>1, <4>6 DEF ExploredGrows
    <3> QED
      BY <3>3, <3>4
  <2> QED
    BY <2>1, <2>2
       DEF DataNext, SkipUnusable, Read, NotIncreasing, SkipImplausible, Keep,
           EndOfGps, NoOverlap, Project, AddNavigation, Built, NoGForce,
           Finished, data_vars
<1> QED
  BY <1>1, DataInvariant, PTL DEF DataSpec
=============================================================================
