------------------------------- MODULE Display -------------------------------
(***************************************************************************)
(* The display driver device/ssd1306.c as application/example_lcd.c uses   *)
(* it.  Drawing changes a buffer in memory, one byte for each eight rows   *)
(* of a column; ssd1306_show sends it to the panel over I2C.  The driver   *)
(* ignores what the I2C calls return: any byte of a command may be lost,   *)
(* and the transfer of the buffer may end early.                           *)
(*                                                                         *)
(* A byte is the set of its bits that are 1, a point is <<x, y>>.  plane   *)
(* is the picture the calls describe, without the limits of a screen: the  *)
(* points that are drawn, and those that may be.                           *)
(***************************************************************************)
EXTENDS Integers, Sequences, FiniteSets

CONSTANTS
    Screens,                        \* displays: records of width and height
    PANEL_WIDTH, PANEL_PAGES,       \* memory of the controller
    NARROW, NARROW_OFFSET,          \* 64 and 32: see ssd1306_show
    font, Glyphs,                   \* a font, and what its characters look like
    Lines, Boxes, Texts, Images,    \* what is drawn
    Cuts,                           \* where a transfer may end early
    Losses,                         \* bytes of a call's commands that may be lost
    MaxCalls                        \* bound: calls that draw, not those that clear

Coordinate == -1000 .. 1000     \* of lines and squares: see Low

Box(x, y, width, height) == (x .. x + width - 1) \X (y .. y + height - 1)

(* Of a font (font.h): each character by its columns from the left, each   *)
(* column in whole bytes, whose bits are its points from the top.          *)
FontFormat ==
    LET parts == (font.height + 7) \div 8
        column(c, w) == 5 + parts * (font.width * (c - font.first) + w)
    IN  /\ {font.height, font.width, font.spacing, font.first, font.last} \subseteq Nat
        /\ DOMAIN Glyphs = font.first .. font.last
        /\ \A c \in DOMAIN Glyphs :
              /\ Glyphs[c] \subseteq Box(0, 0, font.width, font.height)
              /\ \A w \in 0 .. font.width - 1, part \in 0 .. parts - 1 :
                    font.bytes[column(c, w) + part] =
                        {bit \in 0 .. 7 : <<w, 8 * part + bit>> \in Glyphs[c]}

(* Of a bitmap file: lines from the bottom up, padded to four bytes, whose *)
(* bits are the points from the left; one of the two colours is black.     *)
ImageFormat(image, picture) ==
    LET stride == 4 * ((image.width + 31) \div 32)
        size == Box(0, 0, image.width, image.height)
    IN  /\ {image.width, image.height} \subseteq Nat
        /\ picture \subseteq size
        /\ \E black \in {0, 1} :
              /\ image.table[black] = 0 /\ image.table[1 - black] # 0
              /\ \A q \in size :
                    (7 - (q[1] % 8) \in image.data[stride * (image.height - 1 - q[2])
                                                       + (q[1] \div 8)])
                        <=> (q \in picture <=> black = 1)

(* The column in front of the glass of a narrow display starts later. *)
FirstColumnOf(width) == IF width = NARROW THEN NARROW_OFFSET ELSE 0

ASSUME DisplayAssumption ==
    /\ {PANEL_WIDTH, PANEL_PAGES, NARROW_OFFSET} \cup Cuts \cup Losses \subseteq Nat
    /\ \A s \in Screens :
          /\ s \in [width : Nat \ {0}, height : Nat \ {0}]
          /\ s.height % 8 = 0 /\ s.height \div 8 <= PANEL_PAGES
          /\ FirstColumnOf(s.width) + s.width <= PANEL_WIDTH
    /\ Lines \subseteq [x1 : Coordinate, y1 : Coordinate, x2 : Coordinate, y2 : Coordinate]
    /\ Boxes \subseteq [x : Coordinate, y : Coordinate, width : Nat, height : Nat]
    /\ Texts \subseteq [x : Int, y : Int, scale : Nat \ {0}, string : Seq(Nat)]
    /\ FontFormat
    /\ \A i \in Images : {i.x, i.y} \subseteq Int /\ ImageFormat(i.image, i.picture)

VARIABLES
    p,          \* the driver's record of the display
    buffer,     \* p->buffer, from the control byte at -1
    panel,      \* the controller
    plane,      \* history: the points drawn and not cleared, for sure or maybe
    shown,      \* history: the plane of the last call of ssd1306_show, if it
                \* arrived as a whole, with no part of a command lost before
    calls       \* number of calls that drew so far

displayVars == <<p, buffer, panel, plane, shown, calls>>

NoDisplay == [width |-> 0, height |-> 0]
Blank == [sure |-> {}, maybe |-> {}]
NotShown == [complete |-> FALSE, picture |-> Blank]
CONTROL_DATA == {6}    \* 0x40
Noise == 0 .. 7        \* what the controller's memory holds before

Screen == Box(0, 0, p.width, p.height)

-----------------------------------------------------------------------------
(* The controller.                                                         *)

(* A byte of data goes to the current place, which then moves on through   *)
(* the window of columns and pages and wraps around.                       *)
MovedOn(pn) ==
    IF pn.at[1] < pn.columns[2] THEN <<pn.at[1] + 1, pn.at[2]>>
    ELSE IF pn.at[2] < pn.pages[2] THEN <<pn.columns[1], pn.at[2] + 1>>
    ELSE <<pn.columns[1], pn.pages[1]>>

Received(pn, data) ==
    LET put(byte, before) == [before EXCEPT !.ram[before.at] = byte,
                                            !.at = MovedOn(before)]
        after[n \in 0 .. Len(data)] ==
            IF n = 0 THEN pn ELSE put(data[n], after[n - 1])
    IN  after[Len(data)]

Addressed(pn, columns, pages) ==
    [pn EXCEPT !.columns = columns, !.pages = pages,
               !.at = <<columns[1], pages[1]>>]

(* After power on; and when part of a command was lost, so that what       *)
(* follows is taken for something else: what it then shows is left open.   *)
PowerUp == [ram |-> [a \in (0 .. PANEL_WIDTH - 1) \X (0 .. PANEL_PAGES - 1) |-> Noise],
            columns |-> <<0, PANEL_WIDTH - 1>>, pages |-> <<0, PANEL_PAGES - 1>>,
            at |-> <<0, 0>>, on |-> FALSE, inverse |-> FALSE, confused |-> FALSE]
Confused == [PowerUp EXCEPT !.confused = TRUE]

(* The controller after commands that would make it pn, of whose bytes     *)
(* some, all or none were lost.                                            *)
AfterCommands(pn, bytes, lost) ==
    IF panel.confused \/ lost = bytes THEN panel
    ELSE IF lost > 0 THEN Confused ELSE pn

FirstColumn == FirstColumnOf(p.width)

Glows(point) ==
    /\ panel.on
    /\ (point[2] % 8 \in panel.ram[FirstColumn + point[1], point[2] \div 8])
          # panel.inverse

-----------------------------------------------------------------------------
(* Drawing.  The points of a call are set one by one in the code.          *)

(* Coordinates are unsigned words: what is negative is out of range too. *)
OnScreen(points) == {q \in points : /\ q[1] \in 0 .. (p.width - 1)
                                    /\ q[2] \in 0 .. (p.height - 1)}

BitsOf(points, i) ==
    {q[2] % 8 : q \in {r \in OnScreen(points) :
                           r[1] + p.width * (r[2] \div 8) = i}}

ssd1306_draw_pixel(points) ==
    buffer' = [i \in DOMAIN buffer |-> buffer[i] \cup BitsOf(points, i)]

ssd1306_clear_pixel(points) ==
    buffer' = [i \in DOMAIN buffer |-> buffer[i] \ BitsOf(points, i)]

(* swap copies the second value over the first and keeps it. *)
Ordered(l) ==
    IF l.x1 > l.x2 \/ (l.x1 = l.x2 /\ l.y1 > l.y2)
    THEN [l EXCEPT !.x1 = l.x2, !.y1 = l.y2] ELSE l

(* A row is a float cut to an unsigned word: towards zero, and undefined   *)
(* for -1 and less.  The machine's conversion gives 0 for these; others    *)
(* give a row far beyond the screen.                                       *)
Across(l) == l.x2 - l.x1
Rise(l, x) == l.y1 * Across(l) + (l.y2 - l.y1) * (x - l.x1)
Row(l, x) == IF Rise(l, x) < 0 THEN 0 ELSE Rise(l, x) \div Across(l)

(* Mutant of Columns: the loop ends before the last column. *)
ColumnsButLast(l) == l.x1 .. (l.x2 - 1)

Columns(l) == l.x1 .. l.x2

Undefined(l) == {x \in Columns(l) : Rise(l, x) <= -Across(l)}

(* Where the slope is no exact float and the row is a whole number, the    *)
(* result may lie just below the row; elsewhere the error is too small to  *)
(* count: below 2^-24 * (2 * |y2 - y1| + 1000), less than 1 / (x2 - x1).   *)
Divides(d, n) == n % d = 0
Exact(l) == \E k \in {1, 2, 4, 8, 16, 32, 64, 128} :
               Divides(Across(l), k * (l.y2 - l.y1))
Low(l) == {x \in (l.x1 + 1) .. l.x2 :
             /\ ~Exact(l) /\ Row(l, x) > 0
             /\ Divides(Across(l), Rise(l, x))}

(* The points of a line, for each choice of the columns that come out low  *)
(* and of the undefined rows that are beyond the screen.                   *)
LinePoints(line) ==
    LET l == Ordered(line)
    IN  IF l.x1 = l.x2 THEN {{l.x1} \X (l.y1 .. l.y2)}
        ELSE {{<<x, Row(l, x) - (IF x \in low THEN 1 ELSE 0)>> : x \in Columns(l) \ far} :
                low \in SUBSET Low(l), far \in SUBSET Undefined(l)}

(* The sides of an empty square are lines that go right or down. *)
Side(x1, y1, x2, y2) == LinePoints([x1 |-> x1, y1 |-> y1, x2 |-> x2, y2 |-> y2])
EmptySquare(b) ==
    LET right == b.x + b.width
        bottom == b.y + b.height
    IN  {t \cup u \cup v \cup w : t \in Side(b.x, b.y, right, b.y),
                                 u \in Side(b.x, bottom, right, bottom),
                                 v \in Side(b.x, b.y, b.x, bottom),
                                 w \in Side(right, b.y, right, bottom)}

(* Mutant of parts_per_line: a part that is not full is forgotten. *)
FullParts == font.height \div 8

(* Characters.  A column of a character takes whole bytes. *)
parts_per_line == (font.height \div 8) + (IF font.height % 8 > 0 THEN 1 ELSE 0)

FontByte(c, w, lp) ==
    font.bytes[(c - font.first) * font.width * parts_per_line
                  + w * parts_per_line + 5 + lp]

CharPoints(x, y, scale, c) ==
    IF c \notin font.first .. font.last THEN {}
    ELSE UNION {Box(x + d[1] * scale, y + (8 * d[2] + d[3]) * scale, scale, scale) :
                  d \in {e \in (0 .. font.width - 1) \X (0 .. parts_per_line - 1)
                               \X (0 .. 7) : e[3] \in FontByte(c, e[1], e[2])}}

StringPoints(t) ==
    UNION {CharPoints(t.x + (n - 1) * (font.width + font.spacing) * t.scale,
                      t.y, t.scale, t.string[n]) : n \in DOMAIN t.string}

(* Images: lines of pixels from the bottom up, each a multiple of 4 bytes. *)
bytes_per_line(image) ==
    LET bytes == (image.width \div 8) + (IF image.width % 8 > 0 THEN 1 ELSE 0)
    IN  IF bytes % 4 # 0 THEN bytes + (4 - (bytes % 4)) ELSE bytes

color_val(image) == IF image.table[0] = 0 THEN 0 ELSE 1

ImagePoints(image, x_offset, y_offset) ==
    LET byte(x, y) == image.data[(image.height - 1 - y) * bytes_per_line(image)
                                    + x \div 8]
        pixel(x, y) == IF (7 - (x % 8)) \in byte(x, y) THEN 1 ELSE 0
    IN  {<<x_offset + q[1], y_offset + q[2]>> :
           q \in {r \in Box(0, 0, image.width, image.height) :
                     pixel(r[1], r[2]) = color_val(image)}}

-----------------------------------------------------------------------------
(* What the calls describe.                                                *)

Sharp(points) == [sure |-> points, maybe |-> points]

(* A line has the points whose row its exact place is in.  Nothing is said *)
(* of the row where that place is the edge of two rows and the slope is no *)
(* exact float, nor of row 0 in a column where the line is above it.       *)
LineDescribed(l) ==
    LET above(q) == (l.y2 - l.y1) * (q[1] - l.x1) - (q[2] - l.y1) * Across(l)
        crossed == {q \in Screen : q[1] \in l.x1 .. l.x2}
        within(q) == above(q) \in 0 .. Across(l) - 1
        edge(q) == ~Exact(l) /\ q[1] # l.x1
    IN  IF l.x1 = l.x2 THEN Sharp({q \in crossed : q[2] \in l.y1 .. l.y2})
        ELSE [sure |-> {q \in crossed : within(q) /\ (edge(q) => above(q) # 0)},
              maybe |-> {q \in crossed :
                           \/ within(q)
                           \/ edge(q) /\ above(q) = Across(l)
                           \/ q[2] = 0 /\ above(q) < 0}]

(* The outline from the given point to the one that is width columns to    *)
(* the right and height rows down, so that it has one of each more; the    *)
(* header documents width and height as those of the square.               *)
OutlineDescribed(b) ==
    LET outline == Box(b.x, b.y, b.width + 1, b.height + 1)
                       \ Box(b.x + 1, b.y + 1, b.width - 1, b.height - 1)
    IN  [sure |-> outline,
         maybe |-> outline \cup
                      (IF b.y < 0 THEN Box(b.x, 0, b.width + 1, 1) ELSE {})]

(* What text is to look like. *)
Picture(t) ==
    {q \in Screen : \E n \in DOMAIN t.string :
       LET left == t.x + (n - 1) * (font.width + font.spacing) * t.scale
       IN  /\ t.string[n] \in DOMAIN Glyphs
           /\ <<(q[1] - left) \div t.scale, (q[2] - t.y) \div t.scale>>
                 \in Glyphs[t.string[n]]}

-----------------------------------------------------------------------------
(* The calls of the driver.                                                *)

Init ==
    /\ p = NoDisplay
    /\ buffer = <<>>
    /\ panel = PowerUp
    /\ plane = Blank
    /\ shown = NotShown
    /\ calls = 0

(* Commands, a byte at a time.  The task clears buff, a static array, by   *)
(* leaving it as it is.                                                    *)
ssd1306_init(screen, lost) ==
    /\ p = NoDisplay
    /\ p' = screen
    /\ buffer' = [i \in -1 .. (screen.height \div 8) * screen.width - 1 |-> {}]
    /\ panel' = IF lost > 0 THEN Confused
                ELSE [panel EXCEPT !.on = TRUE, !.inverse = FALSE]
    /\ UNCHANGED <<plane, shown, calls>>

Initialized == p # NoDisplay

(* A call that draws the points; the picture changes by what it describes. *)
Drawn(points, described) ==
    /\ Initialized
    /\ calls < MaxCalls
    /\ calls' = calls + 1
    /\ ssd1306_draw_pixel(points)
    /\ plane' = [sure |-> plane.sure \cup described.sure,
                 maybe |-> plane.maybe \cup described.maybe]
    /\ UNCHANGED <<p, panel, shown>>

Cleared(points) ==
    /\ Initialized
    /\ ssd1306_clear_pixel(points)
    /\ plane' = [sure |-> plane.sure \ points, maybe |-> plane.maybe \ points]
    /\ UNCHANGED <<p, panel, shown, calls>>

ssd1306_draw_line(l) == \E points \in LinePoints(l) : Drawn(points, LineDescribed(l))

ssd1306_draw_square(b) ==
    LET points == Box(b.x, b.y, b.width, b.height) IN Drawn(points, Sharp(points))

ssd1306_draw_empty_square(b) ==
    \E points \in EmptySquare(b) : Drawn(points, OutlineDescribed(b))

ssd1306_draw_string(t) == Drawn(StringPoints(t), Sharp(Picture(t)))

ssd1306_bmp_show_image(i) ==
    Drawn(ImagePoints(i.image, i.x, i.y),
          Sharp({<<i.x + q[1], i.y + q[2]>> : q \in i.picture}))

(* The last column of the loop is x + width. *)
clear_rect(b) == Cleared(Box(b.x, b.y, b.width + 1, b.height))

ssd1306_clear ==
    /\ Initialized
    /\ buffer' = [i \in DOMAIN buffer |-> IF i = -1 THEN buffer[i] ELSE {}]
    /\ plane' = Blank
    /\ UNCHANGED <<p, panel, shown, calls>>

ssd1306_power(on, lost) ==
    /\ Initialized
    /\ panel' = AfterCommands([panel EXCEPT !.on = on], 1, lost)
    /\ UNCHANGED <<p, buffer, plane, shown, calls>>

(* Only the last bit of the argument counts, whatever the header says. *)
ssd1306_invert(inv, lost) ==
    /\ Initialized
    /\ panel' = AfterCommands([panel EXCEPT !.inverse = (inv % 2 = 1)], 1, lost)
    /\ UNCHANGED <<p, buffer, plane, shown, calls>>

(* Mutant of Window: a window that is set already is left alone. *)
WindowOnce(pn) ==
    IF pn.columns = <<FirstColumn, FirstColumn + p.width - 1>> THEN pn
    ELSE Addressed(pn, <<FirstColumn, FirstColumn + p.width - 1>>,
                   <<0, p.height \div 8 - 1>>)

Window(pn) == Addressed(pn, <<FirstColumn, FirstColumn + p.width - 1>>,
                        <<0, p.height \div 8 - 1>>)

(* Six bytes of command, one at a time, of which some may be lost; then    *)
(* the whole buffer as one transfer, of which sent bytes arrive.           *)
ssd1306_show(lost, sent) ==
    LET filled == [buffer EXCEPT ![-1] = CONTROL_DATA]
        addressed == AfterCommands(Window(panel), 6, lost)
    IN  /\ Initialized
        /\ sent <= Cardinality(DOMAIN buffer)
        /\ buffer' = filled
        /\ panel' = IF addressed.confused \/ sent = 0 \/ filled[-1] # CONTROL_DATA
                     THEN addressed
                    ELSE Received(addressed, [i \in 1 .. sent - 1 |-> filled[i - 1]])
        /\ shown' = IF /\ lost = 0 /\ ~addressed.confused
                        /\ sent = Cardinality(DOMAIN buffer)
                     THEN [complete |-> TRUE, picture |-> plane] ELSE NotShown
        /\ UNCHANGED <<p, plane, calls>>

Drawing ==
    \/ \E l \in Lines : ssd1306_draw_line(l)
    \/ \E b \in Boxes : \/ ssd1306_draw_square(b)
                        \/ ssd1306_draw_empty_square(b)
                        \/ clear_rect(b)
    \/ \E t \in Texts : ssd1306_draw_string(t)
    \/ \E i \in Images : ssd1306_bmp_show_image(i)
    \/ ssd1306_clear

(* Commands of 25 bytes, of one, and of six. *)
Next ==
    \/ \E s \in Screens, lost \in Losses \cap 0 .. 25 : ssd1306_init(s, lost)
    \/ Drawing
    \/ \E on \in BOOLEAN, lost \in Losses \cap 0 .. 1 : ssd1306_power(on, lost)
    \/ \E inv \in 0 .. 2, lost \in Losses \cap 0 .. 1 : ssd1306_invert(inv, lost)
    \/ \E lost \in Losses \cap 0 .. 6, sent \in Cuts \cup {Cardinality(DOMAIN buffer)} :
          ssd1306_show(lost, sent)

Spec == Init /\ [][Next]_displayVars

-----------------------------------------------------------------------------
(* Properties.                                                             *)

(* A point of the screen is lit in the buffer. *)
Stored(q) == q[2] % 8 \in buffer[q[1] + p.width * (q[2] \div 8)]

(* The buffer holds the part of the picture that is on the screen: points  *)
(* beyond an edge do not come in again at another place, and the bytes of  *)
(* fonts and images are read as they were written.                         *)
CroppedPlane ==
    \A q \in Screen : /\ q \in plane.sure => Stored(q)
                      /\ Stored(q) => q \in plane.maybe

(* After a complete transfer the panel shows the picture of that moment,   *)
(* whatever transfers of the buffer ended early before it, and whatever    *)
(* commands were lost as a whole, on either width of glass.                *)
PictureShown ==
    (shown.complete /\ panel.on) =>
        \A q \in Screen :
            LET lit == Glows(q) # panel.inverse
            IN  /\ q \in shown.picture.sure => lit
                /\ lit => q \in shown.picture.maybe

(* A line has a point at each of its ends that is on the screen, at most   *)
(* one row above it.                                                       *)
LineReachesBothEnds ==
    [][\A l \in Lines : (calls' # calls /\ ssd1306_draw_line(l)) =>
         \A end \in {<<l.x1, l.y1>>, <<l.x2, l.y2>>} \cap Screen :
            \E y \in {end[2], end[2] - 1} : y >= 0 /\ Stored(<<end[1], y>>)']_displayVars

(* No line goes to the left, or up in one column. *)
LinesForward ==
    \A l \in Lines : l.x1 < l.x2 \/ (l.x1 = l.x2 /\ l.y1 <= l.y2)
=============================================================================
