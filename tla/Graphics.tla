------------------------------ MODULE Graphics ------------------------------
(***************************************************************************)
(* The graphics library (library.c) and the two programs on top of it:     *)
(* driver.c, which draws a line at each of three key strokes, and          *)
(* hilbert.c, which draws a Hilbert curve of growing order.  A buffer is   *)
(* the set of the 16-bit cells in it that are not black; cells from        *)
(* Cells on lie behind the end of the mapping.                             *)
(***************************************************************************)
EXTENDS Integers, Sequences, FiniteSets

CONSTANTS
  WIDTH,       \* bitDepth/2, pixels in a line
  HEIGHT,      \* yLength
  Strokes,     \* Strokes[k]: lines tried at stroke k of the driver, which has literals
  SIDE,        \* 479
  MaxCurve     \* bound on the order of the curve

ASSUME GraphicsAssumption ==
  /\ {WIDTH, HEIGHT, SIDE, MaxCurve} \subseteq Nat \ {0}
  /\ SIDE < WIDTH /\ SIDE < HEIGHT
  /\ \A k \in 1..3 : Strokes[k] \subseteq Int \X Int \X Int \X Int

VARIABLES
  program,     \* "driver" or "hilbert"
  gpc,         \* "start", "key" (waiting in getkey) or "done"
  screen,      \* frameBuffer
  img,         \* the buffer the program draws to
  tty,         \* the mode of the terminal
  old,         \* the copy of it that init_graphics keeps
  strokes,     \* the variable n of both programs
  drawn,       \* history: the line drawn last, with its points
  turtle       \* curr_x, curr_y and direction, and the corners of the curve

gfxVars == <<program, gpc, screen, img, tty, old, strokes, drawn, turtle>>

Cells == WIDTH * HEIGHT
Turtle == [x |-> 0, y |-> 0, direction |-> 0, corners |-> << <<0, 0>> >>]
NoLine == [from |-> <<0, 0>>, to |-> <<0, 0>>, points |-> << <<0, 0>> >>]

\* Something is on the screen, and the terminal is as the shell left it.
GfxInit ==
  /\ program \in {"driver", "hilbert"}
  /\ gpc = "start"
  /\ screen = {0, Cells - 1}
  /\ img = {}
  /\ tty = "cooked" /\ old = "none"
  /\ strokes = 0
  /\ drawn = NoLine
  /\ turtle = Turtle

-----------------------------------------------------------------------------
clear_screen(buffer) == {i \in buffer : i >= Cells}

\* Mutant: a negative x is not sorted out.
draw_pixel_NoLeftEdge(x, y) == IF y < 0 \/ x > WIDTH \/ y > HEIGHT THEN {} ELSE {y * WIDTH + x}

\* The cell that is written, if any: x = WIDTH and y = HEIGHT get through.
draw_pixel(x, y) == IF x < 0 \/ y < 0 \/ x > WIDTH \/ y > HEIGHT THEN {} ELSE {y * WIDTH + x}

Plot(points) == UNION {draw_pixel(points[k][1], points[k][2]) : k \in DOMAIN points}

absoluteVal(number) == IF number >= 0 THEN number ELSE -1 * number

\* Mutant: the second test sees the error after the first.
Advance_LateError(s, dx, dy, sx, sy) ==
  LET right == 2 * s.err >= dy
      err == IF right THEN s.err + dy ELSE s.err
      down == 2 * err <= dx
  IN [x |-> IF right THEN s.x + sx ELSE s.x, y |-> IF down THEN s.y + sy ELSE s.y,
      err |-> IF down THEN err + dx ELSE err]

\* One round of the loop of draw_line.
Advance(s, dx, dy, sx, sy) ==
  LET right == 2 * s.err >= dy
      down == 2 * s.err <= dx
  IN [x |-> IF right THEN s.x + sx ELSE s.x, y |-> IF down THEN s.y + sy ELSE s.y,
      err |-> s.err + (IF right THEN dy ELSE 0) + (IF down THEN dx ELSE 0)]

\* The points that draw_line visits; a loop that misses its end is cut off.
draw_line(x1, y1, x2, y2) ==
  LET dx == absoluteVal(x2 - x1)
      dy == -absoluteVal(y2 - y1)
      sx == IF x1 < x2 THEN 1 ELSE -1
      sy == IF y1 < y2 THEN 1 ELSE -1
      round[k \in 0..dx - dy] ==
        IF k = 0 THEN [x |-> x1, y |-> y1, err |-> dx + dy] ELSE Advance(round[k - 1], dx, dy, sx, sy)
      ends == {k \in 0..dx - dy : round[k].x = x2 /\ round[k].y = y2}
      last == IF ends = {} THEN dx - dy ELSE CHOOSE k \in ends : \A j \in ends : k <= j
  IN [k \in 1..last + 1 |-> <<round[k - 1].x, round[k - 1].y>>]

\* Anonymous memory is zero: black.
create_buffer == {}

\* blit copies the cells of the mapping.
blit(buffer) == {i \in screen : i >= Cells} \cup {i \in buffer : i < Cells}

-----------------------------------------------------------------------------
\* Mutant: a turn to the right is not brought back into 0..359.
turn_left_Negative(t, degrees) == [t EXCEPT !.direction = @ + degrees]

turn_left(t, degrees) == [t EXCEPT !.direction = (@ + degrees + 360) % 360]

go_forward(t, distance) ==
  LET x == t.x + (CASE t.direction = 0 -> distance [] t.direction = 180 -> -distance [] OTHER -> 0)
      y == t.y + (CASE t.direction = 90 -> distance [] t.direction = 270 -> -distance [] OTHER -> 0)
  IN [t EXCEPT !.x = x, !.y = y, !.corners = Append(@, <<x, y>>)]

Distance(n) == SIDE \div 2^n

Turtles == [x : Int, y : Int, direction : Int, corners : Seq(Int \X Int)]

Calls == [t : Turtles, n : 0..MaxCurve, parity : {1, -1}, dist : Nat]

\* The turtle after each of the four calls of hilbert_recurse in itself.
hilbert_recurse[c \in Calls] ==
  LET again(t, parity) == hilbert_recurse[[t |-> t, n |-> c.n - 1, parity |-> parity, dist |-> c.dist]]
      first == again(turn_left(c.t, c.parity * 90), -c.parity)
      second == again(turn_left(go_forward(first, c.dist), -c.parity * 90), c.parity)
      third == again(go_forward(second, c.dist), c.parity)
      fourth == again(go_forward(turn_left(third, -c.parity * 90), c.dist), -c.parity)
  IN IF c.n = 0 THEN c.t ELSE turn_left(fourth, c.parity * 90)

\* The turtle after hilbert(img, n, 1), from where it stands.
hilbert(t, n) == hilbert_recurse[[t |-> t, n |-> n, parity |-> 1, dist |-> Distance(n)]]

CurveCells(t) ==
  UNION {Plot(draw_line(t.corners[k][1], t.corners[k][2], t.corners[k + 1][1], t.corners[k + 1][2])) :
           k \in 1..Len(t.corners) - 1}

-----------------------------------------------------------------------------
\* The mode of the terminal is kept in old before it is changed.
init_graphics == tty' = "raw" /\ old' = tty

\* The program waits for one key.
getkey == gpc = "key"

\* Both programs: init_graphics, create_buffer, the first picture and blit.
Start ==
  /\ gpc = "start"
  /\ gpc' = "key"
  /\ init_graphics
  /\ strokes' = IF program = "hilbert" THEN 1 ELSE 0
  /\ turtle' = IF program = "hilbert" THEN hilbert(Turtle, 1) ELSE turtle
  /\ img' = IF program = "hilbert" THEN create_buffer \cup CurveCells(turtle') ELSE create_buffer
  /\ screen' = blit(img')
  /\ UNCHANGED <<program, drawn>>

\* The key n in driver.c.
DriverStroke ==
  /\ program = "driver" /\ getkey /\ strokes < 3
  /\ strokes' = strokes + 1
  /\ \E line \in Strokes[strokes + 1] :
       /\ drawn' = [from |-> <<line[1], line[2]>>, to |-> <<line[3], line[4]>>,
                    points |-> draw_line(line[1], line[2], line[3], line[4])]
       /\ img' = clear_screen(img) \cup Plot(drawn'.points)
  /\ screen' = blit(img')
  /\ UNCHANGED <<program, gpc, tty, old, turtle>>

\* The key n in hilbert.c: position and picture start again, the direction
\* is where the last curve left it.
HilbertStroke ==
  /\ program = "hilbert" /\ getkey /\ strokes < MaxCurve
  /\ strokes' = strokes + 1
  /\ turtle' = hilbert([Turtle EXCEPT !.direction = turtle.direction], strokes + 1)
  /\ img' = clear_screen(img) \cup CurveCells(turtle')
  /\ screen' = blit(img')
  /\ UNCHANGED <<program, gpc, tty, old, drawn>>

\* The key q, or the end of the driver: exit_graphics.  Any other key
\* changes nothing.
exit_graphics ==
  /\ getkey
  /\ gpc' = "done"
  /\ screen' = clear_screen(screen)
  /\ tty' = old
  /\ UNCHANGED <<program, img, old, strokes, drawn, turtle>>

GfxNext == Start \/ DriverStroke \/ HilbertStroke \/ exit_graphics

GfxSpec == GfxInit /\ [][GfxNext]_gfxVars

-----------------------------------------------------------------------------
\* A line drawn with whole numbers is a line: it runs from end to end, one
\* point for each step along its longer side, neighbours touch, and no point
\* is off the true line by more than half a pixel.
LineIsStraight ==
  LET p == drawn.points
      dx == drawn.to[1] - drawn.from[1]
      dy == drawn.to[2] - drawn.from[2]
      longer == IF absoluteVal(dx) > absoluteVal(dy) THEN absoluteVal(dx) ELSE absoluteVal(dy)
  IN /\ p[1] = drawn.from /\ p[Len(p)] = drawn.to
     /\ Len(p) = longer + 1
     /\ \A k \in 1..Len(p) - 1, c \in 1..2 : absoluteVal(p[k + 1][c] - p[k][c]) <= 1
     /\ \A k \in DOMAIN p :
          2 * absoluteVal(dx * (p[k][2] - p[1][2]) - dy * (p[k][1] - p[1][1])) <= longer

\* "the whole 256x256 region will appear to be solid red": the curve of
\* order n turns at every point of a grid of 2^n by 2^n and at none twice,
\* and comes out in the direction it began with, so that the next order
\* starts right; the grid is one point when the distance has become 0.
CurveFillsGrid ==
  program = "hilbert" /\ gpc = "key" =>
    LET d == Distance(strokes)
    IN /\ turtle.direction = 0
       /\ Len(turtle.corners) = 2^strokes * 2^strokes
       /\ {turtle.corners[k] : k \in DOMAIN turtle.corners}
            = {<<d * i, d * j>> : i, j \in 0..2^strokes - 1}

\* A line that stays left of and above the far edges changes exactly the
\* pixels it passes and none behind the buffer; parts beyond the near edges
\* are cut off.
PixelsInPlace ==
  program = "driver" /\ drawn.from[1] < WIDTH /\ drawn.to[1] < WIDTH
      /\ drawn.from[2] < HEIGHT /\ drawn.to[2] < HEIGHT =>
    Plot(drawn.points) = {drawn.points[k][2] * WIDTH + drawn.points[k][1] :
                            k \in {j \in DOMAIN drawn.points : drawn.points[j][1] >= 0 /\ drawn.points[j][2] >= 0}}

\* While the program waits for a key the screen shows the last picture and
\* nothing of the ones before; afterwards the screen is black and the
\* terminal as it was.
ScreenIsClean ==
  /\ gpc = "key" /\ program = "driver" /\ strokes > 0 =>
       screen \cap (0..Cells - 1) = Plot(drawn.points) \cap (0..Cells - 1)
  /\ gpc = "key" /\ program = "hilbert" => screen \cap (0..Cells - 1) = CurveCells(turtle)
  /\ gpc = "done" => screen \cap (0..Cells - 1) = {} /\ tty = "cooked"

\* What the user sees is what the program drew, and nothing else.
PictureIsRight == PixelsInPlace /\ ScreenIsClean
=============================================================================
