----------------------------- MODULE MCDisplay -----------------------------
(* A controller of 12 columns and two pages behind a wide glass and a      *)
(* narrow one.  The font has two characters of 2 by 9 points, so that a    *)
(* column takes two bytes.                                                 *)
EXTENDS Display

Glasses == {[width |-> 12, height |-> 16], [width |-> 8, height |-> 16]}

Letters == [c \in 5 .. 6 |->
    IF c = 5 THEN {<<0, 0>>, <<1, 4>>, <<0, 8>>} ELSE {<<1, 0>>, <<1, 8>>}]

SmallFont ==
    [height |-> 9, width |-> 2, spacing |-> 1, first |-> 5, last |-> 6,
     bytes |-> [i \in 5 .. 12 |->
        LET k == i - 5
        IN  {j \in 0 .. 7 : <<(k \div 2) % 2, 8 * (k % 2) + j>>
                                \in Letters[5 + k \div 4]}]]

(* How a file holds a picture. *)
Bmp(width, height, picture, black) ==
    [width |-> width, height |-> height,
     table |-> [i \in 0 .. 1 |-> IF i = black THEN 0 ELSE 16777215],
     data |-> LET stride == 4 * ((width + 31) \div 32)
              IN  [i \in 0 .. (stride * height - 1) |->
                     {bit \in 0 .. 7 :
                        LET q == <<8 * (i % stride) + 7 - bit,
                                   height - 1 - i \div stride>>
                        IN  q[1] < width /\ (q \in picture <=> black = 1)}]]

Drop == {<<0, 0>>, <<2, 1>>, <<8, 1>>, <<1, 2>>}
Pictures == {[image |-> Bmp(9, 3, Drop, black), picture |-> Drop, x |-> 3, y |-> 6] :
                black \in {0, 1}}

(* Two of the lines cross the top edge, with an exact slope and without.   *)
Strokes == {[x1 |-> 0, y1 |-> 12, x2 |-> 12, y2 |-> 12],
            [x1 |-> 1, y1 |-> 0, x2 |-> 4, y2 |-> 14],
            [x1 |-> 2, y1 |-> 9, x2 |-> 9, y2 |-> 2],
            [x1 |-> 7, y1 |-> 3, x2 |-> 7, y2 |-> 17],
            [x1 |-> -2, y1 |-> -2, x2 |-> 6, y2 |-> 2],
            [x1 |-> 1, y1 |-> 1, x2 |-> 4, y2 |-> -1]}
Leftward == {[x1 |-> 9, y1 |-> 9, x2 |-> 3, y2 |-> 3]}
Corners == {[x |-> 5, y |-> 6, width |-> 3, height |-> 4],
            [x |-> 10, y |-> 13, width |-> 4, height |-> 2],
            [x |-> 2, y |-> -2, width |-> 1, height |-> 5]}

Words == {[x |-> 1, y |-> 2, scale |-> 1, string |-> <<5, 6>>],
          [x |-> 2, y |-> 3, scale |-> 2, string |-> <<6, 7, 5>>]}
=============================================================================
