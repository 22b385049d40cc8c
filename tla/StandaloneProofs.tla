-------------------------- MODULE StandaloneProofs --------------------------
(***************************************************************************)
(* The modules that share no state with the kernel: the display, for any   *)
(* glass, font and image and for lines and squares within 1000 points of   *)
(* the corner; the memory, for any number of tasks and any end of the      *)
(* program's variables; the clock, for any number of ticks.                *)
(***************************************************************************)
EXTENDS Display, Memory, Clock, QueueLemmas, FiniteSetTheorems

-----------------------------------------------------------------------------
(* Arithmetic. *)

(* Quotient and remainder. *)
LEMMA DivMod ==
    ASSUME NEW a \in Int, NEW b \in Nat \ {0}
    PROVE  /\ a \div b \in Int
           /\ a % b \in 0 .. b - 1
           /\ a = b * (a \div b) + (a % b)
OBVIOUS

(* The quotient is the one number whose multiple is near enough. *)
LEMMA DivIs ==
    ASSUME NEW a \in Int, NEW b \in Nat \ {0}, NEW q \in Int
    PROVE  a \div b = q <=> a \in b * q .. b * q + b - 1
<1> DEFINE d == a \div b
           r == a % b
<1>1. d \in Int /\ r \in 0 .. b - 1 /\ a = b * d + r
  BY DivMod
<1> HIDE DEF d, r
<1>2. b * d \in Int /\ b * q \in Int
  BY <1>1
<1>3. CASE d = q
  BY <1>1, <1>2, <1>3 DEF d
<1>4. CASE d < q
  <2>1. q - d - 1 \in Nat
    BY <1>1, <1>4
  <2>2. b * q = b * d + b + b * (q - d - 1)
    BY <1>1
  <2>3. b * (q - d - 1) \in Nat
    BY <2>1
  <2> QED BY <1>1, <1>2, <1>4, <2>2, <2>3 DEF d
<1>5. CASE d > q
  <2>1. d - q - 1 \in Nat
    BY <1>1, <1>5
  <2>2. b * d = b * q + b + b * (d - q - 1)
    BY <1>1
  <2>3. b * (d - q - 1) \in Nat
    BY <2>1
  <2> QED BY <1>1, <1>2, <1>5, <2>2, <2>3 DEF d
<1> QED BY <1>1, <1>3, <1>4, <1>5

-----------------------------------------------------------------------------
(* The buffer. *)

Points == Int \X Int

(* Where the bit of a point is: no other point on the screen has it. *)
Byte(q) == q[1] + p.width * (q[2] \div 8)

Glass == [width : Nat \ {0}, height : Nat \ {0}]
Bytes == p.width * (p.height \div 8)

LEMMA PlaceOn ==
    ASSUME NEW glass \in Glass, glass.height % 8 = 0,
           NEW q \in Box(0, 0, glass.width, glass.height)
    PROVE  /\ q \in Points /\ q[2] \div 8 \in 0 .. glass.height \div 8 - 1
           /\ q[2] % 8 \in 0 .. 7
           /\ q[1] + glass.width * (q[2] \div 8)
                 \in 0 .. glass.width * (glass.height \div 8) - 1
<1> DEFINE w == glass.width
           h == glass.height
           k == q[2] \div 8
           P == h \div 8
<1>1. w \in Nat \ {0} /\ h \in Nat \ {0} /\ h % 8 = 0
  BY DEF Glass
<1>2. q \in Points /\ q[1] \in 0 .. w - 1 /\ q[2] \in 0 .. h - 1
  BY <1>1 DEF Box, Points
<1>3. P \in Nat /\ h = 8 * P
  BY <1>1
<1>4. k \in Nat /\ k <= P - 1 /\ q[2] % 8 \in 0 .. 7
  BY <1>2, <1>3
<1>5. w * k \in Nat /\ w * P = w * k + w + w * (P - 1 - k) /\ w * (P - 1 - k) \in Nat
  <2>1. P - 1 - k \in Nat
    BY <1>3, <1>4
  <2> HIDE DEF w, k, P
  <2> QED BY <1>1, <1>3, <1>4, <2>1
<1> HIDE DEF w, h, k, P
<1>6. q[1] + w * k \in 0 .. w * P - 1
  BY <1>1, <1>2, <1>5
<1> QED BY <1>2, <1>3, <1>4, <1>6 DEF w, h, k, P

LEMMA PlaceOfPoint ==
    ASSUME p \in Glass, p.height % 8 = 0, NEW q \in Screen
    PROVE  /\ q \in Points /\ q[2] \div 8 \in 0 .. p.height \div 8 - 1
           /\ q[2] % 8 \in 0 .. 7 /\ Byte(q) \in 0 .. Bytes - 1
BY PlaceOn DEF Screen, Byte, Bytes

LEMMA PlaceIsOne ==
    ASSUME p \in Glass, NEW q \in Screen, NEW r \in Screen,
           Byte(q) = Byte(r), q[2] % 8 = r[2] % 8
    PROVE  q = r
<1> DEFINE w == p.width
           k == q[2] \div 8
           l == r[2] \div 8
<1>1. w \in Nat \ {0} /\ p.height \in Nat
  BY DEF Glass
<1>2. /\ q = <<q[1], q[2]>> /\ q[1] \in 0 .. w - 1 /\ q[2] \in Int
      /\ r = <<r[1], r[2]>> /\ r[1] \in 0 .. w - 1 /\ r[2] \in Int
  BY <1>1 DEF Screen, Box
<1>3. k \in Int /\ l \in Int /\ q[1] + w * k = r[1] + w * l
  BY <1>2 DEF Byte
<1>4. w * k \in Int /\ w * l \in Int
  BY <1>1, <1>3
<1> HIDE DEF w, k, l
<1>5. (q[1] + w * k) \div w = k /\ (q[1] + w * k) \div w = l
  <2>1. q[1] + w * k \in w * k .. w * k + w - 1 /\ q[1] + w * k \in Int
    BY <1>1, <1>2, <1>3, <1>4
  <2>2. q[1] + w * k \in w * l .. w * l + w - 1
    BY <1>1, <1>2, <1>3, <1>4
  <2> QED BY <1>1, <1>3, <2>1, <2>2, DivIs
<1>6. k = l
  BY <1>5
<1>7. q[1] = r[1]
  BY <1>2, <1>3, <1>4, <1>6
<1>8. q[2] = 8 * k + (q[2] % 8) /\ r[2] = 8 * l + (r[2] % 8)
  BY <1>2 DEF k, l
<1> QED BY <1>2, <1>6, <1>7, <1>8

(* The bit of a point is among those of a set of points if the point is. *)
LEMMA BitIs ==
    ASSUME p \in Glass, NEW points, points \subseteq Points, NEW q \in Screen
    PROVE  q[2] % 8 \in BitsOf(points, Byte(q)) <=> q \in points
<1>1. OnScreen(points) = points \cap Screen
  BY DEF OnScreen, Screen, Box, Points, Glass
<1>2. ASSUME q \in points PROVE q[2] % 8 \in BitsOf(points, Byte(q))
  BY <1>1, <1>2 DEF BitsOf, Byte
<1>3. ASSUME q[2] % 8 \in BitsOf(points, Byte(q)) PROVE q \in points
  <2>1. PICK r \in points \cap Screen : Byte(r) = Byte(q) /\ r[2] % 8 = q[2] % 8
    BY <1>1, <1>3 DEF BitsOf, Byte
  <2> QED BY <2>1, PlaceIsOne
<1> QED BY <1>2, <1>3

-----------------------------------------------------------------------------
(* What is drawn. *)

(* What a call sets is between what it describes for sure and maybe. *)
Agrees(points, described) ==
    \A q \in Screen : /\ q \in described.sure => q \in points
                      /\ q \in points => q \in described.maybe

Ends == [x1 : Int, y1 : Int, x2 : Int, y2 : Int]

LEMMA EndsTyped ==
    ASSUME NEW l \in Ends
    PROVE  l.x1 \in Int /\ l.y1 \in Int /\ l.x2 \in Int /\ l.y2 \in Int
BY DEF Ends

LEMMA LinesTyped ==
    ASSUME NEW l \in Lines
    PROVE  l \in Ends
<1>1. l \in [x1 : Coordinate, y1 : Coordinate, x2 : Coordinate, y2 : Coordinate]
  BY DisplayAssumption
<1>2. Coordinate \subseteq Int
  BY DEF Coordinate
<1> QED BY <1>1, <1>2 DEF Ends

(* The row in a column. *)
LEMMA RowIs ==
    ASSUME NEW l \in Ends, l.x1 < l.x2, NEW x \in Int
    PROVE  /\ Across(l) \in Nat \ {0} /\ Rise(l, x) \in Int
           /\ Row(l, x) \in Nat
           /\ Rise(l, x) < 0 => Row(l, x) = 0
           /\ Rise(l, x) >= 0 => Row(l, x) = Rise(l, x) \div Across(l)
<1>1. l.x1 \in Int /\ l.y1 \in Int /\ l.x2 \in Int /\ l.y2 \in Int
  BY EndsTyped
<1>2. Across(l) \in Nat \ {0}
  BY <1>1 DEF Across
<1>3. Rise(l, x) \in Int
  <2>1. l.y1 * Across(l) \in Int /\ (l.y2 - l.y1) * (x - l.x1) \in Int
    BY <1>1, <1>2
  <2> QED BY <2>1 DEF Rise
<1> DEFINE a == Rise(l, x)
           d == Across(l)
<1>4. Row(l, x) = IF a < 0 THEN 0 ELSE a \div d
  BY DEF Row
<1> HIDE DEF a, d
<1>5. a >= 0 => a \div d \in Nat
  BY <1>2, <1>3 DEF a, d
<1>6. a \in Int
  BY <1>3 DEF a
<1>7. /\ Row(l, x) \in Nat
      /\ a < 0 => Row(l, x) = 0
      /\ a >= 0 => Row(l, x) = a \div d
  BY <1>4, <1>5, <1>6
<1> QED BY <1>2, <1>3, <1>7 DEF a, d

(* How far a point is above the line, in parts of a row. *)
Above(l, q) == (l.y2 - l.y1) * (q[1] - l.x1) - (q[2] - l.y1) * Across(l)

LEMMA AboveIs ==
    ASSUME NEW l \in Ends, NEW q \in Points
    PROVE  Above(l, q) = Rise(l, q[1]) - q[2] * Across(l)
<1>1. l.y1 \in Int /\ Across(l) \in Int /\ q[2] \in Int
      /\ (l.y2 - l.y1) * (q[1] - l.x1) \in Int
  BY EndsTyped DEF Across, Points
<1>2. (q[2] - l.y1) * Across(l) = q[2] * Across(l) - l.y1 * Across(l)
      /\ q[2] * Across(l) \in Int /\ l.y1 * Across(l) \in Int
  BY <1>1
<1> QED BY <1>1, <1>2 DEF Above, Rise

PointsOf(l, low, far) ==
    {<<x, Row(l, x) - (IF x \in low THEN 1 ELSE 0)>> : x \in Columns(l) \ far}

LEMMA LinePointsAre ==
    ASSUME NEW l \in Ends, l.x1 < l.x2, NEW points \in LinePoints(l)
    PROVE  \E low \in SUBSET Low(l), far \in SUBSET Undefined(l) :
              points = PointsOf(l, low, far)
<1>1. l.x1 \in Int /\ l.x2 \in Int
  BY EndsTyped
<1>2. Ordered(l) = l /\ l.x1 # l.x2
  BY <1>1 DEF Ordered
<1> QED BY <1>2 DEF LinePoints, PointsOf

LEMMA UprightPointsAre ==
    ASSUME NEW l \in Ends, l.x1 = l.x2, l.y1 <= l.y2, NEW points \in LinePoints(l)
    PROVE  points = {l.x1} \X (l.y1 .. l.y2)
<1>1. l.x1 \in Int /\ l.y1 \in Int /\ l.y2 \in Int
  BY EndsTyped
<1>2. Ordered(l) = l
  BY <1>1 DEF Ordered
<1> QED BY <1>2 DEF LinePoints

(* The points of a line are points. *)
LEMMA LineTyped ==
    ASSUME NEW line \in Ends, NEW points \in LinePoints(line)
    PROVE  points \subseteq Points
<1> DEFINE l == Ordered(line)
<1>1. l \in Ends /\ (l.x1 # l.x2 => l.x1 < l.x2)
  <2>1. line.x1 \in Int /\ line.x2 \in Int /\ line.y2 \in Int
    BY EndsTyped
  <2>2. CASE l = line /\ line.x1 <= line.x2
    BY <2>1, <2>2
  <2>3. CASE l = [line EXCEPT !.x1 = line.x2, !.y1 = line.y2]
    <3>1. l.x1 = line.x2 /\ l.x2 = line.x2 /\ l \in Ends
      BY <2>1, <2>3 DEF Ends
    <3> QED BY <2>1, <3>1
  <2> QED BY <2>1, <2>2, <2>3 DEF Ordered
<1>2. CASE l.x1 = l.x2
  <2>1. l.x1 \in Int /\ l.y1 \in Int /\ l.y2 \in Int
    BY <1>1, EndsTyped
  <2> QED BY <1>2, <2>1 DEF LinePoints, Points
<1>3. CASE l.x1 # l.x2
  <2>1. ASSUME NEW x \in Columns(l) PROVE x \in Int /\ Row(l, x) \in Int
    <3>1. x \in Int
      BY <1>1, EndsTyped DEF Columns
    <3> QED BY <1>1, <1>3, <3>1, RowIs
  <2>2. PICK low \in SUBSET Low(l), far \in SUBSET Undefined(l) :
           points = {<<x, Row(l, x) - (IF x \in low THEN 1 ELSE 0)>> :
                        x \in Columns(l) \ far}
    BY <1>3 DEF LinePoints
  <2> QED BY <2>1, <2>2 DEF Points
<1> QED BY <1>2, <1>3

(* A line that goes right or down is drawn as it is described. *)
Forward(l) == l.x1 < l.x2 \/ (l.x1 = l.x2 /\ l.y1 <= l.y2)

LEMMA DescribedIs ==
    ASSUME NEW l \in Ends, l.x1 < l.x2, NEW q \in Screen
    PROVE  /\ q \in LineDescribed(l).sure <=>
                 /\ q[1] \in l.x1 .. l.x2 /\ Above(l, q) \in 0 .. Across(l) - 1
                 /\ (~Exact(l) /\ q[1] # l.x1) => Above(l, q) # 0
           /\ q \in LineDescribed(l).maybe <=>
                 /\ q[1] \in l.x1 .. l.x2
                 /\ \/ Above(l, q) \in 0 .. Across(l) - 1
                    \/ ~Exact(l) /\ q[1] # l.x1 /\ Above(l, q) = Across(l)
                    \/ q[2] = 0 /\ Above(l, q) < 0
<1>1. l.x1 # l.x2
  BY EndsTyped
<1> QED BY <1>1 DEF LineDescribed, Above

LEMMA LineAgrees ==
    ASSUME p \in Glass, NEW l \in Ends, Forward(l), NEW points \in LinePoints(l)
    PROVE  Agrees(points, LineDescribed(l))
<1>1. l.x1 \in Int /\ l.y1 \in Int /\ l.x2 \in Int /\ l.y2 \in Int
  BY EndsTyped
<1>2. CASE l.x1 = l.x2
  <2>1. points = {l.x1} \X (l.y1 .. l.y2)
    BY <1>1, <1>2, UprightPointsAre DEF Forward
  <2>2. LineDescribed(l) = Sharp({q \in Screen : q[1] \in l.x1 .. l.x2
                                                 /\ q[2] \in l.y1 .. l.y2})
    BY <1>2 DEF LineDescribed
  <2>3. ASSUME NEW q \in Screen
        PROVE  q \in points <=> q[1] \in l.x1 .. l.x2 /\ q[2] \in l.y1 .. l.y2
    <3>1. q = <<q[1], q[2]>> /\ q[1] \in Int /\ q[2] \in Int
      BY DEF Screen, Box, Glass
    <3> QED BY <1>1, <1>2, <2>1, <3>1
  <2> QED BY <2>2, <2>3 DEF Agrees, Sharp
<1>3. CASE l.x1 < l.x2
  <2>1. PICK low \in SUBSET Low(l), far \in SUBSET Undefined(l) :
           points = PointsOf(l, low, far)
    BY <1>3, LinePointsAre
  <2> SUFFICES ASSUME NEW q \in Screen
               PROVE  /\ q \in LineDescribed(l).sure => q \in points
                      /\ q \in points => q \in LineDescribed(l).maybe
    BY DEF Agrees
  <2> DEFINE x == q[1]
             d == Across(l)
             a == Rise(l, x)
             row == Row(l, x)
             e == IF x \in low THEN 1 ELSE 0
  <2>2. q = <<x, q[2]>> /\ x \in Int /\ q[2] \in Nat /\ q \in Points
    BY DEF Screen, Box, Glass, Points
  <2>3. q \in points <=> x \in Columns(l) \ far /\ q[2] = row - e
    <3> HIDE DEF x
    <3> QED BY <2>1, <2>2 DEF PointsOf
  <2>4. Above(l, q) = a - q[2] * d
    BY <2>2, AboveIs
  <2>5. /\ d \in Nat \ {0} /\ a \in Int /\ row \in Nat
        /\ a < 0 => row = 0
        /\ a >= 0 => row = a \div d
    BY <1>3, <2>2, RowIs
  <2>6. x \in low => ~Exact(l) /\ x # l.x1 /\ row > 0 /\ a % d = 0
    BY <1>1, <2>2 DEF Low, Divides
  <2>7. x \in Columns(l) <=> x \in l.x1 .. l.x2
    BY DEF Columns
  <2>8. x \in far => a <= -d
    BY DEF Undefined
  <2>9. /\ q \in LineDescribed(l).sure <=>
              /\ x \in l.x1 .. l.x2 /\ Above(l, q) \in 0 .. d - 1
              /\ (~Exact(l) /\ x # l.x1) => Above(l, q) # 0
        /\ q \in LineDescribed(l).maybe <=>
              /\ x \in l.x1 .. l.x2
              /\ \/ Above(l, q) \in 0 .. d - 1
                 \/ ~Exact(l) /\ x # l.x1 /\ Above(l, q) = d
                 \/ q[2] = 0 /\ Above(l, q) < 0
    BY <1>3, DescribedIs
  <2> HIDE DEF x, d, a, row
  <2>10. q[2] * d \in Nat
    BY <2>2, <2>5
  <2>11. ASSUME q \in LineDescribed(l).sure PROVE q \in points
    <3>1. a - q[2] * d \in 0 .. d - 1
      BY <2>4, <2>9, <2>11
    <3>2. a >= 0
      BY <2>5, <2>10, <3>1
    <3>3. row = q[2]
      <4>1. a \in d * q[2] .. d * q[2] + d - 1
        <5>1. d * q[2] = q[2] * d
          BY <2>2, <2>5
        <5> QED BY <2>5, <2>10, <3>1, <5>1
      <4>2. a \div d = q[2]
        <5> DEFINE y == q[2]
        <5>1. y \in Int /\ a \in d * y .. d * y + d - 1
          BY <2>2, <4>1
        <5> HIDE DEF y
        <5>2. a \div d = y
          BY <2>5, <5>1, DivIs
        <5> QED BY <5>2 DEF y
      <4> QED BY <2>5, <3>2, <4>2
    <3>4. x \notin far
      BY <2>5, <2>8, <3>2
    <3>5. x \notin low
      <4> SUFFICES ASSUME x \in low PROVE FALSE
        OBVIOUS
      <4>1. a = d * (a \div d) + (a % d)
        BY <2>5, DivMod
      <4>2. a = d * q[2]
        <5>1. a \div d = q[2] /\ a % d = 0 /\ d * q[2] \in Int
          BY <2>2, <2>5, <2>6, <3>2, <3>3
        <5> QED BY <4>1, <5>1
      <4>3. Above(l, q) = 0
        <5>1. d * q[2] = q[2] * d
          BY <2>2, <2>5
        <5> QED BY <2>4, <2>10, <4>2, <5>1
      <4> QED BY <2>6, <2>9, <2>11, <4>3
    <3> QED BY <2>2, <2>3, <2>7, <2>9, <2>11, <3>3, <3>4, <3>5
  <2>12. ASSUME q \in points PROVE q \in LineDescribed(l).maybe
    <3>1. x \in l.x1 .. l.x2 /\ q[2] = row - e
      BY <2>3, <2>7, <2>12
    <3>2. CASE a < 0
      <4>1. q[2] = 0
        BY <2>5, <2>6, <3>1, <3>2
      <4>2. Above(l, q) = a
        BY <2>4, <2>5, <4>1
      <4> QED BY <2>9, <3>1, <3>2, <4>1, <4>2
    <3>3. CASE a >= 0
      <4>1. row = a \div d /\ a % d \in 0 .. d - 1 /\ a = d * row + (a % d)
        BY <2>5, <3>3, DivMod
      <4> DEFINE r == a % d
      <4> HIDE DEF r
      <4>2. r \in 0 .. d - 1 /\ a = d * row + r /\ d * row \in Int
        BY <2>5, <4>1 DEF r
      <4>3. CASE x \notin low
        <5>1. q[2] = row
          BY <2>5, <3>1, <4>3
        <5>2. q[2] * d = d * row
          BY <2>5, <5>1
        <5>3. Above(l, q) \in 0 .. d - 1
          BY <2>4, <2>5, <4>2, <5>2
        <5> QED BY <2>9, <3>1, <5>3
      <4>4. CASE x \in low
        <5>1. q[2] = row - 1 /\ r = 0
          BY <2>6, <3>1, <4>4 DEF r
        <5>2. q[2] * d = d * row - d
          BY <2>5, <5>1
        <5>3. Above(l, q) = d
          BY <2>4, <2>5, <4>2, <5>1, <5>2
        <5> QED BY <2>6, <2>9, <3>1, <4>4, <5>3
      <4> QED BY <4>3, <4>4
    <3> QED BY <2>5, <3>2, <3>3
  <2> QED BY <2>11, <2>12
<1> QED BY <1>1, <1>2, <1>3 DEF Forward

(* A level line above the screen may come in at the top. *)
LEMMA LevelSide ==
    ASSUME p \in Glass, NEW x1 \in Int, NEW x2 \in Int, NEW y \in Int, x1 <= x2,
           NEW t \in Side(x1, y, x2, y)
    PROVE  /\ t \subseteq Points
           /\ \A q \in Screen :
                /\ q \in (x1 .. x2) \X {y} => q \in t
                /\ q \in t => \/ q \in (x1 .. x2) \X {y}
                              \/ y < 0 /\ q[1] \in x1 .. x2 /\ q[2] = 0
<1> DEFINE l == [x1 |-> x1, y1 |-> y, x2 |-> x2, y2 |-> y]
<1>1. /\ l \in Ends /\ Forward(l) /\ t \in LinePoints(l)
      /\ l.x1 = x1 /\ l.x2 = x2 /\ l.y1 = y /\ l.y2 = y
  BY DEF Ends, Forward, Side
<1> HIDE DEF l
<1>2. t \subseteq Points
  BY <1>1, LineTyped
<1>3. ASSUME NEW q \in Screen
      PROVE  /\ q \in (x1 .. x2) \X {y} => q \in t
             /\ q \in t => \/ q \in (x1 .. x2) \X {y}
                           \/ y < 0 /\ q[1] \in x1 .. x2 /\ q[2] = 0
  <2>1. q = <<q[1], q[2]>> /\ q[1] \in Int /\ q[2] \in Nat
    BY DEF Screen, Box, Glass
  <2>2. q \in (x1 .. x2) \X {y} <=> q[1] \in x1 .. x2 /\ q[2] = y
    BY <2>1
  <2>3. CASE x1 = x2
    <3>1. t = {x1} \X (y .. y)
      BY <1>1, <2>3, UprightPointsAre
    <3> QED BY <2>1, <2>2, <2>3, <3>1
  <2>4. CASE x1 < x2
    <3>1. Agrees(t, LineDescribed(l))
      BY <1>1, LineAgrees
    <3>2. Across(l) = x2 - x1 /\ Across(l) \in Nat \ {0}
      BY <1>1, <2>4 DEF Across
    <3>3. Exact(l)
      <4>1. 1 * (l.y2 - l.y1) = 0
        BY <1>1
      <4>2. 0 % Across(l) = 0
        BY <3>2
      <4> QED BY <4>1, <4>2 DEF Exact, Divides
    <3>4. Above(l, q) = (y - q[2]) * Across(l)
      <4>1. (l.y2 - l.y1) * (q[1] - l.x1) = 0
        BY <1>1, <2>1
      <4>2. (q[2] - y) * Across(l) \in Int
            /\ (y - q[2]) * Across(l) = 0 - (q[2] - y) * Across(l)
        BY <2>1, <3>2
      <4> QED BY <1>1, <4>1, <4>2 DEF Above
    <3> DEFINE d == Across(l)
               n == y - q[2]
    <3> HIDE DEF d, n
    <3>5. d \in Nat \ {0} /\ n \in Int /\ Above(l, q) = n * d
      BY <2>1, <3>2, <3>4 DEF d, n
    <3>6. n = 0 => Above(l, q) = 0
      BY <3>5
    <3>7. n > 0 => Above(l, q) >= d
      <4> SUFFICES ASSUME n > 0 PROVE Above(l, q) >= d
        OBVIOUS
      <4>1. n - 1 \in Nat /\ n * d = d + (n - 1) * d
        BY <3>5
      <4>2. (n - 1) * d \in Nat
        BY <3>5, <4>1
      <4> QED BY <3>5, <4>1, <4>2
    <3>8. n < 0 => Above(l, q) < 0
      <4> SUFFICES ASSUME n < 0 PROVE Above(l, q) < 0
        OBVIOUS
      <4>1. -1 - n \in Nat /\ n * d = -d - (-1 - n) * d
        BY <3>5
      <4>2. (-1 - n) * d \in Nat
        BY <3>5, <4>1
      <4> QED BY <3>5, <4>1, <4>2
    <3>9. q \in LineDescribed(l).sure <=> q[1] \in x1 .. x2 /\ n = 0
      <4>1. q \in LineDescribed(l).sure <=>
               q[1] \in x1 .. x2 /\ Above(l, q) \in 0 .. d - 1
        BY <1>1, <2>4, <3>3, DescribedIs DEF d
      <4>2. Above(l, q) \in 0 .. d - 1 <=> n = 0
        <5>1. Above(l, q) \in Int
          BY <3>5
        <5> HIDE DEF Above
        <5> QED BY <3>5, <3>6, <3>7, <3>8, <5>1
      <4> QED BY <4>1, <4>2
    <3>10. q \in LineDescribed(l).maybe =>
             q[1] \in x1 .. x2 /\ (n = 0 \/ (q[2] = 0 /\ n < 0))
      <4>1. q \in LineDescribed(l).maybe =>
               /\ q[1] \in x1 .. x2
               /\ Above(l, q) \in 0 .. d - 1 \/ (q[2] = 0 /\ Above(l, q) < 0)
        BY <1>1, <2>4, <3>3, DescribedIs DEF d
      <4>2. Above(l, q) \in Int
        BY <3>5
      <4> HIDE DEF Above
      <4> QED BY <3>5, <3>6, <3>7, <3>8, <4>1, <4>2
    <3>11. (n = 0 <=> q[2] = y) /\ (q[2] = 0 /\ n < 0 => y < 0)
      BY <2>1 DEF n
    <3> QED BY <2>2, <3>1, <3>9, <3>10, <3>11 DEF Agrees
  <2> QED BY <2>3, <2>4
<1> QED BY <1>2, <1>3

LEMMA UprightSide ==
    ASSUME NEW x \in Int, NEW y1 \in Int, NEW y2 \in Int, y1 <= y2,
           NEW t \in Side(x, y1, x, y2)
    PROVE  t = {x} \X (y1 .. y2)
<1> DEFINE l == [x1 |-> x, y1 |-> y1, x2 |-> x, y2 |-> y2]
<1>1. /\ l \in Ends /\ t \in LinePoints(l)
      /\ l.x1 = x /\ l.x2 = x /\ l.y1 = y1 /\ l.y2 = y2
  BY DEF Ends, Side
<1> HIDE DEF l
<1> QED BY <1>1, UprightPointsAre

LEMMA BoxesTyped ==
    ASSUME NEW b \in Boxes
    PROVE  b.x \in Int /\ b.y \in Int /\ b.width \in Nat /\ b.height \in Nat
<1>1. b \in [x : Coordinate, y : Coordinate, width : Nat, height : Nat]
  BY DisplayAssumption
<1>2. Coordinate \subseteq Int
  BY DEF Coordinate
<1> QED BY <1>1, <1>2

(* Four lines are the outline of a square. *)
LEMMA OutlineAgrees ==
    ASSUME p \in Glass, NEW b \in Boxes, NEW points \in EmptySquare(b)
    PROVE  points \subseteq Points /\ Agrees(points, OutlineDescribed(b))
<1> DEFINE right == b.x + b.width
           bottom == b.y + b.height
<1>1. b.x \in Int /\ b.y \in Int /\ b.width \in Nat /\ b.height \in Nat
  BY BoxesTyped
<1>2. right \in Int /\ bottom \in Int /\ b.x <= right /\ b.y <= bottom
  BY <1>1
<1>3. PICK t \in Side(b.x, b.y, right, b.y), u \in Side(b.x, bottom, right, bottom),
           v \in Side(b.x, b.y, b.x, bottom), w \in Side(right, b.y, right, bottom) :
         points = t \cup u \cup v \cup w
  BY DEF EmptySquare
<1>4. v = {b.x} \X (b.y .. bottom) /\ w = {right} \X (b.y .. bottom)
  BY <1>1, <1>2, UprightSide
<1>5. /\ t \subseteq Points
      /\ \A q \in Screen :
           /\ q \in (b.x .. right) \X {b.y} => q \in t
           /\ q \in t => \/ q \in (b.x .. right) \X {b.y}
                         \/ b.y < 0 /\ q[1] \in b.x .. right /\ q[2] = 0
  BY <1>1, <1>2, LevelSide
<1>6. /\ u \subseteq Points
      /\ \A q \in Screen :
           /\ q \in (b.x .. right) \X {bottom} => q \in u
           /\ q \in u => \/ q \in (b.x .. right) \X {bottom}
                         \/ bottom < 0 /\ q[1] \in b.x .. right /\ q[2] = 0
  BY <1>1, <1>2, LevelSide
<1> DEFINE outer == Box(b.x, b.y, b.width + 1, b.height + 1)
           inner == Box(b.x + 1, b.y + 1, b.width - 1, b.height - 1)
           top == IF b.y < 0 THEN Box(b.x, 0, b.width + 1, 1) ELSE {}
<1>7. outer = (b.x .. right) \X (b.y .. bottom)
  BY <1>1 DEF Box
<1>8. inner = (b.x + 1 .. right - 1) \X (b.y + 1 .. bottom - 1)
  BY <1>1 DEF Box
<1>9. \A q \in Points : q \in top <=> b.y < 0 /\ q[1] \in b.x .. right /\ q[2] = 0
  BY <1>1 DEF Box, Points
<1>10. OutlineDescribed(b) = [sure |-> outer \ inner, maybe |-> (outer \ inner) \cup top]
  BY DEF OutlineDescribed
<1> HIDE DEF outer, inner, right, bottom, top
<1>11. points \subseteq Points
  BY <1>1, <1>2, <1>3, <1>4, <1>5, <1>6 DEF Points
<1>12. ASSUME NEW q \in Screen
       PROVE  /\ q \in outer \ inner => q \in points
              /\ q \in points => q \in (outer \ inner) \cup top
  <2>1. q = <<q[1], q[2]>> /\ q[1] \in Int /\ q[2] \in Nat /\ q \in Points
    BY DEF Screen, Box, Glass, Points
  <2>2. q \in outer \ inner <=>
           \/ q \in (b.x .. right) \X {b.y} \/ q \in (b.x .. right) \X {bottom}
           \/ q \in v \/ q \in w
    BY <1>1, <1>2, <1>4, <1>7, <1>8, <2>1
  <2>3. bottom < 0 => b.y < 0
    BY <1>1, <1>2
  <2> QED BY <1>3, <1>5, <1>6, <1>9, <2>1, <2>2, <2>3
<1> QED BY <1>10, <1>11, <1>12 DEF Agrees

Scaled(x, g, scale) == x + g * scale

(* The square that a point of a character becomes. *)
LEMMA CellIs ==
    ASSUME NEW x \in Int, NEW y \in Int, NEW scale \in Nat \ {0},
           NEW gx \in Int, NEW gy \in Int, NEW q \in Points
    PROVE  q \in Box(Scaled(x, gx, scale), Scaled(y, gy, scale), scale, scale)
              <=> (q[1] - x) \div scale = gx /\ (q[2] - y) \div scale = gy
<1>1. q = <<q[1], q[2]>> /\ q[1] \in Int /\ q[2] \in Int
  BY DEF Points
<1>2. gx * scale \in Int /\ gy * scale \in Int
      /\ scale * gx = gx * scale /\ scale * gy = gy * scale
  OBVIOUS
<1>3. (q[1] - x) \div scale = gx
         <=> q[1] - x \in gx * scale .. gx * scale + scale - 1
  <2>1. q[1] - x \in Int
    BY <1>1
  <2>2. (q[1] - x) \div scale = gx
           <=> q[1] - x \in scale * gx .. scale * gx + scale - 1
    BY <2>1, DivIs
  <2> QED BY <1>2, <2>2
<1>4. (q[2] - y) \div scale = gy
         <=> q[2] - y \in gy * scale .. gy * scale + scale - 1
  <2>1. q[2] - y \in Int
    BY <1>1
  <2>2. (q[2] - y) \div scale = gy
           <=> q[2] - y \in scale * gy .. scale * gy + scale - 1
    BY <2>1, DivIs
  <2> QED BY <1>2, <2>2
<1>5. q \in Box(x + gx * scale, y + gy * scale, scale, scale)
         <=> /\ q[1] \in x + gx * scale .. x + gx * scale + scale - 1
             /\ q[2] \in y + gy * scale .. y + gy * scale + scale - 1
  BY <1>1 DEF Box
<1> QED BY <1>1, <1>2, <1>3, <1>4, <1>5 DEF Scaled

(* The byte that is read is the one that holds the points. *)
LEMMA FontByteIs ==
    ASSUME NEW c \in DOMAIN Glyphs, NEW w \in 0 .. font.width - 1,
           NEW part \in 0 .. parts_per_line - 1
    PROVE  FontByte(c, w, part) = {bit \in 0 .. 7 : <<w, 8 * part + bit>> \in Glyphs[c]}
<1> DEFINE parts == (font.height + 7) \div 8
           m == c - font.first
           n == font.width
<1>1. font.height \in Nat /\ n \in Nat /\ font.first \in Nat /\ c \in Int
      /\ font.last \in Nat
  BY DisplayAssumption DEF FontFormat
<1>2. parts_per_line = parts /\ parts \in Nat
  BY <1>1 DEF parts_per_line
<1>3. font.bytes[5 + parts * (n * m + w) + part]
          = {bit \in 0 .. 7 : <<w, 8 * part + bit>> \in Glyphs[c]}
  BY <1>2, DisplayAssumption DEF FontFormat
<1>4. m \in Int /\ w \in Int /\ part \in Int
  BY <1>1, <1>2
<1> HIDE DEF parts, m, n
<1>5. m * n * parts + w * parts = parts * (n * m + w)
  BY <1>1, <1>2, <1>4
<1>6. m * n * parts + w * parts + 5 + part = 5 + parts * (n * m + w) + part
  <2>1. m * n * parts + w * parts \in Int
    BY <1>1, <1>2, <1>4
  <2> QED BY <1>4, <1>5, <2>1
<1> QED BY <1>2, <1>3, <1>6 DEF FontByte, m, n

(* A character at a place is its points, each a square. *)
LEMMA CharacterIs ==
    ASSUME NEW x \in Int, NEW y \in Int, NEW scale \in Nat \ {0}, NEW c \in Nat,
           NEW q \in Points
    PROVE  q \in CharPoints(x, y, scale, c)
              <=> /\ c \in DOMAIN Glyphs
                  /\ <<(q[1] - x) \div scale, (q[2] - y) \div scale>> \in Glyphs[c]
<1> DEFINE gx == (q[1] - x) \div scale
           gy == (q[2] - y) \div scale
           E == {e \in (0 .. font.width - 1) \X (0 .. parts_per_line - 1) \X (0 .. 7) :
                    e[3] \in FontByte(c, e[1], e[2])}
           Cell(d) == Box(x + d[1] * scale, y + (8 * d[2] + d[3]) * scale, scale, scale)
<1>1. font.height \in Nat /\ font.width \in Nat
      /\ DOMAIN Glyphs = font.first .. font.last
  BY DisplayAssumption DEF FontFormat
<1>2. CASE c \notin DOMAIN Glyphs
  BY <1>1, <1>2 DEF CharPoints
<1>3. CASE c \in DOMAIN Glyphs
  <2>1. q \in CharPoints(x, y, scale, c) <=> \E d \in E : q \in Cell(d)
    BY <1>1, <1>3 DEF CharPoints
  <2>2. gx \in Int /\ gy \in Int
    BY DivMod DEF Points
  <2>3. parts_per_line \in Nat
    BY <1>1 DEF parts_per_line
  <2>4. ASSUME NEW d \in E, q \in Cell(d) PROVE <<gx, gy>> \in Glyphs[c]
    <3>1. /\ d[1] \in 0 .. font.width - 1 /\ d[2] \in 0 .. parts_per_line - 1
          /\ d[3] \in 0 .. 7 /\ d[3] \in FontByte(c, d[1], d[2])
      OBVIOUS
    <3>2. <<d[1], 8 * d[2] + d[3]>> \in Glyphs[c]
      BY <1>3, <3>1, FontByteIs
    <3>3. d[1] \in Int /\ 8 * d[2] + d[3] \in Int
      BY <1>1, <2>3, <3>1
    <3> DEFINE dx == d[1]
               dy == 8 * d[2] + d[3]
    <3>4. dx \in Int /\ dy \in Int /\ q \in Box(x + dx * scale, y + dy * scale, scale, scale)
      BY <2>4, <3>3
    <3> HIDE DEF dx, dy
    <3>5. q \in Box(x + dx * scale, y + dy * scale, scale, scale)
             <=> gx = dx /\ gy = dy
      <4>1. q \in Box(Scaled(x, dx, scale), Scaled(y, dy, scale), scale, scale)
               <=> (q[1] - x) \div scale = dx /\ (q[2] - y) \div scale = dy
        BY <3>4, CellIs
      <4> QED BY <4>1 DEF Scaled
    <3>6. gx = dx /\ gy = dy
      BY <3>4, <3>5
    <3> QED BY <3>2, <3>6 DEF dx, dy
  <2>5. ASSUME <<gx, gy>> \in Glyphs[c] PROVE \E d \in E : q \in Cell(d)
    <3>1. gx \in 0 .. font.width - 1 /\ gy \in 0 .. font.height - 1
      <4>1. Glyphs[c] \subseteq (0 .. font.width - 1) \X (0 .. font.height - 1)
        BY <1>1, <1>3, DisplayAssumption DEF FontFormat, Box
      <4> HIDE DEF gx, gy
      <4> QED BY <2>5, <4>1
    <3> DEFINE part == gy \div 8
               bit == gy % 8
    <3> HIDE DEF gx, gy
    <3>2. part \in 0 .. parts_per_line - 1 /\ bit \in 0 .. 7 /\ 8 * part + bit = gy
      BY <1>1, <3>1 DEF parts_per_line
    <3> HIDE DEF part, bit
    <3>3. bit \in FontByte(c, gx, part)
      BY <1>3, <2>5, <3>1, <3>2, FontByteIs
    <3> DEFINE d == <<gx, part, bit>>
    <3>4. d \in E
      BY <3>1, <3>2, <3>3
    <3>5. q \in Box(x + gx * scale, y + gy * scale, scale, scale)
      <4>1. (q[1] - x) \div scale = gx /\ (q[2] - y) \div scale = gy
        BY DEF gx, gy
      <4>2. q \in Box(x + gx * scale, y + gy * scale, scale, scale)
               <=> (q[1] - x) \div scale = gx /\ (q[2] - y) \div scale = gy
        <5>1. q \in Box(Scaled(x, gx, scale), Scaled(y, gy, scale), scale, scale)
                 <=> (q[1] - x) \div scale = gx /\ (q[2] - y) \div scale = gy
          BY <2>2, CellIs
        <5> QED BY <5>1 DEF Scaled
      <4> QED BY <4>1, <4>2
    <3>6. q \in Cell(d)
      BY <3>2, <3>5
    <3> QED BY <3>4, <3>6
  <2> QED BY <1>3, <2>1, <2>4, <2>5
<1> QED BY <1>2, <1>3

LEMMA CharacterTyped ==
    ASSUME NEW x \in Int, NEW y \in Int, NEW scale \in Nat \ {0}, NEW c
    PROVE  CharPoints(x, y, scale, c) \subseteq Points
<1> SUFFICES ASSUME NEW q \in CharPoints(x, y, scale, c) PROVE q \in Points
  OBVIOUS
<1>1. parts_per_line \in Nat /\ font.width \in Nat
  BY DisplayAssumption DEF FontFormat, parts_per_line
<1>2. PICK d \in (0 .. font.width - 1) \X (0 .. parts_per_line - 1) \X (0 .. 7) :
         q \in Box(x + d[1] * scale, y + (8 * d[2] + d[3]) * scale, scale, scale)
  BY DEF CharPoints
<1>3. d[1] \in Int /\ 8 * d[2] + d[3] \in Int
  BY <1>1
<1>4. x + d[1] * scale \in Int /\ y + (8 * d[2] + d[3]) * scale \in Int
  BY <1>3
<1> QED BY <1>2, <1>4 DEF Box, Points

(* On the screen a text is the picture of its characters. *)
LEMMA TextIs ==
    ASSUME NEW t \in Texts
    PROVE  /\ StringPoints(t) \subseteq Points
           /\ p \in Glass => \A q \in Screen : q \in StringPoints(t) <=> q \in Picture(t)
<1> DEFINE Left(n) == t.x + (n - 1) * (font.width + font.spacing) * t.scale
<1>1. /\ t.x \in Int /\ t.y \in Int /\ t.scale \in Nat \ {0} /\ t.string \in Seq(Nat)
      /\ font.width \in Nat /\ font.spacing \in Nat
  <2>1. t \in [x : Int, y : Int, scale : Nat \ {0}, string : Seq(Nat)]
    BY DisplayAssumption
  <2> QED BY <2>1, DisplayAssumption DEF FontFormat
<1>2. ASSUME NEW n \in DOMAIN t.string PROVE Left(n) \in Int /\ t.string[n] \in Nat
  <2>1. n \in Int /\ t.string[n] \in Nat
    BY <1>1
  <2>2. (n - 1) * (font.width + font.spacing) \in Int
    BY <1>1, <2>1
  <2> QED BY <1>1, <2>1, <2>2
<1> HIDE DEF Left
<1>3. ASSUME NEW q
      PROVE  q \in StringPoints(t) <=>
                \E n \in DOMAIN t.string :
                    q \in CharPoints(Left(n), t.y, t.scale, t.string[n])
  BY DEF StringPoints, Left
<1>4. StringPoints(t) \subseteq Points
  BY <1>1, <1>2, <1>3, CharacterTyped
<1>5. ASSUME p \in Glass, NEW q \in Screen
      PROVE  q \in StringPoints(t) <=> q \in Picture(t)
  <2>1. q \in Points
    BY <1>5 DEF Screen, Box, Points, Glass
  <2>2. q \in Picture(t) <=>
           \E n \in DOMAIN t.string :
              /\ t.string[n] \in DOMAIN Glyphs
              /\ <<(q[1] - Left(n)) \div t.scale, (q[2] - t.y) \div t.scale>>
                    \in Glyphs[t.string[n]]
    BY <1>5 DEF Picture, Left
  <2> QED BY <1>1, <1>2, <1>3, <2>1, <2>2, CharacterIs
<1> QED BY <1>4, <1>5

LEMMA StrideIs ==
    ASSUME NEW image, image.width \in Nat
    PROVE  bytes_per_line(image) = 4 * ((image.width + 31) \div 32)
<1> DEFINE w == image.width
           bytes == (w \div 8) + (IF w % 8 > 0 THEN 1 ELSE 0)
           lines == (w + 31) \div 32
<1>1. w \in Nat
  OBVIOUS
<1> HIDE DEF w
<1>2. bytes \in Nat /\ lines \in Nat
  BY <1>1
<1>3. 8 * bytes \in w .. w + 7 /\ 32 * lines \in w .. w + 31
  BY <1>1
<1> HIDE DEF bytes, lines
<1>4. bytes % 4 \in 0 .. 3 /\ bytes = 4 * (bytes \div 4) + (bytes % 4)
      /\ bytes \div 4 \in Nat
  BY <1>2
<1>5. CASE bytes % 4 = 0
  <2>1. bytes = 4 * lines
    BY <1>2, <1>3, <1>4, <1>5, <1>1
  <2> QED BY <1>5, <2>1 DEF bytes_per_line, bytes, lines, w
<1>6. CASE bytes % 4 # 0
  <2>1. bytes + (4 - (bytes % 4)) = 4 * lines
    BY <1>2, <1>3, <1>4, <1>6, <1>1
  <2> QED BY <1>6, <2>1 DEF bytes_per_line, bytes, lines, w
<1> QED BY <1>5, <1>6

(* An image is drawn as the picture its file holds. *)
LEMMA ImageIs ==
    ASSUME NEW i \in Images
    PROVE  /\ ImagePoints(i.image, i.x, i.y) \subseteq Points
           /\ ImagePoints(i.image, i.x, i.y)
                 = {<<i.x + q[1], i.y + q[2]>> : q \in i.picture}
<1> DEFINE image == i.image
           w == image.width
           h == image.height
           stride == 4 * ((w + 31) \div 32)
           size == Box(0, 0, w, h)
           Pixel(x, y) ==
              IF (7 - (x % 8)) \in image.data[(h - 1 - y) * bytes_per_line(image) + x \div 8]
              THEN 1 ELSE 0
           drawn == {r \in size : Pixel(r[1], r[2]) = color_val(image)}
<1>1. i.x \in Int /\ i.y \in Int /\ ImageFormat(image, i.picture)
  BY DisplayAssumption
<1>2. w \in Nat /\ h \in Nat /\ i.picture \subseteq size
  BY <1>1 DEF ImageFormat
<1>3. PICK black \in {0, 1} :
        /\ image.table[black] = 0 /\ image.table[1 - black] # 0
        /\ \A q \in size :
              (7 - (q[1] % 8) \in image.data[stride * (h - 1 - q[2]) + (q[1] \div 8)])
                  <=> (q \in i.picture <=> black = 1)
  BY <1>1 DEF ImageFormat
<1>4. color_val(image) = black
  BY <1>3 DEF color_val
<1>5. bytes_per_line(image) = stride
  BY <1>2, StrideIs
<1>6. size \subseteq (0 .. w - 1) \X (0 .. h - 1)
  BY <1>2 DEF Box
<1>7. ImagePoints(image, i.x, i.y) = {<<i.x + q[1], i.y + q[2]>> : q \in drawn}
  BY DEF ImagePoints
<1> HIDE DEF size, stride
<1>8. ASSUME NEW q \in size
      PROVE  Pixel(q[1], q[2]) = color_val(image) <=> q \in i.picture
  <2>1. q[1] \in Nat /\ q[2] \in Nat /\ h - 1 - q[2] \in Int
    BY <1>2, <1>6
  <2>2. stride \in Int
    BY <1>2 DEF stride
  <2>3. (h - 1 - q[2]) * bytes_per_line(image) = stride * (h - 1 - q[2])
    BY <1>5, <2>1, <2>2
  <2>4. Pixel(q[1], q[2]) = 1 <=> (q \in i.picture <=> black = 1)
    BY <1>3, <2>3
  <2>5. Pixel(q[1], q[2]) \in {0, 1}
    OBVIOUS
  <2> HIDE DEF Pixel
  <2> QED BY <1>3, <1>4, <2>4, <2>5
<1> HIDE DEF Pixel
<1>9. drawn = i.picture
  BY <1>2, <1>8
<1>10. \A q \in drawn : q[1] \in Int /\ q[2] \in Int
  BY <1>2, <1>6
<1>11. ImagePoints(image, i.x, i.y) \subseteq Points
  BY <1>1, <1>7, <1>10 DEF Points
<1> QED BY <1>7, <1>9, <1>11

-----------------------------------------------------------------------------
(* The buffer holds what is on the screen. *)

Glassy == p \in Screens \cup {NoDisplay}

Buffered ==
    /\ Glassy
    /\ Initialized => buffer \in [-1 .. Bytes - 1 -> SUBSET (0 .. 7)]
    /\ ~Initialized => plane = Blank
    /\ LinesForward => CroppedPlane

(* The display's record. *)
LEMMA GlassIs ==
    ASSUME Glassy
    PROVE  /\ Initialized => p \in Screens /\ p \in Glass /\ p.height % 8 = 0
           /\ ~Initialized => Screen = {}
<1>1. Initialized => p \in Screens /\ p \in Glass /\ p.height % 8 = 0
  BY DisplayAssumption DEF Glassy, Initialized, Glass
<1>2. ~Initialized => Screen = {}
  BY DEF Initialized, NoDisplay, Screen, Box
<1> QED BY <1>1, <1>2

LEMMA BitsTyped ==
    ASSUME p \in Glass, NEW points, points \subseteq Points, NEW n
    PROVE  BitsOf(points, n) \subseteq 0 .. 7
<1>1. \A q \in OnScreen(points) : q[2] \in Nat
  BY DEF OnScreen, Points, Glass
<1> QED BY <1>1 DEF BitsOf

(* The bit of a point, and what it says of the plane. *)
LEMMA StoredIs ==
    ASSUME Buffered, Initialized, NEW q \in Screen
    PROVE  /\ Byte(q) \in 0 .. Bytes - 1 /\ Byte(q) \in DOMAIN buffer /\ Byte(q) # -1
           /\ Stored(q) <=> q[2] % 8 \in buffer[Byte(q)]
<1>1. p \in Glass /\ p.height % 8 = 0
  BY GlassIs DEF Buffered
<1>2. Byte(q) \in 0 .. Bytes - 1 /\ Bytes \in Int
  BY <1>1, PlaceOfPoint DEF Bytes, Glass
<1>3. DOMAIN buffer = -1 .. Bytes - 1
  BY DEF Buffered
<1>4. Stored(q) <=> q[2] % 8 \in buffer[Byte(q)]
  BY DEF Stored, Byte
<1> HIDE DEF Byte, Bytes
<1> QED BY <1>2, <1>3, <1>4

LEMMA DrawnStores ==
    ASSUME Buffered, NEW points, points \subseteq Points, Initialized,
           ssd1306_draw_pixel(points), p' = p
    PROVE  /\ buffer' \in [-1 .. Bytes - 1 -> SUBSET (0 .. 7)]
           /\ \A q \in Screen : Stored(q)' <=> Stored(q) \/ q \in points
<1>1. buffer' = [n \in DOMAIN buffer |-> buffer[n] \cup BitsOf(points, n)]
  BY DEF ssd1306_draw_pixel
<1>2. p \in Glass /\ p.height % 8 = 0
  BY GlassIs DEF Buffered
<1>3. buffer' \in [-1 .. Bytes - 1 -> SUBSET (0 .. 7)]
  <2>1. \A n \in -1 .. Bytes - 1 : buffer[n] \cup BitsOf(points, n) \subseteq 0 .. 7
    BY <1>2, BitsTyped DEF Buffered
  <2> QED BY <1>1, <2>1 DEF Buffered
<1>4. ASSUME NEW q \in Screen PROVE Stored(q)' <=> Stored(q) \/ q \in points
  <2>1. Byte(q) \in DOMAIN buffer /\ (Stored(q) <=> q[2] % 8 \in buffer[Byte(q)])
    BY StoredIs
  <2>2. q[2] % 8 \in BitsOf(points, Byte(q)) <=> q \in points
    BY <1>2, BitIs
  <2>3. buffer'[Byte(q)] = buffer[Byte(q)] \cup BitsOf(points, Byte(q))
    BY <1>1, <2>1
  <2>4. Stored(q)' <=> q[2] % 8 \in buffer'[Byte(q)]
    BY DEF Stored, Byte
  <2> QED BY <2>1, <2>2, <2>3, <2>4
<1> QED BY <1>3, <1>4

LEMMA DrawnKeeps ==
    ASSUME Buffered, NEW drawn, NEW described, Drawn(drawn, described),
           drawn \subseteq Points, LinesForward => Agrees(drawn, described)
    PROVE  Buffered'
<1>1. /\ Initialized /\ p' = p /\ ssd1306_draw_pixel(drawn)
      /\ plane' = [sure |-> plane.sure \cup described.sure,
                   maybe |-> plane.maybe \cup described.maybe]
  BY DEF Drawn
<1>2. /\ buffer' \in [-1 .. Bytes - 1 -> SUBSET (0 .. 7)]
      /\ \A q \in Screen : Stored(q)' <=> Stored(q) \/ q \in drawn
  BY <1>1, DrawnStores
<1>3. ASSUME LinesForward PROVE CroppedPlane'
  <2>1. Screen' = Screen
    BY <1>1 DEF Screen
  <2> SUFFICES ASSUME NEW q \in Screen
               PROVE  /\ q \in plane'.sure => Stored(q)'
                      /\ Stored(q)' => q \in plane'.maybe
    BY <2>1 DEF CroppedPlane
  <2>2. /\ q \in plane.sure => Stored(q)
        /\ Stored(q) => q \in plane.maybe
    BY <1>3 DEF Buffered, CroppedPlane
  <2>3. /\ q \in described.sure => q \in drawn
        /\ q \in drawn => q \in described.maybe
    BY <1>3 DEF Agrees
  <2> QED BY <1>1, <1>2, <2>2, <2>3
<1> QED BY <1>1, <1>2, <1>3 DEF Buffered, Glassy, Bytes, Initialized

LEMMA ClearedKeeps ==
    ASSUME Buffered, NEW points, Cleared(points), points \subseteq Points
    PROVE  Buffered'
<1>1. /\ Initialized /\ p' = p
      /\ plane' = [sure |-> plane.sure \ points, maybe |-> plane.maybe \ points]
      /\ buffer' = [n \in DOMAIN buffer |-> buffer[n] \ BitsOf(points, n)]
  BY DEF Cleared, ssd1306_clear_pixel
<1>2. p \in Glass
  BY <1>1, GlassIs DEF Buffered
<1>3. buffer' \in [-1 .. Bytes - 1 -> SUBSET (0 .. 7)]
  BY <1>1 DEF Buffered
<1>4. ASSUME NEW q \in Screen PROVE Stored(q)' <=> Stored(q) /\ q \notin points
  <2>1. Byte(q) \in DOMAIN buffer /\ (Stored(q) <=> q[2] % 8 \in buffer[Byte(q)])
    BY <1>1, StoredIs
  <2>2. q[2] % 8 \in BitsOf(points, Byte(q)) <=> q \in points
    BY <1>2, BitIs
  <2>3. buffer'[Byte(q)] = buffer[Byte(q)] \ BitsOf(points, Byte(q))
    BY <1>1, <2>1
  <2>4. Stored(q)' <=> q[2] % 8 \in buffer'[Byte(q)]
    BY <1>1 DEF Stored, Byte
  <2> QED BY <2>1, <2>2, <2>3, <2>4
<1>5. ASSUME LinesForward PROVE CroppedPlane'
  <2>1. Screen' = Screen
    BY <1>1 DEF Screen
  <2> SUFFICES ASSUME NEW q \in Screen
               PROVE  /\ q \in plane'.sure => Stored(q)'
                      /\ Stored(q)' => q \in plane'.maybe
    BY <2>1 DEF CroppedPlane
  <2>2. /\ q \in plane.sure => Stored(q)
        /\ Stored(q) => q \in plane.maybe
    BY <1>5 DEF Buffered, CroppedPlane
  <2> QED BY <1>1, <1>4, <2>2
<1> QED BY <1>1, <1>3, <1>5 DEF Buffered, Glassy, Bytes, Initialized

LEMMA BoxTyped ==
    ASSUME NEW x \in Int, NEW y \in Int, NEW width \in Int, NEW height \in Int
    PROVE  Box(x, y, width, height) \subseteq Points
BY DEF Box, Points

LEMMA SharpAgrees ==
    ASSUME NEW points, NEW described,
           \A q \in Screen : q \in points <=> q \in described
    PROVE  Agrees(points, Sharp(described))
BY DEF Agrees, Sharp

LEMMA DrawingKeeps == ASSUME Buffered, Drawing PROVE Buffered'
<1>1. ASSUME NEW l \in Lines, ssd1306_draw_line(l) PROVE Buffered'
  <2>1. PICK points \in LinePoints(l) : Drawn(points, LineDescribed(l))
    BY <1>1 DEF ssd1306_draw_line
  <2>2. l \in Ends /\ points \subseteq Points
    BY <2>1, LinesTyped, LineTyped
  <2>3. p \in Glass
    BY <2>1, GlassIs DEF Drawn, Buffered
  <2>4. LinesForward => Forward(l)
    BY DEF LinesForward, Forward
  <2> QED BY <2>1, <2>2, <2>3, <2>4, LineAgrees, DrawnKeeps
<1>2. ASSUME NEW b \in Boxes,
             ssd1306_draw_square(b) \/ ssd1306_draw_empty_square(b) \/ clear_rect(b)
      PROVE  Buffered'
  <2>1. b.x \in Int /\ b.y \in Int /\ b.width \in Int /\ b.height \in Int
        /\ b.width + 1 \in Int
    BY BoxesTyped
  <2>2. CASE ssd1306_draw_square(b)
    <3>1. Box(b.x, b.y, b.width, b.height) \subseteq Points
      BY <2>1, BoxTyped
    <3> QED BY <2>2, <3>1, SharpAgrees, DrawnKeeps DEF ssd1306_draw_square
  <2>3. CASE ssd1306_draw_empty_square(b)
    <3>1. PICK points \in EmptySquare(b) : Drawn(points, OutlineDescribed(b))
      BY <2>3 DEF ssd1306_draw_empty_square
    <3>2. p \in Glass
      BY <3>1, GlassIs DEF Drawn, Buffered
    <3> QED BY <3>1, <3>2, OutlineAgrees, DrawnKeeps
  <2>4. CASE clear_rect(b)
    <3>1. Box(b.x, b.y, b.width + 1, b.height) \subseteq Points
      BY <2>1, BoxTyped
    <3> QED BY <2>4, <3>1, ClearedKeeps DEF clear_rect
  <2> QED BY <1>2, <2>2, <2>3, <2>4
<1>3. ASSUME NEW t \in Texts, ssd1306_draw_string(t) PROVE Buffered'
  <2>1. Drawn(StringPoints(t), Sharp(Picture(t)))
    BY <1>3 DEF ssd1306_draw_string
  <2>2. p \in Glass
    BY <2>1, GlassIs DEF Drawn, Buffered
  <2>3. StringPoints(t) \subseteq Points /\ Agrees(StringPoints(t), Sharp(Picture(t)))
    BY <2>2, TextIs, SharpAgrees
  <2> QED BY <2>1, <2>3, DrawnKeeps
<1>4. ASSUME NEW i \in Images, ssd1306_bmp_show_image(i) PROVE Buffered'
  <2> DEFINE picture == {<<i.x + q[1], i.y + q[2]>> : q \in i.picture}
  <2>1. Drawn(ImagePoints(i.image, i.x, i.y), Sharp(picture))
    BY <1>4 DEF ssd1306_bmp_show_image
  <2>2. ImagePoints(i.image, i.x, i.y) \subseteq Points
        /\ Agrees(ImagePoints(i.image, i.x, i.y), Sharp(picture))
    BY ImageIs, SharpAgrees
  <2> QED BY <2>1, <2>2, DrawnKeeps
<1>5. CASE ssd1306_clear
  <2>1. /\ Initialized /\ p' = p /\ plane' = Blank
        /\ buffer' = [n \in DOMAIN buffer |-> IF n = -1 THEN buffer[n] ELSE {}]
    BY <1>5 DEF ssd1306_clear
  <2>2. buffer' \in [-1 .. Bytes - 1 -> SUBSET (0 .. 7)]
    BY <2>1 DEF Buffered
  <2>3. ASSUME NEW q \in Screen PROVE ~Stored(q)'
    <3>1. Byte(q) \in DOMAIN buffer /\ Byte(q) # -1
      BY <2>1, StoredIs
    <3>2. buffer'[Byte(q)] = {}
      BY <2>1, <3>1
    <3> QED BY <2>1, <3>2 DEF Stored, Byte
  <2>4. CroppedPlane'
    BY <2>1, <2>3 DEF CroppedPlane, Screen, Blank
  <2> QED BY <2>1, <2>2, <2>4 DEF Buffered, Glassy, Bytes, Initialized
<1> QED BY <1>1, <1>2, <1>3, <1>4, <1>5 DEF Drawing

LEMMA BufferedStep == ASSUME Buffered, [Next]_displayVars PROVE Buffered'
<1>1. ASSUME NEW s \in Screens, NEW lost, ssd1306_init(s, lost) PROVE Buffered'
  <2>1. p = NoDisplay /\ p' = s /\ plane' = plane
        /\ buffer' = [n \in -1 .. (s.height \div 8) * s.width - 1 |-> {}]
    BY <1>1 DEF ssd1306_init
  <2>2. s \in Glass /\ s.height % 8 = 0
    BY DisplayAssumption DEF Glass
  <2>3. (s.height \div 8) * s.width = s.width * (s.height \div 8)
    <3>1. s.height \div 8 \in Int /\ s.width \in Int
      BY <2>2 DEF Glass
    <3> QED BY <3>1
  <2>4. buffer' \in [-1 .. Bytes' - 1 -> SUBSET (0 .. 7)]
    BY <2>1, <2>3 DEF Bytes
  <2>5. p' \in Glass /\ p' # NoDisplay
    BY <2>1, <2>2 DEF Glass, NoDisplay
  <2>6. plane = Blank
    BY <2>1 DEF Buffered, Initialized
  <2>7. ASSUME NEW q \in Screen' PROVE ~Stored(q)'
    <3>1. Byte(q)' \in 0 .. Bytes' - 1 /\ Bytes' \in Int
      <4>1. p'.height % 8 = 0
        BY <2>1, <2>2
      <4>2. q \in Box(0, 0, p'.width, p'.height)
        BY DEF Screen
      <4> QED BY <2>5, <4>1, <4>2, PlaceOn DEF Byte, Bytes, Glass
    <3>2. Byte(q)' \in -1 .. (s.height \div 8) * s.width - 1
      BY <2>1, <2>3, <3>1 DEF Bytes
    <3>3. buffer'[Byte(q)'] = {}
      BY <2>1, <3>2
    <3> QED BY <3>3 DEF Stored, Byte
  <2>8. CroppedPlane'
    BY <2>1, <2>6, <2>7 DEF CroppedPlane, Blank
  <2> QED BY <2>1, <2>4, <2>5, <2>8 DEF Buffered, Glassy, Initialized
<1>2. ASSUME NEW lost, NEW sent, ssd1306_show(lost, sent) PROVE Buffered'
  <2>1. /\ Initialized /\ p' = p /\ plane' = plane
        /\ buffer' = [buffer EXCEPT ![-1] = CONTROL_DATA]
    BY <1>2 DEF ssd1306_show
  <2>2. buffer' \in [-1 .. Bytes - 1 -> SUBSET (0 .. 7)]
    <3>1. CONTROL_DATA \in SUBSET (0 .. 7)
      BY DEF CONTROL_DATA
    <3> QED BY <2>1, <3>1 DEF Buffered
  <2>3. ASSUME NEW q \in Screen PROVE Stored(q)' <=> Stored(q)
    <3>1. Byte(q) \in DOMAIN buffer /\ Byte(q) # -1
      BY <2>1, StoredIs
    <3>2. buffer'[Byte(q)] = buffer[Byte(q)]
      BY <2>1, <3>1
    <3> QED BY <2>1, <3>2 DEF Stored, Byte
  <2>4. LinesForward => CroppedPlane'
    BY <2>1, <2>3 DEF CroppedPlane, Screen, Buffered
  <2> QED BY <2>1, <2>2, <2>4 DEF Buffered, Glassy, Bytes, Initialized
<1>3. CASE UNCHANGED <<p, buffer, plane>>
  BY <1>3 DEF Buffered, Glassy, Initialized, Bytes, CroppedPlane, Screen, Stored
<1> QED BY <1>1, <1>2, <1>3, DrawingKeeps
        DEF Next, displayVars, ssd1306_power, ssd1306_invert

-----------------------------------------------------------------------------
(* A transfer. *)

Cells == (0 .. PANEL_WIDTH - 1) \X (0 .. PANEL_PAGES - 1)
Byte8 == SUBSET (0 .. 7)
Panel == [ram : [Cells -> Byte8], columns : Points, pages : Points, at : Points,
          on : BOOLEAN, inverse : BOOLEAN, confused : BOOLEAN]

(* A window of w columns from c and of k pages, at whose first place pn is. *)
AtCorner(pn, c, w, k) ==
    /\ pn \in Panel
    /\ c \in Nat /\ w \in Nat \ {0} /\ k \in Nat \ {0}
    /\ c + w <= PANEL_WIDTH /\ k <= PANEL_PAGES
    /\ pn.columns = <<c, c + w - 1>> /\ pn.pages = <<0, k - 1>> /\ pn.at = <<c, 0>>

(* The place after n bytes, and what they leave in the memory. *)
PlaceAfter(c, w, k, n) ==
    IF n < w * k THEN <<c + (n % w), n \div w>> ELSE <<c, 0>>

(* The number of a cell in the window. *)
Nth(c, w, a) == a[1] - c + w * a[2]

RamAfter(ram, data, c, w, n) ==
    [a \in Cells |->
        IF a[1] \in c .. c + w - 1 /\ Nth(c, w, a) \in 0 .. n - 1
        THEN data[Nth(c, w, a) + 1] ELSE ram[a]]

PanelAfter(pn, data, c, w, k, n) ==
    [pn EXCEPT !.ram = RamAfter(pn.ram, data, c, w, n), !.at = PlaceAfter(c, w, k, n)]

(* What the controller does with a byte. *)
Put(byte, before) ==
    [before EXCEPT !.ram[before.at] = byte, !.at = MovedOn(before)]

(* Within a page and at its end. *)
LEMMA PlaceMoves ==
    ASSUME NEW c \in Nat, NEW w \in Nat \ {0}, NEW k \in Nat \ {0},
           NEW n \in 0 .. w * k - 1,
           NEW pn, pn.columns = <<c, c + w - 1>>, pn.pages = <<0, k - 1>>,
           pn.at = PlaceAfter(c, w, k, n)
    PROVE  MovedOn(pn) = PlaceAfter(c, w, k, n + 1)
<1> DEFINE x == n % w
           y == n \div w
<1>1. w * k \in Nat /\ n \in Nat /\ n < w * k
  OBVIOUS
<1>2. x \in 0 .. w - 1 /\ y \in Int /\ n = w * y + x
  <2>1. n \in Int /\ w \in Nat \ {0}
    BY <1>1
  <2>2. x \in 0 .. w - 1 /\ y \in Int /\ n = w * (n \div w) + (n % w)
    BY ONLY <2>1, DivMod
  <2> QED BY ONLY <2>2
<1>3. pn.at = <<c + x, y>>
  BY <1>1 DEF PlaceAfter
<1>4. y \in 0 .. k - 1
  <2> HIDE DEF x, y
  <2>1. w * y \in Int
    BY <1>2
  <2>2. CASE y < 0
    <3>1. -1 - y \in Nat
      BY <1>2, <2>2
    <3>2. w * (-1 - y) \in Nat /\ w * y = - w - w * (-1 - y)
      BY <1>2, <3>1
    <3> QED BY <1>1, <1>2, <2>1, <3>2
  <2>3. CASE y >= k
    <3>1. y - k \in Nat
      BY <1>2, <2>3
    <3>2. w * (y - k) \in Nat /\ w * y = w * k + w * (y - k)
      BY <1>2, <3>1
    <3> QED BY <1>1, <1>2, <2>1, <3>2
  <2> QED BY <1>2, <2>2, <2>3
<1>5. CASE x < w - 1
  <2>1. (n + 1) \div w = y
    <3>1. n + 1 \in Int /\ w * y \in Int /\ n + 1 \in w * y .. w * y + w - 1
      <4> HIDE DEF x, y
      <4> QED BY <1>1, <1>2, <1>5
    <3> HIDE DEF x, y
    <3> QED BY <1>2, <3>1, DivIs
  <2>2. n + 1 = w * ((n + 1) \div w) + ((n + 1) % w)
    BY <1>1, DivMod
  <2>3. (n + 1) % w = x + 1
    <3>1. w * y \in Int /\ (n + 1) % w \in Int
      BY <1>1, <1>2, DivMod
    <3> HIDE DEF x, y
    <3> QED BY <1>1, <1>2, <2>1, <2>2, <3>1
  <2>4. n + 1 < w * k
    <3> HIDE DEF x, y
    <3>1. k - 1 - y \in Nat
      BY <1>2, <1>4
    <3>2. w * (k - 1 - y) \in Nat /\ w * k = w * y + w + w * (k - 1 - y) /\ w * y \in Int
      BY <1>2, <3>1
    <3> QED BY <1>1, <1>2, <1>5, <3>2
  <2>5. MovedOn(pn) = <<c + x + 1, y>>
    <3> HIDE DEF x, y
    <3>1. pn.at[1] = c + x /\ pn.at[2] = y /\ pn.columns[2] = c + w - 1
      BY <1>3
    <3> QED BY <1>2, <1>5, <3>1 DEF MovedOn
  <2>6. PlaceAfter(c, w, k, n + 1) = <<c + (x + 1), y>>
    BY <2>1, <2>3, <2>4 DEF PlaceAfter
  <2>7. c + x + 1 = c + (x + 1)
    <3> HIDE DEF x
    <3> QED BY <1>2
  <2> QED BY <2>5, <2>6, <2>7
<1>6. CASE x = w - 1
  <2>1. n + 1 = w * (y + 1)
    <3> HIDE DEF x, y
    <3>1. w * (y + 1) = w * y + w /\ w * y \in Int
      BY <1>2
    <3> QED BY <1>1, <1>2, <1>6, <3>1
  <2>2. (n + 1) \div w = y + 1 /\ (n + 1) % w = 0
    <3>1. n + 1 \in Int /\ n + 1 \in w * (y + 1) .. w * (y + 1) + w - 1 /\ y + 1 \in Int
      <4> HIDE DEF x, y
      <4> QED BY <1>1, <1>2, <2>1
    <3>2. (n + 1) \div w = y + 1
      <4> HIDE DEF x, y
      <4> QED BY <3>1, DivIs
    <3>3. n + 1 = w * ((n + 1) \div w) + ((n + 1) % w) /\ (n + 1) % w \in Int
      BY <3>1, DivMod
    <3> HIDE DEF x, y
    <3>4. w * (y + 1) \in Int
      BY <3>1
    <3> QED BY <2>1, <3>2, <3>3, <3>4
  <2>3. n + 1 < w * k <=> y < k - 1
    <3> HIDE DEF x, y
    <3>1. CASE y < k - 1
      <4>1. k - 2 - y \in Nat
        BY <1>2, <3>1
      <4>2. w * (k - 2 - y) \in Nat /\ w * k = w * (y + 1) + w + w * (k - 2 - y)
        BY <1>2, <4>1
      <4> QED BY <1>1, <2>1, <3>1, <4>2
    <3>2. CASE y = k - 1
      BY <1>1, <2>1, <3>2
    <3> QED BY <1>4, <3>1, <3>2
  <2>4. MovedOn(pn) = IF y < k - 1 THEN <<c, y + 1>> ELSE <<c, 0>>
    <3> HIDE DEF x, y
    <3>1. pn.at[1] = c + x /\ pn.at[2] = y /\ pn.columns[2] = c + w - 1
          /\ pn.columns[1] = c /\ pn.pages[1] = 0 /\ pn.pages[2] = k - 1
      BY <1>3
    <3> QED BY <1>2, <1>6, <3>1 DEF MovedOn
  <2> QED BY <2>2, <2>3, <2>4 DEF PlaceAfter
<1> QED BY <1>2, <1>5, <1>6

(* A place in the window is reached after as many bytes as its number. *)
LEMMA PlaceIs ==
    ASSUME NEW c \in Nat, NEW w \in Nat \ {0}, NEW k \in Nat \ {0},
           NEW n \in 0 .. w * k - 1, NEW a \in Int \X Int,
           a[1] \in c .. c + w - 1
    PROVE  Nth(c, w, a) = n <=> a = PlaceAfter(c, w, k, n)
<1> DEFINE x == a[1]
           y == a[2]
           m == n % w
           d == n \div w
<1>1. a = <<x, y>> /\ x \in c .. c + w - 1 /\ y \in Int
  OBVIOUS
<1>2. w * k \in Nat /\ n \in Int /\ n < w * k
  OBVIOUS
<1>3. m \in 0 .. w - 1 /\ d \in Int /\ n = w * d + m
  <2>1. w \in Nat \ {0}
    OBVIOUS
  <2>2. m \in 0 .. w - 1 /\ d \in Int /\ n = w * (n \div w) + (n % w)
    BY ONLY <1>2, <2>1, DivMod
  <2> QED BY ONLY <2>2
<1>4. PlaceAfter(c, w, k, n) = <<c + m, d>>
  BY <1>2 DEF PlaceAfter
<1>5. Nth(c, w, a) = x - c + w * y
  BY DEF Nth
<1>6. w * y \in Int /\ w * d \in Int
  <2> HIDE DEF y, d
  <2> QED BY <1>1, <1>3
<1>7. d = y <=> n \in w * y .. w * y + w - 1
  <2>1. w \in Nat \ {0}
    OBVIOUS
  <2> QED BY ONLY <1>1, <1>2, <2>1, DivIs
<1> HIDE DEF x, y, m, d
<1>8. CASE d = y
  BY <1>1, <1>3, <1>4, <1>5, <1>6, <1>8
<1>9. CASE d # y
  <2>1. a # <<c + m, d>>
    BY <1>1, <1>9
  <2>2. n # x - c + w * y
    BY <1>1, <1>2, <1>6, <1>7, <1>9
  <2> QED BY <1>4, <1>5, <2>1, <2>2
<1> QED BY <1>8, <1>9

(* The place stays in the window. *)
LEMMA PlaceInWindow ==
    ASSUME NEW c \in Nat, NEW w \in Nat \ {0}, NEW k \in Nat \ {0},
           NEW n \in 0 .. w * k - 1
    PROVE  PlaceAfter(c, w, k, n) \in (c .. c + w - 1) \X (0 .. k - 1)
<1> DEFINE x == n % w
           y == n \div w
<1>1. w * k \in Nat /\ n \in Nat /\ n < w * k
  OBVIOUS
<1>2. x \in 0 .. w - 1 /\ y \in Int /\ n = w * y + x
  <2>1. n \in Int /\ w \in Nat \ {0}
    BY <1>1
  <2>2. x \in 0 .. w - 1 /\ y \in Int /\ n = w * (n \div w) + (n % w)
    BY ONLY <2>1, DivMod
  <2> QED BY ONLY <2>2
<1>3. PlaceAfter(c, w, k, n) = <<c + x, y>>
  BY <1>1 DEF PlaceAfter
<1> HIDE DEF x, y
<1>4. w * y \in Int
  BY <1>2
<1>5. ~(y < 0)
  <2> SUFFICES ASSUME y < 0 PROVE FALSE
    OBVIOUS
  <2>1. -1 - y \in Nat
    BY <1>2
  <2>2. w * (-1 - y) \in Nat /\ w * y = - w - w * (-1 - y)
    BY <1>2, <2>1
  <2> QED BY <1>1, <1>2, <1>4, <2>2
<1>6. ~(y >= k)
  <2> SUFFICES ASSUME y >= k PROVE FALSE
    OBVIOUS
  <2>1. y - k \in Nat
    BY <1>2
  <2>2. w * (y - k) \in Nat /\ w * y = w * k + w * (y - k)
    BY <1>2, <2>1
  <2> QED BY <1>1, <1>2, <1>4, <2>2
<1> QED BY <1>2, <1>3, <1>5, <1>6

Written(ram, a, byte) == [ram EXCEPT ![a] = byte]

(* What one more byte leaves. *)
LEMMA RamMoves ==
    ASSUME NEW ram, NEW data, NEW c \in Nat, NEW w \in Nat \ {0},
           NEW k \in Nat \ {0}, c + w <= PANEL_WIDTH, k <= PANEL_PAGES,
           NEW n \in 0 .. w * k - 1
    PROVE  Written(RamAfter(ram, data, c, w, n), PlaceAfter(c, w, k, n), data[n + 1])
              = RamAfter(ram, data, c, w, n + 1)
<1> DEFINE place == PlaceAfter(c, w, k, n)
           before == RamAfter(ram, data, c, w, n)
           after == RamAfter(ram, data, c, w, n + 1)
<1>1. n \in Nat
  OBVIOUS
<1>2. place \in (c .. c + w - 1) \X (0 .. k - 1)
  BY PlaceInWindow
<1>3. PANEL_WIDTH \in Nat /\ PANEL_PAGES \in Nat
  BY DisplayAssumption
<1>4. DOMAIN before = Cells /\ DOMAIN after = Cells
  BY DEF RamAfter
<1>5. ASSUME NEW a \in Cells
      PROVE  after[a] = IF a = place THEN data[n + 1] ELSE before[a]
  <2>1. a \in Int \X Int
    BY <1>3 DEF Cells
  <2>2. after[a] = IF a[1] \in c .. c + w - 1 /\ Nth(c, w, a) \in 0 .. (n + 1) - 1
                   THEN data[Nth(c, w, a) + 1] ELSE ram[a]
    BY DEF RamAfter
  <2>3. before[a] = IF a[1] \in c .. c + w - 1 /\ Nth(c, w, a) \in 0 .. n - 1
                    THEN data[Nth(c, w, a) + 1] ELSE ram[a]
    BY DEF RamAfter
  <2>4. CASE a[1] \in c .. c + w - 1
    <3>1. Nth(c, w, a) = n <=> a = place
      BY <2>1, <2>4, PlaceIs
    <3>2. Nth(c, w, a) \in 0 .. (n + 1) - 1
             <=> Nth(c, w, a) \in 0 .. n - 1 \/ Nth(c, w, a) = n
      BY <1>1
    <3>3. a = place => ~(Nth(c, w, a) \in 0 .. n - 1)
      BY <1>1, <3>1
    <3> HIDE DEF place
    <3> QED BY <2>2, <2>3, <2>4, <3>1, <3>2, <3>3
  <2>5. CASE ~(a[1] \in c .. c + w - 1)
    BY <1>2, <2>2, <2>3, <2>5
  <2> QED BY <2>4, <2>5
<1> HIDE DEF before, place
<1>6. after = [a \in Cells |-> IF a = place THEN data[n + 1] ELSE before[a]]
  <2>1. after = [a \in Cells |-> after[a]]
    BY DEF RamAfter
  <2> HIDE DEF after
  <2> QED BY <1>5, <2>1
<1>7. [before EXCEPT ![place] = data[n + 1]]
         = [a \in Cells |-> IF a = place THEN data[n + 1] ELSE before[a]]
  BY <1>4
<1> QED BY <1>6, <1>7 DEF before, place, Written

(* The same of the whole panel. *)
LEMMA PanelMoves ==
    ASSUME NEW pn, NEW c \in Nat, NEW w \in Nat \ {0}, NEW k \in Nat \ {0},
           AtCorner(pn, c, w, k), NEW data, NEW n \in 0 .. w * k - 1
    PROVE  Put(data[n + 1], PanelAfter(pn, data, c, w, k, n))
              = PanelAfter(pn, data, c, w, k, n + 1)
<1> DEFINE before == PanelAfter(pn, data, c, w, k, n)
<1>1. /\ pn \in Panel /\ c \in Nat /\ w \in Nat \ {0} /\ k \in Nat \ {0}
      /\ c + w <= PANEL_WIDTH /\ k <= PANEL_PAGES
      /\ pn.columns = <<c, c + w - 1>> /\ pn.pages = <<0, k - 1>>
  BY DEF AtCorner
<1>2. /\ before.at = PlaceAfter(c, w, k, n) /\ before.columns = pn.columns
      /\ before.pages = pn.pages /\ before.ram = RamAfter(pn.ram, data, c, w, n)
  BY <1>1 DEF PanelAfter, Panel
<1>3. MovedOn(before) = PlaceAfter(c, w, k, n + 1)
  <2>1. /\ before.columns = <<c, c + w - 1>> /\ before.pages = <<0, k - 1>>
        /\ before.at = PlaceAfter(c, w, k, n)
    BY <1>1, <1>2
  <2> HIDE DEF before
  <2> QED BY <2>1, PlaceMoves
<1>4. [before.ram EXCEPT ![before.at] = data[n + 1]] = RamAfter(pn.ram, data, c, w, n + 1)
  <2>1. Written(RamAfter(pn.ram, data, c, w, n), PlaceAfter(c, w, k, n), data[n + 1])
           = RamAfter(pn.ram, data, c, w, n + 1)
    <3>1. c + w <= PANEL_WIDTH /\ k <= PANEL_PAGES
      BY <1>1
    <3> QED BY <3>1, RamMoves
  <2> HIDE DEF before
  <2> QED BY <1>2, <2>1 DEF Written
<1>5. Put(data[n + 1], before)
         = [before EXCEPT !.ram = [before.ram EXCEPT ![before.at] = data[n + 1]],
                          !.at = MovedOn(before)]
  BY <1>1 DEF Put, PanelAfter, Panel
<1> QED BY <1>1, <1>3, <1>4, <1>5 DEF PanelAfter, Panel

(* The panel after each number of bytes, as Received defines it. *)
IsTransfer(pn, data, f) ==
    f = [n \in 0 .. Len(data) |-> IF n = 0 THEN pn ELSE Put(data[n], f[n - 1])]

LEMMA TransferUnfolds ==
    ASSUME NEW pn, NEW data, NEW g, IsTransfer(pn, data, g)
    PROVE  \E f : IsTransfer(pn, data, f) /\ Received(pn, data) = f[Len(data)]
BY DEF Received, IsTransfer, Put

LEMMA TransferStep ==
    ASSUME NEW pn, NEW data, NEW f, IsTransfer(pn, data, f), NEW n \in 0 .. Len(data)
    PROVE  f[n] = IF n = 0 THEN pn ELSE Put(data[n], f[n - 1])
<1> DEFINE F == [m \in 0 .. Len(data) |-> IF m = 0 THEN pn ELSE Put(data[m], f[m - 1])]
<1>1. f = F
  BY Zenon DEF IsTransfer
<1>2. F[n] = IF n = 0 THEN pn ELSE Put(data[n], f[n - 1])
  OBVIOUS
<1> HIDE DEF F
<1> QED BY <1>1, <1>2

(* Before the first byte. *)
LEMMA PanelStarts ==
    ASSUME NEW pn, NEW c \in Nat, NEW w \in Nat \ {0}, NEW k \in Nat \ {0},
           AtCorner(pn, c, w, k), NEW data
    PROVE  PanelAfter(pn, data, c, w, k, 0) = pn
<1>1. pn \in Panel /\ pn.at = <<c, 0>>
  BY DEF AtCorner
<1>2. w * k \in Nat /\ w * k > 0
  OBVIOUS
<1>3. PlaceAfter(c, w, k, 0) = <<c, 0>>
  <2>1. 0 % w = 0 /\ 0 \div w = 0 /\ c + 0 = c
    OBVIOUS
  <2> QED BY <1>2, <2>1 DEF PlaceAfter
<1>4. RamAfter(pn.ram, data, c, w, 0) = pn.ram
  <2>1. pn.ram = [a \in Cells |-> pn.ram[a]]
    BY <1>1 DEF Panel
  <2>2. 0 .. 0 - 1 = {}
    OBVIOUS
  <2> QED BY <2>1, <2>2 DEF RamAfter
<1> QED BY <1>1, <1>3, <1>4 DEF PanelAfter, Panel

(* A transfer into a window leaves the memory and the place that its       *)
(* number of bytes says.                                                   *)
LEMMA ReceivedIs ==
    ASSUME NEW pn, NEW c \in Nat, NEW w \in Nat \ {0}, NEW k \in Nat \ {0},
           AtCorner(pn, c, w, k), NEW data, Len(data) \in 0 .. w * k
    PROVE  Received(pn, data) = PanelAfter(pn, data, c, w, k, Len(data))
<1> DEFINE L == Len(data)
           After(n) == PanelAfter(pn, data, c, w, k, n)
<1>1. L \in Nat
  OBVIOUS
<1>2. After(0) = pn
  BY PanelStarts
<1>3. ASSUME NEW n \in 1 .. L
      PROVE  After(n) = Put(data[n], After(n - 1))
  <2>1. n - 1 \in 0 .. w * k - 1 /\ (n - 1) + 1 = n
    OBVIOUS
  <2>2. \A m \in 0 .. w * k - 1 : Put(data[m + 1], After(m)) = After(m + 1)
    BY PanelMoves
  <2> HIDE DEF After
  <2> QED BY <2>1, <2>2
<1> HIDE DEF L, After
<1> DEFINE g == [n \in 0 .. L |-> After(n)]
<1>4. IsTransfer(pn, data, g)
  <2>1. \A n \in 0 .. L : g[n] = IF n = 0 THEN pn ELSE Put(data[n], g[n - 1])
    <3> SUFFICES ASSUME NEW n \in 0 .. L
                 PROVE  After(n) = IF n = 0 THEN pn ELSE Put(data[n], g[n - 1])
      OBVIOUS
    <3>1. CASE n = 0
      BY <1>2, <3>1
    <3>2. CASE n # 0
      <4>1. n \in 1 .. L /\ n - 1 \in 0 .. L
        BY <1>1, <3>2
      <4>2. g[n - 1] = After(n - 1)
        BY <4>1
      <4> HIDE DEF g
      <4> QED BY <1>3, <3>2, <4>1, <4>2
    <3> QED BY <3>1, <3>2
  <2>2. g = [n \in 0 .. L |-> g[n]]
    OBVIOUS
  <2> HIDE DEF g
  <2>3. g = [n \in 0 .. L |-> IF n = 0 THEN pn ELSE Put(data[n], g[n - 1])]
    BY <2>1, <2>2
  <2> QED BY <2>3, Zenon DEF IsTransfer, L
<1>5. PICK f : IsTransfer(pn, data, f) /\ Received(pn, data) = f[L]
  <2> HIDE DEF g
  <2> QED BY <1>4, TransferUnfolds DEF L
<1>6. \A n \in 0 .. L : f[n] = After(n)
  <2> DEFINE Bad == {n \in 0 .. L : f[n] # After(n)}
  <2> SUFFICES ASSUME Bad # {} PROVE FALSE
    OBVIOUS
  <2>1. PICK m \in Bad : \A n \in Bad : m <= n
    <3>1. Bad \subseteq Nat
      BY <1>1
    <3> HIDE DEF Bad
    <3> QED BY <3>1, SmallestExists
  <2>2. m \in 0 .. L /\ f[m] # After(m)
    BY <2>1
  <2>3. f[m] = IF m = 0 THEN pn ELSE Put(data[m], f[m - 1])
    BY <1>5, <2>2, TransferStep DEF L
  <2>4. m # 0
    BY <1>2, <2>2, <2>3
  <2>5. m \in 1 .. L /\ m - 1 \in 0 .. L /\ m - 1 < m
    BY <1>1, <2>2, <2>4
  <2>6. f[m - 1] = After(m - 1)
    BY <1>1, <2>1, <2>5
  <2> HIDE DEF Bad
  <2> QED BY <1>3, <2>2, <2>3, <2>4, <2>5, <2>6
<1>7. f[L] = After(L)
  BY <1>1, <1>6
<1> QED BY <1>5, <1>7 DEF After, L

-----------------------------------------------------------------------------
(* The panel holds what was shown. *)

Lit(q) == q[2] % 8 \in panel.ram[FirstColumn + q[1], q[2] \div 8]

Holding ==
    /\ panel \in Panel
    /\ ~Initialized => shown = NotShown
    /\ LinesForward =>
          (shown.complete => \A q \in Screen : /\ q \in shown.picture.sure => Lit(q)
                                               /\ Lit(q) => q \in shown.picture.maybe)

DisplayInv == Buffered /\ Holding

LEMMA PowerUpTyped == PowerUp \in Panel /\ Confused \in Panel
<1>1. PANEL_WIDTH \in Nat /\ PANEL_PAGES \in Nat
  BY DisplayAssumption
<1>2. /\ <<0, PANEL_WIDTH - 1>> \in Points /\ <<0, PANEL_PAGES - 1>> \in Points
      /\ <<0, 0>> \in Points
  BY <1>1 DEF Points
<1>3. PowerUp \in Panel
  BY <1>2 DEF PowerUp, Panel, Cells, Byte8, Noise
<1> QED BY <1>3 DEF Confused, Panel

(* The part of the controller's memory that is behind the glass. *)
LEMMA WindowIs ==
    ASSUME Glassy, Initialized, panel \in Panel
    PROVE  /\ FirstColumn \in Nat /\ p.width \in Nat \ {0} /\ p.height \div 8 \in Nat \ {0}
           /\ AtCorner(Window(panel), FirstColumn, p.width, p.height \div 8)
<1>1. p \in Screens /\ p.width \in Nat \ {0} /\ p.height \in Nat \ {0}
      /\ p.height % 8 = 0
  BY GlassIs DEF Glass
<1>2. p.height \div 8 \in Nat \ {0} /\ p.height \div 8 <= PANEL_PAGES
  BY <1>1, DisplayAssumption
<1>3. FirstColumn \in Nat /\ FirstColumn + p.width <= PANEL_WIDTH
  BY <1>1, DisplayAssumption DEF FirstColumn, FirstColumnOf
<1>4. /\ Window(panel).columns = <<FirstColumn, FirstColumn + p.width - 1>>
      /\ Window(panel).pages = <<0, p.height \div 8 - 1>>
      /\ Window(panel).at = <<FirstColumn, 0>>
  BY DEF Window, Addressed, Panel
<1>5. Window(panel) \in Panel
  <2>1. /\ <<FirstColumn, FirstColumn + p.width - 1>> \in Points
        /\ <<0, p.height \div 8 - 1>> \in Points
        /\ <<FirstColumn, 0>> \in Points
    BY <1>1, <1>2, <1>3 DEF Points
  <2>2. Window(panel) = [panel EXCEPT
            !.columns = <<FirstColumn, FirstColumn + p.width - 1>>,
            !.pages = <<0, p.height \div 8 - 1>>, !.at = <<FirstColumn, 0>>]
    BY DEF Window, Addressed
  <2> QED BY <2>1, <2>2 DEF Panel
<1> QED BY <1>1, <1>2, <1>3, <1>4, <1>5 DEF AtCorner

(* A transfer leaves a panel. *)
LEMMA AfterTyped ==
    ASSUME NEW pn, NEW c \in Nat, NEW w \in Nat \ {0}, NEW k \in Nat \ {0},
           AtCorner(pn, c, w, k), NEW data \in Seq(Byte8), NEW n \in 0 .. w * k,
           n = Len(data)
    PROVE  PanelAfter(pn, data, c, w, k, n) \in Panel
<1>1. pn \in Panel
  BY DEF AtCorner
<1>2. n \in Nat
  OBVIOUS
<1>3. PlaceAfter(c, w, k, n) \in Points
  <2>1. n \div w \in Int /\ n % w \in Int
    BY <1>2, DivMod
  <2> QED BY <2>1 DEF PlaceAfter, Points
<1>4. RamAfter(pn.ram, data, c, w, n) \in [Cells -> Byte8]
  <2>1. pn.ram \in [Cells -> Byte8]
    BY <1>1 DEF Panel
  <2>2. ASSUME NEW a \in Cells, Nth(c, w, a) \in 0 .. n - 1
        PROVE  data[Nth(c, w, a) + 1] \in Byte8
    <3>1. Nth(c, w, a) + 1 \in 1 .. Len(data)
      BY <1>2, <2>2
    <3> QED BY <3>1
  <2> QED BY <2>1, <2>2 DEF RamAfter
<1> QED BY <1>1, <1>3, <1>4 DEF PanelAfter, Panel

(* The cell behind a point of the glass. *)
BehindGlass(c, q) == <<c + q[1], q[2] \div 8>>

(* What a complete transfer leaves behind a point of the glass. *)
LEMMA AfterIs ==
    ASSUME NEW pn, NEW data, NEW c \in Nat, NEW n \in Nat, NEW q \in Screen,
           p \in Glass, p.height % 8 = 0, n = Bytes, 
           c + p.width <= PANEL_WIDTH, p.height \div 8 <= PANEL_PAGES
    PROVE  RamAfter(pn.ram, data, c, p.width, n)[BehindGlass(c, q)]
              = data[Byte(q) + 1]
<1> DEFINE a == BehindGlass(c, q)
<1>1. /\ q[1] \in 0 .. p.width - 1 /\ q[2] \div 8 \in 0 .. p.height \div 8 - 1
      /\ Byte(q) \in 0 .. Bytes - 1
  <2>1. q[1] \in 0 .. p.width - 1
    BY DEF Screen, Box, Glass
  <2> QED BY <2>1, PlaceOfPoint
<1>2. p.width \in Nat /\ p.height \div 8 \in Nat
      /\ a = <<c + q[1], q[2] \div 8>>
  BY DEF Glass, BehindGlass
<1> HIDE DEF a
<1>3. a \in Cells
  <2>1. PANEL_WIDTH \in Nat /\ PANEL_PAGES \in Nat
    BY DisplayAssumption
  <2> HIDE DEF Byte
  <2>2. c + q[1] \in 0 .. PANEL_WIDTH - 1
    BY <1>1, <1>2, <2>1
  <2>3. q[2] \div 8 \in 0 .. PANEL_PAGES - 1
    BY <1>1, <1>2, <2>1
  <2> QED BY <1>2, <2>2, <2>3 DEF Cells
<1>4. Nth(c, p.width, a) = Byte(q)
  <2>1. p.width * (q[2] \div 8) \in Int
    <3>1. q[2] \div 8 \in Int
      BY <1>1, <1>2
    <3> QED BY <1>2, <3>1
  <2>2. Nth(c, p.width, a) = (c + q[1]) - c + p.width * (q[2] \div 8)
    BY <1>2 DEF Nth
  <2>3. q[1] \in Int
    BY <1>1, <1>2
  <2> QED BY <2>1, <2>2, <2>3 DEF Byte
<1>5. a[1] \in c .. c + p.width - 1
  BY <1>1, <1>2
<1> QED BY <1>1, <1>3, <1>4, <1>5 DEF RamAfter, a

(* Bytes leave a panel wherever they go. *)
LEMMA PutTyped ==
    ASSUME NEW pn \in Panel, NEW byte \in Byte8
    PROVE  Put(byte, pn) \in Panel
<1>1. MovedOn(pn) \in Points
  BY DEF MovedOn, Panel, Points
<1>2. [pn.ram EXCEPT ![pn.at] = byte] \in [Cells -> Byte8]
  BY DEF Panel
<1>3. Put(byte, pn) = [pn EXCEPT !.ram = [pn.ram EXCEPT ![pn.at] = byte],
                                 !.at = MovedOn(pn)]
  BY DEF Put, Panel
<1> QED BY <1>1, <1>2, <1>3 DEF Panel

LEMMA ReceivedTyped ==
    ASSUME NEW pn \in Panel, NEW data \in Seq(Byte8)
    PROVE  Received(pn, data) \in Panel
<1> DEFINE L == Len(data)
           Step(f, n) == IF n = 0 THEN pn ELSE Put(data[n], f[n - 1])
           Upto(f, m) == f \in [0 .. m -> Panel] /\ \A n \in 0 .. m : f[n] = Step(f, n)
           Bad == {m \in 0 .. L : \A f : ~Upto(f, m)}
<1>1. L \in Nat /\ \A n \in 1 .. L : data[n] \in Byte8
  OBVIOUS
<1>2. Bad = {}
  <2> SUFFICES ASSUME Bad # {} PROVE FALSE
    OBVIOUS
  <2>1. PICK m \in Bad : \A n \in Bad : m <= n
    <3>1. Bad \subseteq Nat
      BY <1>1
    <3> HIDE DEF Bad
    <3> QED BY <3>1, SmallestExists
  <2>2. m \in 0 .. L /\ m \in Int
    BY <1>1, <2>1
  <2>3. m # 0
    <3> SUFFICES ASSUME m = 0 PROVE FALSE
      OBVIOUS
    <3>1. Upto([n \in 0 .. 0 |-> pn], 0)
      OBVIOUS
    <3> QED BY <2>1, <3>1
  <2>4. m - 1 \in 0 .. L /\ m - 1 \notin Bad /\ m \in 1 .. L
    <3>1. m - 1 \in 0 .. L /\ m \in 1 .. L /\ m - 1 < m
      BY <1>1, <2>2, <2>3
    <3> HIDE DEF Bad
    <3> QED BY <2>1, <2>2, <3>1
  <2>5. PICK f : Upto(f, m - 1)
    BY <2>4
  <2> DEFINE last == Put(data[m], f[m - 1])
             g == [n \in 0 .. m |-> IF n = m THEN last ELSE f[n]]
  <2>6. last \in Panel
    <3>1. f[m - 1] \in Panel
      BY <2>2, <2>4, <2>5
    <3> QED BY <1>1, <2>4, <3>1, PutTyped
  <2>7. g \in [0 .. m -> Panel]
    <3> HIDE DEF last
    <3>1. \A n \in 0 .. m : n # m => n \in 0 .. m - 1
      BY <2>2
    <3> QED BY <2>5, <2>6, <3>1
  <2>8. ASSUME NEW n \in 0 .. m PROVE g[n] = Step(g, n)
    <3>1. CASE n = m
      <4>1. m - 1 \in 0 .. m /\ m - 1 # m
        BY <2>2, <2>4
      <4>2. g[m - 1] = f[m - 1]
        BY <4>1
      <4>3. g[n] = Put(data[m], f[m - 1])
        BY <3>1
      <4> HIDE DEF g, last
      <4> QED BY <2>3, <3>1, <4>2, <4>3
    <3>2. CASE n # m
      <4>1. n \in 0 .. m - 1
        BY <2>2, <3>2
      <4>2. g[n] = f[n] /\ f[n] = Step(f, n)
        BY <2>5, <3>2, <4>1
      <4>3. n # 0 => g[n - 1] = f[n - 1]
        <5>1. n # 0 => n - 1 \in 0 .. m /\ n - 1 # m
          BY <2>2, <4>1
        <5> QED BY <5>1
      <4> HIDE DEF g
      <4> QED BY <4>2, <4>3
    <3> QED BY <3>1, <3>2
  <2> HIDE DEF g
  <2>9. Upto(g, m)
    BY <2>7, <2>8
  <2> QED BY <2>1, <2>9
<1>3. PICK g : Upto(g, L)
  <2>1. L \in 0 .. L
    BY <1>1
  <2> QED BY <1>2, <2>1
<1>4. IsTransfer(pn, data, g)
  <2>1. g = [n \in 0 .. L |-> g[n]] /\ \A n \in 0 .. L : g[n] = Step(g, n)
    BY <1>3
  <2>2. g = [n \in 0 .. L |-> Step(g, n)]
    BY <2>1
  <2> QED BY <2>2, Zenon DEF IsTransfer
<1>5. PICK f : IsTransfer(pn, data, f) /\ Received(pn, data) = f[L]
  BY <1>4, TransferUnfolds
<1>6. \A n \in 0 .. L : f[n] \in Panel
  <2> DEFINE Worse == {n \in 0 .. L : f[n] \notin Panel}
  <2> SUFFICES ASSUME Worse # {} PROVE FALSE
    OBVIOUS
  <2>1. PICK m \in Worse : \A n \in Worse : m <= n
    <3>1. Worse \subseteq Nat
      BY <1>1
    <3> HIDE DEF Worse
    <3> QED BY <3>1, SmallestExists
  <2>2. m \in 0 .. L /\ f[m] \notin Panel /\ m \in Int
    BY <1>1, <2>1
  <2>3. f[m] = IF m = 0 THEN pn ELSE Put(data[m], f[m - 1])
    BY <1>5, <2>2, TransferStep
  <2>4. m # 0
    BY <2>2, <2>3
  <2>5. m \in 1 .. L /\ m - 1 \in 0 .. L /\ m - 1 < m
    BY <1>1, <2>2, <2>4
  <2>6. f[m - 1] \in Panel
    BY <2>1, <2>2, <2>5
  <2> QED BY <1>1, <2>2, <2>3, <2>4, <2>5, <2>6, PutTyped
<1>7. L \in 0 .. L
  BY <1>1
<1> QED BY <1>5, <1>6, <1>7

(* A transfer that ends early forgets the picture, a complete one leaves   *)
(* the buffer's, and the buffer holds the plane.                           *)
LEMMA ShowKeeps ==
    ASSUME DisplayInv, NEW lost, NEW sent \in Nat, ssd1306_show(lost, sent)
    PROVE  Holding'
<1> DEFINE c == FirstColumn
           w == p.width
           k == p.height \div 8
           pn == Window(panel)
           addressed == AfterCommands(pn, 6, lost)
           filled == [buffer EXCEPT ![-1] = CONTROL_DATA]
           data == [i \in 1 .. sent - 1 |-> filled[i - 1]]
           complete == /\ lost = 0 /\ ~addressed.confused
                       /\ sent = Cardinality(DOMAIN buffer)
<1>1. /\ Initialized /\ p' = p /\ plane' = plane
      /\ sent <= Cardinality(DOMAIN buffer)
      /\ panel' = IF addressed.confused \/ sent = 0 \/ filled[-1] # CONTROL_DATA
                  THEN addressed ELSE Received(addressed, data)
      /\ shown' = IF complete
                  THEN [complete |-> TRUE, picture |-> plane] ELSE NotShown
  BY DEF ssd1306_show
<1>2. Glassy /\ panel \in Panel /\ buffer \in [-1 .. Bytes - 1 -> SUBSET (0 .. 7)]
  BY <1>1 DEF DisplayInv, Buffered, Holding
<1>3. c \in Nat /\ w \in Nat \ {0} /\ k \in Nat \ {0} /\ AtCorner(pn, c, w, k)
  BY <1>1, <1>2, WindowIs
<1>4. p \in Glass /\ p.height % 8 = 0
  BY <1>1, <1>2, GlassIs
<1> HIDE DEF c, w, k, pn
<1>5. Bytes = w * k /\ Bytes \in Nat
  <2>1. Bytes = w * k
    BY DEF Bytes, w, k
  <2> QED BY <1>3, <2>1
<1>6. filled \in [-1 .. Bytes - 1 -> Byte8] /\ filled[-1] = CONTROL_DATA
      /\ \A i \in 0 .. Bytes - 1 : filled[i] = buffer[i]
  BY <1>2, <1>5 DEF Byte8, CONTROL_DATA
<1>7. Cardinality(DOMAIN buffer) = Bytes + 1
  <2>1. DOMAIN buffer = -1 .. Bytes - 1
    BY <1>2
  <2>2. -1 \in Int /\ Bytes - 1 \in Int
    BY <1>5
  <2>3. Cardinality(-1 .. Bytes - 1)
           = IF -1 > Bytes - 1 THEN 0 ELSE (Bytes - 1) - (-1) + 1
    BY <2>2, FS_Interval
  <2> QED BY <1>5, <2>1, <2>3
<1>8. addressed \in Panel /\ (lost = 0 /\ ~addressed.confused => addressed = pn)
  <2>1. pn \in Panel /\ Confused \in Panel
    BY <1>3, PowerUpTyped DEF AtCorner
  <2>2. addressed \in {panel, Confused, pn}
    BY DEF AfterCommands
  <2>3. lost = 0 /\ ~addressed.confused => addressed = pn
    BY DEF AfterCommands
  <2> QED BY <1>2, <2>1, <2>2, <2>3
<1> HIDE DEF filled, addressed
<1>9. sent # 0 => /\ sent - 1 \in 0 .. Bytes
                  /\ data \in Seq(Byte8) /\ Len(data) = sent - 1
  <2> SUFFICES ASSUME sent # 0
               PROVE  /\ sent - 1 \in 0 .. Bytes
                      /\ data \in Seq(Byte8) /\ Len(data) = sent - 1
    OBVIOUS
  <2>1. sent - 1 \in 0 .. Bytes
    BY <1>1, <1>5, <1>7
  <2>2. \A i \in 1 .. sent - 1 : i - 1 \in -1 .. Bytes - 1
    BY <1>5, <2>1
  <2>3. \A i \in 1 .. sent - 1 : filled[i - 1] \in Byte8
    BY <1>6, <2>2
  <2>4. data \in [1 .. sent - 1 -> Byte8] /\ sent - 1 \in Nat
    BY <1>5, <2>1, <2>3
  <2> HIDE DEF data
  <2> QED BY <2>1, <2>4, SeqDef
<1>10. panel' \in Panel
  <2> HIDE DEF data
  <2>1. CASE addressed.confused \/ sent = 0
    BY <1>1, <1>8, <2>1
  <2>2. CASE ~addressed.confused /\ sent # 0
    <3>1. panel' = Received(addressed, data)
      BY <1>1, <1>6, <2>2
    <3> QED BY <1>8, <1>9, <2>2, <3>1, ReceivedTyped
  <2> QED BY <2>1, <2>2
<1>11. CASE ~complete
  <2>1. shown' = NotShown
    BY <1>1, <1>11
  <2> QED BY <1>10, <2>1 DEF Holding, NotShown
<1>12. CASE complete
  <2>1. shown' = [complete |-> TRUE, picture |-> plane] /\ sent - 1 = Bytes /\ sent # 0
    BY <1>1, <1>5, <1>7, <1>12
  <2>2. panel' = Received(pn, data)
    BY <1>1, <1>6, <1>8, <1>12, <2>1
  <2>3. data \in Seq(Byte8) /\ Len(data) = Bytes
    BY <1>9, <2>1
  <2>4. \A i \in 1 .. sent - 1 : data[i] = filled[i - 1]
    OBVIOUS
  <2> HIDE DEF data, complete
  <2>5. Received(pn, data) = PanelAfter(pn, data, c, w, k, Bytes)
    <3>1. Len(data) \in 0 .. w * k
      BY <1>5, <2>3
    <3>2. Received(pn, data) = PanelAfter(pn, data, c, w, k, Len(data))
      BY <1>3, <3>1, ReceivedIs
    <3> QED BY <2>3, <3>2
  <2>6. ASSUME NEW q \in Screen PROVE Lit(q)' <=> Stored(q)
    <3>1. Byte(q) \in 0 .. Bytes - 1
      BY <1>4, PlaceOfPoint
    <3>2. panel'.ram = RamAfter(pn.ram, data, c, w, Bytes)
      BY <1>3, <2>2, <2>5 DEF PanelAfter, AtCorner, Panel
    <3>3. c + p.width <= PANEL_WIDTH /\ p.height \div 8 <= PANEL_PAGES
      BY <1>3 DEF AtCorner, w, k
    <3>4. panel'.ram[c + q[1], q[2] \div 8] = data[Byte(q) + 1]
      <4>1. c \in Nat /\ Bytes \in Nat
        BY <1>3, <1>5
      <4>2. RamAfter(pn.ram, data, c, p.width, Bytes)[BehindGlass(c, q)]
               = data[Byte(q) + 1]
        BY <1>4, <3>3, <4>1, AfterIs
      <4> QED BY <3>2, <4>2 DEF w, BehindGlass
    <3>5. data[Byte(q) + 1] = buffer[Byte(q)]
      <4>1. Byte(q) + 1 \in 1 .. sent - 1 /\ (Byte(q) + 1) - 1 = Byte(q)
        BY <1>5, <2>1, <3>1
      <4>2. data[Byte(q) + 1] = filled[(Byte(q) + 1) - 1]
        BY <2>4, <4>1
      <4> QED BY <1>6, <3>1, <4>1, <4>2
    <3>6. Stored(q) <=> q[2] % 8 \in buffer[Byte(q)]
      BY DEF Stored, Byte
    <3>7. Lit(q)' <=> q[2] % 8 \in panel'.ram[c + q[1], q[2] \div 8]
      BY <1>1 DEF Lit, FirstColumn, c
    <3> QED BY <3>4, <3>5, <3>6, <3>7
  <2>7. ASSUME LinesForward, NEW q \in Screen'
        PROVE  /\ q \in shown'.picture.sure => Lit(q)'
               /\ Lit(q)' => q \in shown'.picture.maybe
    <3>1. q \in Screen
      BY <1>1 DEF Screen
    <3>2. /\ q \in plane.sure => Stored(q)
          /\ Stored(q) => q \in plane.maybe
      BY <2>7, <3>1 DEF DisplayInv, Buffered, CroppedPlane
    <3> QED BY <2>1, <2>6, <3>1, <3>2
  <2>8. Initialized'
    BY <1>1 DEF Initialized
  <2> QED BY <1>10, <2>7, <2>8 DEF Holding
<1> QED BY <1>11, <1>12

LEMMA HoldingStep ==
    ASSUME DisplayInv, [Next]_displayVars
    PROVE  Holding'
<1>1. ASSUME NEW s \in Screens, NEW lost, ssd1306_init(s, lost) PROVE Holding'
  <2>1. shown' = NotShown
    BY <1>1 DEF ssd1306_init, DisplayInv, Holding, Initialized
  <2>2. panel' = Confused \/ panel' = [panel EXCEPT !.on = TRUE, !.inverse = FALSE]
    BY <1>1 DEF ssd1306_init
  <2>3. panel' \in Panel
    BY <2>2, PowerUpTyped DEF DisplayInv, Holding, Panel
  <2> QED BY <2>1, <2>3 DEF Holding, NotShown
<1>2. CASE UNCHANGED <<p, panel, shown>>
  BY <1>2 DEF DisplayInv, Holding, Initialized, Lit, FirstColumn, Screen
<1>3. ASSUME UNCHANGED <<p, shown>>, panel' \in Panel, panel'.ram = panel.ram
      PROVE  Holding'
  BY <1>3 DEF DisplayInv, Holding, Initialized, Lit, FirstColumn, Screen
<1>4. ASSUME NEW pn \in Panel, pn.ram = panel.ram, NEW lost \in 0 .. 1,
             panel' = AfterCommands(pn, 1, lost), UNCHANGED <<p, shown>>
      PROVE  Holding'
  <2>1. panel' = panel \/ panel' = pn
    BY <1>4 DEF AfterCommands
  <2>2. panel \in Panel
    BY DEF DisplayInv, Holding
  <2> QED BY <1>3, <1>4, <2>1, <2>2
<1>5. ASSUME NEW on \in BOOLEAN, NEW lost \in 0 .. 1, ssd1306_power(on, lost)
      PROVE  Holding'
  <2> DEFINE pn == [panel EXCEPT !.on = on]
  <2>1. UNCHANGED <<p, shown>> /\ panel' = AfterCommands(pn, 1, lost)
    BY <1>5 DEF ssd1306_power
  <2>2. pn \in Panel /\ pn.ram = panel.ram
    BY DEF DisplayInv, Holding, Panel
  <2> HIDE DEF pn
  <2> QED BY <1>4, <2>1, <2>2
<1>6. ASSUME NEW inv \in 0 .. 2, NEW lost \in 0 .. 1, ssd1306_invert(inv, lost)
      PROVE  Holding'
  <2> DEFINE pn == [panel EXCEPT !.inverse = (inv % 2 = 1)]
  <2>1. UNCHANGED <<p, shown>> /\ panel' = AfterCommands(pn, 1, lost)
    BY <1>6 DEF ssd1306_invert
  <2>2. pn \in Panel /\ pn.ram = panel.ram
    BY DEF DisplayInv, Holding, Panel
  <2> HIDE DEF pn
  <2> QED BY <1>4, <2>1, <2>2
<1>7. ASSUME NEW lost, NEW sent \in Cuts \cup {Cardinality(DOMAIN buffer)},
             ssd1306_show(lost, sent)
      PROVE  Holding'
  <2>1. IsFiniteSet(DOMAIN buffer)
    <3>1. DOMAIN buffer = -1 .. Bytes - 1 /\ Bytes \in Int
      <4>1. Initialized
        BY <1>7 DEF ssd1306_show
      <4>2. p \in Glass
        BY <4>1, GlassIs DEF DisplayInv, Buffered
      <4>3. p.width \in Int /\ p.height \div 8 \in Int
        BY <4>2 DEF Glass
      <4>4. Bytes \in Int
        BY <4>3 DEF Bytes
      <4> QED BY <4>1, <4>4 DEF DisplayInv, Buffered
    <3>2. -1 \in Int /\ Bytes - 1 \in Int
      BY <3>1
    <3> QED BY <3>1, <3>2, FS_Interval
  <2>2. sent \in Nat
    BY <2>1, FS_CardinalityType, DisplayAssumption
  <2> QED BY <1>7, <2>2, ShowKeeps
<1>8. CASE Drawing
  BY <1>2, <1>8 DEF Drawing, Drawn, Cleared, ssd1306_draw_line, ssd1306_draw_square,
       ssd1306_draw_empty_square, clear_rect, ssd1306_draw_string,
       ssd1306_bmp_show_image, ssd1306_clear
<1> QED BY <1>1, <1>2, <1>5, <1>6, <1>7, <1>8 DEF Next, displayVars

LEMMA DisplayStarts == Init => DisplayInv
<1> SUFFICES ASSUME Init PROVE DisplayInv
  OBVIOUS
<1>1. p = NoDisplay /\ plane = Blank /\ shown = NotShown /\ panel = PowerUp
  BY DEF Init
<1>2. ~Initialized /\ Glassy /\ Screen = {}
  BY <1>1, GlassIs DEF Initialized, Glassy
<1> QED BY <1>1, <1>2, PowerUpTyped
        DEF DisplayInv, Buffered, Holding, CroppedPlane, NotShown

LEMMA DisplayIs == Spec => []DisplayInv
<1>1. DisplayInv /\ [Next]_displayVars => DisplayInv'
  BY BufferedStep, HoldingStep DEF DisplayInv
<1> QED BY <1>1, DisplayStarts, PTL DEF Spec

(* Whatever is drawn and cleared, in whatever order and however far beyond *)
(* the edges, and on whatever size of glass, the buffer holds the part of  *)
(* the picture that is on the screen, if no line goes to the left; a line  *)
(* above the top edge may come in again in row 0 and nowhere else.         *)
THEOREM DrawnAsDescribed ==
    ASSUME LinesForward
    PROVE  Spec => []CroppedPlane
<1>1. DisplayInv => CroppedPlane
  BY DEF DisplayInv, Buffered
<1> QED BY <1>1, DisplayIs, PTL

(* What the panel shows after a transfer of the buffer that is complete,   *)
(* its commands included, is the picture of that moment, whatever ended    *)
(* early before it and whatever commands were lost as a whole.             *)
THEOREM ShownAsDrawn ==
    ASSUME LinesForward
    PROVE  Spec => []PictureShown
<1>1. DisplayInv => PictureShown
  <2> SUFFICES ASSUME DisplayInv, shown.complete, panel.on, NEW q \in Screen
               PROVE  /\ q \in shown.picture.sure => (Glows(q) # panel.inverse)
                      /\ (Glows(q) # panel.inverse) => q \in shown.picture.maybe
    BY DEF PictureShown
  <2>1. /\ q \in shown.picture.sure => Lit(q)
        /\ Lit(q) => q \in shown.picture.maybe
    BY DEF DisplayInv, Holding
  <2> DEFINE bit == q[2] % 8
             byte == panel.ram[FirstColumn + q[1], q[2] \div 8]
             inverse == panel.inverse
  <2>2. Glows(q) = ((bit \in byte) # inverse) /\ inverse \in BOOLEAN
    <3>1. Glows(q) <=> ((bit \in byte) # inverse)
      BY DEF Glows
    <3>2. Glows(q) \in BOOLEAN
      BY DEF Glows
    <3>3. inverse \in BOOLEAN
      BY DEF DisplayInv, Holding, Panel
    <3> HIDE DEF bit, byte, inverse
    <3> QED BY <3>1, <3>2, <3>3
  <2>3. Lit(q) <=> bit \in byte
    BY DEF Lit
  <2> HIDE DEF bit, byte
  <2>4. (Glows(q) # inverse) <=> bit \in byte
    <3> HIDE DEF inverse
    <3>1. CASE inverse = TRUE
      BY <2>2, <3>1
    <3>2. CASE inverse = FALSE
      BY <2>2, <3>2
    <3> QED BY <2>2, <3>1, <3>2
  <2> QED BY <2>1, <2>3, <2>4
<1> QED BY <1>1, DisplayIs, PTL

-----------------------------------------------------------------------------
(* Lines. *)

(* Where a line is on a row of the screen in one of its columns, and the   *)
(* place is the whole row, it has that row or the one above it.            *)
LEMMA LineHas ==
    ASSUME NEW l \in Ends, l.x1 < l.x2, NEW points \in LinePoints(l),
           NEW x \in l.x1 .. l.x2, NEW y \in Nat, Rise(l, x) = y * Across(l)
    PROVE  \E row \in {y, y - 1} : row >= 0 /\ <<x, row>> \in points
<1>1. l.x1 \in Int /\ l.x2 \in Int /\ x \in Int
  BY EndsTyped
<1>2. PICK low \in SUBSET Low(l), far \in SUBSET Undefined(l) :
         points = PointsOf(l, low, far)
  BY LinePointsAre
<1>3. Across(l) \in Nat \ {0} /\ Rise(l, x) \in Int
      /\ (Rise(l, x) >= 0 => Row(l, x) = Rise(l, x) \div Across(l))
  BY <1>1, RowIs
<1> DEFINE d == Across(l)
           a == Rise(l, x)
           row == Row(l, x)
<1>4. d \in Nat \ {0} /\ a = y * d /\ (a >= 0 => row = a \div d)
  BY <1>3
<1>5. (x \in far => a <= -d) /\ (x \in low => row > 0)
  BY DEF Low, Undefined
<1> HIDE DEF d, a, row
<1>6. a \in Nat
  BY <1>4
<1>7. row = y
  <2>1. d * y = y * d /\ d * y \in Nat
    BY <1>4
  <2>2. a \in d * y .. d * y + d - 1
    BY <1>4, <1>6, <2>1
  <2>3. a \div d = y
    BY <1>4, <1>6, <2>2, DivIs
  <2> QED BY <1>4, <1>6, <2>3
<1>8. x \in Columns(l) \ far
  <2>1. x \in Columns(l)
    BY DEF Columns
  <2> QED BY <1>4, <1>5, <1>6, <2>1
<1> DEFINE e == IF x \in low THEN 1 ELSE 0
<1>9. <<x, row - e>> \in points
  BY <1>2, <1>8 DEF row, PointsOf
<1>10. row - e \in {y, y - 1} /\ row - e >= 0
  BY <1>5, <1>7
<1> QED BY <1>9, <1>10

(* Both ends are such places. *)
LEMMA LineEnds ==
    ASSUME NEW l \in Ends, Forward(l), NEW points \in LinePoints(l),
           NEW end \in {<<l.x1, l.y1>>, <<l.x2, l.y2>>}, end[2] \in Nat
    PROVE  \E row \in {end[2], end[2] - 1} : row >= 0 /\ <<end[1], row>> \in points
<1>1. l.x1 \in Int /\ l.y1 \in Int /\ l.x2 \in Int /\ l.y2 \in Int
  BY EndsTyped
<1>2. CASE l.x1 = l.x2
  <2>1. points = {l.x1} \X (l.y1 .. l.y2)
    BY <1>1, <1>2, UprightPointsAre DEF Forward
  <2>2. <<end[1], end[2]>> \in points
    BY <1>1, <1>2, <2>1 DEF Forward
  <2> QED BY <2>2
<1>3. CASE l.x1 < l.x2
  <2>1. end[1] \in l.x1 .. l.x2
    BY <1>1, <1>3
  <2>2. Rise(l, end[1]) = end[2] * Across(l)
    <3>1. CASE end = <<l.x1, l.y1>>
      <4>1. (l.y2 - l.y1) * (l.x1 - l.x1) = 0 /\ l.y1 * Across(l) \in Int
        BY <1>1 DEF Across
      <4> QED BY <3>1, <4>1 DEF Rise
    <3>2. CASE end = <<l.x2, l.y2>>
      <4>1. Across(l) \in Int /\ Across(l) = l.x2 - l.x1
        BY <1>1 DEF Across
      <4> DEFINE d == Across(l)
      <4>2. Rise(l, l.x2) = l.y1 * d + (l.y2 - l.y1) * d
        BY <4>1 DEF Rise
      <4> HIDE DEF d
      <4>3. (l.y2 - l.y1) * d = l.y2 * d - l.y1 * d /\ l.y1 * d \in Int /\ l.y2 * d \in Int
        BY <1>1, <4>1 DEF d
      <4> QED BY <3>2, <4>2, <4>3 DEF d
    <3> QED BY <3>1, <3>2
  <2> QED BY <1>3, <2>1, <2>2, LineHas
<1> QED BY <1>1, <1>2, <1>3 DEF Forward

(* A line that goes to the right or down reaches both of its ends, and is  *)
(* at most one row above them, wherever else it leads.                     *)
THEOREM LinesReachEnds ==
    ASSUME LinesForward
    PROVE  Spec => LineReachesBothEnds
<1> DEFINE Reaches ==
      \A l \in Lines : (calls' # calls /\ ssd1306_draw_line(l)) =>
         \A end \in {<<l.x1, l.y1>>, <<l.x2, l.y2>>} \cap Screen :
            \E y \in {end[2], end[2] - 1} : y >= 0 /\ Stored(<<end[1], y>>)'
<1>1. DisplayInv => Reaches
  <2> SUFFICES ASSUME DisplayInv, NEW l \in Lines, ssd1306_draw_line(l),
                      NEW end \in {<<l.x1, l.y1>>, <<l.x2, l.y2>>} \cap Screen
               PROVE  \E y \in {end[2], end[2] - 1} : y >= 0 /\ Stored(<<end[1], y>>)'
    OBVIOUS
  <2>1. PICK points \in LinePoints(l) : Drawn(points, LineDescribed(l))
    BY DEF ssd1306_draw_line
  <2>2. l \in Ends /\ points \subseteq Points /\ Forward(l)
    BY LinesTyped, LineTyped DEF LinesForward, Forward
  <2>3. Initialized /\ p \in Glass /\ Buffered
    BY <2>1, GlassIs DEF Drawn, DisplayInv, Buffered
  <2>4. end[1] \in 0 .. p.width - 1 /\ end[2] \in 0 .. p.height - 1 /\ end[2] \in Nat
    BY <2>3 DEF Screen, Box, Glass
  <2>5. PICK y \in {end[2], end[2] - 1} : y >= 0 /\ <<end[1], y>> \in points
    BY <2>2, <2>4, LineEnds
  <2>6. <<end[1], y>> \in Screen
    BY <2>3, <2>4, <2>5 DEF Screen, Box, Glass
  <2>7. \A q \in Screen : Stored(q)' <=> Stored(q) \/ q \in points
    BY <2>1, <2>2, <2>3, DrawnStores DEF Drawn
  <2> DEFINE q == <<end[1], y>>
  <2> HIDE DEF q
  <2>8. Stored(q)'
    BY <2>5, <2>6, <2>7 DEF q
  <2> QED BY <2>5, <2>8 DEF q
<1>2. Spec => []DisplayInv
  BY DisplayIs
<1>3. Spec => [][Reaches]_displayVars
  BY <1>1, <1>2, PTL
<1> QED BY <1>3 DEF LineReachesBothEnds

-----------------------------------------------------------------------------
(* Memory: every stack is where its index says. *)

AddrOf(i) == IF i = 0 THEN TASK_STACK_BASE_N(3) ELSE TASK_STACK_BASE_N(i)
SizeOf(i) == IF i = 0 THEN MAIN_TASK_STACK_SIZE ELSE TASK_STACK_SIZE

PlacedOf(i) ==
    IF i \in Created
    THEN /\ stack_addr[i] = AddrOf(i)
         /\ stack_size[i] = SizeOf(i)
         /\ context[i] = 0 \/ context[i] = AddrOf(i) + SizeOf(i) - FRAME
    ELSE context[i] = 0

Placed == /\ stack_addr \in [TaskIndex -> Int]
          /\ stack_size \in [TaskIndex -> Int]
          /\ context \in [TaskIndex -> Int]
          /\ \A i \in TaskIndex : PlacedOf(i)

LEMMA PlaceKeeps ==
    ASSUME Placed, NEW i \in TaskIndex, Place(i, AddrOf(i), SizeOf(i))
    PROVE  Placed'
<1>1. AddrOf(i) \in Int /\ SizeOf(i) \in Int /\ SizeOf(i) > 0
  BY DEF AddrOf, SizeOf, TASK_STACK_BASE_N, TASK_STACK_BASE, TASK_STACK_SIZE,
         MAIN_TASK_STACK_BASE, MAIN_TASK_STACK_SIZE, INITIAL_STACK_BASE,
         INITIAL_STACK_SIZE, TaskIndex
<1>2. ASSUME NEW j \in TaskIndex PROVE PlacedOf(j)'
  BY <1>1, <1>2 DEF Placed, Place, PlacedOf, Created
<1> QED BY <1>1, <1>2 DEF Placed, Place

LEMMA PlacedStep == ASSUME Layout, Placed, [MemoryNext]_memoryVars PROVE Placed'
<1>1. CASE main
  <2>1. 0 \in TaskIndex /\ Place(0, AddrOf(0), SizeOf(0))
    BY <1>1 DEF main, AddrOf, SizeOf, TaskIndex, Layout
  <2> QED BY <2>1, PlaceKeeps
<1>2. CASE sk_create_task
  <2>1. PICK i \in TaskIndex : Place(i, TASK_STACK_BASE_N(i), TASK_STACK_SIZE)
    BY <1>2 DEF sk_create_task
  <2>2. Place(i, AddrOf(i), SizeOf(i))
    BY <1>2, <2>1 DEF sk_create_task, Place, AddrOf, SizeOf
  <2> QED BY <2>2, PlaceKeeps
<1>3. ASSUME NEW i \in TaskIndex, sk_start_task(i) PROVE Placed'
  <2>1. AddrOf(i) + SizeOf(i) - FRAME \in Int
    BY DEF AddrOf, SizeOf, TASK_STACK_BASE_N, TASK_STACK_BASE, TASK_STACK_SIZE,
           MAIN_TASK_STACK_BASE, MAIN_TASK_STACK_SIZE, INITIAL_STACK_BASE,
           INITIAL_STACK_SIZE, TaskIndex, FRAME
  <2>2. context' = [context EXCEPT ![i] = AddrOf(i) + SizeOf(i) - FRAME]
    BY <1>3 DEF sk_start_task, make_context, Placed, PlacedOf
  <2> QED BY <1>3, <2>1, <2>2 DEF sk_start_task, Placed, PlacedOf, Created
<1>4. CASE UNCHANGED taskVars
  BY <1>4 DEF taskVars, Placed, PlacedOf, Created
<1> QED BY <1>1, <1>2, <1>3, <1>4 DEF MemoryNext, memoryVars, _sbrk, _sbrk_grow

LEMMA PlacedImplies ==
    ASSUME Layout, Placed
    PROVE  /\ StacksApart
           /\ FramesInStacks
           /\ MainStackShared
           /\ \A i \in Created : TASK_STACK_UPPER_LIMIT <= stack_addr[i]
<1> USE DEF AddrOf, SizeOf, TASK_STACK_UPPER_LIMIT, TASK_STACK_BASE_N,
            TASK_STACK_BASE, TASK_STACK_SIZE, MAIN_TASK_STACK_BASE,
            MAIN_TASK_STACK_SIZE, INITIAL_STACK_BASE, INITIAL_STACK_SIZE, FRAME
<1>1. \A i \in Created : /\ i \in TaskIndex /\ i \in Int
                        /\ stack_addr[i] = AddrOf(i) /\ stack_size[i] = SizeOf(i)
                        /\ \/ context[i] = 0
                           \/ context[i] = AddrOf(i) + SizeOf(i) - FRAME
  BY DEF Placed, PlacedOf, Created, TaskIndex
<1>2. StacksApart
  BY <1>1 DEF StacksApart, Apart
<1>3. FramesInStacks
  BY <1>1 DEF FramesInStacks
<1>4. MainStackShared
  BY <1>1 DEF MainStackShared, Apart
<1>5. \A i \in Created : TASK_STACK_UPPER_LIMIT <= stack_addr[i]
  BY <1>1 DEF Layout, TaskIndex
<1> QED BY <1>2, <1>3, <1>4, <1>5

LEMMA InitPlaced == MemoryInit => Placed
BY DEF MemoryInit, Placed, PlacedOf, Created

(* Whatever tasks are created and started: the stacks that the kernel      *)
(* chooses are apart, and each task starts inside of its own.              *)
THEOREM StacksSeparate ==
    ASSUME Layout
    PROVE  MemorySpec => [](StacksApart /\ FramesInStacks)
<1>1. MemoryInit => Placed
  BY InitPlaced
<1>2. Placed /\ [MemoryNext]_memoryVars => Placed'
  BY PlacedStep
<1>3. Placed => StacksApart /\ FramesInStacks
  BY PlacedImplies
<1> QED BY <1>1, <1>2, <1>3, PTL DEF MemorySpec

(* The stack of the main task is not apart from those of the tasks with    *)
(* index 1, 2 and 3, although all of them may run at the same time.        *)
THEOREM MainStackNotSeparate ==
    ASSUME Layout
    PROVE  MemorySpec => []MainStackShared
<1>1. MemoryInit => Placed
  BY InitPlaced
<1>2. Placed /\ [MemoryNext]_memoryVars => Placed'
  BY PlacedStep
<1>3. Placed => MainStackShared
  BY PlacedImplies
<1> QED BY <1>1, <1>2, <1>3, PTL DEF MemorySpec

-----------------------------------------------------------------------------
(* The test of _sbrk holds until the heap grows. *)
Bounded ==
    /\ heap_end \in Int
    /\ heap_end <= TASK_STACK_UPPER_LIMIT
    /\ pc \in [Callers -> {"out", "tested"}]
    /\ asked \in [Callers -> Int]
    /\ \A c \in Callers : pc[c] = "tested" =>
                            heap_end + asked[c] <= TASK_STACK_UPPER_LIMIT

OneCaller == \A c, d \in Callers : c = d

LEMMA BoundedStep ==
    ASSUME Layout, OneCaller, Bounded, [MemoryNext]_memoryVars
    PROVE  Bounded'
<1>0. TASK_STACK_UPPER_LIMIT \in Int /\ Increments \subseteq Int
  BY DEF Layout, TASK_STACK_UPPER_LIMIT, TASK_STACK_BASE, TASK_STACK_SIZE,
         MAIN_TASK_STACK_BASE, MAIN_TASK_STACK_SIZE, INITIAL_STACK_BASE,
         INITIAL_STACK_SIZE
<1>1. ASSUME NEW c \in Callers, NEW incr \in Increments, _sbrk(c, incr)
      PROVE  Bounded'
  BY <1>0, <1>1 DEF _sbrk, Bounded
<1>2. ASSUME NEW c \in Callers, _sbrk_grow(c) PROVE Bounded'
  BY <1>0, <1>2 DEF _sbrk_grow, Bounded, OneCaller
<1>3. CASE UNCHANGED heapVars
  BY <1>3 DEF heapVars, Bounded
<1> QED BY <1>1, <1>2, <1>3 DEF MemoryNext, memoryVars, main, sk_create_task, sk_start_task,
                               Place

(* As long as one task at a time is in _sbrk the heap does not reach the   *)
(* stacks.  With two, the second may grow the heap between the first one's *)
(* test and its addition, and the limit is not kept.                       *)
THEOREM HeapKeepsOff ==
    ASSUME Layout, OneCaller
    PROVE  MemorySpec => []HeapBelowStacks
<1> DEFINE I == Placed /\ Bounded
<1>1. MemoryInit => I
  BY InitPlaced DEF MemoryInit, Bounded, Layout
<1>2. I /\ [MemoryNext]_memoryVars => I'
  BY PlacedStep, BoundedStep
<1>3. I => HeapBelowStacks
  BY PlacedImplies DEF Bounded, HeapBelowStacks
<1> QED BY <1>1, <1>2, <1>3, PTL DEF MemorySpec

-----------------------------------------------------------------------------
(* Clock: the counters against the ticks that have passed. *)

Counting ==
    /\ ticks \in Nat /\ global_counter \in Nat /\ global_seconds \in Nat
    /\ global_counter = ticks % WORD
    /\ tv_sec \in Nat /\ tv_sec <= global_seconds
    /\ ClockIsRight
    /\ ClockRunsAhead

LEMMA CountingStep == Counting /\ [ClockNext]_clockVars => Counting'
<1> SUFFICES ASSUME Counting, [ClockNext]_clockVars PROVE Counting'
  OBVIOUS
<1>1. CASE systimer_handler
  <2>1. /\ ticks' \in Nat /\ global_counter' \in Nat /\ global_seconds' \in Nat
        /\ tv_sec' \in Nat /\ tv_sec' <= global_seconds'
        /\ global_counter' = ticks' % WORD
    BY <1>1 DEF systimer_handler, Counting, WORD
  <2>2. ClockIsRight'
    BY <1>1 DEF systimer_handler, Counting, ClockIsRight, WORD, TICKS_PER_SECOND
  <2>3. ClockRunsAhead'
    BY <1>1 DEF systimer_handler, Counting, ClockIsRight, ClockRunsAhead, WORD,
                TICKS_PER_SECOND
  <2> QED BY <2>1, <2>2, <2>3 DEF Counting
<1>2. CASE _gettimeofday \/ UNCHANGED clockVars
  BY <1>2 DEF _gettimeofday, clockVars, Counting, ClockIsRight, ClockRunsAhead
<1> QED BY <1>1, <1>2 DEF ClockNext

LEMMA InitCounting == ClockInit => Counting
BY DEF ClockInit, Counting, ClockIsRight, ClockRunsAhead, WORD, TICKS_PER_SECOND

(* For every number of ticks: the clock is right until the counter wraps,  *)
(* and then four ticks ahead until it wraps again.                         *)
THEOREM SecondsCounted == ClockSpec => [](ClockIsRight /\ ClockRunsAhead)
<1>1. Counting => ClockIsRight /\ ClockRunsAhead
  BY DEF Counting
<1> QED BY <1>1, InitCounting, CountingStep, PTL DEF ClockSpec

(* Whatever the order of ticks and calls, no call of time() answers with   *)
(* an earlier second than the one before.                                  *)
THEOREM TimeNeverBack == ClockSpec => TimeIsMonotonic
<1>1. Counting /\ [ClockNext]_clockVars => [tv_sec <= tv_sec']_clockVars
  BY DEF Counting, ClockNext, systimer_handler, _gettimeofday
<1> QED BY <1>1, InitCounting, CountingStep, PTL DEF ClockSpec, TimeIsMonotonic
=============================================================================
