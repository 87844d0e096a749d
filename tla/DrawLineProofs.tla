--------------------------- MODULE DrawLineProofs ---------------------------
(***************************************************************************)
(* For registers of any width: every drawable line is walked inside the    *)
(* rectangle of its end points, next to the straight line, and nearer to   *)
(* its end with every cycle.  The argument is about the numbers i and j of *)
(* steps made in each direction and the error term e.                      *)
(***************************************************************************)
EXTENDS DrawLine, TLAPS

\* The error term a line of extent X, Y starts with.
Start0(X, Y) == (IF X > Y THEN X ELSE -Y) \div 2

\* After i steps in x and j steps in y.
Walk(i, j, e, X, Y) ==
  /\ i \in 0 .. X /\ j \in 0 .. Y
  /\ e \in Int
  /\ e = Start0(X, Y) + j * X - i * Y
  /\ X > Y => 0 <= e /\ e < X
  /\ X = 0 => e <= 0
  /\ 0 < X /\ X <= Y => -Y < e /\ e <= 0

-----------------------------------------------------------------------------
(* Arithmetic.                                                             *)

\* Two numbers in an interval of length X do not differ by a multiple of X.
LEMMA NoMultiple ==
  ASSUME NEW X \in Nat, NEW k \in Int, NEW d \in Int, d = k * X, -X < d, d < X
  PROVE  k = 0
<1>1. CASE k >= 1
  <2>1. PICK m \in Nat : k = m + 1
    BY <1>1, k - 1 \in Nat
  <2>2. k * X = m * X + X /\ m * X >= 0
    BY <2>1
  <2> QED BY <2>2
<1>2. CASE k <= -1
  <2>1. PICK m \in Nat : k = -m - 1
    BY <1>2, -k - 1 \in Nat
  <2>2. k * X = -(m * X) - X /\ m * X >= 0
    BY <2>1
  <2> QED BY <2>2
<1> QED BY <1>1, <1>2

LEMMA StartValue ==
  ASSUME NEW X \in Nat, NEW Y \in Nat
  PROVE  /\ Start0(X, Y) \in Int
         /\ X > Y => 0 <= Start0(X, Y) /\ Start0(X, Y) < X
         /\ X <= Y => -Y <= Start0(X, Y) /\ Start0(X, Y) <= 0
         /\ X <= Y /\ Y > 1 => -Y < Start0(X, Y)
BY DEF Start0

LEMMA WalkStart ==
  ASSUME NEW X \in Nat, NEW Y \in Nat, ~(X = 1 /\ Y = 1)
  PROVE  Walk(0, 0, Start0(X, Y), X, Y)
<1>1. 0 * X = 0 /\ 0 * Y = 0
  OBVIOUS
<1> QED BY <1>1, StartValue DEF Walk

\* A step in x alone is made before the last column, and only if X > Y.
LEMMA WalkX ==
  ASSUME NEW X \in Nat, NEW Y \in Nat, NEW i, NEW j, NEW e, Walk(i, j, e, X, Y),
         ~(i = X /\ j = Y), e >= Y
  PROVE  i < X /\ Walk(i + 1, j, e - Y, X, Y)
<1>1. X > Y /\ i \in Nat /\ j \in Nat /\ i <= X /\ j <= Y
  BY DEF Walk
<1>2. i # X
  <2> SUFFICES ASSUME i = X PROVE j = Y
    OBVIOUS
  <2>1. e - Start0(X, Y) = (j - Y) * X
    <3>1. (j - Y) * X = j * X - Y * X /\ i * Y = Y * X
      BY <1>1
    <3> QED BY <3>1, StartValue DEF Walk
  <2>2. -X < e - Start0(X, Y) /\ e - Start0(X, Y) < X
    BY <1>1, StartValue DEF Walk
  <2>3. j - Y = 0
    BY <1>1, <2>1, <2>2, NoMultiple, StartValue DEF Walk
  <2> QED BY <1>1, <2>3
<1>3. (i + 1) * Y = i * Y + Y
  BY <1>1
<1> QED BY <1>1, <1>2, <1>3, StartValue DEF Walk

\* A step in y alone is made before the last row.
LEMMA WalkY ==
  ASSUME NEW X \in Nat, NEW Y \in Nat, NEW i, NEW j, NEW e, Walk(i, j, e, X, Y),
         ~(i = X /\ j = Y), e < Y, e <= -X
  PROVE  j < Y /\ Walk(i, j + 1, e + X, X, Y)
<1>1. X <= Y /\ i \in Nat /\ j \in Nat /\ i <= X /\ j <= Y
  BY DEF Walk
<1>2. j # Y
  <2> SUFFICES ASSUME j = Y PROVE i = X
    OBVIOUS
  <2>1. CASE X = 0
    BY <1>1, <2>1
  <2>2. CASE X > 0
    <3>1. e - Start0(X, Y) = (X - i) * Y
      <4>1. (X - i) * Y = X * Y - i * Y /\ j * X = X * Y
        BY <1>1
      <4> QED BY <4>1, StartValue DEF Walk
    <3>2. -Y < e - Start0(X, Y) /\ e - Start0(X, Y) < Y
      BY <1>1, <2>2, StartValue DEF Walk
    <3>3. X - i = 0
      BY <1>1, <3>1, <3>2, NoMultiple, StartValue DEF Walk
    <3> QED BY <1>1, <3>3
  <2> QED BY <2>1, <2>2
<1>3. (j + 1) * X = j * X + X
  BY <1>1
<1> QED BY <1>1, <1>2, <1>3, StartValue DEF Walk

\* A diagonal step is made before the last column and before the last row.
LEMMA WalkXY ==
  ASSUME NEW X \in Nat, NEW Y \in Nat, NEW i, NEW j, NEW e, Walk(i, j, e, X, Y),
         ~(X = 1 /\ Y = 1), ~(i = X /\ j = Y), e < Y, e > -X
  PROVE  i < X /\ j < Y /\ Walk(i + 1, j + 1, e + X - Y, X, Y)
<1>1. i \in Nat /\ j \in Nat /\ i <= X /\ j <= Y /\ e \in Int /\ X > 0
  BY DEF Walk
<1>2. X > Y => i < X /\ j < Y
  <2> HAVE X > Y
  <2>1. i # X
    <3> SUFFICES ASSUME i = X PROVE j = Y
      OBVIOUS
    <3>1. e - Start0(X, Y) = (j - Y) * X
      <4>1. (j - Y) * X = j * X - Y * X /\ i * Y = Y * X
        BY <1>1
      <4> QED BY <4>1, StartValue DEF Walk
    <3>2. -X < e - Start0(X, Y) /\ e - Start0(X, Y) < X
      BY <1>1, StartValue DEF Walk
    <3>3. j - Y = 0
      BY <1>1, <3>1, <3>2, NoMultiple, StartValue DEF Walk
    <3> QED BY <1>1, <3>3
  <2>2. j # Y
    <3> SUFFICES ASSUME j = Y PROVE e >= Y
      BY <1>1
    <3>1. PICK m \in Nat : X - i = m + 1
      BY <1>1, <2>1, X - i - 1 \in Nat
    <3>2. (X - i) * Y = m * Y + Y /\ m * Y >= 0
      BY <1>1, <3>1
    <3>3. e - Start0(X, Y) = (X - i) * Y
      <4>1. (X - i) * Y = X * Y - i * Y /\ j * X = X * Y
        BY <1>1
      <4> QED BY <4>1, StartValue DEF Walk
    <3>4. Start0(X, Y) >= 0 /\ Start0(X, Y) \in Int
      BY StartValue
    <3> DEFINE s == Start0(X, Y)
               p == m * Y
    <3>5. e = s + p + Y /\ p \in Int /\ p >= 0 /\ s \in Int /\ s >= 0
      BY <1>1, <3>2, <3>3, <3>4
    <3> HIDE DEF s, p
    <3> QED BY <1>1, <3>5
  <2> QED BY <1>1, <2>1, <2>2
<1>3. X <= Y => i < X /\ j < Y
  <2> HAVE X <= Y
  <2>1. j # Y
    <3> SUFFICES ASSUME j = Y PROVE i = X
      OBVIOUS
    <3>1. e - Start0(X, Y) = (X - i) * Y
      <4>1. (X - i) * Y = X * Y - i * Y /\ j * X = X * Y
        BY <1>1
      <4> QED BY <4>1, StartValue DEF Walk
    <3>2. -Y < e - Start0(X, Y) /\ e - Start0(X, Y) < Y
      BY <1>1, StartValue DEF Walk
    <3>3. X - i = 0
      BY <1>1, <3>1, <3>2, NoMultiple, StartValue DEF Walk
    <3> QED BY <1>1, <3>3
  <2>2. i # X
    <3> SUFFICES ASSUME i = X PROVE e <= -X
      BY <1>1
    <3>1. PICK m \in Nat : Y - j = m + 1
      BY <1>1, <2>1, Y - j - 1 \in Nat
    <3>2. (Y - j) * X = m * X + X /\ m * X >= 0
      BY <1>1, <3>1
    <3>3. Start0(X, Y) - e = (Y - j) * X
      <4>1. (Y - j) * X = Y * X - j * X /\ i * Y = Y * X
        BY <1>1
      <4> QED BY <4>1, StartValue DEF Walk
    <3>4. Start0(X, Y) <= 0 /\ Start0(X, Y) \in Int
      BY StartValue
    <3> DEFINE s == Start0(X, Y)
               p == m * X
    <3>5. s - e = p + X /\ p \in Int /\ p >= 0 /\ s \in Int /\ s <= 0
      BY <1>1, <3>2, <3>3, <3>4
    <3> HIDE DEF s, p
    <3> QED BY <1>1, <3>5
  <2> QED BY <1>1, <2>1, <2>2
<1>4. i < X /\ j < Y
  BY <1>1, <1>2, <1>3
<1>5. (i + 1) * Y = i * Y + Y /\ (j + 1) * X = j * X + X
  BY <1>1
<1>6. e + X - Y = Start0(X, Y) + (j + 1) * X - (i + 1) * Y
  BY <1>1, <1>5, StartValue DEF Walk
<1>7. /\ X > Y => 0 <= e + X - Y /\ e + X - Y < X
      /\ X <= Y => -Y < e + X - Y /\ e + X - Y <= 0
  BY <1>1 DEF Walk
<1>8. i + 1 \in 0 .. X /\ j + 1 \in 0 .. Y /\ e + X - Y \in Int
  BY <1>1, <1>4
<1> QED BY <1>1, <1>4, <1>6, <1>7, <1>8 DEF Walk

-----------------------------------------------------------------------------
(* The registers.                                                          *)

LEMMA Registers ==
  ASSUME NEW l \in Line
  PROVE  /\ dx(l) \in Nat /\ dx(l) < 2 * Half
         /\ dy(l) \in Nat /\ dy(l) < 2 * Half
         /\ Half \in Nat /\ Half > 0
         /\ l.x0 \in Coord /\ l.y0 \in Coord /\ l.x1 \in Coord /\ l.y1 \in Coord
BY LineAssumption DEF Line, Coord, dx, dy, Distance

\* A register keeps the sums it can hold.
LEMMA NoOverflow ==
  ASSUME NEW v \in Int, -Half <= v, v < Half
  PROVE  Signed(v) = v
BY LineAssumption DEF Signed

LEMMA SignedInRange ==
  ASSUME NEW v \in Int, -3 * Half <= v, v < 3 * Half
  PROVE  Signed(v) \in -Half .. Half - 1
BY LineAssumption DEF Signed

\* A step of a coordinate v on its way from a to b.
LEMMA OneStep ==
  ASSUME NEW a \in Coord, NEW b \in Coord, NEW v \in Coord,
         Between(v, a, b), Distance(a, v) < Distance(a, b),
         NEW w, w = Wrap(v + IF a < b THEN 1 ELSE -1)
  PROVE  /\ w \in Coord /\ Between(w, a, b)
         /\ Distance(a, w) = Distance(a, v) + 1
         /\ Distance(w, b) = Distance(v, b) - 1
BY LineAssumption DEF Coord, Between, Distance, Wrap

LEMMA WrapInRange ==
  ASSUME NEW v \in Coord, NEW s \in {-1, 1}
  PROVE  Wrap(v + s) \in Coord
BY LineAssumption DEF Coord, Wrap

\* What is true of the registers while a drawable line is walked.
OnTheWay == /\ Walk(ax, ay, err, dx(line), dy(line))
            /\ Between(x, line.x0, line.x1)
            /\ Between(y, line.y0, line.y1)

LineInv == TypeOK /\ (curr_state = "Draw" /\ Drawable(line) => OnTheWay)

\* A walk that has made all its steps is at its end.
LEMMA AllStepsMade ==
  ASSUME TypeOK, OnTheWay, ~AtEnd(line)
  PROVE  ~(ax = dx(line) /\ ay = dy(line))
<1>1. x \in Int /\ y \in Int /\ line.x0 \in Int /\ line.x1 \in Int /\ line.y0 \in Int /\ line.y1 \in Int
  BY Registers, LineAssumption DEF TypeOK, Coord
<1> QED BY <1>1 DEF OnTheWay, AtEnd, ax, ay, dx, dy, Distance, Between

\* The error term of a drawable line is compared and updated without overflow.
LEMMA ErrorFits ==
  ASSUME TypeOK, Drawable(line), OnTheWay
  PROVE  /\ MoveX(line) <=> err >= dy(line)
         /\ MoveY(line) <=> err < dy(line) /\ err <= -dx(line)
         /\ MoveX(line) => Signed(err - dy(line)) = err - dy(line)
         /\ MoveY(line) => Signed(err + dx(line)) = err + dx(line)
         /\ ~MoveX(line) /\ ~MoveY(line) => Signed(err + dx(line) - dy(line)) = err + dx(line) - dy(line)
<1>1. /\ dx(line) \in Nat /\ dx(line) < Half /\ dy(line) \in Nat /\ dy(line) < Half
      /\ Half \in Nat /\ Half > 0 /\ err \in -Half .. Half - 1
  BY Registers DEF Drawable, TypeOK
<1>2. Signed(dy(line)) = dy(line) /\ Signed(-Signed(dx(line))) = -dx(line)
  BY <1>1 DEF Signed
<1>3. /\ MoveX(line) <=> err >= dy(line)
      /\ MoveY(line) <=> err < dy(line) /\ err <= -dx(line)
  BY <1>1, <1>2 DEF MoveX, MoveY
<1>4. MoveX(line) => Signed(err - dy(line)) = err - dy(line)
  BY <1>1, <1>3 DEF Signed
<1>5. MoveY(line) => Signed(err + dx(line)) = err + dx(line)
  BY <1>1, <1>3 DEF Signed
<1>6. ~MoveX(line) /\ ~MoveY(line) => Signed(err + dx(line) - dy(line)) = err + dx(line) - dy(line)
  BY <1>1, <1>3 DEF Signed
<1> QED BY <1>3, <1>4, <1>5, <1>6

-----------------------------------------------------------------------------
(* One cycle of the walk.                                                  *)

LEMMA WalkStep ==
  ASSUME TypeOK, Drawable(line), OnTheWay, ~AtEnd(line), Drawing(line), line' = line
  PROVE  /\ OnTheWay' /\ Remaining' < Remaining
         /\ Along(x', y', line) \in {Along(x, y, line), Along(x, y, line) + 1}
<1> DEFINE X == dx(line)
           Y == dy(line)
<1>1. /\ X \in Nat /\ Y \in Nat /\ err \in Int /\ ~(X = 1 /\ Y = 1)
      /\ x \in Coord /\ y \in Coord
      /\ line.x0 \in Coord /\ line.y0 \in Coord /\ line.x1 \in Coord /\ line.y1 \in Coord
  BY Registers DEF TypeOK, Drawable
<1>2. Walk(ax, ay, err, X, Y) /\ ~(ax = X /\ ay = Y)
  BY AllStepsMade DEF OnTheWay
<1>3. Between(x, line.x0, line.x1) /\ Between(y, line.y0, line.y1)
  BY DEF OnTheWay
<1>4. X' = X /\ Y' = Y /\ ax' = Distance(line.x0, x') /\ ay' = Distance(line.y0, y')
  BY DEF dx, dy, ax, ay, Distance
<1>5. \A u, v \in Coord : Distance(u, v) \in Nat
  BY LineAssumption DEF Distance, Coord
<1>6. ASSUME ax < X, x' = Wrap(x + sx(line))
      PROVE  /\ x' \in Coord /\ Between(x', line.x0, line.x1)
             /\ ax' = ax + 1 /\ Distance(x', line.x1) = Distance(x, line.x1) - 1
  <2>1. Distance(line.x0, x) < Distance(line.x0, line.x1)
    BY <1>6 DEF ax, dx
  <2>2. x' = Wrap(x + IF line.x0 < line.x1 THEN 1 ELSE -1)
    BY <1>6 DEF sx
  <2> QED BY <1>1, <1>3, <1>4, <2>1, <2>2, OneStep DEF ax
<1>7. ASSUME ay < Y, y' = Wrap(y + sy(line))
      PROVE  /\ y' \in Coord /\ Between(y', line.y0, line.y1)
             /\ ay' = ay + 1 /\ Distance(y', line.y1) = Distance(y, line.y1) - 1
  <2>1. Distance(line.y0, y) < Distance(line.y0, line.y1)
    BY <1>7 DEF ay, dy
  <2>2. y' = Wrap(y + IF line.y0 < line.y1 THEN 1 ELSE -1)
    BY <1>7 DEF sy
  <2> QED BY <1>1, <1>3, <1>4, <2>1, <2>2, OneStep DEF ay
<1> DEFINE rx == Distance(x, line.x1)
           ry == Distance(y, line.y1)
<1>8. rx \in Nat /\ ry \in Nat /\ Remaining = rx + ry
      /\ Remaining' = Distance(x', line.x1) + Distance(y', line.y1)
  BY <1>1, <1>5 DEF Remaining, Distance
<1>9. OnTheWay' <=> /\ Walk(ax', ay', err', X, Y)
                    /\ Between(x', line.x0, line.x1) /\ Between(y', line.y0, line.y1)
  BY <1>4 DEF OnTheWay, Between, Walk, Start0
<1>10. ax' \in {ax, ax + 1} /\ ay' \in {ay, ay + 1}
         => Along(x', y', line) \in {Along(x, y, line), Along(x, y, line) + 1}
  BY <1>4 DEF Along, ax, ay
<1> HIDE DEF X, Y, rx, ry
<1>11. CASE MoveX(line) /\ x' = Wrap(x + sx(line)) /\ y' = y /\ err' = Signed(err - dy(line))
  <2>1. err >= Y /\ err' = err - Y
    BY <1>11, ErrorFits DEF Y
  <2>2. ax < X /\ Walk(ax + 1, ay, err - Y, X, Y)
    BY <1>1, <1>2, <2>1, WalkX
  <2>3. ay' = ay /\ Distance(y', line.y1) = ry
    BY <1>4, <1>11 DEF ay, ry
  <2>4. Remaining' = rx - 1 + ry
    BY <1>6, <1>8, <1>11, <2>2, <2>3 DEF rx
  <2> QED BY <1>3, <1>6, <1>8, <1>9, <1>10, <1>11, <2>1, <2>2, <2>3, <2>4
<1>12. CASE MoveY(line) /\ x' = x /\ y' = Wrap(y + sy(line)) /\ err' = Signed(err + dx(line))
  <2>1. err < Y /\ err <= -X /\ err' = err + X
    BY <1>12, ErrorFits DEF X, Y
  <2>2. ay < Y /\ Walk(ax, ay + 1, err + X, X, Y)
    BY <1>1, <1>2, <2>1, WalkY
  <2>3. ax' = ax /\ Distance(x', line.x1) = rx
    BY <1>4, <1>12 DEF ax, rx
  <2>4. Remaining' = rx + ry - 1
    BY <1>7, <1>8, <1>12, <2>2, <2>3 DEF ry
  <2> QED BY <1>3, <1>7, <1>8, <1>9, <1>10, <1>12, <2>1, <2>2, <2>3, <2>4
<1>13. CASE /\ ~MoveX(line) /\ ~MoveY(line)
            /\ x' = Wrap(x + sx(line)) /\ y' = Wrap(y + sy(line))
            /\ err' = Signed(err + dx(line) - dy(line))
  <2>1. err < Y /\ err > -X /\ err' = err + X - Y
    BY <1>1, <1>13, ErrorFits DEF X, Y
  <2>2. ax < X /\ ay < Y /\ Walk(ax + 1, ay + 1, err + X - Y, X, Y)
    BY <1>1, <1>2, <2>1, WalkXY
  <2>3. Remaining' = rx - 1 + (ry - 1)
    BY <1>6, <1>7, <1>8, <1>13, <2>2 DEF rx, ry
  <2> QED BY <1>6, <1>7, <1>8, <1>9, <1>10, <1>13, <2>1, <2>2, <2>3
<1> QED BY <1>11, <1>12, <1>13 DEF Drawing

-----------------------------------------------------------------------------
(* The pixels of a line.                                                   *)

\* The error term bounds the way off the straight line.
LEMMA WalkIsNear ==
  ASSUME TypeOK, Drawable(line), OnTheWay, ~(dx(line) = 0 /\ dy(line) = 0)
  PROVE  LET off == ax * dy(line) - ay * dx(line)
             longest == Largest(dx(line), dy(line))
         IN  -longest < off /\ off < longest
<1> DEFINE X == dx(line)
           Y == dy(line)
           s == Start0(X, Y)
<1>1. X \in Nat /\ Y \in Nat /\ ~(X = 1 /\ Y = 1) /\ ~(X = 0 /\ Y = 0)
  BY Registers DEF TypeOK, Drawable
<1>2. Walk(ax, ay, err, X, Y)
  BY DEF OnTheWay
<1> HIDE DEF X, Y
<1>3. s \in Int /\ err \in Int /\ ax * Y - ay * X = s - err
  BY <1>1, <1>2, StartValue DEF Walk
<1> DEFINE off == ax * Y - ay * X
<1>4. CASE X > Y
  <2>1. 0 <= err /\ err < X /\ 0 <= s /\ s < X
    BY <1>1, <1>2, <1>4, StartValue DEF Walk
  <2>2. -X < s - err /\ s - err < X
    BY <1>1, <1>3, <2>1
  <2> QED BY <1>3, <1>4, <2>2 DEF Largest, X, Y
<1>5. CASE X <= Y /\ X > 0
  <2>1. -Y < err /\ err <= 0 /\ -Y < s /\ s <= 0
    BY <1>1, <1>2, <1>5, StartValue DEF Walk
  <2>2. -Y < s - err /\ s - err < Y
    BY <1>1, <1>3, <2>1
  <2> HIDE DEF s
  <2> QED BY <1>1, <1>3, <1>5, <2>2 DEF Largest, X, Y
<1>6. CASE X = 0
  <2>1. ax = 0 /\ ay \in Nat
    BY <1>1, <1>2, <1>6 DEF Walk
  <2>2. ax * Y - ay * X = 0 /\ Y > 0
    BY <1>1, <1>6, <2>1
  <2> QED BY <1>1, <1>6, <2>2 DEF Largest, X, Y
<1> QED BY <1>1, <1>4, <1>5, <1>6

LEMMA PixelOfLine ==
  ASSUME TypeOK, Drawable(line), OnTheWay
  PROVE  OfLine(x, y, line) /\ Along(x, y, line) \in 0 .. Largest(dx(line), dy(line))
<1>1. dx(line) \in Nat /\ dy(line) \in Nat /\ ax \in 0 .. dx(line) /\ ay \in 0 .. dy(line)
  BY Registers DEF TypeOK, OnTheWay, Walk
<1>2. Along(x, y, line) \in 0 .. Largest(dx(line), dy(line))
  BY <1>1 DEF Along, Largest, ax, ay
<1>3. Largest(dx(line), dy(line)) = 0 <=> dx(line) = 0 /\ dy(line) = 0
  BY <1>1 DEF Largest
<1> QED BY <1>2, <1>3, WalkIsNear DEF OnTheWay, OfLine, ax, ay

\* The end points of a line are its first and its last pixel.
LEMMA EndsOfLine ==
  ASSUME NEW l \in Line
  PROVE  /\ OfLine(l.x0, l.y0, l) /\ Along(l.x0, l.y0, l) = 0
         /\ OfLine(l.x1, l.y1, l) /\ Along(l.x1, l.y1, l) = Largest(dx(l), dy(l))
         /\ Largest(dx(l), dy(l)) \in Nat
<1>1. /\ dx(l) \in Nat /\ dy(l) \in Nat
      /\ l.x0 \in Int /\ l.y0 \in Int /\ l.x1 \in Int /\ l.y1 \in Int
  BY Registers DEF Coord
<1>2. /\ Distance(l.x0, l.x0) = 0 /\ Distance(l.y0, l.y0) = 0
      /\ Distance(l.x0, l.x1) = dx(l) /\ Distance(l.y0, l.y1) = dy(l)
  BY <1>1 DEF Distance, dx, dy
<1>3. /\ Between(l.x0, l.x0, l.x1) /\ Between(l.y0, l.y0, l.y1)
      /\ Between(l.x1, l.x0, l.x1) /\ Between(l.y1, l.y0, l.y1)
  BY <1>1 DEF Between
<1>4. /\ 0 * dy(l) - 0 * dx(l) = 0 /\ dx(l) * dy(l) - dy(l) * dx(l) = 0
  BY <1>1
<1>5. Largest(dx(l), dy(l)) \in Nat
  BY <1>1 DEF Largest
<1>6. OfLine(l.x0, l.y0, l) /\ OfLine(l.x1, l.y1, l)
  BY <1>2, <1>3, <1>4, <1>5 DEF OfLine
<1> QED BY <1>1, <1>2, <1>5, <1>6 DEF Along, Largest

-----------------------------------------------------------------------------
(* The inductive invariant.                                                *)

LEMMA WaitingType ==
  ASSUME NEW start, NEW l \in Line, Waiting(start, l), line' \in Line
  PROVE  TypeOK'
<1>1. temp_err(l) \in -Half .. Half - 1
  BY Registers, SignedInRange DEF temp_err
<1>2. temp_err(l) \div 2 \in -Half .. Half - 1
  BY <1>1, LineAssumption
<1> QED BY <1>2, Registers DEF Waiting, TypeOK

LEMMA DrawingType ==
  ASSUME TypeOK, Drawing(line), line' \in Line
  PROVE  TypeOK'
<1>1. line \in Line /\ x \in Coord /\ y \in Coord /\ err \in -Half .. Half - 1
  BY DEF TypeOK
<1>2. Wrap(x + sx(line)) \in Coord /\ Wrap(y + sy(line)) \in Coord
  BY <1>1, WrapInRange DEF sx, sy
<1>3. /\ Signed(err - dy(line)) \in -Half .. Half - 1
      /\ Signed(err + dx(line)) \in -Half .. Half - 1
      /\ Signed(err + dx(line) - dy(line)) \in -Half .. Half - 1
  BY <1>1, Registers, SignedInRange, LineAssumption
<1> QED BY <1>1, <1>2, <1>3 DEF Drawing, TypeOK

LEMMA TypePreserved ==
  ASSUME TypeOK, [Next]_vars
  PROVE  TypeOK'
<1> USE LineAssumption
<1>1. ASSUME NEW start, NEW l \in Line, Finished(start, l), line' \in Line
      PROVE  TypeOK'
  BY <1>1, Registers DEF Finished, TypeOK
<1>2. CASE PressReset
  BY <1>2 DEF PressReset, Tick, TypeOK, Coord
<1>3. CASE \E l \in Lines : Start(l)
  BY <1>3, WaitingType DEF Start, Tick, Drawing, Finished
<1>4. CASE Idle \/ Work
  BY <1>1, <1>4, WaitingType, DrawingType DEF Idle, Work, Tick, TypeOK
<1>5. CASE UNCHANGED vars
  BY <1>5 DEF vars, TypeOK
<1> QED BY <1>2, <1>3, <1>4, <1>5 DEF Next

\* A drawable line starts on its way.
LEMMA StartOnTheWay ==
  ASSUME NEW start, NEW l \in Line, Waiting(start, l), line' = l, Drawable(l)
  PROVE  OnTheWay'
<1>1. /\ dx(l) \in Nat /\ dx(l) < Half /\ dy(l) \in Nat /\ dy(l) < Half
      /\ Half \in Nat /\ ~(dx(l) = 1 /\ dy(l) = 1)
      /\ l.x0 \in Coord /\ l.y0 \in Coord /\ l.x1 \in Coord /\ l.y1 \in Coord
  BY Registers DEF Drawable
<1>2. temp_err(l) \div 2 = Start0(dx(l), dy(l))
  BY <1>1 DEF temp_err, Signed, Start0
<1>3. Walk(0, 0, Start0(dx(l), dy(l)), dx(l), dy(l))
  BY <1>1, WalkStart
<1>4. ax' = 0 /\ ay' = 0 /\ err' = Start0(dx(l), dy(l)) /\ dx(line)' = dx(l) /\ dy(line)' = dy(l)
  BY <1>1, <1>2 DEF Waiting, ax, ay, dx, dy, Distance, Coord
<1>5. Between(x, line.x0, line.x1)' /\ Between(y, line.y0, line.y1)'
  BY <1>1 DEF Waiting, Between, Coord
<1>6. Walk(ax, ay, err, dx(line), dy(line))' <=> Walk(ax', ay', err', dx(line)', dy(line)')
  BY DEF Walk, Start0
<1> QED BY <1>3, <1>4, <1>5, <1>6 DEF OnTheWay

LEMMA InvPreserved ==
  ASSUME LineInv, [Next]_vars
  PROVE  LineInv'
<1>1. TypeOK /\ TypeOK'
  BY TypePreserved DEF LineInv
<1>2. CASE PressReset
  BY <1>1, <1>2 DEF PressReset, Tick, LineInv
<1>3. CASE \E l \in Lines : Start(l)
  <2>1. PICK l \in Lines : Start(l)
    BY <1>3
  <2>2. Waiting(TRUE, l) /\ line' = l /\ l \in Line
    BY <2>1, LineAssumption DEF Start, Tick, Drawing, Finished
  <2>3. Drawable(line)' => Drawable(l)
    BY <2>2 DEF Drawable, dx, dy, Distance
  <2> QED BY <1>1, <2>2, <2>3, StartOnTheWay DEF LineInv
<1>4. CASE Idle
  BY <1>1, <1>4 DEF Idle, Tick, Waiting, Drawing, Finished, LineInv
<1>5. CASE Work
  <2>1. CASE Drawing(line)
    <3> SUFFICES ASSUME curr_state' = "Draw", Drawable(line)' PROVE OnTheWay'
      BY <1>1 DEF LineInv
    <3>1. line' = line /\ Drawable(line) /\ curr_state = "Draw"
      BY <1>5, <2>1 DEF Work, Drawing, Drawable, dx, dy, Distance
    <3>2. ~AtEnd(line)
      BY <2>1 DEF Drawing
    <3> QED BY <1>1, <2>1, <3>1, <3>2, WalkStep DEF LineInv
  <2>2. CASE Finished(FALSE, line)
    BY <1>1, <2>2 DEF Finished, LineInv
  <2> QED BY <1>5, <2>1, <2>2 DEF Work, Tick, Waiting
<1>6. CASE UNCHANGED vars
  <2>1. Drawable(line)' = Drawable(line) /\ OnTheWay' = OnTheWay
    BY <1>6 DEF vars, Drawable, OnTheWay, Walk, Start0, ax, ay, dx, dy, Distance, Between
  <2> QED BY <1>1, <1>6, <2>1 DEF vars, LineInv
<1> QED BY <1>2, <1>3, <1>4, <1>5, <1>6 DEF Next

\* The registers hold coordinates and a signed error, and a drawable line is
\* on its way, in every state.
THEOREM LineInvariant == Spec => []LineInv
<1>1. Init => LineInv
  <2>1. Init => TypeOK
    BY LineAssumption DEF Init, TypeOK, Line, Coord
  <2> QED BY <2>1 DEF Init, LineInv
<1>2. LineInv /\ [Next]_vars => LineInv'
  BY InvPreserved
<1> QED BY <1>1, <1>2, PTL DEF Spec

\* The registers never leave their ranges.
THEOREM LineTypes == Spec => []TypeOK
<1>1. LineInv => TypeOK
  BY DEF LineInv
<1> QED BY <1>1, LineInvariant, PTL

\* A drawable line never leaves the rectangle of its end points.
THEOREM LineStaysInBox == Spec => []StaysInBox
<1>1. LineInv => StaysInBox
  BY DEF LineInv, OnTheWay, StaysInBox
<1> QED BY <1>1, LineInvariant, PTL

\* Every pixel of a drawable line is within one pixel of the straight line.
THEOREM LineIsNear == Spec => []NearLine
<1>1. LineInv => NearLine
  <2> SUFFICES ASSUME LineInv, curr_state = "Draw", Drawable(line),
                      ~(line.x0 = line.x1 /\ line.y0 = line.y1)
               PROVE  LET off == ax * dy(line) - ay * dx(line)
                          longest == Largest(dx(line), dy(line))
                      IN  -longest < off /\ off < longest
    BY DEF NearLine
  <2>1. ~(dx(line) = 0 /\ dy(line) = 0)
    BY Registers, LineAssumption DEF LineInv, TypeOK, dx, dy, Distance, Coord
  <2> QED BY <2>1, WalkIsNear DEF LineInv
<1> QED BY <1>1, LineInvariant, PTL

\* Every cycle of the walk of a drawable line brings it nearer to its end.
THEOREM LineComesCloser == Spec => ComesCloser
<1>1. LineInv /\ [Next]_vars => [curr_state = "Draw" /\ curr_state' = "Draw" /\ Drawable(line)
                                   => Remaining' < Remaining]_vars
  <2> SUFFICES ASSUME LineInv, Next, curr_state = "Draw", curr_state' = "Draw", Drawable(line)
               PROVE  Remaining' < Remaining
    OBVIOUS
  <2>1. Work
    BY DEF Next, Start, Idle, PressReset, Tick
  <2>2. Drawing(line) /\ line' = line /\ ~AtEnd(line)
    BY <2>1 DEF Work, Tick, Waiting, Finished, Drawing
  <2> QED BY <2>2, WalkStep DEF LineInv
<1> QED BY <1>1, LineInvariant, PTL DEF Spec, ComesCloser
=============================================================================
