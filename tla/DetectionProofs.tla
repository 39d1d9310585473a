--------------------------- MODULE DetectionProofs ---------------------------
(***************************************************************************)
(* The collision pass finds every pair that is in contact at an instant of *)
(* the interval, for every number of entities, any radii, positions and    *)
(* velocities, and an interval of any length; the unit of time is as fine  *)
(* as one likes. Two things have to be seen: the boxes of two paths meet   *)
(* if the spheres do (axis by axis), and a quadratic that is positive at   *)
(* the start and not at some later instant has passed all the early        *)
(* returns of the sweep.                                                   *)
(***************************************************************************)
EXTENDS CollisionDetection, TLAPS

-----------------------------------------------------------------------------
(* Squares.                                                                 *)

LEMMA SquareIsNat ==
  ASSUME NEW n \in Int
  PROVE  n * n \in Nat /\ (n * n = 0 => n = 0)
  OBVIOUS

\* What has the smaller square is the smaller.
LEMMA SmallerSquare ==
  ASSUME NEW m \in Int, NEW n \in Nat, m * m <= n * n
  PROVE  m <= n /\ -n <= m
<1>1. ASSUME NEW k \in Nat, k > n PROVE k * k > n * n
  <2>1. k * k = n * n + (k - n) * (k + n) /\ (k - n) * (k + n) > 0 /\ n * n \in Int
    BY <1>1
  <2> QED BY <2>1
<1>2. (-m) * (-m) = m * m
  OBVIOUS
<1>3. m * m \in Int /\ n * n \in Int
  OBVIOUS
<1>4. ASSUME m > n PROVE FALSE
  BY <1>1, <1>3, <1>4
<1>5. ASSUME -m > n PROVE FALSE
  BY <1>1, <1>2, <1>3, <1>5
<1> QED BY <1>4, <1>5

\* Of three squares none is larger than their sum.
LEMMA PartOfSum ==
  ASSUME NEW x \in Int, NEW y \in Int, NEW z \in Int, NEW r \in Nat,
         x * x + y * y + z * z <= r * r
  PROVE  /\ x <= r /\ -r <= x
         /\ y <= r /\ -r <= y
         /\ z <= r /\ -r <= z
<1>1. x * x \in Nat /\ y * y \in Nat /\ z * z \in Nat /\ r * r \in Nat
  BY SquareIsNat
<1>2. x * x <= r * r /\ y * y <= r * r /\ z * z <= r * r
  BY <1>1
<1> QED BY <1>2, SmallerSquare

-----------------------------------------------------------------------------
(* The narrow phase. If the quadratic is not positive at an instant of the  *)
(* interval and was at its start, it has two roots, and the first is not    *)
(* after that instant.                                                      *)

LEMMA CompletedSquare ==
  ASSUME NEW a \in Int, NEW b \in Int, NEW c \in Int, NEW t \in Int
  PROVE  4 * (a * (a * (t * t) + b * t + c)) =
           (2 * (a * t) + b) * (2 * (a * t) + b) - (b * b - 4 * (a * c))
  OBVIOUS

LEMMA RootIsWithin ==
  ASSUME NEW a \in Nat \ {0}, NEW b \in Int, NEW c \in Int, NEW dt \in Nat, NEW t \in 0..dt,
         c > 0, a * (t * t) + b * t + c <= 0
  PROVE  RootWithin(a, b, c, dt)
<1> DEFINE value == a * (t * t) + b * t + c
           discriminant == b * b - 4 * (a * c)
           rest == -b - 2 * (a * dt)
           turn == 2 * (a * t) + b
<1>1. value \in Int /\ discriminant \in Int /\ rest \in Int /\ turn \in Int
  OBVIOUS
<1>2. b < 0
  <2>1. a * (t * t) \in Nat
    BY SquareIsNat
  <2>2. b >= 0 => b * t \in Nat
    OBVIOUS
  <2>3. b * t \in Int
    OBVIOUS
  <2> QED BY <2>1, <2>2, <2>3
<1>3. turn * turn <= discriminant
  <2>1. a * value <= 0
    BY <1>1
  <2>2. 4 * (a * value) = turn * turn - discriminant
    BY CompletedSquare
  <2>3. a * value \in Int /\ turn * turn \in Int
    BY <1>1
  <2> QED BY <1>1, <2>1, <2>2, <2>3
<1>4. discriminant >= 0
  <2>1. turn * turn \in Nat
    BY <1>1, SquareIsNat
  <2> QED BY <1>1, <1>3, <2>1
<1>5. rest <= -turn
  <2>1. a * t <= a * dt /\ a * t \in Int /\ a * dt \in Int
    OBVIOUS
  <2> QED BY <2>1
<1> HIDE DEF value, discriminant, rest, turn
<1>6. ~(rest > 0 /\ rest * rest > discriminant)
  <2> SUFFICES ASSUME rest > 0, rest * rest > discriminant PROVE FALSE
    OBVIOUS
  <2>1. -turn \in Nat /\ rest \in Nat
    BY <1>1, <1>5
  <2>2. rest * rest <= (-turn) * (-turn)
    BY <1>5, <2>1
  <2>3. (-turn) * (-turn) = turn * turn
    BY <1>1
  <2>4. rest * rest \in Int /\ turn * turn \in Int
    BY <1>1
  <2> QED BY <1>1, <1>3, <2>2, <2>3, <2>4
<1> QED BY <1>2, <1>4, <1>6 DEF RootWithin, discriminant, rest

\* One axis of the distance at an instant.
LEMMA AxisSquare ==
  ASSUME NEW p \in Int, NEW u \in Int, NEW t \in Int
  PROVE  (p + t * u) * (p + t * u) = p * p + 2 * ((p * u) * t) + (u * u) * (t * t)
  OBVIOUS

\* The square of the distance is a quadratic in time.
LEMMA DistanceIsQuadratic ==
  ASSUME NEW p \in Vector, NEW u \in Vector, NEW t \in Nat
  PROVE  LET d == Add(p, Scale(u, t))
         IN  /\ Dot(d, d) = Dot(u, u) * (t * t) + (2 * Dot(p, u)) * t + Dot(p, p)
             /\ Dot(u, u) \in Nat /\ Dot(p, u) \in Int /\ Dot(p, p) \in Nat /\ Dot(d, d) \in Int
<1>1. /\ p.x \in Int /\ p.y \in Int /\ p.z \in Int
      /\ u.x \in Int /\ u.y \in Int /\ u.z \in Int
  BY DEF Vector
<1>2. /\ u.x * u.x \in Nat /\ u.y * u.y \in Nat /\ u.z * u.z \in Nat
      /\ p.x * p.x \in Nat /\ p.y * p.y \in Nat /\ p.z * p.z \in Nat
      /\ p.x * u.x \in Int /\ p.y * u.y \in Int /\ p.z * u.z \in Int
      /\ t * t \in Nat
  BY <1>1, SquareIsNat
<1> DEFINE ux == u.x * u.x  uy == u.y * u.y  uz == u.z * u.z
           hx == p.x * u.x  hy == p.y * u.y  hz == p.z * u.z
           px == p.x * p.x  py == p.y * p.y  pz == p.z * p.z
           dx == p.x + t * u.x  dy == p.y + t * u.y  dz == p.z + t * u.z
           tt == t * t
<1>3. /\ Dot(u, u) = ux + uy + uz
      /\ Dot(p, u) = hx + hy + hz
      /\ Dot(p, p) = px + py + pz
      /\ Dot(Add(p, Scale(u, t)), Add(p, Scale(u, t))) = dx * dx + dy * dy + dz * dz
  BY DEF Dot, Add, Scale
<1>4. /\ dx * dx = px + 2 * (hx * t) + ux * tt
      /\ dy * dy = py + 2 * (hy * t) + uy * tt
      /\ dz * dz = pz + 2 * (hz * t) + uz * tt
  BY <1>1, AxisSquare
<1>5. /\ ux \in Nat /\ uy \in Nat /\ uz \in Nat /\ hx \in Int /\ hy \in Int /\ hz \in Int
      /\ px \in Nat /\ py \in Nat /\ pz \in Nat /\ tt \in Nat
  BY <1>2
<1> HIDE DEF ux, uy, uz, hx, hy, hz, px, py, pz, dx, dy, dz, tt
<1>6. /\ (ux + uy + uz) * tt = ux * tt + uy * tt + uz * tt
      /\ ux * tt \in Int /\ uy * tt \in Int /\ uz * tt \in Int
  BY <1>5
<1>7. /\ (2 * (hx + hy + hz)) * t = 2 * (hx * t) + 2 * (hy * t) + 2 * (hz * t)
      /\ hx * t \in Int /\ hy * t \in Int /\ hz * t \in Int
  BY <1>5
<1>8. dx * dx + dy * dy + dz * dz
        = (ux + uy + uz) * tt + (2 * (hx + hy + hz)) * t + (px + py + pz)
  BY <1>4, <1>5, <1>6, <1>7
<1> QED BY <1>3, <1>4, <1>5, <1>6, <1>7, <1>8 DEF tt

\* And the rate at which it changes is linear.
LEMMA ApproachIsLinear ==
  ASSUME NEW p \in Vector, NEW u \in Vector, NEW t \in Nat
  PROVE  Dot(Add(p, Scale(u, t)), u) = Dot(p, u) + Dot(u, u) * t
<1>1. /\ p.x \in Int /\ p.y \in Int /\ p.z \in Int
      /\ u.x \in Int /\ u.y \in Int /\ u.z \in Int
  BY DEF Vector
<1>2. \A i, j \in Int : (i + t * j) * j = i * j + (j * j) * t /\ i * j \in Int /\ (j * j) * t \in Int
  OBVIOUS
<1> DEFINE ux == u.x * u.x  uy == u.y * u.y  uz == u.z * u.z
<1>3. ux \in Int /\ uy \in Int /\ uz \in Int
  BY <1>1
<1>4. Dot(u, u) * t = ux * t + uy * t + uz * t
  <2>1. Dot(u, u) = ux + uy + uz
    BY DEF Dot
  <2> HIDE DEF ux, uy, uz
  <2> QED BY <1>3, <2>1
<1>5. Dot(p, u) = p.x * u.x + p.y * u.y + p.z * u.z
  BY DEF Dot
<1>6. Dot(Add(p, Scale(u, t)), u)
        = (p.x + t * u.x) * u.x + (p.y + t * u.y) * u.y + (p.z + t * u.z) * u.z
  BY DEF Dot, Add, Scale
<1> QED BY <1>1, <1>2, <1>4, <1>5, <1>6

\* The sweep finds a contact at any instant of the interval.
LEMMA SweepFindsContact ==
  ASSUME NEW p \in Vector, NEW u \in Vector, NEW r \in Nat, NEW dt \in Nat, NEW t \in 0..dt,
         LET d == Add(p, Scale(u, t)) IN Dot(d, d) <= r * r
  PROVE  \/ Dot(p, p) - r * r <= 0
         \/ RootWithin(Dot(u, u), 2 * Dot(p, u), Dot(p, p) - r * r, dt)
<1> DEFINE a == Dot(u, u)
           b == 2 * Dot(p, u)
           c == Dot(p, p) - r * r
<1>1. /\ a \in Nat /\ b \in Int /\ c \in Int /\ Dot(p, p) \in Nat
      /\ a * (t * t) + b * t + c <= 0
  <2> DEFINE d == Add(p, Scale(u, t))
  <2>1. /\ Dot(d, d) = a * (t * t) + b * t + Dot(p, p)
        /\ a \in Nat /\ Dot(p, u) \in Int /\ Dot(p, p) \in Nat /\ Dot(d, d) \in Int
    BY DistanceIsQuadratic
  <2>2. Dot(d, d) <= r * r /\ r * r \in Int
    OBVIOUS
  <2> HIDE DEF d
  <2>3. b \in Int
    BY <2>1
  <2> HIDE DEF a, b
  <2>4. a * (t * t) \in Int /\ b * t \in Int
    BY <2>1, <2>3
  <2> QED BY <2>1, <2>2, <2>3, <2>4
<1>2. CASE c <= 0
  BY <1>2
<1>3. CASE c > 0 /\ a # 0
  <2> HIDE DEF a, b, c
  <2>1. a \in Nat \ {0} /\ c > 0
    BY <1>1, <1>3
  <2>2. RootWithin(a, b, c, dt)
    BY <1>1, <2>1, RootIsWithin
  <2> QED BY <2>2 DEF a, b, c
<1>4. CASE c > 0 /\ a = 0
  <2>1. /\ p.x \in Int /\ p.y \in Int /\ p.z \in Int
        /\ u.x \in Int /\ u.y \in Int /\ u.z \in Int
    BY DEF Vector
  <2>2. u.x * u.x \in Nat /\ u.y * u.y \in Nat /\ u.z * u.z \in Nat
    BY <2>1, SquareIsNat
  <2>3. u.x * u.x + u.y * u.y + u.z * u.z = 0
    BY <1>4 DEF Dot
  <2>4. u.x * u.x = 0 /\ u.y * u.y = 0 /\ u.z * u.z = 0
    <3> DEFINE ux == u.x * u.x  uy == u.y * u.y  uz == u.z * u.z
    <3>1. ux \in Nat /\ uy \in Nat /\ uz \in Nat /\ ux + uy + uz = 0
      BY <2>2, <2>3
    <3> HIDE DEF ux, uy, uz
    <3>2. ux = 0 /\ uy = 0 /\ uz = 0
      BY <3>1
    <3> QED BY <3>2 DEF ux, uy, uz
  <2>5. u.x = 0 /\ u.y = 0 /\ u.z = 0
    BY <2>1, <2>4, SquareIsNat
  <2>6. b = 0
    BY <2>1, <2>5 DEF Dot
  <2>7. a * (t * t) = 0 /\ b * t = 0
    BY <1>4, <2>6
  <2> QED BY <1>1, <1>4, <2>7
<1> QED BY <1>1, <1>2, <1>3, <1>4

\* And it finds nothing else: the spheres touch at the start, or at the end, or they
\* are nearest in between and then near enough.
LEMMA SweepFindsNothingElse ==
  ASSUME NEW p \in Vector, NEW u \in Vector, NEW r \in Nat, NEW dt \in Nat,
         \/ Dot(p, p) - r * r <= 0
         \/ RootWithin(Dot(u, u), 2 * Dot(p, u), Dot(p, p) - r * r, dt)
  PROVE  LET d == Add(p, Scale(u, dt))
         IN  \/ Dot(p, p) <= r * r
             \/ Dot(d, d) <= r * r
             \/ /\ Dot(p, u) < 0 /\ Dot(d, u) > 0
                /\ Dot(p, p) * Dot(u, u) - Dot(p, u) * Dot(p, u) <= r * r * Dot(u, u)
<1> DEFINE d == Add(p, Scale(u, dt))
           a == Dot(u, u)
           h == Dot(p, u)
           q == Dot(p, p)
           c == q - r * r
           rest == -(2 * h) - 2 * (a * dt)
<1>1. /\ Dot(d, d) = a * (dt * dt) + (2 * h) * dt + q
      /\ a \in Nat /\ h \in Int /\ q \in Nat /\ Dot(d, d) \in Int
  BY DistanceIsQuadratic
<1>2. Dot(d, u) = h + a * dt
  BY ApproachIsLinear
<1>3. r * r \in Int
  OBVIOUS
<1>4. q - r * r <= 0 \/ RootWithin(a, 2 * h, c, dt)
  OBVIOUS
<1> HIDE DEF d, a, h, q
<1>5. CASE q - r * r <= 0
  BY <1>1, <1>3, <1>5 DEF q, d
<1>6. CASE RootWithin(a, 2 * h, c, dt)
  <2>1. /\ a # 0 /\ 2 * h < 0
        /\ (2 * h) * (2 * h) - 4 * (a * c) >= 0
        /\ ~(rest > 0 /\ rest * rest > (2 * h) * (2 * h) - 4 * (a * c))
    BY <1>6 DEF RootWithin
  <2>2. c \in Int /\ a * dt \in Int /\ rest \in Int /\ a * c \in Int /\ h * h \in Int /\ h < 0
    BY <1>1, <1>3, <2>1
  <2>3. CASE rest < 0
    <3>1. h + a * dt > 0
      BY <1>1, <2>2, <2>3
    <3>2. (2 * h) * (2 * h) = 4 * (h * h)
      BY <1>1
    <3>3. a * c <= h * h
      BY <2>1, <2>2, <3>2
    <3>4. a * c = q * a - r * r * a /\ q * a \in Int /\ r * r * a \in Int
      <4> DEFINE rr == r * r
      <4>1. rr \in Int
        OBVIOUS
      <4> HIDE DEF rr
      <4>2. a * (q - rr) = q * a - rr * a /\ q * a \in Int /\ rr * a \in Int
        BY <1>1, <4>1
      <4> QED BY <4>2 DEF rr
    <3>5. q * a - h * h <= r * r * a
      BY <2>2, <3>3, <3>4
    <3> QED BY <1>2, <2>2, <3>1, <3>5 DEF d, a, h, q
  <2>4. CASE rest >= 0
    <3> DEFINE value == a * (dt * dt) + (2 * h) * dt + c
    <3>1. rest * rest <= (2 * h) * (2 * h) - 4 * (a * c)
      <4>1. CASE rest > 0
        BY <1>1, <2>1, <2>2, <4>1
      <4>2. CASE rest = 0
        BY <2>1, <4>2
      <4> QED BY <2>2, <2>4, <4>1, <4>2
    <3>2. 4 * (a * value) = (2 * (a * dt) + 2 * h) * (2 * (a * dt) + 2 * h)
                              - ((2 * h) * (2 * h) - 4 * (a * c))
      BY <1>1, <2>2, CompletedSquare
    <3>3. (2 * (a * dt) + 2 * h) * (2 * (a * dt) + 2 * h) = rest * rest
      <4> DEFINE ad == a * dt
      <4>1. ad \in Int
        BY <2>2
      <4> HIDE DEF ad
      <4>2. (2 * ad + 2 * h) * (2 * ad + 2 * h) = (-(2 * h) - 2 * ad) * (-(2 * h) - 2 * ad)
        BY <1>1, <4>1
      <4> QED BY <4>2 DEF ad
    <3>4. value \in Int
      BY <1>1, <2>2
    <3>5. (2 * h) * (2 * h) \in Int /\ rest * rest \in Int
      BY <1>1, <2>2
    <3> HIDE DEF value, rest
    <3>6. a * value <= 0
      BY <1>1, <2>2, <3>1, <3>2, <3>3, <3>4, <3>5
    <3>7. value <= 0
      BY <1>1, <2>1, <3>4, <3>6
    <3>8. Dot(d, d) <= r * r
      <4>1. a * (dt * dt) \in Int /\ (2 * h) * dt \in Int
        BY <1>1
      <4> QED BY <1>1, <1>3, <3>7, <4>1 DEF value
    <3> QED BY <3>8 DEF d
  <2> QED BY <2>2, <2>3, <2>4
<1> QED BY <1>4, <1>5, <1>6

-----------------------------------------------------------------------------
(* The broad phase. On its way an entity does not leave the span between    *)
(* its start and its end.                                                   *)

LEMMA StaysInSpan ==
  ASSUME NEW p \in Int, NEW v \in Int, NEW dt \in Nat, NEW t \in 0..dt
  PROVE  Lower(p, p + dt * v) <= p + t * v /\ p + t * v <= Upper(p, p + dt * v)
<1>1. dt * v \in Int /\ t * v \in Int
  OBVIOUS
<1>2. CASE v >= 0
  <2>1. t * v >= 0 /\ t * v <= dt * v
    BY <1>2
  <2> QED BY <1>1, <2>1 DEF Lower, Upper
<1>3. CASE v < 0
  <2>1. t * (-v) >= 0 /\ t * (-v) <= dt * (-v)
    BY <1>3
  <2>2. t * (-v) = -(t * v) /\ dt * (-v) = -(dt * v)
    OBVIOUS
  <2> QED BY <1>1, <2>1, <2>2 DEF Lower, Upper
<1> QED BY <1>2, <1>3

LEMMA SpansMeet ==
  ASSUME NEW p \in Int, NEW v \in Int, NEW q \in Int, NEW w \in Int,
         NEW dt \in Nat, NEW t \in 0..dt, NEW r1 \in Nat, NEW r2 \in Nat,
         (p + t * v) - (q + t * w) <= r1 + r2,
         -(r1 + r2) <= (p + t * v) - (q + t * w)
  PROVE  SpansOverlap(Span(p, p + dt * v, r1), Span(q, q + dt * w, r2))
<1> DEFINE i == p + dt * v  j == q + dt * w  m == p + t * v  n == q + t * w
<1>1. i \in Int /\ j \in Int /\ m \in Int /\ n \in Int
  OBVIOUS
<1>2. Lower(p, i) <= m /\ m <= Upper(p, i) /\ Lower(q, j) <= n /\ n <= Upper(q, j)
  BY StaysInSpan
<1>3. m - n <= r1 + r2 /\ -(r1 + r2) <= m - n
  OBVIOUS
<1> HIDE DEF i, j, m, n
<1>4. /\ Lower(p, i) \in Int /\ Upper(p, i) \in Int
      /\ Lower(q, j) \in Int /\ Upper(q, j) \in Int
  BY <1>1 DEF Lower, Upper
<1>5. SpansOverlap(Span(p, i, r1), Span(q, j, r2))
  BY <1>1, <1>2, <1>3, <1>4 DEF SpansOverlap, Span
<1> QED BY <1>5 DEF i, j

\* The boxes of two spheres that are in contact at an instant overlap.
LEMMA BoxesOfContact ==
  ASSUME NEW s1 \in State, NEW s2 \in State, NEW r1 \in Nat, NEW r2 \in Nat, NEW t \in 0..Dt,
         LET d == Subtract(At(s1, t), At(s2, t)) IN Dot(d, d) <= (r1 + r2) * (r1 + r2)
  PROVE  AabbsOverlap(SweptAabb(s1, r1), SweptAabb(s2, r2))
<1> DEFINE p == s1.position  v == s1.velocity  q == s2.position  w == s2.velocity
           dx == (p.x + t * v.x) - (q.x + t * w.x)
           dy == (p.y + t * v.y) - (q.y + t * w.y)
           dz == (p.z + t * v.z) - (q.z + t * w.z)
<1>1. /\ p.x \in Int /\ p.y \in Int /\ p.z \in Int
      /\ v.x \in Int /\ v.y \in Int /\ v.z \in Int
      /\ q.x \in Int /\ q.y \in Int /\ q.z \in Int
      /\ w.x \in Int /\ w.y \in Int /\ w.z \in Int
      /\ t \in Nat /\ Dt \in Nat
  BY MotionAssumption DEF State, Vector
<1>2. dx * dx + dy * dy + dz * dz <= (r1 + r2) * (r1 + r2)
  BY DEF At, Add, Scale, Subtract, Dot
<1>3. dx \in Int /\ dy \in Int /\ dz \in Int /\ r1 + r2 \in Nat
  BY <1>1
<1>4. /\ dx <= r1 + r2 /\ -(r1 + r2) <= dx
      /\ dy <= r1 + r2 /\ -(r1 + r2) <= dy
      /\ dz <= r1 + r2 /\ -(r1 + r2) <= dz
  <2> HIDE DEF dx, dy, dz
  <2> DEFINE r == r1 + r2
  <2>1. dx * dx + dy * dy + dz * dz <= r * r /\ r \in Nat
    BY <1>2, <1>3
  <2> HIDE DEF r
  <2>2. /\ dx <= r /\ -r <= dx
        /\ dy <= r /\ -r <= dy
        /\ dz <= r /\ -r <= dz
    BY <1>3, <2>1, PartOfSum
  <2> QED BY <2>2 DEF r
<1>5. SpansOverlap(Span(p.x, p.x + Dt * v.x, r1), Span(q.x, q.x + Dt * w.x, r2))
  BY <1>1, <1>4, SpansMeet
<1>6. SpansOverlap(Span(p.y, p.y + Dt * v.y, r1), Span(q.y, q.y + Dt * w.y, r2))
  BY <1>1, <1>4, SpansMeet
<1>7. SpansOverlap(Span(p.z, p.z + Dt * v.z, r1), Span(q.z, q.z + Dt * w.z, r2))
  BY <1>1, <1>4, SpansMeet
<1> QED BY <1>5, <1>6, <1>7 DEF AabbsOverlap, SweptAabb, At, Add, Scale

\* What the sweep computes with is how two entities move relative to each other.
LEMMA RelativeMotion ==
  ASSUME NEW s1 \in State, NEW s2 \in State, NEW t \in Nat
  PROVE  Add(Subtract(s1.position, s2.position), Scale(Subtract(s1.velocity, s2.velocity), t))
           = Subtract(At(s1, t), At(s2, t))
<1>1. \A i, j, k, l \in Int : (i - j) + t * (k - l) = (i + t * k) - (j + t * l)
  OBVIOUS
<1> QED BY <1>1 DEF State, Vector, Subtract, Add, Scale, At

\* And the sweep of the two has a time of impact.
LEMMA SweepOfContact ==
  ASSUME NEW s1 \in State, NEW s2 \in State, NEW r \in Nat, NEW t \in 0..Dt,
         LET d == Subtract(At(s1, t), At(s2, t)) IN Dot(d, d) <= r * r
  PROVE  Touches(s1, s2, r, Dt)
<1> DEFINE p == Subtract(s1.position, s2.position)
           u == Subtract(s1.velocity, s2.velocity)
<1>1. p \in Vector /\ u \in Vector
  BY DEF State, Vector, Subtract
<1>2. Add(p, Scale(u, t)) = Subtract(At(s1, t), At(s2, t))
  BY MotionAssumption, RelativeMotion
<1>3. Dot(Add(p, Scale(u, t)), Add(p, Scale(u, t))) <= r * r
  BY <1>2
<1> HIDE DEF p, u
<1>4. \/ Dot(p, p) - r * r <= 0
      \/ RootWithin(Dot(u, u), 2 * Dot(p, u), Dot(p, p) - r * r, Dt)
  BY <1>1, <1>3, SweepFindsContact, MotionAssumption
<1> QED BY <1>4 DEF Touches, p, u

\* A pair for which the sweep has a time of impact.
LEMMA SweptAreInContact ==
  ASSUME TypeOK, NEW a \in Ids, NEW b \in Ids,
         Touches(world[a], world[b], Radius[a] + Radius[b], Dt)
  PROVE  \/ InContact(a, b, 0) \/ InContact(a, b, Dt)
         \/ /\ Approach(a, b, 0) < 0 /\ Approach(a, b, Dt) > 0
            /\ LET u == Subtract(world[a].velocity, world[b].velocity)
                   r == Radius[a] + Radius[b]
               IN  Distance2(a, b, 0) * Dot(u, u) - Approach(a, b, 0) * Approach(a, b, 0)
                     <= r * r * Dot(u, u)
<1> DEFINE p == Subtract(world[a].position, world[b].position)
           u == Subtract(world[a].velocity, world[b].velocity)
           r == Radius[a] + Radius[b]
           d == Add(p, Scale(u, Dt))
<1>1. world[a] \in State /\ world[b] \in State /\ r \in Nat
  BY EntitiesAssumption DEF TypeOK, Ids
<1>2. p \in Vector /\ u \in Vector
  BY <1>1 DEF State, Vector, Subtract
<1>3. d = Subtract(At(world[a], Dt), At(world[b], Dt))
  BY <1>1, MotionAssumption, RelativeMotion
<1>4. p = Subtract(At(world[a], 0), At(world[b], 0))
  <2>1. \A i, j \in Int : i + 0 * j = i
    OBVIOUS
  <2> QED BY <1>1, <2>1 DEF State, Vector, Subtract, Add, Scale, At
<1>5. /\ Approach(a, b, 0) = Dot(p, u) /\ Approach(a, b, Dt) = Dot(d, u)
      /\ Distance2(a, b, 0) = Dot(p, p) /\ Distance2(a, b, Dt) = Dot(d, d)
  BY <1>3, <1>4 DEF Approach, Distance2
<1>6. \/ Dot(p, p) - r * r <= 0
      \/ RootWithin(Dot(u, u), 2 * Dot(p, u), Dot(p, p) - r * r, Dt)
  BY DEF Touches
<1> HIDE DEF p, u, r
<1>7. \/ Dot(p, p) <= r * r
      \/ Dot(d, d) <= r * r
      \/ /\ Dot(p, u) < 0 /\ Dot(d, u) > 0
         /\ Dot(p, p) * Dot(u, u) - Dot(p, u) * Dot(p, u) <= r * r * Dot(u, u)
  BY <1>1, <1>2, <1>6, SweepFindsNothingElse, MotionAssumption
<1> QED BY <1>5, <1>7 DEF InContact, p, u, r

-----------------------------------------------------------------------------
(* The pass.                                                                *)

\* What the broad phase leaves to the narrow phase is enough.
CandidatesSuffice ==
  pc = "sweep" =>
    \A a, b \in SmallIds : \A t \in 0..Dt :
      a # b /\ InContact(a, b, t) => {a, b} \in candidates

IInv == DetectionInv /\ CandidatesSuffice

LEMMA ContactOf ==
  ASSUME TypeOK, NEW a \in Ids, NEW b \in Ids, NEW t \in 0..Dt, InContact(a, b, t)
  PROVE  /\ AabbsOverlap(SweptAabb(world[a], Radius[a]), SweptAabb(world[b], Radius[b]))
         /\ Touches(world[a], world[b], Radius[a] + Radius[b], Dt)
<1>1. world[a] \in State /\ world[b] \in State /\ Radius[a] \in Nat /\ Radius[b] \in Nat
  BY EntitiesAssumption DEF TypeOK, Ids
<1>2. LET d == Subtract(At(world[a], t), At(world[b], t))
      IN  Dot(d, d) <= (Radius[a] + Radius[b]) * (Radius[a] + Radius[b])
  BY DEF InContact, Distance2
<1>3. Radius[a] + Radius[b] \in Nat
  BY <1>1
<1> QED BY <1>1, <1>2, <1>3, BoxesOfContact, SweepOfContact

\* Distance is the same in both directions.
LEMMA ContactIsMutual ==
  ASSUME TypeOK, NEW a \in Ids, NEW b \in Ids, NEW t \in 0..Dt, InContact(a, b, t)
  PROVE  InContact(b, a, t)
<1> DEFINE c == At(world[a], t)  d == At(world[b], t)
<1>1. /\ c.x \in Int /\ c.y \in Int /\ c.z \in Int
      /\ d.x \in Int /\ d.y \in Int /\ d.z \in Int
  BY MotionAssumption DEF TypeOK, State, Vector, At, Add, Scale
<1>2. Radius[a] + Radius[b] = Radius[b] + Radius[a]
  BY EntitiesAssumption DEF TypeOK, Ids
<1> HIDE DEF c, d
<1>3. \A i, j \in Int : (i - j) * (i - j) = (j - i) * (j - i)
  OBVIOUS
<1>4. Dot(Subtract(c, d), Subtract(c, d)) = Dot(Subtract(d, c), Subtract(d, c))
  BY <1>1, <1>3 DEF Dot, Subtract
<1> QED BY <1>2, <1>4 DEF InContact, Distance2, c, d

LEMMA InitDetection == Init => IInv
<1> SUFFICES ASSUME Init PROVE IInv
  OBVIOUS
<1>1. TypeOK
  BY MotionAssumption DEF Init, TypeOK, Ids, SmallIds, State
<1> QED BY <1>1 DEF Init, IInv, DetectionInv, NoContactIsMissed, CandidatesSuffice

LEMMA NextDetection ==
  ASSUME IInv, [Next]_vars
  PROVE  IInv'
<1>1. TypeOK /\ CandidatesSuffice
  BY DEF IInv, DetectionInv
<1>2. CASE ReturnEarly
  <2>1. pc' = "found" /\ UNCHANGED <<world, candidates, hits>> /\ SmallIds = {}
    BY <1>2 DEF ReturnEarly
  <2>2. TypeOK'
    BY <1>1, <2>1 DEF TypeOK, Ids, SmallIds, Collidable
  <2>3. Collidable' = {}
    BY <2>1 DEF Collidable, PairsOf, Ids, SmallIds
  <2> QED BY <2>1, <2>2, <2>3 DEF IInv, DetectionInv, NoContactIsMissed, CandidatesSuffice
<1>3. CASE BroadPhase
  <2>1. /\ pc' = "sweep" /\ UNCHANGED <<world, hits>>
        /\ candidates' \subseteq PairsOf(SmallIds, SmallIds)
    BY <1>3 DEF BroadPhase
  <2>2. TypeOK'
    BY <1>1, <2>1 DEF TypeOK, Ids, SmallIds, Collidable
  <2>3. ASSUME NEW a \in SmallIds, NEW b \in SmallIds, NEW t \in 0..Dt,
               a # b, InContact(a, b, t)
        PROVE  {a, b} \in candidates'
    <3>1. a \in Ids /\ b \in Ids
      BY DEF SmallIds
    <3>2. {a, b} \in PairsOf(SmallIds, SmallIds)
      BY <2>3 DEF PairsOf
    <3>3. InContact(b, a, t)
      BY <1>1, <2>3, <3>1, ContactIsMutual
    <3>4. \A i \in {a, b} : InContact(i, i, t)
      <4>1. \A i \in Ids : Distance2(i, i, t) = 0 /\ (Radius[i] + Radius[i]) * (Radius[i] + Radius[i]) >= 0
        <5> SUFFICES ASSUME NEW i \in Ids
                     PROVE  Distance2(i, i, t) = 0
                            /\ (Radius[i] + Radius[i]) * (Radius[i] + Radius[i]) >= 0
          OBVIOUS
        <5>1. Radius[i] \in Nat /\ world[i] \in State
          BY <1>1, EntitiesAssumption DEF TypeOK, Ids
        <5>2. Distance2(i, i, t) = 0
          BY <5>1 DEF Distance2, Subtract, At, Add, Scale, Dot, State, Vector
        <5> QED BY <5>1, <5>2
      <4> QED BY <3>1, <4>1 DEF InContact
    <3>5. \A i, j \in {a, b} : AabbsOverlap(SweptAabb(world[i], Radius[i]),
                                            SweptAabb(world[j], Radius[j]))
      BY <1>1, <2>3, <3>1, <3>3, <3>4, ContactOf
    <3> QED BY <1>3, <3>2, <3>5 DEF BroadPhase
  <2>4. CandidatesSuffice'
    BY <2>1, <2>3 DEF CandidatesSuffice, SmallIds, Ids, InContact, Distance2
  <2> QED BY <2>1, <2>2, <2>4 DEF IInv, DetectionInv, NoContactIsMissed
<1>4. CASE NarrowPhase
  <2>1. /\ pc = "sweep" /\ pc' = "found" /\ UNCHANGED <<world, candidates>>
        /\ hits' = {pair \in candidates \cup PairsOf(SmallIds, Bodies) : Swept(pair)}
    BY <1>4 DEF NarrowPhase
  <2>2. PICK alive \in SUBSET Small : Ids = alive \cup Bodies
    BY <1>1 DEF TypeOK
  <2>3. candidates \cup PairsOf(SmallIds, Bodies) \subseteq Collidable
    BY <1>1, <2>2 DEF TypeOK, Collidable, PairsOf, SmallIds
  <2>4. TypeOK'
    BY <1>1, <2>1, <2>3 DEF TypeOK, Ids, SmallIds, Collidable
  <2>5. ASSUME NEW pair \in Collidable, NEW a \in pair, NEW b \in pair, NEW t \in 0..Dt,
               a # b, InContact(a, b, t)
        PROVE  pair \in hits'
    <3>1. pair = {a, b} /\ a \in Ids /\ b \in Ids /\ (a \in Small \/ b \in Small)
      BY <2>5 DEF Collidable, PairsOf, SmallIds
    <3>2. Swept(pair)
      BY <1>1, <2>5, <3>1, ContactOf DEF Swept
    <3>3. CASE a \in Small /\ b \in Small
      <4>1. {a, b} \in candidates
        BY <1>1, <2>1, <2>5, <3>1, <3>3 DEF CandidatesSuffice, SmallIds
      <4> QED BY <2>1, <3>1, <3>2, <4>1
    <3>4. CASE a \notin Small \/ b \notin Small
      <4>1. \/ a \in SmallIds /\ b \in Bodies
            \/ b \in SmallIds /\ a \in Bodies
        BY <2>2, <3>1, <3>4 DEF SmallIds
      <4>2. {a, b} \in PairsOf(SmallIds, Bodies)
        BY <2>5, <4>1 DEF PairsOf
      <4> QED BY <2>1, <3>1, <3>2, <4>2
    <3> QED BY <3>3, <3>4
  <2>6. NoContactIsMissed'
    BY <2>1, <2>5 DEF NoContactIsMissed, Collidable, SmallIds, Ids, InContact, Distance2
  <2> QED BY <2>1, <2>4, <2>6 DEF IInv, DetectionInv, CandidatesSuffice
<1>5. CASE UNCHANGED vars
  BY <1>5 DEF vars, IInv, DetectionInv, TypeOK, NoContactIsMissed, CandidatesSuffice,
              Ids, SmallIds, Collidable, InContact, Distance2
<1> QED BY <1>2, <1>3, <1>4, <1>5 DEF Next

\* Types, and that nothing passes through anything: a pair in contact at any instant of
\* the interval is found (broadPhaseSmallObjects, sphereSweepTOI and the loops over
\* them in detectAndResolve).
THEOREM NothingPassesThrough == Spec => []DetectionInv
<1>1. IInv /\ [Next]_vars => IInv'
  BY NextDetection
<1>2. IInv => DetectionInv
  BY DEF IInv
<1> QED BY <1>1, <1>2, InitDetection, PTL DEF Spec

LEMMA NextNoHitWithoutContact ==
  ASSUME TypeOK, TypeOK', NoHitWithoutContact, [Next]_vars
  PROVE  NoHitWithoutContact'
<1>1. CASE UNCHANGED hits /\ UNCHANGED world
  BY <1>1 DEF NoHitWithoutContact, InContact, Distance2, Approach
<1>2. CASE NarrowPhase
  <2>1. /\ UNCHANGED world
        /\ hits' = {pair \in candidates \cup PairsOf(SmallIds, Bodies) : Swept(pair)}
    BY <1>2 DEF NarrowPhase
  <2>2. ASSUME NEW pair \in hits'
        PROVE  \E a, b \in pair :
                 /\ a # b
                 /\ a \in Ids /\ b \in Ids
                 /\ Touches(world[a], world[b], Radius[a] + Radius[b], Dt)
    <3>1. pair \subseteq Ids
      BY <2>1 DEF TypeOK, Collidable, PairsOf, SmallIds, Ids
    <3> QED BY <2>1, <3>1 DEF Swept
  <2> QED BY <2>1, <2>2, SweptAreInContact
          DEF NoHitWithoutContact, InContact, Distance2, Approach
<1> QED BY <1>1, <1>2 DEF Next, ReturnEarly, BroadPhase, vars

\* Nothing is hit from afar, for any entities and motions (sphereSweepTOI): a pair that
\* is found touches within the interval.
THEOREM NothingIsHitFromAfar == Spec => []NoHitWithoutContact
<1>1. Init => NoHitWithoutContact
  BY DEF Init, NoHitWithoutContact
<1>2. IInv => TypeOK
  BY DEF IInv, DetectionInv
<1>3. TypeOK /\ TypeOK' /\ NoHitWithoutContact /\ [Next]_vars => NoHitWithoutContact'
  BY NextNoHitWithoutContact
<1>4. IInv /\ [Next]_vars => IInv'
  BY NextDetection
<1> QED BY <1>1, <1>2, <1>3, <1>4, InitDetection, PTL DEF Spec
=============================================================================
