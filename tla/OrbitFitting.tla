---------------------------- MODULE OrbitFitting ----------------------------
(***************************************************************************)
(* fitOrbit: the ellipse on which a ship goes round a body, from where it  *)
(* is and how it moves relative to it.                                     *)
(*                                                                         *)
(* Vectors are of integers, and what the code divides by is kept as a      *)
(* factor instead, so that everything is exact: the lengths of an orbit    *)
(* are multiples of one unit, 1 / orbit.unit, and its directions are not   *)
(* normalised. The thresholds of the code are zero. The distance is that   *)
(* of the position, which therefore is one of those where it is an         *)
(* integer.                                                                *)
(***************************************************************************)
EXTENDS Integers

Vector(x, y, z) == [x |-> x, y |-> y, z |-> z]

Zero == Vector(0, 0, 0)

Scale(a, k) == Vector(a.x * k, a.y * k, a.z * k)

Subtract(a, b) == Vector(a.x - b.x, a.y - b.y, a.z - b.z)

Dot(a, b) == (a.x * b.x) + (a.y * b.y) + (a.z * b.z)

Cross(a, b) ==
  Vector((a.y * b.z) - (a.z * b.y), (a.z * b.x) - (a.x * b.z), (a.x * b.y) - (a.y * b.x))

Distance(r) == CHOOSE d \in 0..Dot(r, r) : d * d = Dot(r, r)

\* Twice the specific energy, negated and times the distance.
Binding(r, v, mu) == (2 * mu) - (Distance(r) * Dot(v, v))

\* Mutant of Eccentricity: the velocity is crossed with the angular momentum the
\* other way round.
EccentricityBug(r, v, mu) ==
  Subtract(Scale(Cross(Cross(r, v), v), Distance(r)), Scale(r, mu))

\* The eccentricity vector, times mu and the distance.
Eccentricity(r, v, mu) ==
  Subtract(Scale(Cross(v, Cross(r, v)), Distance(r)), Scale(r, mu))

NoOrbit == [isElliptic |-> FALSE]

\* The near-circular orbit has its periapsis at the ship: the position is in the
\* plane already, so that projecting it changes nothing.
PeriapsisDirection(r, ecc) == IF ecc # Zero THEN ecc ELSE r

\* fitOrbit, up to the true anomaly: cosine and sine are of one sign with the
\* numbers given for them.
FitOrbit(r, v, mu) ==
  LET normal == Cross(r, v)
      unit   == Binding(r, v, mu)
      ecc    == Eccentricity(r, v, mu)
      major  == mu * Distance(r)
      toward == PeriapsisDirection(r, ecc)
  IN  IF \/ normal = Zero
         \/ unit <= 0
         \/ Dot(ecc, ecc) >= major * major
      THEN NoOrbit
      ELSE [isElliptic       |-> TRUE,
            unit             |-> unit,
            semiMajor        |-> major,
            semiMinorSquared |-> (major * major) - Dot(ecc, ecc),
            orbitNormal      |-> normal,
            periapsis        |-> toward,
            side             |-> Cross(normal, toward),
            ellipseCenter    |-> Scale(ecc, -1),
            cosAnomaly       |-> Dot(toward, r),
            sinAnomaly       |-> Dot(normal, Cross(toward, r))]

-----------------------------------------------------------------------------
\* What lies between the ship and the empty focus of the orbit.
FromEmptyFocus(o, r) == Subtract(Scale(r, o.unit), Scale(o.ellipseCenter, 2))

DistanceFromEmptyFocus(o, r) == (2 * o.semiMajor) - (o.unit * Distance(r))

\* An orbit is the one of a ship at r that moves at v: the ship is on the ellipse,
\* since its distances from the two foci, one of which is the body, add up to the
\* major axis; it moves along the ellipse, since it leaves one focus as it
\* approaches the other; the axes fit the centre; and the ship is past the
\* periapsis when it is moving away from the body.
IsOrbitOf(o, r, v) ==
  LET toEmpty == FromEmptyFocus(o, r)
      second  == DistanceFromEmptyFocus(o, r)
  IN  /\ o.unit > 0 /\ second >= 0 /\ o.semiMinorSquared > 0
      /\ Dot(toEmpty, toEmpty) = second * second
      /\ (Dot(v, toEmpty) * Distance(r)) + (Dot(v, r) * second) = 0
      /\ Dot(o.ellipseCenter, o.ellipseCenter) + o.semiMinorSquared = o.semiMajor * o.semiMajor
      /\ Dot(o.periapsis, o.ellipseCenter) <= 0
      /\ Cross(o.periapsis, o.ellipseCenter) = Zero
      /\ Dot(o.side, o.periapsis) = 0
      /\ o.ellipseCenter # Zero => (o.sinAnomaly > 0 <=> Dot(v, r) > 0)

\* The ships that have an orbit are those that neither fall straight nor escape:
\* the eccentricity never has the last word.
HasOrbit(r, v, mu) == Cross(r, v) # Zero /\ Binding(r, v, mu) > 0
=============================================================================
