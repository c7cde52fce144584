------------------------------- MODULE Attitude -----------------------------
(***************************************************************************)
(* How the daemon learns the attitude of its tripod from two sightings and *)
(* points the camera with it: the vector algebra (geo/vec3.ts), the head's *)
(* kinematics (geo/boresight.ts), the two solvers and the inverse          *)
(* (geo/orientation.ts, geo/imu-orientation.ts), and the tools that use    *)
(* them (geo-tools.ts).                                                    *)
(*                                                                         *)
(* Angles are quarter turns, so that every rotation is an integer matrix.  *)
(* Directions have length 5: a camera mounted off the mount's forward axis *)
(* is a Pythagorean triple.  A camera's offset is level (cHead[2] = 0).    *)
(***************************************************************************)
EXTENDS Integers, Sequences

CONSTANTS
  Cameras,    \* true camera directions in the head's frame
  PanMin,     \* the last quarter turns within cfg.panMin and cfg.panMax, and a
  PanMax,     \* shade within: at a limit rounding decides; the tilt's are -1 and 1
  Postures,   \* <<pan, tilt>> landmarks are sighted from
  Unsolved    \* no orientation

ASSUME AttitudeAssumption ==
  /\ Cameras \subseteq {v \in (-5 .. 5) \X (1 .. 5) \X {0} : v[1] * v[1] + v[2] * v[2] = 25}
  /\ PanMin \in -4 .. 0 /\ PanMax \in 0 .. 4
  /\ Postures \subseteq (-4 .. 4) \X (-1 .. 1)
  /\ Unsolved \notin Int /\ Unsolved \notin Int \X Int

VARIABLES
  tripod,     \* the true rotation from the mount's frame to ENU
  handed,     \* cfg.geoPanSign
  camera,     \* the true direction of the camera in the head's frame
  sighted,    \* postures from which a landmark filled the crosshairs
  solution    \* what solve_calibration stored, or Unsolved

attitudeVars == <<tripod, handed, camera, sighted, solution>>

Up == <<0, 0, 5>>
Forward == <<0, 5, 0>>
-----------------------------------------------------------------------------
(* geo/vec3.ts, geo/boresight.ts.                                          *)
add(a, b) == <<a[1] + b[1], a[2] + b[2], a[3] + b[3]>>
scale(a, k) == <<a[1] * k, a[2] * k, a[3] * k>>
dot(a, b) == a[1] * b[1] + a[2] * b[2] + a[3] * b[3]
cross(a, b) ==
  <<a[2] * b[3] - a[3] * b[2], a[3] * b[1] - a[1] * b[3], a[1] * b[2] - a[2] * b[1]>>
matVec(m, v) == <<dot(m[1], v), dot(m[2], v), dot(m[3], v)>>
matFromColumns(a, b, c) == <<<<a[1], b[1], c[1]>>, <<a[2], b[2], c[2]>>, <<a[3], b[3], c[3]>>>>
transpose(m) == matFromColumns(m[1], m[2], m[3])
matMul(a, b) ==
  LET bt == transpose(b) IN <<matVec(bt, a[1]), matVec(bt, a[2]), matVec(bt, a[3])>>

Cos(q) == IF q % 4 = 0 THEN 1 ELSE IF q % 4 = 2 THEN -1 ELSE 0
Sin(q) == Cos(q - 1)
rotX(q) == <<<<1, 0, 0>>, <<0, Cos(q), -Sin(q)>>, <<0, Sin(q), Cos(q)>>>>
rotZ(q) == <<<<Cos(q), -Sin(q), 0>>, <<Sin(q), Cos(q), 0>>, <<0, 0, 1>>>>

mountHeadRotation(pan, tilt) == matMul(rotZ(-pan), rotX(tilt))
boresightToEnu(R, cHead, gp, p) ==
  matVec(matMul(R, mountHeadRotation(gp * p[1], p[2])), cHead)

(* Directions along an axis, cut to length.                                *)
Sgn(x) == IF x > 0 THEN 1 ELSE IF x < 0 THEN -1 ELSE 0
Unit(v) == <<Sgn(v[1]), Sgn(v[2]), Sgn(v[3])>>
Neg(v) == scale(v, -1)

Rotations ==
  {matMul(rotZ(a), matMul(rotX(b), rotZ(c))) : a \in 0 .. 3, b \in 0 .. 3, c \in 0 .. 3}

(* Azimuth as a vector; atan2(0, 0) is 0, north.                           *)
Az(v) == IF v[1] = 0 /\ v[2] = 0 THEN <<0, 1>> ELSE <<v[1], v[2]>>

(* The angle of azimuth a less that of b, as the vector <<cos, sin>>.      *)
AzLess(a, b) == <<a[1] * b[1] + a[2] * b[2], a[1] * b[2] - a[2] * b[1]>>
Quarter(h) == CHOOSE q \in 0 .. 3 : \E k \in 1 .. 25 : h = <<k * Cos(q), k * Sin(q)>>
IsQuarter(h) == h[1] = 0 \/ h[2] = 0
Root(n) == CHOOSE r \in 0 .. n : r * r = n
-----------------------------------------------------------------------------
(* TRIAD (geo/orientation.ts).                                             *)
Triad(a, b) ==
  LET t1 == Unit(a)
      t2 == Unit(cross(a, b))
  IN  matFromColumns(t1, t2, cross(t1, t2))

solveOrientation(mountA, enuA, mountB, enuB) ==
  matMul(Triad(enuA, enuB), transpose(Triad(mountA, mountB)))

(* Rodrigues' formula for the angles there are: the half turn about u, and *)
(* the quarter turn about v, of length 1.                                  *)
halfTurn(u) ==
  LET row(i) == add(scale(u, 2 * u[i]), Neg(rotZ(0)[i]))
  IN  <<row(1), row(2), row(3)>>

quarterTurn(v) ==
  LET vx == <<<<0, -v[3], v[2]>>, <<v[3], 0, -v[1]>>, <<-v[2], v[1], 0>>>>
      row(i) == add(rotZ(0)[i], add(vx[i], matMul(vx, vx)[i]))
  IN  <<row(1), row(2), row(3)>>

(* The rotation taking a to b; a half turn is about any axis across a.     *)
rotAlign(a, b) ==
  IF a = b THEN rotZ(0)
  ELSE IF a = Neg(b)
    THEN halfTurn(Unit(cross(a, IF a[1] = 0 THEN <<1, 0, 0>> ELSE <<0, 1, 0>>)))
    ELSE quarterTurn(cross(a, b))

(* The base's down, of length 1, from one gravity read at posture p.       *)
dBaseFromGravity(p, gravity, gp) == matVec(mountHeadRotation(gp * p[1], p[2]), gravity)

(* The accelerometer of a rig at rest, its axes the head's.                *)
GravityAt(p) ==
  Unit(matVec(transpose(matMul(tripod, mountHeadRotation(handed * p[1], p[2]))), Neg(Up)))

(* geo/imu-orientation.ts, solveCalibrationWithGravity: the two rows of N  *)
(* are axes, so (N Nt) is the identity when they are not parallel.         *)
RowOf(R0, p) == matMul(R0, mountHeadRotation(handed * p[1], p[2]))[3]

Candidate(R0, rows, enu, t) ==
  LET nz == Unit(cross(rows[1], rows[2]))
      c == matVec(matFromColumns(rows[1], rows[2], nz), <<enu[1][3], enu[2][3], t>>)
      h(i) == AzLess(Az(boresightToEnu(R0, c, handed, sighted[i])), Az(enu[i]))
      apart == AzLess(h(1), h(2))
  IN  [c |-> c, heading |-> h(1), agree |-> apart[1] > 0 /\ apart[2] = 0]

(* Mutant: the first root, whether or not the landmarks agree on it.       *)
BestFirst(roots) == roots[1]

(* The camera looks forward, then the better agreement; of two disagreeing *)
(* ones either is refused.                                                 *)
Best(roots) ==
  LET preferred(k) == (k.c[2] > 0) \/ \A r \in {roots[1], roots[2]} : r.c[2] <= 0
  IN  IF preferred(roots[1]) /\ (roots[1].agree \/ ~ preferred(roots[2]) \/ ~ roots[2].agree)
        THEN roots[1]
        ELSE roots[2]

GravitySolve(dBase, enu) ==
  LET R0 == rotAlign(Neg(dBase), Unit(Up))
      rows == <<RowOf(R0, sighted[1]), RowOf(R0, sighted[2])>>
      disc == 25 - enu[1][3] * enu[1][3] - enu[2][3] * enu[2][3]
      best == Best(<<Candidate(R0, rows, enu, Root(disc)),
                     Candidate(R0, rows, enu, -Root(disc))>>)
  IN  IF dot(rows[1], rows[2]) # 0 \/ disc < 0 \/ ~ best.agree
        THEN Unsolved
        ELSE [R |-> IF IsQuarter(best.heading)
                      THEN matMul(rotZ(Quarter(best.heading)), R0)
                      ELSE R0,
              cHead |-> best.c]
-----------------------------------------------------------------------------
(* The inverse (geo/imu-orientation.ts): the two tilts at which the camera *)
(* can reach the height of w, the second over the top, each with the pan   *)
(* that turns it there.  Rounding decides between - and + half a turn, and *)
(* on the pan of a camera that looks straight along its axis.  (A pan that *)
(* is no number of quarters goes with a tilt of half a turn: any will do.) *)
enuToPanTiltOffsetAll(R, cHead, gp, w) ==
  LET m == matVec(transpose(R), w)
      asin == Unit(m)[3]
      pans(t) ==
        LET u == matVec(rotX(t), cHead)
            h == AzLess(m, u)
        IN  {p \in -2 .. 2 : h # <<0, 0>> /\ IsQuarter(h) => (p - gp * Quarter(h)) % 4 = 0}
      over == IF asin = 0 THEN 2 ELSE asin
  IN  {<<p, asin>> : p \in pans(asin)} \X {<<p, over>> : p \in pans(over)}

inRange(p) == p[1] \in PanMin .. PanMax /\ p[2] \in -1 .. 1

(* A root in range before one that is not, then the one with the smaller   *)
(* error: of two that both look there, rounding decides.                   *)
Preferred(sols) ==
  LET roots == {sols[1], sols[2]}
      ranged == {p \in roots : inRange(p)}
  IN  IF ranged # {} THEN ranged ELSE roots

enuToPanTiltOffset(R, cHead, gp, w) ==
  UNION {Preferred(sols) : sols \in enuToPanTiltOffsetAll(R, cHead, gp, w)}

(* The pan itself, or a turn less, or a turn more.                         *)
resolvePanInRange(pan) ==
  LET fits(p) == p \in PanMin .. PanMax
  IN  IF      fits(pan)     THEN pan
      ELSE IF fits(pan - 4) THEN pan - 4
      ELSE IF fits(pan + 4) THEN pan + 4
      ELSE Unsolved

(* The posture a root is brought to, Unsolved if it is refused.            *)
reachablePanTilt(p) ==
  LET pan == resolvePanInRange(p[1])
  IN  IF pan = Unsolved \/ p[2] \notin -1 .. 1 THEN Unsolved ELSE <<pan, p[2]>>

(* point_at_azel: the postures it may move to, Unsolved if it may refuse.  *)
PointAt(w) ==
  {reachablePanTilt(p) : p \in enuToPanTiltOffset(solution.R, solution.cHead, handed, w)}
-----------------------------------------------------------------------------
LooksAt(p) == boresightToEnu(tripod, camera, handed, p)

AttitudeTypeOK ==
  /\ tripod \in Rotations
  /\ handed \in {-1, 1}
  /\ camera \in Cameras
  /\ sighted \in {<<>>} \cup {<<p>> : p \in Postures} \cup (Postures \X Postures)
  /\ solution # Unsolved =>
       /\ solution.R \in Rotations
       /\ solution.cHead \in (-5 .. 5) \X (-5 .. 5) \X (-5 .. 5)

AttitudeInit ==
  /\ tripod \in Rotations
  /\ handed \in {-1, 1}
  /\ camera \in Cameras
  /\ sighted = <<>>
  /\ solution = Unsolved

(* sight_landmark: the operator has jogged the landmark into the centre.   *)
(* None stands straight above or below the rig, where it has no azimuth.   *)
Sight(p) ==
  /\ Len(sighted) < 2   \* a third would only replace the first
  /\ LooksAt(p)[1] # 0 \/ LooksAt(p)[2] # 0
  /\ sighted' = Append(sighted, p)
  /\ UNCHANGED <<tripod, handed, camera, solution>>

(* solve_calibration without an IMU takes the camera to look forward and   *)
(* the pan to be right-handed; parallel sightings throw.                   *)
SolveByTriad ==
  /\ Len(sighted) = 2
  /\ solution = Unsolved
  /\ camera = Forward
  /\ handed = 1
  /\ LET mount(i) == matVec(mountHeadRotation(sighted[i][1], sighted[i][2]), Forward)
     IN  /\ Unit(mount(1)) \notin {Unit(mount(2)), Neg(Unit(mount(2)))}
         /\ solution' =
              [R |-> solveOrientation(mount(1), LooksAt(sighted[1]),
                                      mount(2), LooksAt(sighted[2])),
               cHead |-> Forward]
  /\ UNCHANGED <<tripod, handed, camera, sighted>>

(* With one: gravity is read wherever the rig happens to point, where it   *)
(* was left by the last sighting or at home.                               *)
SolveByGravity ==
  /\ Len(sighted) = 2
  /\ solution = Unsolved
  /\ \E p \in {sighted[2], <<0, 0>>} :
       solution' = GravitySolve(dBaseFromGravity(p, GravityAt(p), handed),
                                <<LooksAt(sighted[1]), LooksAt(sighted[2])>>)
  /\ UNCHANGED <<tripod, handed, camera, sighted>>

AttitudeNext ==
  \/ \E p \in Postures : Sight(p)
  \/ SolveByGravity
  \/ SolveByTriad

AttitudeSpec == AttitudeInit /\ [][AttitudeNext]_attitudeVars
-----------------------------------------------------------------------------
(* geo-tools.ts:156-223, 300-320: whichever way the tripod stands, an      *)
(* attitude that was not refused is the true one, the camera's offset      *)
(* included.  Asked for any direction the camera can look in, the rig goes *)
(* to a posture within its limits that looks there, or refuses and stays.  *)
(* It refuses no direction it can reach without panning half a turn or     *)
(* more, but for those straight along the pan's axis.                      *)
AlongAxis(p) == camera = Forward /\ p[2] # 0

PointsTrue ==
  solution # Unsolved =>
    \A p \in (PanMin .. PanMax) \X (-1 .. 1) :
      \A q \in PointAt(LooksAt(p)) :
        IF q = Unsolved
          THEN p[1] \notin -1 .. 1 \/ AlongAxis(p)
          ELSE q[1] \in PanMin .. PanMax /\ q[2] \in -1 .. 1 /\ LooksAt(q) = LooksAt(p)
=============================================================================
