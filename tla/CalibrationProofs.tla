-------------------------- MODULE CalibrationProofs -------------------------
(***************************************************************************)
(* The calibration's types, and that it holds, for a sweep of any length;  *)
(* and that the attitude it solves is the true one, for every camera,      *)
(* mount, pan range and pair of postures.                                  *)
(*                                                                         *)
(* CalibrationHolds is not inductive: an orientation can come from         *)
(* sightings, and those from before a home.  CalInv follows what was       *)
(* measured back to its origin: outside set_home's window, everything in   *)
(* the profile and in a solve that is under way still holds, and a home    *)
(* answered before the rig carried it out finds the profile empty.         *)
(*                                                                         *)
(* Attitude.  PointsTrue is not inductive: what makes a rig point true is  *)
(* that a stored solution is the tripod's attitude and the camera's        *)
(* direction (SolvedTrue).  Every rotation there is is a right-handed      *)
(* triple of directions along the axes (IsRot), which the heads, the       *)
(* solvers' frames and their products all are.  One gravity read shows the *)
(* tripod's up at any posture, and an attitude that agrees on what is up   *)
(* lacks a heading only.  The camera is then one of two mirror images: the *)
(* other looks backward, or the landmarks disagree on its heading.         *)
(***************************************************************************)
EXTENDS Calibration, Attitude, TLAPS

Holds(p) == Worth(p) /\ p.orientation \in {TRUE, Unset}

Blank == profile.sightings = <<>> /\ profile.orientation = Unset /\ solving = Unset

CalInv ==
  ~ tainted =>
    /\ saved = profile
    /\ homeCall # "accepted" => Holds(profile) /\ solving \in {TRUE, Unset}
    /\ homing /\ homeCall # "accepted" => Blank
-----------------------------------------------------------------------------
(* The list of sightings keeps its shape, and what holds in it, when one   *)
(* is added (calibration.ts:62-67).                                        *)
LEMMA SightingAdded ==
  ASSUME NEW s \in Sightings, NEW h \in BOOLEAN
  PROVE  /\ LastTwo(s, h) \in Sightings
         /\ (\A i \in DOMAIN s : s[i]) /\ h
              => \A i \in DOMAIN LastTwo(s, h) : LastTwo(s, h)[i]
<1>1. CASE s = <<>>
  BY <1>1 DEF LastTwo, Sightings
<1>2. CASE s # <<>>
  <2>1. Len(s) \in DOMAIN s /\ s[Len(s)] \in BOOLEAN
    BY <1>2 DEF Sightings
  <2>2. LastTwo(s, h) = <<s[Len(s)], h>>
    BY <1>2 DEF LastTwo
  <2> QED
    BY <2>1, <2>2 DEF Sightings
<1> QED
  BY <1>1, <1>2

(* A home that moves the origin leaves a list of the same length, and an   *)
(* empty profile as it was (the rig's poll, tb3_web.cpp:586-589).          *)
LEMMA OutdatedShape ==
  ASSUME NEW p \in Profiles
  PROVE  /\ Outdated(p) \in Profiles
         /\ p.sightings = <<>> /\ p.orientation = Unset => Outdated(p) = p
<1> DEFINE s == p.sightings
           t == [i \in DOMAIN s |-> FALSE]
<1>1. s \in Sightings
  BY DEF Profiles
<1>2. t \in Seq(BOOLEAN) /\ Len(t) = Len(s)
  <2>1. DOMAIN s = 1 .. Len(s) /\ Len(s) \in Nat
    BY <1>1 DEF Sightings
  <2>2. t \in [1 .. Len(s) -> BOOLEAN]
    BY <2>1
  <2> QED
    BY <2>1, <2>2
<1>3. t \in Sightings
  BY <1>1, <1>2 DEF Sightings
<1>4. s = <<>> => t = <<>>
  OBVIOUS
<1> HIDE DEF t
<1>5. Outdated(p) = [p EXCEPT !.sightings = t, !.orientation = IF @ = Unset THEN Unset ELSE FALSE]
  BY DEF Outdated, t
<1> QED
  BY <1>3, <1>4, <1>5 DEF Profiles

(* A writer's outcome is a profile, in memory and, if it was saved, in the *)
(* file (calibration.ts:50-55).                                            *)
LEMMA SavedShape ==
  ASSUME NEW p \in Profiles, NEW o \in BOOLEAN, CalTypeOK, Save(p, o)
  PROVE  profile' \in Profiles /\ saved' \in Profiles /\ tainted' \in BOOLEAN
BY DEF Save, CalTypeOK

(* Every profile the tools write has the shape of one, whatever it starts  *)
(* from (calibration.ts:57-120).                                           *)
LEMMA WrittenShape ==
  ASSUME CalTypeOK, NEW h \in BOOLEAN
  PROVE  /\ EmptyProfile \in Profiles
         /\ setRigLocation \in Profiles
         /\ addSighting(h) \in Profiles
         /\ setOrientation(h) \in Profiles
         /\ setGravityCalibration(h) \in Profiles
         /\ invalidateCalibration \in Profiles
         /\ [profile EXCEPT !.imuMounting = TRUE] \in Profiles
<1>1. profile \in Profiles
  BY DEF CalTypeOK
<1>2. <<>> \in Sightings
  BY DEF Sightings
<1>3. LastTwo(profile.sightings, h) \in Sightings
  BY <1>1, SightingAdded DEF Profiles
<1>4. EmptyProfile \in Profiles /\ setRigLocation \in Profiles
  BY <1>2 DEF EmptyProfile, setRigLocation, Profiles
<1>5. addSighting(h) \in Profiles
  BY <1>1, <1>3 DEF addSighting, Profiles
<1>6. setOrientation(h) \in Profiles /\ setGravityCalibration(h) \in Profiles
  BY <1>1 DEF setOrientation, setGravityCalibration, Profiles
<1>7. invalidateCalibration \in Profiles
  BY <1>1, <1>2 DEF invalidateCalibration, Profiles
<1>8. [profile EXCEPT !.imuMounting = TRUE] \in Profiles
  BY <1>1 DEF Profiles
<1> QED
  BY <1>4, <1>5, <1>6, <1>7, <1>8

(* The calibration's variables always have their types.                    *)
THEOREM CalTypeCorrect == CalSpec => []CalTypeOK
<1>1. CalInit => CalTypeOK
  <2> SUFFICES ASSUME CalInit PROVE CalTypeOK
    OBVIOUS
  <2>1. <<>> \in Sightings
    BY DEF Sightings
  <2>2. EmptyProfile \in Profiles
    BY <2>1 DEF EmptyProfile, Profiles
  <2>3. [EmptyProfile EXCEPT !.imuMounting = TRUE] \in Profiles
    BY <2>2 DEF Profiles
  <2>4. 0 \in 0 .. SweepPositions
    BY CalAssumption
  <2> QED
    BY <2>2, <2>3, <2>4 DEF CalInit, CalTypeOK
<1>2. CalTypeOK /\ [CalNext]_calVars => CalTypeOK'
  <2> SUFFICES ASSUME CalTypeOK, [CalNext]_calVars PROVE CalTypeOK'
    OBVIOUS
  <2> USE CalAssumption
  <2>0. Worth(profile) \in BOOLEAN /\ (solving # Unset) \in BOOLEAN
    BY DEF Worth
  <2>1. CASE SetRigLocation
    <3>1. setRigLocation \in Profiles /\ Outdated(saved) \in Profiles
      BY WrittenShape, OutdatedShape DEF CalTypeOK
    <3> QED
      BY <2>1, <3>1 DEF CalTypeOK, SetRigLocation, homeVars
  <2>2. CASE ClearCalibration
    BY <2>0, <2>2, SavedShape, WrittenShape DEF CalTypeOK, ClearCalibration, homeVars
  <2>3. CASE SightLandmark
    <3>1. addSighting(TRUE) \in Profiles /\ (solving # Unset \/ homing) \in BOOLEAN
      BY WrittenShape
    <3> QED
      BY <2>3, <3>1, SavedShape DEF CalTypeOK, SightLandmark, homeVars
  <2>4. CASE SolveTriad
    <3>1. setOrientation(Worth(profile)) \in Profiles
      BY <2>0, WrittenShape
    <3> QED
      BY <2>0, <2>4, <3>1, SavedShape DEF CalTypeOK, SolveTriad, homeVars
  <2>5. CASE SolveReadsGravity
    BY <2>0, <2>5 DEF CalTypeOK, SolveReadsGravity, homeVars, profileVars
  <2>6. CASE SolveRefused
    BY <2>6 DEF CalTypeOK, SolveRefused, homeVars, profileVars
  <2>7. CASE SolveEnds
    <3>1. solving \in BOOLEAN
      BY <2>7 DEF SolveEnds, CalTypeOK
    <3>2. setGravityCalibration(solving) \in Profiles
      BY <3>1, WrittenShape
    <3> QED
      BY <2>7, <3>2, SavedShape DEF CalTypeOK, SolveEnds, homeVars
  <2>8. CASE SetHome \/ HomeAccepted
    BY <2>8 DEF CalTypeOK, SetHome, HomeAccepted, profileVars
  <2>9. CASE HomeDrained
    <3>1. Outdated(profile) \in Profiles /\ Outdated(saved) \in Profiles
      BY OutdatedShape DEF CalTypeOK
    <3> QED
      BY <2>9, <3>1 DEF CalTypeOK, HomeDrained
  <2>10. CASE HomeAnswered
    BY <2>0, <2>10, SavedShape, WrittenShape DEF CalTypeOK, HomeAnswered
  <2>11. CASE HomeFails
    BY <2>11 DEF CalTypeOK, HomeFails
  <2>12. CASE SweepLeg \/ SweepAborts
    BY <2>12 DEF CalTypeOK, SweepLeg, SweepAborts, homeVars, profileVars
  <2>13. CASE SweepEnds
    <3>1. [profile EXCEPT !.imuMounting = TRUE] \in Profiles
      BY WrittenShape
    <3>2. profile' \in Profiles /\ saved' \in Profiles /\ tainted' \in BOOLEAN
      BY <2>13, <3>1, SavedShape DEF SweepEnds
    <3>3. 0 \in 0 .. SweepPositions
      OBVIOUS
    <3> QED
      BY <2>13, <3>2, <3>3 DEF CalTypeOK, SweepEnds, homeVars
  <2>14. CASE DaemonReloadsProfile
    BY <2>14 DEF CalTypeOK, DaemonReloadsProfile
  <2>15. CASE UNCHANGED calVars
    BY <2>15 DEF CalTypeOK, calVars, homeVars, profileVars
  <2> QED
    BY <2>1, <2>2, <2>3, <2>4, <2>5, <2>6, <2>7, <2>8, <2>9, <2>10, <2>11, <2>12, <2>13,
       <2>14, <2>15 DEF CalNext
<1> QED
  BY <1>1, <1>2, PTL DEF CalSpec
-----------------------------------------------------------------------------
(* What an action that overlapped nothing and failed nowhere leaves in the *)
(* profile holds, if what it read held (calibration.ts:57-120).            *)
LEMMA WrittenHolds ==
  ASSUME CalTypeOK
  PROVE  /\ Holds(EmptyProfile)
         /\ Holds(setRigLocation)
         /\ Holds(invalidateCalibration)
         /\ Holds(profile) => Holds(addSighting(TRUE))
         /\ Holds(profile) => Holds(setOrientation(TRUE))
         /\ Holds(profile) => Holds(setGravityCalibration(TRUE))
         /\ Holds(profile) => Holds([profile EXCEPT !.imuMounting = TRUE])
<1>1. profile \in Profiles /\ profile.sightings \in Sightings
  BY DEF CalTypeOK, Profiles
<1>2. \A i \in DOMAIN <<>> : <<>>[i]
  OBVIOUS
<1>3. Holds(EmptyProfile) /\ Holds(setRigLocation)
  BY <1>2 DEF Holds, Worth, EmptyProfile, setRigLocation
<1>4. Holds(invalidateCalibration)
  BY <1>1, <1>2 DEF Holds, Worth, invalidateCalibration, Profiles
<1>5. ASSUME Holds(profile) PROVE Holds(addSighting(TRUE))
  <2> DEFINE two == LastTwo(profile.sightings, TRUE)
  <2>1. \A i \in DOMAIN two : two[i]
    BY <1>1, <1>5, SightingAdded DEF Holds, Worth
  <2> HIDE DEF two
  <2>2. addSighting(TRUE) =
          [profile EXCEPT !.sightings = two, !.orientation = Unset, !.cHead = FALSE]
    BY DEF addSighting, two
  <2>3. addSighting(TRUE).sightings = two /\ addSighting(TRUE).orientation = Unset
    BY <1>1, <2>2 DEF Profiles
  <2> QED
    BY <2>1, <2>3 DEF Holds, Worth
<1>6. ASSUME Holds(profile)
      PROVE  Holds(setOrientation(TRUE)) /\ Holds(setGravityCalibration(TRUE))
  BY <1>1, <1>6 DEF Holds, Worth, setOrientation, setGravityCalibration, Profiles
<1>7. ASSUME Holds(profile) PROVE Holds([profile EXCEPT !.imuMounting = TRUE])
  BY <1>1, <1>7 DEF Holds, Worth, Profiles
<1> QED
  BY <1>3, <1>4, <1>5, <1>6, <1>7

(* What was measured is followed back to its origin by every step.         *)
LEMMA CalStep ==
  ASSUME CalTypeOK, CalInv, [CalNext]_calVars
  PROVE  CalInv'
<1> SUFFICES ASSUME ~ tainted' PROVE CalInv'
  BY DEF CalInv
<1> USE CalAssumption
<1>0. profile \in Profiles /\ solving \in BOOLEAN \cup {Unset}
  BY DEF CalTypeOK
<1>1. CASE SetRigLocation
  <2>1. solving = Unset /\ ~ tainted /\ profile' = setRigLocation /\ saved' = profile' /\ solving' = Unset
    BY <1>1 DEF SetRigLocation
  <2>2. profile'.sightings = <<>> /\ profile'.orientation = Unset
    BY <2>1 DEF setRigLocation, EmptyProfile
  <2> QED
    BY <1>1, <2>1, <2>2, WrittenHolds DEF CalInv, SetRigLocation, homeVars, Blank, Holds, Worth
<1>2. CASE ClearCalibration
  <2>1. solving = Unset /\ ~ tainted /\ profile' = EmptyProfile /\ saved' = profile' /\ solving' = Unset
    BY <1>2 DEF ClearCalibration, Save
  <2>2. profile'.sightings = <<>> /\ profile'.orientation = Unset
    BY <2>1 DEF EmptyProfile
  <2> QED
    BY <1>2, <2>1, <2>2, WrittenHolds DEF CalInv, ClearCalibration, homeVars, Blank, Holds, Worth
<1>3. CASE SightLandmark
  <2>1. /\ solving = Unset /\ ~ tainted /\ ~ homing /\ solving' = Unset
        /\ profile' = addSighting(TRUE) /\ saved' = profile'
        /\ homing' = homing /\ homeCall' = homeCall
    BY <1>3 DEF SightLandmark, Save, homeVars
  <2>2. homeCall # "accepted" => Holds(profile')
    BY <2>1, WrittenHolds DEF CalInv
  <2> QED
    BY <2>1, <2>2 DEF CalInv, Holds, Worth
<1>4. CASE SolveTriad
  <2>1. /\ solving = Unset /\ ~ tainted /\ solving' = Unset
        /\ profile' = setOrientation(Worth(profile)) /\ saved' = profile'
        /\ homing' = homing /\ homeCall' = homeCall
    BY <1>4 DEF SolveTriad, Save, homeVars
  <2>2. homeCall # "accepted" => Holds(profile) /\ Worth(profile) = TRUE
    BY <2>1 DEF CalInv, Holds, Worth
  <2>3. homeCall # "accepted" => Holds(profile')
    BY <2>1, <2>2, WrittenHolds
  <2>4. homing => homeCall = "accepted"
    BY <1>4, <2>1 DEF CalInv, Blank, SolveTriad, SolveBegins
  <2> QED
    BY <2>1, <2>3, <2>4 DEF CalInv, Holds, Worth
<1>5. CASE SolveReadsGravity
  <2>1. /\ ~ tainted /\ profile' = profile /\ saved' = saved /\ solving' = Worth(profile)
        /\ homing' = homing /\ homeCall' = homeCall
    BY <1>5 DEF SolveReadsGravity, profileVars, homeVars
  <2>2. homeCall # "accepted" => Holds(profile) /\ Worth(profile) = TRUE
    BY <2>1 DEF CalInv, Holds, Worth
  <2>4. homing => homeCall = "accepted"
    BY <1>5, <2>1 DEF CalInv, Blank, SolveReadsGravity, SolveBegins
  <2> QED
    BY <2>1, <2>2, <2>4 DEF CalInv, Holds, Worth
<1>6. CASE SolveRefused
  BY <1>6 DEF CalInv, SolveRefused, profileVars, homeVars, Holds, Worth, Blank
<1>7. CASE SolveEnds
  <2>1. /\ ~ tainted /\ solving # Unset /\ solving' = Unset
        /\ profile' = setGravityCalibration(solving) /\ saved' = profile'
        /\ homing' = homing /\ homeCall' = homeCall
    BY <1>7 DEF SolveEnds, Save, homeVars
  <2>2. homeCall # "accepted" => Holds(profile) /\ solving = TRUE
    BY <2>1 DEF CalInv
  <2>3. homeCall # "accepted" => Holds(profile')
    BY <2>1, <2>2, WrittenHolds
  <2>4. homing => homeCall = "accepted"
    BY <2>1 DEF CalInv, Blank
  <2> QED
    BY <2>1, <2>3, <2>4 DEF CalInv, Holds, Worth
<1>8. CASE SetHome
  BY <1>8 DEF CalInv, SetHome, profileVars, Holds, Worth, Blank
<1>9. CASE HomeAccepted
  BY <1>9 DEF CalInv, HomeAccepted, profileVars
<1>10. CASE HomeDrained
  <2>1. /\ ~ tainted /\ homing' = FALSE /\ homeCall' = homeCall
        /\ profile' = Outdated(profile) /\ saved' = Outdated(saved)
    BY <1>10 DEF HomeDrained
  <2>2. homeCall # "accepted" => Blank
    BY <1>10, <2>1 DEF CalInv, HomeDrained
  <2>3. homeCall # "accepted" => profile' = profile /\ solving' = Unset
    BY <1>0, <1>10, <2>1, <2>2, OutdatedShape DEF Blank, HomeDrained
  <2> QED
    BY <2>1, <2>3 DEF CalInv, Holds, Worth
<1>11. CASE HomeAnswered
  <2>1. /\ solving = Unset /\ ~ tainted /\ profile' = invalidateCalibration
        /\ saved' = profile' /\ solving' = Unset /\ homing' = homing
    BY <1>11 DEF HomeAnswered, Save
  <2>2. profile'.sightings = <<>> /\ profile'.orientation = Unset
    BY <1>0, <2>1 DEF invalidateCalibration, Profiles
  <2> QED
    BY <2>1, <2>2, WrittenHolds DEF CalInv, Blank, Holds, Worth
<1>12. CASE HomeFails
  BY <1>12 DEF CalInv, HomeFails, Holds, Worth, Blank
<1>13. CASE SweepLeg \/ SweepAborts
  BY <1>13 DEF CalInv, SweepLeg, SweepAborts, homeVars, profileVars, Holds, Worth, Blank
<1>14. CASE SweepEnds
  <2>1. /\ ~ tainted /\ profile' = [profile EXCEPT !.imuMounting = TRUE] /\ saved' = profile'
        /\ homing' = homing /\ homeCall' = homeCall /\ solving' = solving
    BY <1>14 DEF SweepEnds, Save, homeVars
  <2>2. homeCall # "accepted" => Holds(profile')
    BY <2>1, WrittenHolds DEF CalInv
  <2>3. profile'.sightings = profile.sightings /\ profile'.orientation = profile.orientation
    BY <1>0, <2>1 DEF Profiles
  <2> QED
    BY <2>1, <2>2, <2>3 DEF CalInv, Holds, Worth, Blank
<1>15. CASE DaemonReloadsProfile
  BY <1>15 DEF CalInv, DaemonReloadsProfile, Holds, Worth, Blank
<1>16. CASE UNCHANGED calVars
  BY <1>16 DEF CalInv, calVars, homeVars, profileVars, Holds, Worth, Blank
<1> QED
  BY <1>1, <1>2, <1>3, <1>4, <1>5, <1>6, <1>7, <1>8, <1>9, <1>10, <1>11, <1>12, <1>13, <1>14,
     <1>15, <1>16 DEF CalNext

(* A calibrated rig is calibrated for where it stands and for the origin   *)
(* it counts from, as long as no writer overlapped another, failed or was  *)
(* lost half done (calibration.ts:57-67, 114-120).                         *)
THEOREM CalibrationAlwaysHolds == CalSpec => []CalibrationHolds
<1>1. CalInit => CalInv
  <2> SUFFICES ASSUME CalInit PROVE CalInv
    OBVIOUS
  <2>1. profile.sightings = <<>> /\ profile.orientation = Unset
    BY DEF CalInit, EmptyProfile
  <2> QED
    BY <2>1 DEF CalInit, CalInv, Holds, Worth
<1>2. CalInv => CalibrationHolds
  BY DEF CalInv, CalibrationHolds, isCalibrated, Holds
<1>3. CalTypeOK /\ CalInv /\ [CalNext]_calVars => CalInv'
  BY CalStep
<1> QED
  BY <1>1, <1>2, <1>3, CalTypeCorrect, PTL DEF CalSpec
-----------------------------------------------------------------------------
(* Vectors and matrices of whole numbers.                                  *)
Vectors == Int \X Int \X Int
Matrices == Vectors \X Vectors \X Vectors

(* A vector is its three coordinates (geo/vec3.ts:1-2).                    *)
LEMMA VectorIs ==
  ASSUME NEW v \in Vectors
  PROVE  v = <<v[1], v[2], v[3]>> /\ v[1] \in Int /\ v[2] \in Int /\ v[3] \in Int
BY DEF Vectors

(* A matrix is its three rows.                                             *)
LEMMA MatrixIs ==
  ASSUME NEW m \in Matrices
  PROVE  /\ m = <<m[1], m[2], m[3]>> /\ m[1] \in Vectors /\ m[2] \in Vectors /\ m[3] \in Vectors
        /\ m[1][1] \in Int /\ m[1][2] \in Int /\ m[1][3] \in Int
        /\ m[2][1] \in Int /\ m[2][2] \in Int /\ m[2][3] \in Int
        /\ m[3][1] \in Int /\ m[3][2] \in Int /\ m[3][3] \in Int
<1>1. m = <<m[1], m[2], m[3]>> /\ m[1] \in Vectors /\ m[2] \in Vectors /\ m[3] \in Vectors
  BY DEF Matrices
<1> QED
  BY <1>1, VectorIs

(* The algebra stays among vectors and matrices (geo/vec3.ts:7-56).        *)
LEMMA MatVecType ==
  ASSUME NEW m \in Matrices, NEW v \in Vectors
  PROVE  matVec(m, v) \in Vectors
BY MatrixIs, VectorIs DEF matVec, dot, Vectors

(* The same of a transpose (geo/vec3.ts:42-48) ...                         *)
LEMMA TransposeType ==
  ASSUME NEW m \in Matrices
  PROVE  transpose(m) \in Matrices
BY MatrixIs DEF transpose, matFromColumns, Matrices, Vectors

(* ... and of a product.                                                   *)
LEMMA MatMulType ==
  ASSUME NEW m \in Matrices, NEW n \in Matrices
  PROVE  matMul(m, n) \in Matrices
<1>1. transpose(n) \in Matrices
  BY TransposeType
<1>2. m[1] \in Vectors /\ m[2] \in Vectors /\ m[3] \in Vectors
  BY MatrixIs
<1>3. /\ matVec(transpose(n), m[1]) \in Vectors /\ matVec(transpose(n), m[2]) \in Vectors
      /\ matVec(transpose(n), m[3]) \in Vectors
  BY <1>1, <1>2, MatVecType
<1> QED
  BY <1>3 DEF matMul, Matrices

(* The sum behind the next lemma, in scalars.                              *)
LEMMA Poly ==
  ASSUME NEW a1 \in Int, NEW a2 \in Int, NEW a3 \in Int,
    NEW b11 \in Int, NEW b12 \in Int, NEW b13 \in Int,
    NEW b21 \in Int, NEW b22 \in Int, NEW b23 \in Int,
    NEW b31 \in Int, NEW b32 \in Int, NEW b33 \in Int,
    NEW v1 \in Int, NEW v2 \in Int, NEW v3 \in Int
  PROVE  (b11 * a1 + b21 * a2 + b31 * a3) * v1 + (b12 * a1 + b22 * a2 + b32 * a3) * v2
           + (b13 * a1 + b23 * a2 + b33 * a3) * v3
       = a1 * (b11 * v1 + b12 * v2 + b13 * v3) + a2 * (b21 * v1 + b22 * v2 + b23 * v3)
         + a3 * (b31 * v1 + b32 * v2 + b33 * v3)
OBVIOUS

(* The four angles there are.                                              *)
LEMMA CosVals ==
  ASSUME NEW q \in Int PROVE
  \/ q % 4 = 0 /\ Cos(q) = 1 /\ Sin(q) = 0
  \/ q % 4 = 1 /\ Cos(q) = 0 /\ Sin(q) = 1
  \/ q % 4 = 2 /\ Cos(q) = -1 /\ Sin(q) = 0
  \/ q % 4 = 3 /\ Cos(q) = 0 /\ Sin(q) = -1
BY DEF Cos, Sin

(* A transpose moves from one side of a dot product to the other.          *)
LEMMA DotTranspose ==
  ASSUME NEW n \in Matrices, NEW a \in Vectors, NEW v \in Vectors
  PROVE  dot(matVec(transpose(n), a), v) = dot(a, matVec(n, v))
<1>1. /\ dot(matVec(transpose(n), a), v) =
           (n[1][1] * a[1] + n[2][1] * a[2] + n[3][1] * a[3]) * v[1]
             + (n[1][2] * a[1] + n[2][2] * a[2] + n[3][2] * a[3]) * v[2]
             + (n[1][3] * a[1] + n[2][3] * a[2] + n[3][3] * a[3]) * v[3]
      /\ dot(a, matVec(n, v)) =
           a[1] * (n[1][1] * v[1] + n[1][2] * v[2] + n[1][3] * v[3])
             + a[2] * (n[2][1] * v[1] + n[2][2] * v[2] + n[2][3] * v[3])
             + a[3] * (n[3][1] * v[1] + n[3][2] * v[2] + n[3][3] * v[3])
  BY DEF dot, matVec, transpose, matFromColumns
<1>2. /\ n[1][1] \in Int /\ n[1][2] \in Int /\ n[1][3] \in Int
      /\ n[2][1] \in Int /\ n[2][2] \in Int /\ n[2][3] \in Int
      /\ n[3][1] \in Int /\ n[3][2] \in Int /\ n[3][3] \in Int
      /\ a[1] \in Int /\ a[2] \in Int /\ a[3] \in Int
      /\ v[1] \in Int /\ v[2] \in Int /\ v[3] \in Int
  BY MatrixIs, VectorIs
<1>3. (n[1][1] * a[1] + n[2][1] * a[2] + n[3][1] * a[3]) * v[1]
             + (n[1][2] * a[1] + n[2][2] * a[2] + n[3][2] * a[3]) * v[2]
             + (n[1][3] * a[1] + n[2][3] * a[2] + n[3][3] * a[3]) * v[3] =
           a[1] * (n[1][1] * v[1] + n[1][2] * v[2] + n[1][3] * v[3])
             + a[2] * (n[2][1] * v[1] + n[2][2] * v[2] + n[2][3] * v[3])
             + a[3] * (n[3][1] * v[1] + n[3][2] * v[2] + n[3][3] * v[3])
  BY <1>2, Poly
<1> QED
  BY <1>1, <1>3

(* A product of matrices applies one after the other (matMul,              *)
(* geo/vec3.ts:49-56).                                                     *)
LEMMA MatMulVec ==
  ASSUME NEW m \in Matrices, NEW n \in Matrices, NEW v \in Vectors
  PROVE  matVec(matMul(m, n), v) = matVec(m, matVec(n, v))
<1>1. m[1] \in Vectors /\ m[2] \in Vectors /\ m[3] \in Vectors
  BY MatrixIs
<1>2. /\ dot(matVec(transpose(n), m[1]), v) = dot(m[1], matVec(n, v))
      /\ dot(matVec(transpose(n), m[2]), v) = dot(m[2], matVec(n, v))
      /\ dot(matVec(transpose(n), m[3]), v) = dot(m[3], matVec(n, v))
  BY <1>1, DotTranspose
<1>3. matVec(matMul(m, n), v) =
        <<dot(matVec(transpose(n), m[1]), v), dot(matVec(transpose(n), m[2]), v),
          dot(matVec(transpose(n), m[3]), v)>>
  BY DEF matVec, matMul
<1>4. matVec(m, matVec(n, v)) =
        <<dot(m[1], matVec(n, v)), dot(m[2], matVec(n, v)), dot(m[3], matVec(n, v))>>
  BY DEF matVec
<1> QED
  BY <1>2, <1>3, <1>4

(* A dot product does not depend on the order.                             *)
LEMMA DotComm ==
  ASSUME NEW a \in Vectors, NEW b \in Vectors
  PROVE  dot(a, b) = dot(b, a) /\ dot(a, b) \in Int
BY VectorIs DEF dot

(* Transposing twice changes nothing.                                      *)
LEMMA TransposeTwice ==
  ASSUME NEW m \in Matrices
  PROVE  transpose(transpose(m)) = m
<1>1. transpose(transpose(m)) =
        <<<<m[1][1], m[1][2], m[1][3]>>, <<m[2][1], m[2][2], m[2][3]>>,
          <<m[3][1], m[3][2], m[3][3]>>>>
  BY DEF transpose, matFromColumns
<1>2. /\ m[1] = <<m[1][1], m[1][2], m[1][3]>> /\ m[2] = <<m[2][1], m[2][2], m[2][3]>>
      /\ m[3] = <<m[3][1], m[3][2], m[3][3]>>
  BY MatrixIs, VectorIs
<1> QED
  BY <1>1, <1>2, MatrixIs

(* A product transposed is the product of the transposes in the other      *)
(* order.                                                                  *)
LEMMA TransposeProduct ==
  ASSUME NEW m \in Matrices, NEW n \in Matrices
  PROVE  transpose(matMul(m, n)) = matMul(transpose(n), transpose(m))
<1> DEFINE nt == transpose(n)
<1>0. nt \in Matrices /\ m[1] \in Vectors /\ m[2] \in Vectors /\ m[3] \in Vectors
      /\ nt[1] \in Vectors /\ nt[2] \in Vectors /\ nt[3] \in Vectors
  BY MatrixIs, TransposeType
<1>1. transpose(matMul(m, n)) =
        <<<<dot(nt[1], m[1]), dot(nt[1], m[2]), dot(nt[1], m[3])>>,
          <<dot(nt[2], m[1]), dot(nt[2], m[2]), dot(nt[2], m[3])>>,
          <<dot(nt[3], m[1]), dot(nt[3], m[2]), dot(nt[3], m[3])>>>>
  BY DEF transpose, matMul, matVec, matFromColumns
<1>2. matMul(nt, transpose(m)) =
        <<<<dot(m[1], nt[1]), dot(m[2], nt[1]), dot(m[3], nt[1])>>,
          <<dot(m[1], nt[2]), dot(m[2], nt[2]), dot(m[3], nt[2])>>,
          <<dot(m[1], nt[3]), dot(m[2], nt[3]), dot(m[3], nt[3])>>>>
  BY TransposeTwice DEF matMul, matVec
<1> HIDE DEF nt
<1>3. /\ dot(nt[1], m[1]) = dot(m[1], nt[1]) /\ dot(nt[1], m[2]) = dot(m[2], nt[1])
      /\ dot(nt[1], m[3]) = dot(m[3], nt[1])
      /\ dot(nt[2], m[1]) = dot(m[1], nt[2]) /\ dot(nt[2], m[2]) = dot(m[2], nt[2])
      /\ dot(nt[2], m[3]) = dot(m[3], nt[2])
      /\ dot(nt[3], m[1]) = dot(m[1], nt[3]) /\ dot(nt[3], m[2]) = dot(m[2], nt[3])
      /\ dot(nt[3], m[3]) = dot(m[3], nt[3])
  BY <1>0, DotComm
<1> QED
  BY <1>1, <1>2, <1>3 DEF nt

-----------------------------------------------------------------------------
(* The rotations by quarter turns: three rows along the axes, right-       *)
(* handed.                                                                 *)
AxisVectors == {<<1, 0, 0>>, <<-1, 0, 0>>, <<0, 1, 0>>, <<0, -1, 0>>, <<0, 0, 1>>, <<0, 0, -1>>}

Turned(r, s) == <<r, cross(s, r), s>>
IsRot(M) == \E r, s \in AxisVectors : dot(r, s) = 0 /\ M = Turned(r, s)

(* The six directions along an axis are vectors.                           *)
LEMMA AxisIsVector == AxisVectors \subseteq Vectors
BY DEF AxisVectors, Vectors

(* A rotation by quarter turns has axes for rows, the middle one across    *)
(* the others.                                                             *)
LEMMA RotForm ==
  ASSUME NEW M, IsRot(M)
  PROVE  /\ M \in Matrices
        /\ M[1] \in AxisVectors /\ M[2] \in AxisVectors /\ M[3] \in AxisVectors
        /\ dot(M[1], M[3]) = 0 /\ M[2] = cross(M[3], M[1]) /\ M = Turned(M[1], M[3])
<1>1. PICK r \in AxisVectors, s \in AxisVectors : dot(r, s) = 0 /\ M = Turned(r, s)
  BY DEF IsRot
<1>2. cross(s, r) \in AxisVectors
  BY <1>1 DEF AxisVectors, dot, cross
<1>3. M = <<r, cross(s, r), s>>
  BY <1>1 DEF Turned
<1>4. M \in Matrices
  BY <1>2, <1>3, AxisIsVector DEF Matrices
<1> QED
  BY <1>1, <1>2, <1>3, <1>4 DEF Turned

(* A rotation keeps dot products ...                                       *)
LEMMA RotDot ==
  ASSUME NEW M, IsRot(M), NEW a \in Vectors, NEW b \in Vectors
  PROVE  dot(matVec(M, a), matVec(M, b)) = dot(a, b)
<1>1. PICK r \in AxisVectors, s \in AxisVectors : dot(r, s) = 0 /\ M = Turned(r, s)
  BY DEF IsRot
<1>2. /\ a[1] \in Int /\ a[2] \in Int /\ a[3] \in Int /\ b[1] \in Int /\ b[2] \in Int
      /\ b[3] \in Int
  BY VectorIs
<1>3. dot(r, a) * dot(r, b) + dot(cross(s, r), a) * dot(cross(s, r), b)
        + dot(s, a) * dot(s, b) = dot(a, b)
  BY <1>1, <1>2 DEF AxisVectors, dot, cross
<1>4. dot(matVec(M, a), matVec(M, b)) =
        dot(r, a) * dot(r, b) + dot(cross(s, r), a) * dot(cross(s, r), b)
          + dot(s, a) * dot(s, b)
  BY <1>1 DEF Turned, matVec, dot
<1> QED
  BY <1>3, <1>4

(* ... and cross products ...                                              *)
LEMMA RotCross ==
  ASSUME NEW M, IsRot(M), NEW a \in Vectors, NEW b \in Vectors
  PROVE  cross(matVec(M, a), matVec(M, b)) = matVec(M, cross(a, b))
<1>1. PICK r \in AxisVectors, s \in AxisVectors : dot(r, s) = 0 /\ M = Turned(r, s)
  BY DEF IsRot
<1>2. /\ a[1] \in Int /\ a[2] \in Int /\ a[3] \in Int /\ b[1] \in Int /\ b[2] \in Int
      /\ b[3] \in Int
  BY VectorIs
<1> DEFINE t == cross(s, r)
<1>3. /\ dot(t, a) * dot(s, b) - dot(s, a) * dot(t, b) = dot(r, cross(a, b))
      /\ dot(s, a) * dot(r, b) - dot(r, a) * dot(s, b) = dot(t, cross(a, b))
      /\ dot(r, a) * dot(t, b) - dot(t, a) * dot(r, b) = dot(s, cross(a, b))
  BY <1>1, <1>2 DEF AxisVectors, dot, cross
<1>4. /\ matVec(M, a) = <<dot(r, a), dot(t, a), dot(s, a)>>
      /\ matVec(M, b) = <<dot(r, b), dot(t, b), dot(s, b)>>
      /\ matVec(M, cross(a, b)) =
           <<dot(r, cross(a, b)), dot(t, cross(a, b)), dot(s, cross(a, b))>>
  BY <1>1 DEF Turned, matVec
<1>5. cross(matVec(M, a), matVec(M, b)) =
        <<dot(t, a) * dot(s, b) - dot(s, a) * dot(t, b),
          dot(s, a) * dot(r, b) - dot(r, a) * dot(s, b),
          dot(r, a) * dot(t, b) - dot(t, a) * dot(r, b)>>
  BY <1>4 DEF cross
<1> QED
  BY <1>3, <1>4, <1>5

(* ... its transpose is one too ...                                        *)
LEMMA RotTranspose ==
  ASSUME NEW M, IsRot(M)
  PROVE  IsRot(transpose(M))
<1>1. PICK r \in AxisVectors, s \in AxisVectors : dot(r, s) = 0 /\ M = Turned(r, s)
  BY DEF IsRot
<1> DEFINE t == cross(s, r)
       x == <<r[1], t[1], s[1]>>
       y == <<r[2], t[2], s[2]>>
       z == <<r[3], t[3], s[3]>>
<1>2. transpose(M) = <<x, y, z>>
  BY <1>1 DEF Turned, transpose, matFromColumns
<1>3. x \in AxisVectors /\ z \in AxisVectors /\ dot(x, z) = 0 /\ y = cross(z, x)
  BY <1>1 DEF AxisVectors, dot, cross
<1> QED
  BY <1>2, <1>3 DEF IsRot, Turned

(* ... which undoes it (geo/imu-orientation.ts:157 relies on it).          *)
LEMMA RotInverse ==
  ASSUME NEW M, IsRot(M), NEW a \in Vectors
  PROVE  matVec(transpose(M), matVec(M, a)) = a
<1>1. PICK r \in AxisVectors, s \in AxisVectors : dot(r, s) = 0 /\ M = Turned(r, s)
  BY DEF IsRot
<1>2. a[1] \in Int /\ a[2] \in Int /\ a[3] \in Int /\ a = <<a[1], a[2], a[3]>>
  BY VectorIs
<1> DEFINE t == cross(s, r)
<1>3. /\ r[1] * dot(r, a) + t[1] * dot(t, a) + s[1] * dot(s, a) = a[1]
      /\ r[2] * dot(r, a) + t[2] * dot(t, a) + s[2] * dot(s, a) = a[2]
      /\ r[3] * dot(r, a) + t[3] * dot(t, a) + s[3] * dot(s, a) = a[3]
  BY <1>1, <1>2 DEF AxisVectors, dot, cross
<1>4. matVec(M, a) = <<dot(r, a), dot(t, a), dot(s, a)>>
  BY <1>1 DEF Turned, matVec
<1>5. transpose(M) = <<<<r[1], t[1], s[1]>>, <<r[2], t[2], s[2]>>, <<r[3], t[3], s[3]>>>>
  BY <1>1 DEF Turned, transpose, matFromColumns
<1>6. matVec(transpose(M), matVec(M, a)) =
        <<r[1] * dot(r, a) + t[1] * dot(t, a) + s[1] * dot(s, a),
          r[2] * dot(r, a) + t[2] * dot(t, a) + s[2] * dot(s, a),
          r[3] * dot(r, a) + t[3] * dot(t, a) + s[3] * dot(s, a)>>
  <2> HIDE DEF t
  <2> QED
    BY <1>4, <1>5 DEF matVec, dot
<1> QED
  BY <1>2, <1>3, <1>6

(* It takes an axis to an axis ...                                         *)
LEMMA RotAxis ==
  ASSUME NEW M, IsRot(M), NEW u \in AxisVectors
  PROVE  matVec(M, u) \in AxisVectors
<1>1. PICK r \in AxisVectors, s \in AxisVectors : dot(r, s) = 0 /\ M = Turned(r, s)
  BY DEF IsRot
<1>2. <<dot(r, u), dot(cross(s, r), u), dot(s, u)>> \in AxisVectors
  BY <1>1 DEF AxisVectors, dot, cross
<1> QED
  BY <1>1, <1>2 DEF Turned, matVec

(* ... and two of them make a third.                                       *)
LEMMA RotProduct ==
  ASSUME NEW M, IsRot(M), NEW N, IsRot(N)
  PROVE  IsRot(matMul(M, N))
<1> DEFINE nt == transpose(N)
<1>1. IsRot(nt)
  BY RotTranspose
<1>2. PICK r \in AxisVectors, s \in AxisVectors : dot(r, s) = 0 /\ M = Turned(r, s)
  BY DEF IsRot
<1> HIDE DEF nt
<1>3. matMul(M, N) = <<matVec(nt, r), matVec(nt, cross(s, r)), matVec(nt, s)>>
  BY <1>2 DEF matMul, Turned, nt
<1>4. dot(matVec(nt, r), matVec(nt, s)) = 0
  BY <1>1, <1>2, RotDot, AxisIsVector
<1>5. matVec(nt, cross(s, r)) = cross(matVec(nt, s), matVec(nt, r))
  BY <1>1, <1>2, RotCross, AxisIsVector
<1>6. matVec(nt, r) \in AxisVectors /\ matVec(nt, s) \in AxisVectors
  BY <1>1, RotAxis
<1> QED
  BY <1>3, <1>4, <1>5, <1>6 DEF IsRot, Turned

(* The turns about the pan axis keep what is up (rotZ, geo/vec3.ts:66-69). *)
LEMMA RotZIs ==
  ASSUME NEW q \in Int
  PROVE  IsRot(rotZ(q)) /\ rotZ(q)[3] = <<0, 0, 1>>
<1>1. /\ <<Cos(q), -Sin(q), 0>> \in AxisVectors
      /\ <<Sin(q), Cos(q), 0>> = cross(<<0, 0, 1>>, <<Cos(q), -Sin(q), 0>>)
  BY CosVals DEF AxisVectors, cross
<1>2. dot(<<Cos(q), -Sin(q), 0>>, <<0, 0, 1>>) = 0
  BY CosVals DEF dot
<1>3. <<0, 0, 1>> \in AxisVectors
  BY DEF AxisVectors
<1> QED
  BY <1>1, <1>2, <1>3 DEF IsRot, Turned, rotZ

(* The turns about the tilt axis are rotations (rotX, geo/vec3.ts:62-65).  *)
LEMMA RotXIs ==
  ASSUME NEW q \in Int
  PROVE  IsRot(rotX(q))
<1>1. /\ <<0, Sin(q), Cos(q)>> \in AxisVectors
      /\ <<0, Cos(q), -Sin(q)>> = cross(<<0, Sin(q), Cos(q)>>, <<1, 0, 0>>)
  BY CosVals DEF AxisVectors, cross
<1>2. dot(<<1, 0, 0>>, <<0, Sin(q), Cos(q)>>) = 0
  BY CosVals DEF dot
<1>3. <<1, 0, 0>> \in AxisVectors
  BY DEF AxisVectors
<1> QED
  BY <1>1, <1>2, <1>3 DEF IsRot, Turned, rotX

(* So is the head's at every posture (mountHeadRotation,                   *)
(* geo/boresight.ts).                                                      *)
LEMMA HeadIsRot ==
  ASSUME NEW pan \in Int, NEW tilt \in Int
  PROVE  IsRot(mountHeadRotation(pan, tilt))
BY RotZIs, RotXIs, RotProduct DEF mountHeadRotation

(* And so is every way a tripod can stand.                                 *)
LEMMA RotationIsRot ==
  ASSUME NEW T \in Rotations
  PROVE  IsRot(T)
<1>1. PICK a \in 0 .. 3, b \in 0 .. 3, c \in 0 .. 3 :
        T = matMul(rotZ(a), matMul(rotX(b), rotZ(c)))
  BY DEF Rotations
<1>2. IsRot(rotZ(a)) /\ IsRot(rotX(b)) /\ IsRot(rotZ(c))
  BY RotZIs, RotXIs
<1>3. IsRot(matMul(rotX(b), rotZ(c)))
  BY <1>2, RotProduct
<1> QED
  BY <1>1, <1>2, <1>3, RotProduct

(* What rotAlign builds from up is a rotation that takes it there, in each *)
(* of its three branches (geo/imu-orientation.ts:57-81): it is opposite,   *)
(* along, or across.                                                       *)
LEMMA AlignIsRot ==
  ASSUME NEW u \in AxisVectors
  PROVE  IsRot(rotAlign(u, <<0, 0, 1>>)) /\ rotAlign(u, <<0, 0, 1>>)[3] = u
<1>0. rotZ(0) = <<<<1, 0, 0>>, <<0, 1, 0>>, <<0, 0, 1>>>>
  <2>1. IsRot(rotZ(0)) /\ rotZ(0)[3] = <<0, 0, 1>>
    BY RotZIs
  <2>2. rotZ(0)[1] \in AxisVectors /\ rotZ(0)[1][1] = 1
    BY <2>1, RotForm DEF rotZ, Cos
  <2>3. rotZ(0)[1] = <<1, 0, 0>>
    BY <2>2 DEF AxisVectors
  <2>4. cross(<<0, 0, 1>>, <<1, 0, 0>>) = <<0, 1, 0>>
    BY DEF cross
  <2> QED
    BY <2>1, <2>3, <2>4, RotForm DEF Turned
<1>1. CASE u = <<0, 0, 1>>
  BY <1>1, RotZIs DEF rotAlign
<1>2. CASE u = <<0, 0, -1>>
  <2>1. Unit(cross(u, <<1, 0, 0>>)) = <<0, -1, 0>> /\ Neg(<<0, 0, 1>>) = u /\ u # <<0, 0, 1>>
    BY <1>2 DEF cross, Unit, Sgn, Neg, scale
  <2>2. halfTurn(<<0, -1, 0>>) = <<<<-1, 0, 0>>, <<0, 1, 0>>, <<0, 0, -1>>>>
    BY <1>0 DEF halfTurn, add, scale, Neg
  <2>3. rotAlign(u, <<0, 0, 1>>) = <<<<-1, 0, 0>>, <<0, 1, 0>>, <<0, 0, -1>>>>
    BY <1>2, <2>1, <2>2 DEF rotAlign
  <2> QED
    BY <1>2, <2>3 DEF IsRot, AxisVectors, Turned, dot, cross
<1>3. CASE u = <<1, 0, 0>>
  <2>1. cross(u, <<0, 0, 1>>) = <<0, -1, 0>> /\ u # <<0, 0, 1>> /\ u # Neg(<<0, 0, 1>>)
    BY <1>3 DEF cross, Neg, scale
  <2>2. matMul(<<<<0, 0, -1>>, <<0, 0, 0>>, <<1, 0, 0>>>>,
               <<<<0, 0, -1>>, <<0, 0, 0>>, <<1, 0, 0>>>>) =
        <<<<-1, 0, 0>>, <<0, 0, 0>>, <<0, 0, -1>>>>
    BY DEF matMul, matVec, dot, transpose, matFromColumns
  <2>3. quarterTurn(<<0, -1, 0>>) = <<<<0, 0, -1>>, <<0, 1, 0>>, <<1, 0, 0>>>>
    BY <2>2, <1>0 DEF quarterTurn, add
  <2>4. rotAlign(u, <<0, 0, 1>>) = <<<<0, 0, -1>>, <<0, 1, 0>>, <<1, 0, 0>>>>
    BY <2>1, <2>3 DEF rotAlign
  <2> QED
    BY <1>3, <2>4 DEF IsRot, AxisVectors, Turned, dot, cross
<1>4. CASE u = <<-1, 0, 0>>
  <2>1. cross(u, <<0, 0, 1>>) = <<0, 1, 0>> /\ u # <<0, 0, 1>> /\ u # Neg(<<0, 0, 1>>)
    BY <1>4 DEF cross, Neg, scale
  <2>2. matMul(<<<<0, 0, 1>>, <<0, 0, 0>>, <<-1, 0, 0>>>>,
               <<<<0, 0, 1>>, <<0, 0, 0>>, <<-1, 0, 0>>>>) =
        <<<<-1, 0, 0>>, <<0, 0, 0>>, <<0, 0, -1>>>>
    BY DEF matMul, matVec, dot, transpose, matFromColumns
  <2>3. quarterTurn(<<0, 1, 0>>) = <<<<0, 0, 1>>, <<0, 1, 0>>, <<-1, 0, 0>>>>
    BY <2>2, <1>0 DEF quarterTurn, add
  <2>4. rotAlign(u, <<0, 0, 1>>) = <<<<0, 0, 1>>, <<0, 1, 0>>, <<-1, 0, 0>>>>
    BY <2>1, <2>3 DEF rotAlign
  <2> QED
    BY <1>4, <2>4 DEF IsRot, AxisVectors, Turned, dot, cross
<1>5. CASE u = <<0, 1, 0>>
  <2>1. cross(u, <<0, 0, 1>>) = <<1, 0, 0>> /\ u # <<0, 0, 1>> /\ u # Neg(<<0, 0, 1>>)
    BY <1>5 DEF cross, Neg, scale
  <2>2. matMul(<<<<0, 0, 0>>, <<0, 0, -1>>, <<0, 1, 0>>>>,
               <<<<0, 0, 0>>, <<0, 0, -1>>, <<0, 1, 0>>>>) =
        <<<<0, 0, 0>>, <<0, -1, 0>>, <<0, 0, -1>>>>
    BY DEF matMul, matVec, dot, transpose, matFromColumns
  <2>3. quarterTurn(<<1, 0, 0>>) = <<<<1, 0, 0>>, <<0, 0, -1>>, <<0, 1, 0>>>>
    BY <2>2, <1>0 DEF quarterTurn, add
  <2>4. rotAlign(u, <<0, 0, 1>>) = <<<<1, 0, 0>>, <<0, 0, -1>>, <<0, 1, 0>>>>
    BY <2>1, <2>3 DEF rotAlign
  <2> QED
    BY <1>5, <2>4 DEF IsRot, AxisVectors, Turned, dot, cross
<1>6. CASE u = <<0, -1, 0>>
  <2>1. cross(u, <<0, 0, 1>>) = <<-1, 0, 0>> /\ u # <<0, 0, 1>> /\ u # Neg(<<0, 0, 1>>)
    BY <1>6 DEF cross, Neg, scale
  <2>2. matMul(<<<<0, 0, 0>>, <<0, 0, 1>>, <<0, -1, 0>>>>,
               <<<<0, 0, 0>>, <<0, 0, 1>>, <<0, -1, 0>>>>) =
        <<<<0, 0, 0>>, <<0, -1, 0>>, <<0, 0, -1>>>>
    BY DEF matMul, matVec, dot, transpose, matFromColumns
  <2>3. quarterTurn(<<-1, 0, 0>>) = <<<<1, 0, 0>>, <<0, 0, 1>>, <<0, -1, 0>>>>
    BY <2>2, <1>0 DEF quarterTurn, add
  <2>4. rotAlign(u, <<0, 0, 1>>) = <<<<1, 0, 0>>, <<0, 0, 1>>, <<0, -1, 0>>>>
    BY <2>1, <2>3 DEF rotAlign
  <2> QED
    BY <1>6, <2>4 DEF IsRot, AxisVectors, Turned, dot, cross
<1> QED
  BY <1>1, <1>2, <1>3, <1>4, <1>5, <1>6 DEF AxisVectors

(* Two attitudes that agree on what is up differ by a turn about it: only  *)
(* a heading is missing (geo/imu-orientation.ts:91).                       *)
LEMMA SameUp ==
  ASSUME NEW T, IsRot(T), NEW R0, IsRot(R0), T[3] = R0[3]
  PROVE  \E q \in 0 .. 3 : T = matMul(rotZ(q), R0)
<1>1. PICK r \in AxisVectors, s \in AxisVectors : dot(r, s) = 0 /\ T = Turned(r, s)
  BY DEF IsRot
<1>2. PICK r0 \in AxisVectors, s0 \in AxisVectors : dot(r0, s0) = 0 /\ R0 = Turned(r0, s0)
  BY DEF IsRot
<1>3. s0 = s
  BY <1>1, <1>2 DEF Turned
<1> DEFINE t0 == cross(s, r0)
           Row(q) ==
             <<Cos(q) * r0[1] - Sin(q) * t0[1], Cos(q) * r0[2] - Sin(q) * t0[2],
               Cos(q) * r0[3] - Sin(q) * t0[3]>>
<1>4. \E q \in 0 .. 3 : r = Row(q)
  <2>1. /\ Cos(0) = 1 /\ Sin(0) = 0 /\ Cos(1) = 0 /\ Sin(1) = 1
        /\ Cos(2) = -1 /\ Sin(2) = 0 /\ Cos(3) = 0 /\ Sin(3) = -1
    BY DEF Cos, Sin
  <2>2. r = Row(0) \/ r = Row(1) \/ r = Row(2) \/ r = Row(3)
    BY <1>1, <1>2, <1>3, <2>1 DEF AxisVectors, cross, dot
  <2> HIDE DEF Row
  <2> QED
    BY <2>2
<1>5. PICK q \in 0 .. 3 : r = Row(q)
  BY <1>4
<1>6. matMul(rotZ(q), R0) = Turned(r, s)
  <2>1. transpose(R0) =
          <<<<r0[1], t0[1], s[1]>>, <<r0[2], t0[2], s[2]>>, <<r0[3], t0[3], s[3]>>>>
    BY <1>2, <1>3 DEF Turned, transpose, matFromColumns
  <2>2. IsRot(matMul(rotZ(q), R0))
    BY RotZIs, RotProduct
  <2>3. matMul(rotZ(q), R0)[1] = r
     <3>1. matMul(rotZ(q), R0)[1] = matVec(transpose(R0), <<Cos(q), -Sin(q), 0>>)
       BY DEF matMul, rotZ
     <3>2. matVec(transpose(R0), <<Cos(q), -Sin(q), 0>>) =
              <<r0[1] * Cos(q) + t0[1] * (-Sin(q)) + s[1] * 0,
                r0[2] * Cos(q) + t0[2] * (-Sin(q)) + s[2] * 0,
                r0[3] * Cos(q) + t0[3] * (-Sin(q)) + s[3] * 0>>
       BY <2>1 DEF matVec, dot
     <3>3. Cos(q) \in Int /\ Sin(q) \in Int
       BY CosVals
     <3>4. t0 \in AxisVectors
       BY <1>2, <1>3 DEF AxisVectors, cross, dot
     <3>5. /\ r0[1] \in Int /\ r0[2] \in Int /\ r0[3] \in Int /\ t0[1] \in Int
           /\ t0[2] \in Int /\ t0[3] \in Int /\ s[1] \in Int /\ s[2] \in Int /\ s[3] \in Int
       BY <3>4, AxisIsVector, VectorIs
     <3> HIDE DEF t0
     <3>6. matVec(transpose(R0), <<Cos(q), -Sin(q), 0>>) = Row(q)
       BY <3>2, <3>3, <3>5
     <3> QED
       BY <1>5, <3>1, <3>6
  <2>4. matMul(rotZ(q), R0)[3] = s
     <3>1. matMul(rotZ(q), R0)[3] = matVec(transpose(R0), <<0, 0, 1>>)
       BY DEF matMul, rotZ
     <3>2. matVec(transpose(R0), <<0, 0, 1>>) =
             <<r0[1] * 0 + t0[1] * 0 + s[1] * 1, r0[2] * 0 + t0[2] * 0 + s[2] * 1,
               r0[3] * 0 + t0[3] * 0 + s[3] * 1>>
       BY <2>1 DEF matVec, dot
     <3>4. t0 \in AxisVectors
       BY <1>2, <1>3 DEF AxisVectors, cross, dot
     <3>5. /\ r0[1] \in Int /\ r0[2] \in Int /\ r0[3] \in Int /\ t0[1] \in Int
           /\ t0[2] \in Int /\ t0[3] \in Int /\ s[1] \in Int /\ s[2] \in Int /\ s[3] \in Int
        /\ s = <<s[1], s[2], s[3]>>
       BY <3>4, AxisIsVector, VectorIs
     <3> HIDE DEF t0
     <3> QED
       BY <3>1, <3>2, <3>5
  <2> QED
    BY <2>2, <2>3, <2>4, RotForm
<1> QED
  BY <1>1, <1>5, <1>6

(* A direction reversed reverses its dot products ...                      *)
LEMMA DotNeg ==
  ASSUME NEW a \in Vectors, NEW v \in Vectors
  PROVE  dot(a, scale(v, -1)) = dot(a, v) * (-1)
<1>1. /\ a[1] \in Int /\ a[2] \in Int /\ a[3] \in Int /\ v[1] \in Int /\ v[2] \in Int
      /\ v[3] \in Int
  BY VectorIs
<1>2. a[1] * (v[1] * (-1)) + a[2] * (v[2] * (-1)) + a[3] * (v[3] * (-1)) =
        (a[1] * v[1] + a[2] * v[2] + a[3] * v[3]) * (-1)
  BY <1>1
<1> QED
  BY <1>2 DEF dot, scale

(* ... and its images ...                                                  *)
LEMMA ScaleVec ==
  ASSUME NEW m \in Matrices, NEW v \in Vectors
  PROVE  scale(v, -1) \in Vectors /\ matVec(m, scale(v, -1)) = scale(matVec(m, v), -1)
<1>1. matVec(m, scale(v, -1)) =
        <<dot(m[1], v) * (-1), dot(m[2], v) * (-1), dot(m[3], v) * (-1)>>
  BY MatrixIs, DotNeg DEF matVec
<1>2. scale(v, -1) \in Vectors
  BY VectorIs DEF scale, Vectors
<1> QED
  BY <1>1, <1>2 DEF scale, matVec

(* ... and reversed again is the direction.                                *)
LEMMA NegTwice ==
  ASSUME NEW v \in Vectors
  PROVE  Neg(Neg(v)) = v
BY VectorIs DEF Neg, scale

(* At rest the accelerometer of a head turned by G reads G's up, reversed. *)
LEMMA GravityIs ==
  ASSUME NEW G, IsRot(G)
  PROVE  Unit(matVec(transpose(G), Neg(Up))) = Neg(G[3])
<1>1. G[3] \in AxisVectors
  BY RotForm
<1>2. G \in Matrices
  BY RotForm
<1>3. matVec(transpose(G), Neg(Up)) = <<G[3][1] * (-5), G[3][2] * (-5), G[3][3] * (-5)>>
  <2>1. matVec(transpose(G), Neg(Up)) =
          <<G[1][1] * 0 + G[2][1] * 0 + G[3][1] * (-5),
            G[1][2] * 0 + G[2][2] * 0 + G[3][2] * (-5),
            G[1][3] * 0 + G[2][3] * 0 + G[3][3] * (-5)>>
    <3>1. Neg(Up) = <<0, 0, -5>>
      BY DEF Neg, Up, scale
    <3> QED
      BY <3>1 DEF matVec, transpose, matFromColumns, dot
  <2> QED
    BY <2>1, <1>2, MatrixIs
<1>4. Unit(<<G[3][1] * (-5), G[3][2] * (-5), G[3][3] * (-5)>>) = Neg(G[3])
  BY <1>1 DEF AxisVectors, Unit, Sgn, Neg, scale
<1> QED
  BY <1>3, <1>4

(* Turned back by the head's rotation, that is the tripod's up, reversed.  *)
LEMMA DownIs ==
  ASSUME NEW T, IsRot(T), NEW H, IsRot(H)
  PROVE  matVec(H, Neg(matMul(T, H)[3])) = Neg(T[3])
<1>1. matMul(T, H)[3] = matVec(transpose(H), T[3])
  BY DEF matMul
<1>2. H \in Matrices /\ transpose(H) \in Matrices /\ T[3] \in Vectors /\ IsRot(transpose(H))
  BY RotForm, AxisIsVector, RotTranspose, TransposeType
<1>3. matVec(transpose(H), T[3]) \in Vectors
  BY <1>2, MatVecType
<1>4. matVec(H, matVec(transpose(H), T[3])) = T[3]
  BY <1>2, RotInverse, TransposeTwice
<1> QED
  BY <1>1, <1>2, <1>3, <1>4, ScaleVec DEF Neg

(* One gravity read, at any posture whatever, shows the tripod's up        *)
(* (dBaseFromGravity, geo/imu-orientation.ts:46-51).                       *)
LEMMA GravityShowsUp ==
  ASSUME IsRot(tripod), handed \in Int, NEW p \in Int \X Int
  PROVE  Neg(dBaseFromGravity(p, GravityAt(p), handed)) = tripod[3]
<1> DEFINE H == mountHeadRotation(handed * p[1], p[2])
<1>1. handed * p[1] \in Int /\ p[2] \in Int
  OBVIOUS
<1>2. IsRot(H)
  BY <1>1, HeadIsRot
<1>3. IsRot(matMul(tripod, H))
  BY <1>2, RotProduct
<1> HIDE DEF H
<1>4. GravityAt(p) = Neg(matMul(tripod, H)[3])
  BY <1>3, GravityIs DEF GravityAt, H
<1>5. dBaseFromGravity(p, GravityAt(p), handed) = Neg(tripod[3])
  BY <1>2, <1>4, DownIs DEF dBaseFromGravity, H
<1>6. tripod[3] \in Vectors
  BY RotForm, AxisIsVector
<1> QED
  BY <1>5, <1>6, NegTwice

(* Two squares that sum to nothing are nothing.                            *)
LEMMA SquaresZero ==
  ASSUME NEW x \in Int, NEW y \in Int, x * x + y * y = 0
  PROVE  x = 0 /\ y = 0
<1>1. x * x >= 0 /\ y * y >= 0
  OBVIOUS
<1>2. x # 0 => x * x > 0
  OBVIOUS
<1>3. y # 0 => y * y > 0
  OBVIOUS
<1> QED
  BY <1>1, <1>2, <1>3

(* The heading a landmark suggests for a candidate k when the camera is c, *)
(* the true heading q: the true one turned by how far k and c are apart    *)
(* around the vertical, or none at all when the landmark is straight up or *)
(* down (geo/imu-orientation.ts:126-131, where atan2(0, 0) is 0).          *)
LEMMA HeadingOf ==
  ASSUME NEW G, IsRot(G), NEW q \in 0 .. 3, NEW c \in Vectors, NEW k \in Vectors,
         dot(c, c) = 25, dot(k, k) = 25, dot(G[3], k) = dot(G[3], c),
         NEW h, h = AzLess(Az(matVec(G, k)), Az(matVec(rotZ(q), matVec(G, c)))),
         NEW d, d = dot(k, c) - dot(G[3], c) * dot(G[3], c),
         NEW e, e = dot(G[3], cross(k, c))
  PROVE  /\ dot(G[3], c) * dot(G[3], c) = 25 => h = <<1, 0>>
         /\ dot(G[3], c) * dot(G[3], c) # 25 =>
              h = <<Cos(q) * d - Sin(q) * e, Sin(q) * d + Cos(q) * e>>
<1> DEFINE a == matVec(G, k)
           b == matVec(G, c)
           w == dot(G[3], c)
           f == matVec(rotZ(q), b)
<1>1. G \in Matrices /\ a \in Vectors /\ b \in Vectors
  BY RotForm, MatVecType
<1>2. a[3] = w /\ b[3] = w
  BY DEF matVec
<1>3. cross(a, b)[3] = e
  <2>1. cross(a, b) = matVec(G, cross(k, c))
    BY RotCross
  <2> QED
    BY <2>1 DEF matVec
<1>4. dot(a, b) = dot(k, c) /\ dot(a, a) = 25 /\ dot(b, b) = 25
  BY RotDot
<1>5. Cos(q) \in Int /\ Sin(q) \in Int /\ Cos(q) * Cos(q) + Sin(q) * Sin(q) = 1
  BY CosVals
<1> HIDE DEF a, b
<1>6. /\ a[1] \in Int /\ a[2] \in Int /\ a[3] \in Int /\ b[1] \in Int /\ b[2] \in Int
      /\ b[3] \in Int
  BY <1>1, VectorIs
<1>7. f[1] = Cos(q) * b[1] - Sin(q) * b[2] /\ f[2] = Sin(q) * b[1] + Cos(q) * b[2]
  <2>1. /\ f[1] = Cos(q) * b[1] + (-Sin(q)) * b[2] + 0 * b[3]
        /\ f[2] = Sin(q) * b[1] + Cos(q) * b[2] + 0 * b[3]
    BY DEF matVec, rotZ, dot
  <2> QED
    BY <1>5, <1>6, <2>1
<1> HIDE DEF f
<1>8. h = AzLess(Az(a), Az(f))
  BY DEF a, b, f
<1>9. w \in Int /\ d \in Int /\ e \in Int /\ d = dot(k, c) - w * w
  <2>1. G[3] \in Vectors /\ cross(k, c) \in Vectors
    BY <1>1, MatrixIs, VectorIs DEF cross, Vectors
  <2> QED
    BY <2>1, DotComm
<1>10. a[1] * b[1] + a[2] * b[2] = d /\ a[1] * b[2] - a[2] * b[1] = e
  BY <1>2, <1>3, <1>4, <1>6, <1>9 DEF dot, cross
<1>11. a[1] * a[1] + a[2] * a[2] = 25 - w * w /\ b[1] * b[1] + b[2] * b[2] = 25 - w * w
  BY <1>2, <1>4, <1>6, <1>9 DEF dot
<1> HIDE DEF w
<1>12. CASE w * w = 25
  <2>1. a[1] = 0 /\ a[2] = 0 /\ b[1] = 0 /\ b[2] = 0
    <3>1. a[1] * a[1] + a[2] * a[2] = 0 /\ b[1] * b[1] + b[2] * b[2] = 0
      BY <1>9, <1>11, <1>12
    <3> QED
      BY <1>6, <3>1, SquaresZero
  <2>2. f[1] = 0 /\ f[2] = 0
    BY <1>5, <1>7, <2>1
  <2> QED
    BY <1>8, <1>12, <2>1, <2>2 DEF Az, AzLess, w
<1>13. CASE w * w # 25
  <2>1. ~ (a[1] = 0 /\ a[2] = 0) /\ ~ (b[1] = 0 /\ b[2] = 0)
    <3>1. CASE a[1] = 0 /\ a[2] = 0
      <4>1. a[1] * a[1] + a[2] * a[2] = 0
        BY <3>1
      <4> QED
        BY <1>9, <1>11, <1>13, <4>1
    <3>2. CASE b[1] = 0 /\ b[2] = 0
      <4>1. b[1] * b[1] + b[2] * b[2] = 0
        BY <3>2
      <4> QED
        BY <1>9, <1>11, <1>13, <4>1
    <3> QED
      BY <3>1, <3>2
  <2>2. ~ (f[1] = 0 /\ f[2] = 0)
    <3>1. f[1] * f[1] + f[2] * f[2] = b[1] * b[1] + b[2] * b[2]
      <4>1. (Cos(q) * b[1] - Sin(q) * b[2]) * (Cos(q) * b[1] - Sin(q) * b[2])
              + (Sin(q) * b[1] + Cos(q) * b[2]) * (Sin(q) * b[1] + Cos(q) * b[2])
            = b[1] * b[1] + b[2] * b[2]
        BY <1>6, CosVals
      <4> QED
        BY <1>7, <4>1
    <3>2. CASE f[1] = 0 /\ f[2] = 0
      <4>1. b[1] * b[1] + b[2] * b[2] = 0
        BY <3>1, <3>2
      <4> QED
        BY <1>6, <2>1, <4>1, SquaresZero
    <3> QED
      BY <3>2
  <2>3. h = <<a[1] * f[1] + a[2] * f[2], a[1] * f[2] - a[2] * f[1]>>
    BY <1>8, <2>1, <2>2 DEF Az, AzLess
  <2>4. a[1] * f[1] + a[2] * f[2] = Cos(q) * d - Sin(q) * e
    BY <1>5, <1>6, <1>7, <1>10
  <2>5. a[1] * f[2] - a[2] * f[1] = Sin(q) * d + Cos(q) * e
    BY <1>5, <1>6, <1>7, <1>10
  <2> QED
    BY <1>13, <2>3, <2>4, <2>5 DEF w
<1> QED
  BY <1>12, <1>13 DEF w

-----------------------------------------------------------------------------
(* A level camera that looks forward, of length 5.                         *)
IsCamera(c) ==
  \E x \in -5 .. 5, y \in 1 .. 5 : c = <<x, y, 0>> /\ x * x + y * y = 25

(* The quarter that a heading is read off as (geo/imu-                     *)
(* orientation.ts:134-138).                                                *)
LEMMA QuarterIs ==
  ASSUME NEW q \in 0 .. 3, NEW k \in 1 .. 25, NEW h, h = <<k * Cos(q), k * Sin(q)>>
  PROVE  Quarter(h) = q /\ IsQuarter(h)
<1>1. \E j \in 1 .. 25 : h = <<j * Cos(q), j * Sin(q)>>
  OBVIOUS
<1>2. ASSUME NEW p \in 0 .. 3, NEW j \in 1 .. 25, h = <<j * Cos(p), j * Sin(p)>>
      PROVE  p = q
  <2>1. j * Cos(p) = k * Cos(q) /\ j * Sin(p) = k * Sin(q)
    BY <1>2
  <2> QED
    BY <2>1, CosVals
<1>3. Quarter(h) = q
  BY <1>1, <1>2 DEF Quarter
<1> QED
  BY <1>3, CosVals DEF IsQuarter

(* The square root that Math.sqrt finds (geo/imu-orientation.ts:123).      *)
LEMMA RootIs ==
  ASSUME NEW n \in -5 .. 5, NEW m, m = n * n, NEW r, r = Root(m)
  PROVE  r \in Nat /\ (r = n \/ r = n * (-1))
<1> DEFINE a == IF n < 0 THEN n * (-1) ELSE n
<1>1. a \in 0 .. 5 /\ a * a = m /\ m \in 0 .. 25 /\ a \in 0 .. m
  OBVIOUS
<1> HIDE DEF a
<1>2. ASSUME NEW s \in 0 .. m, s * s = m
      PROVE  s = a
  <2>1. s \in Nat /\ a \in Nat /\ s * s = a * a
    BY <1>1, <1>2
  <2>2. s < a => s * s < a * a
    BY <1>1, <2>1
  <2>3. s > a => s * s > a * a
    BY <1>1, <1>2, <2>1
  <2> QED
    BY <2>1, <2>2, <2>3
<1>3. r = a
  BY <1>1, <1>2 DEF Root
<1> QED
  BY <1>1, <1>3 DEF a

(* Two rows across each other, and the null direction across both, make a  *)
(* rotation (geo/imu-orientation.ts:120).                                  *)
LEMMA RowsSpan ==
  ASSUME NEW r1 \in AxisVectors, NEW r2 \in AxisVectors, dot(r1, r2) = 0
  PROVE  /\ cross(r1, r2) \in AxisVectors /\ Unit(cross(r1, r2)) = cross(r1, r2)
         /\ IsRot(<<r1, r2, cross(r1, r2)>>)
<1>1. cross(r1, r2) \in AxisVectors /\ Unit(cross(r1, r2)) = cross(r1, r2)
  BY DEF AxisVectors, cross, dot, Unit, Sgn
<1>2. dot(r1, cross(r1, r2)) = 0 /\ cross(cross(r1, r2), r1) = r2
  BY DEF AxisVectors, cross, dot
<1> QED
  BY <1>1, <1>2 DEF IsRot, Turned

(* What a row sees of a level camera is one of its coordinates or nothing. *)
LEMMA DotAxis ==
  ASSUME NEW x \in -5 .. 5, NEW y \in 1 .. 5, NEW r \in AxisVectors
  PROVE  dot(r, <<x, y, 0>>) \in {x, x * (-1), y, y * (-1), 0}
BY DEF AxisVectors, dot

(* The discriminant is never negative for a true camera: it is the square  *)
(* of the part of the camera that the rows do not see (geo/imu-            *)
(* orientation.ts:121-122).                                                *)
LEMMA DiscIs ==
  ASSUME NEW c, IsCamera(c),
         NEW r1 \in AxisVectors, NEW r2 \in AxisVectors, dot(r1, r2) = 0,
         NEW n, n = dot(cross(r1, r2), c)
  PROVE  /\ n \in -5 .. 5
         /\ dot(r1, c) \in Int /\ dot(r2, c) \in Int
         /\ 25 - dot(r1, c) * dot(r1, c) - dot(r2, c) * dot(r2, c) = n * n
         /\ 25 - dot(r1, c) * dot(r1, c) \in 0 .. 25
         /\ 25 - dot(r2, c) * dot(r2, c) \in 0 .. 25
<1>1. PICK x \in -5 .. 5, y \in 1 .. 5 : c = <<x, y, 0>> /\ x * x + y * y = 25
  BY DEF IsCamera
<1>2. /\ x * x >= 0 /\ y * y >= 0 /\ (x * (-1)) * (x * (-1)) = x * x
      /\ (y * (-1)) * (y * (-1)) = y * y
  OBVIOUS
<1>3. cross(r1, r2) \in AxisVectors
  BY RowsSpan
<1>4. /\ dot(r1, c) \in {x, x * (-1), y, y * (-1), 0}
      /\ dot(r2, c) \in {x, x * (-1), y, y * (-1), 0}
      /\ n \in {x, x * (-1), y, y * (-1), 0}
  BY <1>1, <1>3, DotAxis
<1>5. 25 - dot(r1, c) * dot(r1, c) \in 0 .. 25 /\ 25 - dot(r2, c) * dot(r2, c) \in 0 .. 25
  BY <1>1, <1>2, <1>4
<1>6. n \in -5 .. 5 /\ dot(r1, c) \in Int /\ dot(r2, c) \in Int
  BY <1>4
<1>7. dot(r1, c) * dot(r1, c) + dot(r2, c) * dot(r2, c) + n * n = 25
  <2> DEFINE M == <<r1, r2, cross(r1, r2)>>
  <2>1. IsRot(M) /\ c \in Vectors
    BY RowsSpan DEF IsCamera, Vectors
  <2>2. dot(matVec(M, c), matVec(M, c)) = dot(c, c)
    BY <2>1, RotDot
  <2>3. matVec(M, c) = <<dot(r1, c), dot(r2, c), n>>
    BY DEF matVec
  <2>4. dot(c, c) = 25
    BY <1>1 DEF dot
  <2>5. dot(matVec(M, c), matVec(M, c)) =
          dot(r1, c) * dot(r1, c) + dot(r2, c) * dot(r2, c) + n * n
    BY <2>3 DEF dot
  <2> QED
    BY <2>2, <2>4, <2>5
<1> QED
  BY <1>5, <1>6, <1>7

(* The camera is the sum of what the two rows see of it and of that part   *)
(* (c0 + t nz, geo/imu-orientation.ts:114-125) ...                         *)
LEMMA Spanned ==
  ASSUME NEW c, IsCamera(c),
         NEW r1 \in AxisVectors, NEW r2 \in AxisVectors, dot(r1, r2) = 0
  PROVE  matVec(matFromColumns(r1, r2, cross(r1, r2)),
                <<dot(r1, c), dot(r2, c), dot(cross(r1, r2), c)>>) = c
<1> DEFINE M == <<r1, r2, cross(r1, r2)>>
<1>1. IsRot(M)
  BY RowsSpan
<1>2. c \in Vectors
  BY DEF IsCamera, Vectors
<1>3. matVec(transpose(M), matVec(M, c)) = c
  BY <1>1, <1>2, RotInverse
<1>4. transpose(M) = matFromColumns(r1, r2, cross(r1, r2))
  BY DEF transpose
<1>5. matVec(M, c) = <<dot(r1, c), dot(r2, c), dot(cross(r1, r2), c)>>
  BY DEF matVec
<1> QED
  BY <1>3, <1>4, <1>5

(* Rows of a head that is upright or upside down, forward or up.           *)
Across(r) == r[1] = 0 /\ r[3] = 0 /\ r[2] \in {1, -1}
Along(r) == r[1] = 0 /\ r[2] = 0 /\ r[3] \in {1, -1}

(* ... and the other root is its mirror image: it looks backward, or it is *)
(* off to the other side and the rows are one forward and one up.          *)
LEMMA MirrorIs ==
  ASSUME NEW x \in -5 .. 5, NEW y \in 1 .. 5, x * x + y * y = 25, NEW c, c = <<x, y, 0>>,
         NEW r1 \in AxisVectors, NEW r2 \in AxisVectors, dot(r1, r2) = 0,
         NEW n, n = dot(cross(r1, r2), c), n # 0,
         NEW k, k = matVec(matFromColumns(r1, r2, cross(r1, r2)),
                           <<dot(r1, c), dot(r2, c), n * (-1)>>)
  PROVE  \/ k = <<x, y * (-1), 0>>
         \/ /\ k = <<x * (-1), y, 0>> /\ x # 0
            /\ (Across(r1) /\ Along(r2)) \/ (Across(r2) /\ Along(r1))
BY DEF AxisVectors, cross, dot, matVec, matFromColumns, Across, Along

-----------------------------------------------------------------------------
(* The head's rotation at posture p.                                       *)
HeadAt(p) == mountHeadRotation(handed * p[1], p[2])

(* What is sighted at posture p, and its height, in terms of the gravity   *)
(* frame R0 and the missing heading q.                                     *)
LEMMA Seen ==
  ASSUME NEW R0, IsRot(R0), NEW q \in 0 .. 3, tripod = matMul(rotZ(q), R0),
         camera \in Vectors, handed \in Int, NEW p \in Int \X Int
  PROVE  /\ IsRot(matMul(R0, HeadAt(p)))
         /\ LooksAt(p) = matVec(rotZ(q), matVec(matMul(R0, HeadAt(p)), camera))
         /\ LooksAt(p)[3] = dot(matMul(R0, HeadAt(p))[3], camera)
<1> DEFINE H == HeadAt(p)
<1>1. IsRot(H)
  <2>1. handed * p[1] \in Int /\ p[2] \in Int
    OBVIOUS
  <2> QED
    BY <2>1, HeadIsRot DEF HeadAt
<1>2. IsRot(matMul(R0, H)) /\ IsRot(rotZ(q)) /\ rotZ(q)[3] = <<0, 0, 1>>
  BY <1>1, RotProduct, RotZIs
<1>3. LooksAt(p) = matVec(matMul(tripod, H), camera)
  BY DEF LooksAt, boresightToEnu, HeadAt
<1> HIDE DEF H
<1>4. H \in Matrices /\ R0 \in Matrices /\ rotZ(q) \in Matrices /\ tripod \in Matrices
  BY <1>1, <1>2, RotForm, MatMulType
<1>5. matVec(H, camera) \in Vectors
  BY <1>4, MatVecType
<1>6. LooksAt(p) = matVec(rotZ(q), matVec(R0, matVec(H, camera)))
  BY <1>3, <1>4, <1>5, MatMulVec
<1>7. matVec(R0, matVec(H, camera)) = matVec(matMul(R0, H), camera)
  BY <1>4, MatMulVec
<1>8. matVec(matMul(R0, H), camera) \in Vectors
  BY <1>4, MatMulType, MatVecType
<1>9. matVec(rotZ(q), matVec(matMul(R0, H), camera))[3] = matVec(matMul(R0, H), camera)[3]
  <2>1. matVec(rotZ(q), matVec(matMul(R0, H), camera))[3] =
          dot(<<0, 0, 1>>, matVec(matMul(R0, H), camera))
    BY <1>2 DEF matVec
  <2> QED
    BY <2>1, <1>8, VectorIs DEF dot
<1>10. matVec(matMul(R0, H), camera)[3] = dot(matMul(R0, H)[3], camera)
  BY DEF matVec
<1> QED
  BY <1>2, <1>6, <1>7, <1>9, <1>10 DEF H

(* What solveCalibrationWithGravity computes for one root (geo/imu-        *)
(* orientation.ts:124-140).                                                *)
LEMMA CandidateIs ==
  ASSUME NEW R0, NEW r1 \in AxisVectors, NEW r2 \in AxisVectors, dot(r1, r2) = 0,
         NEW enu, NEW t, NEW K, K = Candidate(R0, <<r1, r2>>, enu, t),
         NEW h1, h1 = AzLess(Az(boresightToEnu(R0, K.c, handed, sighted[1])), Az(enu[1])),
         NEW h2, h2 = AzLess(Az(boresightToEnu(R0, K.c, handed, sighted[2])), Az(enu[2]))
  PROVE  /\ K.c = matVec(matFromColumns(r1, r2, cross(r1, r2)), <<enu[1][3], enu[2][3], t>>)
         /\ K.heading = h1
         /\ K.agree <=> AzLess(h1, h2)[1] > 0 /\ AzLess(h1, h2)[2] = 0
<1> DEFINE nz == Unit(cross(r1, r2))
           c == matVec(matFromColumns(r1, r2, nz), <<enu[1][3], enu[2][3], t>>)
           h(i) == AzLess(Az(boresightToEnu(R0, c, handed, sighted[i])), Az(enu[i]))
           apart == AzLess(h(1), h(2))
<1>1. K = [c |-> c, heading |-> h(1), agree |-> apart[1] > 0 /\ apart[2] = 0]
  BY DEF Candidate
<1>2. nz = cross(r1, r2)
  BY RowsSpan
<1> DEFINE a == h(1)
           g == apart[1] > 0 /\ apart[2] = 0
<1>3. K.c = c /\ K.heading = h(1) /\ (K.agree <=> apart[1] > 0 /\ apart[2] = 0)
  <2>1. K = [c |-> c, heading |-> a, agree |-> g]
    BY <1>1
  <2> HIDE DEF c, a, g
  <2>2. K.c = c /\ K.heading = a /\ K.agree = g
    BY <2>1
  <2> QED
    BY <2>2 DEF a, g
<1> HIDE DEF a, g
<1>4. h(1) = h1 /\ h(2) = h2
  BY <1>3
<1> QED
  BY <1>2, <1>3, <1>4

(* When the landmarks agree on the camera's own root, the heading they     *)
(* agree on is the true one, even if the first of them was straight up or  *)
(* down.                                                                   *)
LEMMA TrueRoot ==
  ASSUME NEW c, IsCamera(c), NEW q \in 0 .. 3,
         NEW G1, IsRot(G1), NEW G2, IsRot(G2), dot(G1[3], G2[3]) = 0,
         NEW h1, h1 = AzLess(Az(matVec(G1, c)), Az(matVec(rotZ(q), matVec(G1, c)))),
         NEW h2, h2 = AzLess(Az(matVec(G2, c)), Az(matVec(rotZ(q), matVec(G2, c)))),
         AzLess(h1, h2)[1] > 0, AzLess(h1, h2)[2] = 0
  PROVE  IsQuarter(h1) /\ Quarter(h1) = q
<1> DEFINE w1 == dot(G1[3], c)
           w2 == dot(G2[3], c)
           d1 == 25 - w1 * w1
           d2 == 25 - w2 * w2
<1>1. c \in Vectors /\ dot(c, c) = 25 /\ cross(c, c) = <<0, 0, 0>>
  <2>1. PICK x \in -5 .. 5, y \in 1 .. 5 : c = <<x, y, 0>> /\ x * x + y * y = 25
    BY DEF IsCamera
  <2>2. x * y = y * x
    BY <2>1
  <2> QED
    BY <2>1, <2>2 DEF Vectors, dot, cross
<1>2. G1[3] \in AxisVectors /\ G2[3] \in AxisVectors /\ G1[3] \in Vectors /\ G2[3] \in Vectors
  BY RotForm, AxisIsVector
<1>3. dot(G1[3], cross(c, c)) = 0 /\ dot(G2[3], cross(c, c)) = 0
  BY <1>1, <1>2, VectorIs DEF dot
<1>4. d1 \in 0 .. 25 /\ d2 \in 0 .. 25 /\ w1 \in Int /\ w2 \in Int
      /\ 25 - w1 * w1 - w2 * w2 >= 0
  <2>1. DEFINE n == dot(cross(G1[3], G2[3]), c)
  <2>2. /\ n \in -5 .. 5 /\ 25 - w1 * w1 - w2 * w2 = n * n /\ d1 \in 0 .. 25
        /\ d2 \in 0 .. 25 /\ w1 \in Int /\ w2 \in Int
    BY <1>2, DiscIs
  <2> HIDE DEF n
  <2>3. n * n >= 0
    BY <2>2
  <2> QED
    BY <2>2, <2>3
<1>5. /\ w1 * w1 = 25 => h1 = <<1, 0>>
      /\ w1 * w1 # 25 => h1 = <<Cos(q) * d1 - Sin(q) * 0, Sin(q) * d1 + Cos(q) * 0>>
  BY <1>1, <1>3, HeadingOf
<1>6. /\ w2 * w2 = 25 => h2 = <<1, 0>>
      /\ w2 * w2 # 25 => h2 = <<Cos(q) * d2 - Sin(q) * 0, Sin(q) * d2 + Cos(q) * 0>>
  BY <1>1, <1>3, HeadingOf
<1> HIDE DEF w1, w2
<1>7. Cos(q) \in Int /\ Sin(q) \in Int
  BY CosVals
<1>8. CASE w1 * w1 # 25
  <2>1. d1 \in 1 .. 25
    BY <1>4, <1>8
  <2> HIDE DEF d1
  <2>2. h1 = <<d1 * Cos(q), d1 * Sin(q)>>
    BY <1>5, <1>7, <1>8, <2>1
  <2> QED
    BY <2>1, <2>2, QuarterIs
<1>9. CASE w1 * w1 = 25
  <2>1. w2 * w2 # 25 /\ d2 \in 1 .. 25
    BY <1>4, <1>9
  <2> HIDE DEF d2
  <2>2. h1 = <<1, 0>> /\ h2 = <<d2 * Cos(q), d2 * Sin(q)>>
    BY <1>5, <1>6, <1>7, <1>9, <2>1
  <2>3. d2 * Cos(q) > 0 /\ d2 * Sin(q) = 0
    <3>1. AzLess(h1, h2) =
            <<1 * (d2 * Cos(q)) + 0 * (d2 * Sin(q)), 1 * (d2 * Sin(q)) - 0 * (d2 * Cos(q))>>
      BY <2>2 DEF AzLess
    <3>2. d2 * Cos(q) \in Int /\ d2 * Sin(q) \in Int
      BY <1>7, <2>1
    <3> HIDE DEF d2
    <3> QED
      BY <3>1, <3>2
  <2>4. Cos(q) = 1 /\ Sin(q) = 0
    BY <2>1, <2>3, CosVals
  <2>5. h1 = <<1 * Cos(q), 1 * Sin(q)>> /\ 1 \in 1 .. 25
    BY <2>2, <2>4
  <2> QED
    BY <2>5, QuarterIs
<1> QED
  BY <1>8, <1>9

(* No product of two numbers that are not zero is zero.                    *)
LEMMA NoZeroProduct ==
  ASSUME NEW x \in Int, NEW y \in Int, x # 0, y # 0
  PROVE  x * y # 0
OBVIOUS

(* Turning two headings alike does not bring them together.                *)
LEMMA HeadingsApart ==
  ASSUME NEW q \in 0 .. 3, NEW d1 \in Int, NEW e1 \in Int, NEW d2 \in Int, NEW e2 \in Int,
         NEW h1, h1 = <<Cos(q) * d1 - Sin(q) * e1, Sin(q) * d1 + Cos(q) * e1>>,
         NEW h2, h2 = <<Cos(q) * d2 - Sin(q) * e2, Sin(q) * d2 + Cos(q) * e2>>
  PROVE  AzLess(h1, h2)[2] = d1 * e2 - e1 * d2
<1>1. AzLess(h1, h2)[2] =
        (Cos(q) * d1 - Sin(q) * e1) * (Sin(q) * d2 + Cos(q) * e2)
          - (Sin(q) * d1 + Cos(q) * e1) * (Cos(q) * d2 - Sin(q) * e2)
  BY DEF AzLess
<1> QED
  BY <1>1, CosVals

(* On the mirror image to the other side the landmarks never agree ...     *)
LEMMA FalseRoot ==
  ASSUME NEW x \in -5 .. 5, NEW y \in 1 .. 5, x * x + y * y = 25, x # 0,
         NEW c, c = <<x, y, 0>>, NEW k, k = <<x * (-1), y, 0>>, NEW q \in 0 .. 3,
         NEW G1, IsRot(G1), NEW G2, IsRot(G2),
         (Across(G1[3]) /\ Along(G2[3])) \/ (Across(G2[3]) /\ Along(G1[3])),
         NEW h1, h1 = AzLess(Az(matVec(G1, k)), Az(matVec(rotZ(q), matVec(G1, c)))),
         NEW h2, h2 = AzLess(Az(matVec(G2, k)), Az(matVec(rotZ(q), matVec(G2, c))))
  PROVE  AzLess(h1, h2)[2] # 0
<1> DEFINE r1 == G1[3]
           r2 == G2[3]
           d(r) == dot(k, c) - dot(r, c) * dot(r, c)
           e(r) == dot(r, cross(k, c))
<1>1. /\ c \in Vectors /\ k \in Vectors /\ dot(c, c) = 25 /\ dot(k, k) = 25
      /\ dot(k, c) = y * y - x * x /\ cross(k, c) = <<0, 0, x * y * (-2)>>
  <2>1. /\ (x * (-1)) * (x * (-1)) = x * x /\ (x * (-1)) * x = x * x * (-1)
        /\ (x * (-1)) * y - y * x = x * y * (-2)
    OBVIOUS
  <2>2. c \in Vectors /\ k \in Vectors
    BY DEF Vectors
  <2>3. dot(c, c) = x * x + y * y /\ dot(k, k) = (x * (-1)) * (x * (-1)) + y * y
        /\ dot(k, c) = (x * (-1)) * x + y * y
    BY DEF dot
  <2>4. cross(k, c) = <<0, 0, (x * (-1)) * y - y * x>>
    BY DEF cross
  <2> QED
    BY <2>1, <2>2, <2>3, <2>4
<1>2. (Across(r1) /\ Along(r2)) \/ (Across(r2) /\ Along(r1))
  OBVIOUS
<1>3. x * x > 0 /\ x * x # 25 /\ y * y # 25 /\ y * y > 0 /\ x * y # 0
  <2>1. x * x > 0 /\ y * y > 0 /\ x * y # 0
    OBVIOUS
  <2> QED
    BY <2>1
<1>4. ASSUME NEW r, r[1] \in Int, r[2] \in Int, r[3] \in Int, Across(r)
      PROVE  /\ dot(r, c) = y \/ dot(r, c) = y * (-1)
             /\ dot(r, c) * dot(r, c) = y * y
             /\ dot(r, k) = dot(r, c)
             /\ d(r) = x * x * (-1) /\ e(r) = 0
  <2>1. /\ dot(r, c) = r[1] * x + r[2] * y + r[3] * 0
        /\ dot(r, k) = r[1] * (x * (-1)) + r[2] * y + r[3] * 0
    BY DEF dot
  <2>2. e(r) = r[1] * 0 + r[2] * 0 + r[3] * (x * y * (-2))
    BY <1>1 DEF dot
  <2>3. dot(r, k) = dot(r, c) /\ (dot(r, c) = y \/ dot(r, c) = y * (-1)) /\ e(r) = 0
    BY <1>4, <2>1, <2>2 DEF Across
  <2>4. dot(r, c) * dot(r, c) = y * y
    BY <2>3
  <2> QED
    BY <1>1, <2>3, <2>4
<1>5. ASSUME NEW r, r[1] \in Int, r[2] \in Int, r[3] \in Int, Along(r)
      PROVE  /\ dot(r, c) = 0 /\ dot(r, k) = 0
             /\ d(r) = y * y - x * x
             /\ e(r) = x * y * 2 \/ e(r) = x * y * (-2)
  <2>1. /\ dot(r, c) = r[1] * x + r[2] * y + r[3] * 0
        /\ dot(r, k) = r[1] * (x * (-1)) + r[2] * y + r[3] * 0
    BY DEF dot
  <2>2. e(r) = r[1] * 0 + r[2] * 0 + r[3] * (x * y * (-2))
    BY <1>1 DEF dot
  <2>3. dot(r, c) = 0 /\ dot(r, k) = 0 /\ (e(r) = x * y * 2 \/ e(r) = x * y * (-2))
    BY <1>5, <2>1, <2>2 DEF Along
  <2> QED
    BY <1>1, <2>3
<1>6. /\ r1[1] \in Int /\ r1[2] \in Int /\ r1[3] \in Int
      /\ r2[1] \in Int /\ r2[2] \in Int /\ r2[3] \in Int
      /\ r1 = G1[3] /\ r2 = G2[3]
  <2>1. G1 \in Matrices /\ G2 \in Matrices
    BY RotForm
  <2> QED
    BY <2>1, MatrixIs
<1>7. /\ dot(r1, c) * dot(r1, c) # 25 /\ dot(r1, k) = dot(r1, c)
      /\ dot(r2, c) * dot(r2, c) # 25 /\ dot(r2, k) = dot(r2, c)
  <2>1. CASE Across(r1) /\ Along(r2)
    <3>1. /\ dot(r1, c) * dot(r1, c) = y * y /\ dot(r1, k) = dot(r1, c)
          /\ dot(r2, c) = 0 /\ dot(r2, k) = 0
      BY <1>4, <1>5, <1>6, <2>1
    <3> QED
      BY <1>3, <3>1
  <2>2. CASE Across(r2) /\ Along(r1)
    <3>1. /\ dot(r2, c) * dot(r2, c) = y * y /\ dot(r2, k) = dot(r2, c)
          /\ dot(r1, c) = 0 /\ dot(r1, k) = 0
      BY <1>4, <1>5, <1>6, <2>2
    <3> QED
      BY <1>3, <3>1
  <2> QED
    BY <1>2, <2>1, <2>2
<1> HIDE DEF r1, r2
<1>8. h1 = <<Cos(q) * d(r1) - Sin(q) * e(r1), Sin(q) * d(r1) + Cos(q) * e(r1)>>
  BY <1>1, <1>6, <1>7, HeadingOf
<1>9. h2 = <<Cos(q) * d(r2) - Sin(q) * e(r2), Sin(q) * d(r2) + Cos(q) * e(r2)>>
  BY <1>1, <1>6, <1>7, HeadingOf
<1>10. d(r1) \in Int /\ e(r1) \in Int /\ d(r2) \in Int /\ e(r2) \in Int
  BY <1>2, <1>4, <1>5, <1>6
<1> HIDE DEF d, e
<1>11. AzLess(h1, h2)[2] = d(r1) * e(r2) - e(r1) * d(r2)
  BY <1>8, <1>9, <1>10, HeadingsApart
<1>12. d(r1) * e(r2) - e(r1) * d(r2) # 0
  <2>1. x * x * (-1) # 0 /\ x * y * 2 # 0 /\ x * y * (-2) # 0
    BY <1>3
  <2>2. CASE Across(r1) /\ Along(r2)
    <3>1. d(r1) # 0 /\ e(r1) = 0 /\ e(r2) # 0
      BY <1>4, <1>5, <1>6, <2>1, <2>2
    <3>2. d(r1) * e(r2) # 0
      BY <1>10, <3>1, NoZeroProduct
    <3>3. e(r1) * d(r2) = 0 /\ d(r1) * e(r2) \in Int
      BY <1>10, <3>1
    <3> QED
      BY <3>2, <3>3
  <2>3. CASE Across(r2) /\ Along(r1)
    <3>1. d(r2) # 0 /\ e(r2) = 0 /\ e(r1) # 0
      BY <1>4, <1>5, <1>6, <2>1, <2>3
    <3>2. e(r1) * d(r2) # 0
      BY <1>10, <3>1, NoZeroProduct
    <3>3. d(r1) * e(r2) = 0 /\ e(r1) * d(r2) \in Int
      BY <1>10, <3>1
    <3> QED
      BY <3>2, <3>3
  <2> QED
    BY <1>2, <2>2, <2>3
<1> QED
  BY <1>11, <1>12

(* If one root looks forward, and the other does not or has landmarks that *)
(* disagree, and the choice was not refused, the first was chosen          *)
(* (geo/imu-orientation.ts:141-144).                                       *)
LEMMA BestIs ==
  ASSUME NEW kt, NEW km, kt.c[2] \in Int, kt.c[2] > 0,
         km = kt \/ ~ (km.c[2] > 0) \/ ~ km.agree,
         NEW roots, roots = <<kt, km>> \/ roots = <<km, kt>>,
         Best(roots).agree
  PROVE  Best(roots) = kt
<1> DEFINE preferred(k) == (k.c[2] > 0) \/ \A r \in {roots[1], roots[2]} : r.c[2] <= 0
<1>1. Best(roots) =
        IF preferred(roots[1]) /\ (roots[1].agree \/ ~ preferred(roots[2]) \/ ~ roots[2].agree)
          THEN roots[1] ELSE roots[2]
  BY DEF Best
<1>2. preferred(kt)
  OBVIOUS
<1>3. ASSUME ~ (km.c[2] > 0) PROVE ~ preferred(km)
  <2>1. kt \in {roots[1], roots[2]}
    OBVIOUS
  <2>2. ~ (kt.c[2] <= 0)
    OBVIOUS
  <2> QED
    BY <1>3, <2>1, <2>2, Zenon
<1> HIDE DEF preferred
<1>4. CASE roots[1] = kt /\ roots[2] = km
  <2>1. Best(roots) =
          IF preferred(kt) /\ (kt.agree \/ ~ preferred(km) \/ ~ km.agree)
            THEN kt ELSE km
    BY <1>1, <1>4
  <2> QED
    BY <1>2, <1>3, <2>1, Zenon
<1>5. CASE roots[1] = km /\ roots[2] = kt
  <2>1. Best(roots) =
          IF preferred(km) /\ (km.agree \/ ~ preferred(kt) \/ ~ kt.agree)
            THEN km ELSE kt
    BY <1>1, <1>5
  <2> QED
    BY <1>2, <1>3, <2>1, Zenon
<1> QED
  BY <1>4, <1>5

(* ... stated of any level camera that is off to a side.                   *)
LEMMA MirrorDisagrees ==
  ASSUME NEW c, IsCamera(c), NEW k, k = <<c[1] * (-1), c[2], 0>>, c[1] # 0, NEW q \in 0 .. 3,
         NEW G1, IsRot(G1), NEW G2, IsRot(G2),
         (Across(G1[3]) /\ Along(G2[3])) \/ (Across(G2[3]) /\ Along(G1[3]))
  PROVE  AzLess(AzLess(Az(matVec(G1, k)), Az(matVec(rotZ(q), matVec(G1, c)))),
                AzLess(Az(matVec(G2, k)), Az(matVec(rotZ(q), matVec(G2, c)))))[2] # 0
<1>1. PICK x \in -5 .. 5, y \in 1 .. 5 : c = <<x, y, 0>> /\ x * x + y * y = 25
  BY DEF IsCamera
<1>2. x # 0 /\ k = <<x * (-1), y, 0>>
  BY <1>1
<1> QED
  BY <1>1, <1>2, FalseRoot

(* The two roots: one is the camera, with the true heading if it is not    *)
(* refused; the other is the same, looks backward, or is disagreed on.     *)
LEMMA RootsAre ==
  ASSUME IsCamera(camera), NEW R0, NEW q \in 0 .. 3,
         NEW G1, IsRot(G1), NEW G2, IsRot(G2), dot(G1[3], G2[3]) = 0,
         G1 = matMul(R0, HeadAt(sighted[1])), G2 = matMul(R0, HeadAt(sighted[2])),
         NEW enu,
         enu[1] = matVec(rotZ(q), matVec(G1, camera)), enu[1][3] = dot(G1[3], camera),
         enu[2] = matVec(rotZ(q), matVec(G2, camera)), enu[2][3] = dot(G2[3], camera),
         NEW n, n = dot(cross(G1[3], G2[3]), camera),
         NEW kt, kt = Candidate(R0, <<G1[3], G2[3]>>, enu, n),
         NEW km, km = Candidate(R0, <<G1[3], G2[3]>>, enu, n * (-1))
  PROVE  /\ kt.c = camera
         /\ kt.agree => IsQuarter(kt.heading) /\ Quarter(kt.heading) = q
         /\ km = kt \/ ~ (km.c[2] > 0) \/ ~ km.agree
<1> DEFINE r1 == G1[3]
           r2 == G2[3]
           h1(k) == AzLess(Az(matVec(G1, k)), Az(matVec(rotZ(q), matVec(G1, camera))))
           h2(k) == AzLess(Az(matVec(G2, k)), Az(matVec(rotZ(q), matVec(G2, camera))))
<1>1. r1 \in AxisVectors /\ r2 \in AxisVectors /\ dot(r1, r2) = 0
  BY RotForm
<1>2. ASSUME NEW k
      PROVE  /\ boresightToEnu(R0, k, handed, sighted[1]) = matVec(G1, k)
             /\ boresightToEnu(R0, k, handed, sighted[2]) = matVec(G2, k)
  BY DEF boresightToEnu, HeadAt
<1>3. ASSUME NEW t, NEW K, K = Candidate(R0, <<r1, r2>>, enu, t)
      PROVE  /\ K.c =
                  matVec(matFromColumns(r1, r2, cross(r1, r2)),
                         <<dot(r1, camera), dot(r2, camera), t>>)
             /\ K.heading = h1(K.c)
             /\ K.agree <=> AzLess(h1(K.c), h2(K.c))[1] > 0 /\ AzLess(h1(K.c), h2(K.c))[2] = 0
  <2>1. /\ h1(K.c) = AzLess(Az(boresightToEnu(R0, K.c, handed, sighted[1])), Az(enu[1]))
        /\ h2(K.c) = AzLess(Az(boresightToEnu(R0, K.c, handed, sighted[2])), Az(enu[2]))
    BY <1>2
  <2> HIDE DEF h1, h2, r1, r2
  <2>2. /\ K.c = matVec(matFromColumns(r1, r2, cross(r1, r2)), <<enu[1][3], enu[2][3], t>>)
        /\ K.heading = h1(K.c)
        /\ K.agree <=> AzLess(h1(K.c), h2(K.c))[1] > 0 /\ AzLess(h1(K.c), h2(K.c))[2] = 0
    BY <1>1, <1>3, <2>1, CandidateIs
  <2> QED
    BY <2>2 DEF r1, r2
<1>4. kt.c = camera
  <2>1. kt.c =
          matVec(matFromColumns(r1, r2, cross(r1, r2)), <<dot(r1, camera), dot(r2, camera), n>>)
    BY <1>3
  <2> HIDE DEF r1, r2
  <2>2. matVec(matFromColumns(r1, r2, cross(r1, r2)),
               <<dot(r1, camera), dot(r2, camera), dot(cross(r1, r2), camera)>>) = camera
    BY <1>1, Spanned
  <2> QED
    BY <2>1, <2>2 DEF r1, r2
<1>5. kt.agree => IsQuarter(kt.heading) /\ Quarter(kt.heading) = q
  <2> SUFFICES ASSUME kt.agree PROVE IsQuarter(kt.heading) /\ Quarter(kt.heading) = q
    OBVIOUS
  <2>1. /\ kt.heading = h1(camera)
        /\ AzLess(h1(camera), h2(camera))[1] > 0 /\ AzLess(h1(camera), h2(camera))[2] = 0
    <3> HIDE DEF h1, h2
    <3>1. /\ kt.heading = h1(kt.c)
          /\ kt.agree <=> AzLess(h1(kt.c), h2(kt.c))[1] > 0 /\ AzLess(h1(kt.c), h2(kt.c))[2] = 0
      BY <1>3
    <3> QED
      BY <1>4, <3>1
  <2>2. IsQuarter(h1(camera)) /\ Quarter(h1(camera)) = q
    BY <2>1, TrueRoot
  <2> QED
    BY <2>1, <2>2
<1>6. CASE n = 0
  <2>1. n * (-1) = n
    BY <1>6
  <2> QED
    BY <1>4, <1>5, <2>1
<1>7. CASE n # 0
  <2>1. PICK x \in -5 .. 5, y \in 1 .. 5 : camera = <<x, y, 0>> /\ x * x + y * y = 25
    BY DEF IsCamera
  <2>2. km.c =
          matVec(matFromColumns(r1, r2, cross(r1, r2)),
                 <<dot(r1, camera), dot(r2, camera), n * (-1)>>)
    BY <1>3
  <2>3. \/ km.c = <<x, y * (-1), 0>>
        \/ /\ km.c = <<x * (-1), y, 0>> /\ x # 0
           /\ (Across(r1) /\ Along(r2)) \/ (Across(r2) /\ Along(r1))
    BY <1>1, <1>7, <2>1, <2>2, MirrorIs
  <2>4. CASE km.c = <<x, y * (-1), 0>>
    <3>1. ~ (km.c[2] > 0)
      BY <2>4
    <3> QED
      BY <1>4, <1>5, <3>1
  <2>5. CASE /\ km.c = <<x * (-1), y, 0>> /\ x # 0
             /\ (Across(r1) /\ Along(r2)) \/ (Across(r2) /\ Along(r1))
    <3>1. AzLess(h1(km.c), h2(km.c))[2] # 0
      <4> DEFINE k == km.c
      <4>1. k = <<x * (-1), y, 0>>
        BY <2>5
      <4> HIDE DEF k
      <4>2. k = <<camera[1] * (-1), camera[2], 0>> /\ camera[1] # 0
        BY <2>1, <2>5, <4>1
      <4>3. (Across(G1[3]) /\ Along(G2[3])) \/ (Across(G2[3]) /\ Along(G1[3]))
        BY <2>5
      <4>4. AzLess(h1(k), h2(k))[2] # 0
        BY <4>2, <4>3, MirrorDisagrees
      <4> QED
        BY <4>4 DEF k
    <3>2. ~ km.agree
      <4> HIDE DEF h1, h2
      <4>1. km.agree <=> AzLess(h1(km.c), h2(km.c))[1] > 0 /\ AzLess(h1(km.c), h2(km.c))[2] = 0
        BY <1>3
      <4> QED
        BY <3>1, <4>1
    <3> QED
      BY <1>4, <1>5, <3>2
  <2> QED
    BY <2>3, <2>4, <2>5
<1> QED
  BY <1>6, <1>7

(* A solve by gravity that is not refused finds the tripod and the camera  *)
(* as they are (solveCalibrationWithGravity, geo/imu-                      *)
(* orientation.ts:88-146).                                                 *)
LEMMA GravityTrue ==
  ASSUME IsRot(tripod), IsCamera(camera), handed \in Int,
         sighted[1] \in Int \X Int, sighted[2] \in Int \X Int, NEW p \in Int \X Int,
         NEW S,
         S = GravitySolve(dBaseFromGravity(p, GravityAt(p), handed),
                          <<LooksAt(sighted[1]), LooksAt(sighted[2])>>),
         S # Unsolved
  PROVE  S = [R |-> tripod, cHead |-> camera]
<1> DEFINE up == Neg(dBaseFromGravity(p, GravityAt(p), handed))
           R0 == rotAlign(up, Unit(Up))
           enu == <<LooksAt(sighted[1]), LooksAt(sighted[2])>>
           rows == <<RowOf(R0, sighted[1]), RowOf(R0, sighted[2])>>
           disc == 25 - enu[1][3] * enu[1][3] - enu[2][3] * enu[2][3]
           roots ==
             <<Candidate(R0, rows, enu, Root(disc)), Candidate(R0, rows, enu, -Root(disc))>>
           best == Best(roots)
           heading == IF IsQuarter(best.heading)
                        THEN matMul(rotZ(Quarter(best.heading)), R0)
                        ELSE R0
<1>1. /\ dot(rows[1], rows[2]) = 0
      /\ best.agree
      /\ S = [R |-> heading, cHead |-> best.c]
  <2>1. S = IF dot(rows[1], rows[2]) # 0 \/ disc < 0 \/ ~ best.agree
              THEN Unsolved
              ELSE [R |-> heading, cHead |-> best.c]
    BY DEF GravitySolve
  <2> HIDE DEF rows, disc, best, R0, heading
  <2> QED
    BY <2>1
<1>2. IsRot(R0) /\ R0[3] = tripod[3]
  <2>1. up = tripod[3]
    BY GravityShowsUp
  <2>2. Unit(Up) = <<0, 0, 1>>
    BY DEF Unit, Up, Sgn
  <2>3. tripod[3] \in AxisVectors
    BY RotForm
  <2> QED
    BY <2>1, <2>2, <2>3, AlignIsRot
<1> HIDE DEF R0
<1>3. PICK q \in 0 .. 3 : tripod = matMul(rotZ(q), R0)
  BY <1>2, SameUp
<1> DEFINE G1 == matMul(R0, HeadAt(sighted[1]))
           G2 == matMul(R0, HeadAt(sighted[2]))
<1>4. camera \in Vectors /\ camera[2] > 0 /\ camera[2] \in Int
  BY DEF IsCamera, Vectors
<1>5. /\ IsRot(G1) /\ enu[1] = matVec(rotZ(q), matVec(G1, camera))
      /\ enu[1][3] = dot(G1[3], camera)
      /\ IsRot(G2) /\ enu[2] = matVec(rotZ(q), matVec(G2, camera))
      /\ enu[2][3] = dot(G2[3], camera)
  BY <1>2, <1>3, <1>4, Seen
<1>6. rows = <<G1[3], G2[3]>>
  BY DEF RowOf, HeadAt
<1> HIDE DEF G1, G2, enu, rows
<1>7. dot(G1[3], G2[3]) = 0 /\ G1[3] \in AxisVectors /\ G2[3] \in AxisVectors
  BY <1>1, <1>5, <1>6, RotForm
<1> DEFINE n == dot(cross(G1[3], G2[3]), camera)
           kt == Candidate(R0, <<G1[3], G2[3]>>, enu, n)
           km == Candidate(R0, <<G1[3], G2[3]>>, enu, n * (-1))
<1>8. n \in -5 .. 5 /\ disc = n * n
  BY <1>5, <1>7, DiscIs
<1> HIDE DEF n, disc
<1>9. roots = <<kt, km>> \/ roots = <<km, kt>>
  <2>1. Root(disc) \in Nat /\ (Root(disc) = n \/ Root(disc) = n * (-1))
    BY <1>8, RootIs
  <2>2. \/ Root(disc) = n /\ -Root(disc) = n * (-1)
        \/ Root(disc) = n * (-1) /\ -Root(disc) = n
    BY <1>8, <2>1
  <2> QED
    BY <1>6, <2>2
<1>10. /\ kt.c = camera
       /\ kt.agree => IsQuarter(kt.heading) /\ Quarter(kt.heading) = q
       /\ km = kt \/ ~ (km.c[2] > 0) \/ ~ km.agree
  BY <1>5, <1>7, RootsAre DEF n, G1, G2
<1> HIDE DEF kt, km, roots
<1>11. best = kt
  BY <1>1, <1>4, <1>9, <1>10, BestIs
<1> HIDE DEF best
<1>12. kt.agree
  BY <1>1, <1>11
<1>13. S = [R |-> matMul(rotZ(q), R0), cHead |-> camera]
  BY <1>1, <1>10, <1>11, <1>12
<1> QED
  BY <1>3, <1>13

-----------------------------------------------------------------------------
(* A rotation keeps lengths (a sighting has length 5).                     *)
LEMMA ScaledByFive ==
  ASSUME NEW M, IsRot(M), NEW a \in AxisVectors
  PROVE  matVec(M, scale(a, 5)) = scale(matVec(M, a), 5)
<1>1. M \in Matrices
  BY RotForm
<1>2. a[1] \in Int /\ a[2] \in Int /\ a[3] \in Int
  BY DEF AxisVectors
<1>3. ASSUME NEW r, r[1] \in Int, r[2] \in Int, r[3] \in Int
      PROVE  dot(r, scale(a, 5)) = dot(r, a) * 5
  BY <1>2, <1>3 DEF dot, scale
<1>4. /\ dot(M[1], scale(a, 5)) = dot(M[1], a) * 5
      /\ dot(M[2], scale(a, 5)) = dot(M[2], a) * 5
      /\ dot(M[3], scale(a, 5)) = dot(M[3], a) * 5
  BY <1>1, <1>3, MatrixIs
<1>5. matVec(M, scale(a, 5)) =
        <<dot(M[1], scale(a, 5)), dot(M[2], scale(a, 5)), dot(M[3], scale(a, 5))>>
  BY DEF matVec
<1>6. scale(matVec(M, a), 5) = <<dot(M[1], a) * 5, dot(M[2], a) * 5, dot(M[3], a) * 5>>
  BY DEF matVec, scale
<1> QED
  BY <1>4, <1>5, <1>6

(* The frame TRIAD builds on two sightings across each other               *)
(* (geo/orientation.ts:9-12).                                              *)
LEMMA TriadIs ==
  ASSUME NEW a \in AxisVectors, NEW b \in AxisVectors, dot(a, b) = 0,
         NEW c, c = cross(a, b)
  PROVE  /\ Triad(scale(a, 5), scale(b, 5)) = transpose(<<a, c, cross(a, c)>>)
         /\ IsRot(<<a, c, cross(a, c)>>)
<1>1. Unit(scale(a, 5)) = a
  BY DEF AxisVectors, Unit, Sgn, scale
<1>2. Unit(cross(scale(a, 5), scale(b, 5))) = c
  BY DEF AxisVectors, Unit, Sgn, scale, cross, dot
<1>3. Triad(scale(a, 5), scale(b, 5)) = matFromColumns(a, c, cross(a, c))
  BY <1>1, <1>2 DEF Triad
<1>4. c \in AxisVectors /\ dot(a, c) = 0
  BY DEF AxisVectors, cross, dot
<1> QED
  BY <1>3, <1>4, RowsSpan DEF transpose

(* A rotation and its transpose undo each other in a product.              *)
LEMMA MatMulInverse ==
  ASSUME NEW T \in Matrices, NEW M, IsRot(M)
  PROVE  matMul(matMul(T, transpose(M)), M) = T
<1>1. /\ M \in Matrices /\ IsRot(transpose(M)) /\ transpose(M) \in Matrices
      /\ transpose(transpose(M)) = M
  BY RotForm, RotTranspose, TransposeTwice
<1>2. T[1] \in Vectors /\ T[2] \in Vectors /\ T[3] \in Vectors /\ T = <<T[1], T[2], T[3]>>
  BY MatrixIs
<1>3. matMul(T, transpose(M)) = <<matVec(M, T[1]), matVec(M, T[2]), matVec(M, T[3])>>
  BY <1>1 DEF matMul
<1>4. matMul(matMul(T, transpose(M)), M) =
        <<matVec(transpose(M), matVec(M, T[1])), matVec(transpose(M), matVec(M, T[2])),
          matVec(transpose(M), matVec(M, T[3]))>>
  BY <1>3 DEF matMul
<1> QED
  BY <1>2, <1>4, RotInverse

(* TRIAD finds the rotation that its two sightings were turned by          *)
(* (solveOrientation, geo/orientation.ts:8-20) ...                         *)
LEMMA TriadTurns ==
  ASSUME NEW T, IsRot(T), NEW a \in AxisVectors, NEW b \in AxisVectors, dot(a, b) = 0
  PROVE  solveOrientation(scale(a, 5), matVec(T, scale(a, 5)),
                          scale(b, 5), matVec(T, scale(b, 5))) = T
<1> DEFINE c == cross(a, b)
           M == <<a, c, cross(a, c)>>
           Ta == matVec(T, a)
           Tb == matVec(T, b)
           Tc == cross(Ta, Tb)
           N == <<Ta, Tc, cross(Ta, Tc)>>
<1>1. a \in Vectors /\ b \in Vectors /\ c \in Vectors /\ T \in Matrices
  BY RotForm, AxisIsVector, RowsSpan
<1>2. Ta \in AxisVectors /\ Tb \in AxisVectors /\ dot(Ta, Tb) = 0
  BY <1>1, RotAxis, RotDot
<1>3. Triad(scale(a, 5), scale(b, 5)) = transpose(M) /\ IsRot(M)
  BY TriadIs
<1>4. Triad(matVec(T, scale(a, 5)), matVec(T, scale(b, 5))) = transpose(N)
  <2>1. matVec(T, scale(a, 5)) = scale(Ta, 5) /\ matVec(T, scale(b, 5)) = scale(Tb, 5)
    BY ScaledByFive
  <2> HIDE DEF Ta, Tb
  <2>2. Triad(scale(Ta, 5), scale(Tb, 5)) = transpose(<<Ta, Tc, cross(Ta, Tc)>>)
    BY <1>2, TriadIs
  <2> QED
    BY <2>1, <2>2
<1>5. Tc = matVec(T, c) /\ cross(Ta, Tc) = matVec(T, cross(a, c))
  <2>1. Tc = matVec(T, c)
    BY <1>1, RotCross
  <2> HIDE DEF c, Tc
  <2>2. cross(matVec(T, a), matVec(T, c)) = matVec(T, cross(a, c))
    BY <1>1, RotCross
  <2> QED
    BY <2>1, <2>2
<1>6. N = matMul(M, transpose(T))
  <2>1. transpose(transpose(T)) = T
    BY <1>1, TransposeTwice
  <2> HIDE DEF Tc, c
  <2>2. N = <<matVec(T, a), matVec(T, c), matVec(T, cross(a, c))>>
    BY <1>5
  <2>3. matMul(M, transpose(T)) = <<matVec(T, a), matVec(T, c), matVec(T, cross(a, c))>>
    BY <2>1 DEF matMul
  <2> QED
    BY <2>2, <2>3
<1> HIDE DEF M, N
<1>7. transpose(N) = matMul(T, transpose(M)) /\ transpose(transpose(M)) = M
  <2>1. M \in Matrices /\ transpose(T) \in Matrices /\ transpose(transpose(T)) = T
    BY <1>1, <1>3, RotForm, TransposeType, TransposeTwice
  <2> QED
    BY <1>6, <2>1, TransposeProduct, TransposeTwice
<1>8. solveOrientation(scale(a, 5), matVec(T, scale(a, 5)), scale(b, 5), matVec(T, scale(b, 5)))
        = matMul(transpose(N), transpose(transpose(M)))
  BY <1>3, <1>4 DEF solveOrientation
<1> QED
  BY <1>1, <1>3, <1>7, <1>8, MatMulInverse

(* ... so a solve without an IMU finds the tripod as it stands.            *)
LEMMA TriadTrue ==
  ASSUME IsRot(tripod), handed = 1, camera = Forward,
         NEW p \in Int \X Int, NEW o \in Int \X Int,
         NEW mp, mp = matVec(mountHeadRotation(p[1], p[2]), Forward),
         NEW mo, mo = matVec(mountHeadRotation(o[1], o[2]), Forward),
         Unit(mp) \notin {Unit(mo), Neg(Unit(mo))}
  PROVE  solveOrientation(mp, LooksAt(p), mo, LooksAt(o)) = tripod
<1> DEFINE H(x) == mountHeadRotation(x[1], x[2])
           y == <<0, 1, 0>>
<1>1. y \in AxisVectors /\ Forward = scale(y, 5)
  BY DEF AxisVectors, Forward, scale
<1>2. IsRot(H(p)) /\ IsRot(H(o))
  BY HeadIsRot
<1>3. LooksAt(p) = matVec(tripod, mp) /\ LooksAt(o) = matVec(tripod, mo)
  <2>1. /\ LooksAt(p) = matVec(matMul(tripod, H(p)), Forward)
        /\ LooksAt(o) = matVec(matMul(tripod, H(o)), Forward)
    <3>1. 1 * p[1] = p[1] /\ 1 * o[1] = o[1]
      OBVIOUS
    <3> QED
      BY <3>1 DEF LooksAt, boresightToEnu
  <2>2. H(p) \in Matrices /\ H(o) \in Matrices /\ tripod \in Matrices /\ Forward \in Vectors
    BY <1>2, RotForm DEF Forward, Vectors
  <2>3. mp = matVec(H(p), Forward) /\ mo = matVec(H(o), Forward)
    OBVIOUS
  <2> HIDE DEF H
  <2> QED
    BY <2>1, <2>2, <2>3, MatMulVec
<1> DEFINE a == matVec(H(p), y)
           b == matVec(H(o), y)
<1> HIDE DEF H, y
<1>4. a \in AxisVectors /\ b \in AxisVectors /\ mp = scale(a, 5) /\ mo = scale(b, 5)
  <2>1. mp = matVec(H(p), Forward) /\ mo = matVec(H(o), Forward)
    BY DEF H
  <2> QED
    BY <1>1, <1>2, <2>1, RotAxis, ScaledByFive
<1> HIDE DEF a, b
<1>5. Unit(mp) = a /\ Unit(mo) = b
  BY <1>4 DEF AxisVectors, Unit, Sgn, scale
<1>6. dot(a, b) = 0
  <2>1. a # b /\ a # Neg(b)
    BY <1>5
  <2> QED
    BY <1>4, <2>1 DEF AxisVectors, dot, Neg, scale
<1> QED
  BY <1>3, <1>4, <1>6, TriadTurns

-----------------------------------------------------------------------------
(* What is stored is the truth. It is what PointsTrue rests on: a false    *)
(* solution would point true in some directions only.                      *)
SolvedTrue == solution # Unsolved => solution = [R |-> tripod, cHead |-> camera]

AttitudeInv == AttitudeTypeOK /\ SolvedTrue

(* What the assumption says of a camera.                                   *)
LEMMA CamerasAre ==
  ASSUME camera \in Cameras
  PROVE  IsCamera(camera)
<1>1. /\ camera \in (-5 .. 5) \X (1 .. 5) \X {0}
      /\ camera[1] * camera[1] + camera[2] * camera[2] = 25
  BY AttitudeAssumption
<1>2. camera = <<camera[1], camera[2], 0>> /\ camera[1] \in -5 .. 5 /\ camera[2] \in 1 .. 5
  BY <1>1
<1> QED
  BY <1>1, <1>2 DEF IsCamera

(* What the types say that the solvers rely on.                            *)
LEMMA AttitudeTypes ==
  ASSUME AttitudeTypeOK
  PROVE  /\ IsRot(tripod) /\ IsCamera(camera) /\ handed \in Int
         /\ Postures \subseteq Int \X Int
         /\ Len(sighted) = 2 => sighted[1] \in Int \X Int /\ sighted[2] \in Int \X Int
<1>1. IsRot(tripod) /\ IsCamera(camera) /\ handed \in Int
  BY RotationIsRot, CamerasAre DEF AttitudeTypeOK
<1>2. Postures \subseteq Int \X Int
  BY AttitudeAssumption
<1>3. Len(sighted) = 2 => sighted[1] \in Postures /\ sighted[2] \in Postures
  BY DEF AttitudeTypeOK
<1> QED
  BY <1>1, <1>2, <1>3

(* A true solution has its types.                                          *)
LEMMA SolvedTypes ==
  ASSUME tripod \in Rotations, camera \in Cameras, solution' = [R |-> tripod, cHead |-> camera]
  PROVE  solution'.R \in Rotations /\ solution'.cHead \in (-5 .. 5) \X (-5 .. 5) \X (-5 .. 5)
<1>1. camera \in (-5 .. 5) \X (1 .. 5) \X {0}
  BY AttitudeAssumption
<1>2. camera \in (-5 .. 5) \X (-5 .. 5) \X (-5 .. 5)
  BY <1>1
<1> QED
  BY <1>2

(* No sighting and no solve disturbs that (geo-tools.ts:98-110, 137-223).  *)
LEMMA StepKeepsAttitude == AttitudeInv /\ [AttitudeNext]_attitudeVars => AttitudeInv'
<1> SUFFICES ASSUME AttitudeInv, [AttitudeNext]_attitudeVars
             PROVE  AttitudeInv'
  OBVIOUS
<1> USE DEF AttitudeInv
<1>1. ASSUME NEW p \in Postures, Sight(p)
      PROVE  AttitudeInv'
  <2>1. /\ UNCHANGED <<tripod, handed, camera, solution>> /\ Len(sighted) < 2
        /\ sighted' = Append(sighted, p)
    BY <1>1 DEF Sight
  <2>2. sighted = <<>> \/ \E o \in Postures : sighted = <<o>>
    BY <2>1 DEF AttitudeTypeOK
  <2>3. sighted' \in {<<o>> : o \in Postures} \cup (Postures \X Postures)
    <3>1. CASE sighted = <<>>
      <4>1. sighted' = <<p>>
        BY <2>1, <3>1
      <4> QED
        BY <4>1
    <3>2. CASE \E o \in Postures : sighted = <<o>>
      <4>1. PICK o \in Postures : sighted = <<o>>
        BY <3>2
      <4> DEFINE s == Append(<<o>>, p)
      <4>2. s \in Seq(Postures) /\ Len(s) = 2 /\ s[1] = o /\ s[2] = p
        OBVIOUS
      <4> HIDE DEF s
      <4>3. s = <<s[1], s[2]>>
        BY <4>2
      <4> QED
        BY <2>1, <4>1, <4>2, <4>3 DEF s
    <3> QED
      BY <2>2, <3>1, <3>2
  <2>4. AttitudeTypeOK'
    BY <2>1, <2>3 DEF AttitudeTypeOK
  <2> QED
    BY <2>1, <2>4 DEF SolvedTrue
<1>2. ASSUME UNCHANGED <<tripod, handed, camera, sighted>>,
             solution' # Unsolved => solution' = [R |-> tripod, cHead |-> camera]
      PROVE  AttitudeInv'
  <2>1. SolvedTrue'
    BY <1>2 DEF SolvedTrue
  <2>2. solution' # Unsolved =>
          solution'.R \in Rotations /\ solution'.cHead \in (-5 .. 5) \X (-5 .. 5) \X (-5 .. 5)
    BY <1>2, SolvedTypes DEF AttitudeTypeOK
  <2>3. AttitudeTypeOK'
    BY <1>2, <2>2 DEF AttitudeTypeOK
  <2> QED
    BY <2>1, <2>3
<1>3. CASE SolveByGravity
  <2>1. PICK p \in {sighted[2], <<0, 0>>} :
          solution' = GravitySolve(dBaseFromGravity(p, GravityAt(p), handed),
                                   <<LooksAt(sighted[1]), LooksAt(sighted[2])>>)
    BY <1>3 DEF SolveByGravity
  <2>2. /\ UNCHANGED <<tripod, handed, camera, sighted>>
        /\ sighted[1] \in Int \X Int /\ sighted[2] \in Int \X Int /\ p \in Int \X Int
        /\ IsRot(tripod) /\ IsCamera(camera) /\ handed \in Int
    BY <1>3, AttitudeTypes DEF SolveByGravity
  <2>3. solution' # Unsolved => solution' = [R |-> tripod, cHead |-> camera]
    BY <2>1, <2>2, GravityTrue
  <2> QED
    BY <1>2, <2>2, <2>3
<1>4. CASE SolveByTriad
  <2> DEFINE mount(i) == matVec(mountHeadRotation(sighted[i][1], sighted[i][2]), Forward)
  <2>1. /\ UNCHANGED <<tripod, handed, camera, sighted>>
        /\ sighted[1] \in Int \X Int /\ sighted[2] \in Int \X Int
        /\ IsRot(tripod) /\ handed = 1 /\ camera = Forward
    BY <1>4, AttitudeTypes DEF SolveByTriad
  <2>2. /\ Unit(mount(1)) \notin {Unit(mount(2)), Neg(Unit(mount(2)))}
        /\ solution' = [R |-> solveOrientation(mount(1), LooksAt(sighted[1]),
                                               mount(2), LooksAt(sighted[2])),
                        cHead |-> Forward]
    BY <1>4 DEF SolveByTriad
  <2>3. solveOrientation(mount(1), LooksAt(sighted[1]), mount(2), LooksAt(sighted[2])) = tripod
    BY <2>1, <2>2, TriadTrue
  <2>4. solution' = [R |-> tripod, cHead |-> camera]
    BY <2>1, <2>2, <2>3
  <2> QED
    BY <1>2, <2>1, <2>4
<1>5. CASE UNCHANGED attitudeVars
  BY <1>5 DEF attitudeVars, AttitudeTypeOK, SolvedTrue
<1> QED
  BY <1>1, <1>3, <1>4, <1>5 DEF AttitudeNext

(* geo-tools.ts:156-223: the types, and whatever solve_calibration stored  *)
(* is how the tripod really stands and where the camera really looks,      *)
(* whichever solver ran, from whatever two postures, and wherever gravity  *)
(* was read.                                                               *)
THEOREM SolvedAlwaysTrue == AttitudeSpec => [](AttitudeTypeOK /\ SolvedTrue)
<1>1. AttitudeInit => AttitudeInv
  BY DEF AttitudeInit, AttitudeInv, AttitudeTypeOK, SolvedTrue
<1> QED
  BY <1>1, StepKeepsAttitude, PTL DEF AttitudeSpec, AttitudeInv

-----------------------------------------------------------------------------
(* A full turn of the pan changes nothing.                                 *)
LEMMA TurnsAgain ==
  ASSUME NEW g \in Int, NEW k \in -2 .. 2
  PROVE  rotZ(-(g + 4 * k)) = rotZ(-g)
<1>1. (-(g + 4 * k)) % 4 = (-g) % 4 /\ (-(g + 4 * k) - 1) % 4 = (-g - 1) % 4
  OBVIOUS
<1>2. Cos(-(g + 4 * k)) = Cos(-g) /\ Sin(-(g + 4 * k)) = Sin(-g)
  BY <1>1 DEF Cos, Sin
<1> QED
  BY <1>2 DEF rotZ

(* The tilt a direction is reached at is read off its height (geo/imu-     *)
(* orientation.ts:170-174).                                                *)
LEMMA Tilted ==
  ASSUME NEW c, IsCamera(c), NEW t \in -1 .. 1, NEW b, b = matVec(rotX(t), c)
  PROVE  /\ b \in Vectors /\ Unit(b)[3] = t
         /\ b[1] * b[1] + b[2] * b[2] \in 0 .. 25
         /\ b[1] = 0 /\ b[2] = 0 => c = Forward /\ t # 0
<1>1. PICK x \in -5 .. 5, y \in 1 .. 5 : c = <<x, y, 0>> /\ x * x + y * y = 25
  BY DEF IsCamera
<1>2. b = <<x, Cos(t) * y, Sin(t) * y>>
  <2>1. Cos(t) \in Int /\ Sin(t) \in Int
    BY CosVals
  <2>2. b =
          <<1 * x + 0 * y + 0 * 0, 0 * x + Cos(t) * y + (-Sin(t)) * 0,
            0 * x + Sin(t) * y + Cos(t) * 0>>
    BY <1>1 DEF matVec, rotX, dot
  <2> QED
    BY <2>1, <2>2
<1>3. /\ t = 0 => Cos(t) = 1 /\ Sin(t) = 0
      /\ t = 1 => Cos(t) = 0 /\ Sin(t) = 1
      /\ t = -1 => Cos(t) = 0 /\ Sin(t) = -1
  BY CosVals
<1>4. x * x >= 0 /\ y * y >= 0 /\ (x = 0 => c = Forward)
  <2>1. x = 0 => y = 5
    <3>1. y = 1 \/ y = 2 \/ y = 3 \/ y = 4 \/ y = 5
      BY <1>1
    <3> QED
      BY <1>1, <3>1
  <2> QED
    BY <1>1, <2>1 DEF Forward
<1>5. CASE t = 0
  <2>1. b = <<x, y, 0>>
    BY <1>2, <1>3, <1>5
  <2> QED
    BY <1>1, <1>5, <2>1 DEF Vectors, Unit, Sgn, Forward
<1>6. CASE t = 1
  <2>1. b = <<x, 0, y>>
    BY <1>2, <1>3, <1>6
  <2> QED
    BY <1>1, <1>4, <1>6, <2>1 DEF Vectors, Unit, Sgn
<1>7. CASE t = -1
  <2>1. b = <<x, 0, y * (-1)>>
    BY <1>2, <1>3, <1>7
  <2> QED
    BY <1>1, <1>4, <1>7, <2>1 DEF Vectors, Unit, Sgn
<1> QED
  BY <1>5, <1>6, <1>7

(* The pan between a direction and where the camera looks at pan 0 is how  *)
(* far the head had turned, unless both are straight along the pan's axis  *)
(* (geo/imu-orientation.ts:176).                                           *)
LEMMA PanBetween ==
  ASSUME NEW b \in Vectors, b[1] * b[1] + b[2] * b[2] \in 0 .. 25, NEW g \in Int,
         NEW m, m = matVec(rotZ(-g), b)
  PROVE  /\ m[3] = b[3] /\ m \in Vectors
         /\ b[1] = 0 /\ b[2] = 0 => m = b
         /\ ~ (b[1] = 0 /\ b[2] = 0) =>
              /\ AzLess(m, b) # <<0, 0>>
              /\ IsQuarter(AzLess(m, b)) /\ Quarter(AzLess(m, b)) = g % 4
<1> DEFINE C == Cos(-g)
           S == Sin(-g)
           D == b[1] * b[1] + b[2] * b[2]
           q == g % 4
<1>1. b[1] \in Int /\ b[2] \in Int /\ b[3] \in Int /\ b = <<b[1], b[2], b[3]>>
  BY VectorIs
<1>2. C \in Int /\ S \in Int /\ C * C + S * S = 1
  <2>1. -g \in Int
    OBVIOUS
  <2> QED
    BY <2>1, CosVals
<1>3. q \in 0 .. 3 /\ Cos(q) = C /\ Sin(q) = S * (-1)
  BY DEF Cos, Sin
<1>4. m = <<C * b[1] - S * b[2], S * b[1] + C * b[2], b[3]>>
  <2>1. m =
          <<C * b[1] + (-S) * b[2] + 0 * b[3], S * b[1] + C * b[2] + 0 * b[3],
            0 * b[1] + 0 * b[2] + 1 * b[3]>>
    BY DEF matVec, rotZ, dot
  <2> HIDE DEF C, S
  <2> QED
    BY <1>1, <1>2, <2>1
<1> HIDE DEF C, S
<1>5. m[3] = b[3] /\ m \in Vectors
  BY <1>1, <1>2, <1>4 DEF Vectors
<1>6. ASSUME b[1] = 0, b[2] = 0
      PROVE  m = b
  BY <1>1, <1>2, <1>4, <1>6
<1>7. ASSUME ~ (b[1] = 0 /\ b[2] = 0)
      PROVE  /\ AzLess(m, b) # <<0, 0>>
             /\ IsQuarter(AzLess(m, b)) /\ Quarter(AzLess(m, b)) = q
  <2>1. D \in 1 .. 25
    BY <1>1, <1>7, SquaresZero
  <2>4. AzLess(m, b) = <<m[1] * b[1] + m[2] * b[2], m[1] * b[2] - m[2] * b[1]>>
    BY DEF AzLess
  <2>5. (C * b[1] - S * b[2]) * b[1] + (S * b[1] + C * b[2]) * b[2] = D * C
    BY <1>1, <1>2
  <2>6. (C * b[1] - S * b[2]) * b[2] - (S * b[1] + C * b[2]) * b[1] = D * (S * (-1))
    <3>1. (C * b[1]) * b[2] = (C * b[2]) * b[1]
      BY <1>1, <1>2
    <3>2. (S * b[2]) * b[2] + (S * b[1]) * b[1] = D * S
      BY <1>1, <1>2
    <3>3. D * (S * (-1)) = (D * S) * (-1)
      BY <1>1, <1>2
    <3> QED
      BY <1>1, <1>2, <3>1, <3>2, <3>3
  <2>7. AzLess(m, b) = <<D * Cos(q), D * Sin(q)>>
    BY <1>3, <1>4, <2>4, <2>5, <2>6
  <2> HIDE DEF D
  <2>8. q \in Int
    BY <1>3
  <2>9. D * Cos(q) # 0 \/ D * Sin(q) # 0
    BY <2>1, <2>8, CosVals
  <2> QED
    BY <1>3, <2>1, <2>7, <2>9, QuarterIs
<1> QED
  BY <1>5, <1>6, <1>7

(* The pan is the one the sighting was made at, but for a full turn        *)
(* (geo/imu-orientation.ts:177) ...                                        *)
LEMMA PanCongruent ==
  ASSUME NEW s \in {-1, 1}, NEW a \in -4 .. 4, NEW n \in -2 .. 2,
         (n - s * ((s * a) % 4)) % 4 = 0
  PROVE  a - n \in {-4, 0, 4} /\ (a \in -1 .. 1 => n = a)
<1>1. CASE s = 1
  BY <1>1
<1>2. CASE s = -1
  BY <1>2
<1> QED
  BY <1>1, <1>2

(* ... and resolvePanInRange leaves it or brings it within the limits by a *)
(* full turn (geo/orientation.ts:32-38, geo-tools.ts:56).                  *)
LEMMA ResolveIs ==
  ASSUME NEW n \in -2 .. 2, NEW r, r = resolvePanInRange(n)
  PROVE  /\ r = Unsolved \/ (r \in PanMin .. PanMax /\ r - n \in {-4, 0, 4})
         /\ n \in PanMin .. PanMax => r = n
<1>1. r = IF n \in PanMin .. PanMax THEN n
          ELSE IF n - 4 \in PanMin .. PanMax THEN n - 4
          ELSE IF n + 4 \in PanMin .. PanMax THEN n + 4 ELSE Unsolved
  BY DEF resolvePanInRange
<1>2. PanMin \in -4 .. 0 /\ PanMax \in 0 .. 4
  BY AttitudeAssumption
<1> QED
  BY <1>1, <1>2

(* Where the camera looks, seen from the mount.                            *)
LEMMA LooksBack ==
  ASSUME IsRot(tripod), NEW p \in Int \X Int, handed \in Int, camera \in Vectors
  PROVE  /\ matVec(transpose(tripod), LooksAt(p)) = matVec(HeadAt(p), camera)
         /\ LooksAt(p) = matVec(tripod, matVec(HeadAt(p), camera))
         /\ matVec(HeadAt(p), camera) =
              matVec(rotZ(-(handed * p[1])), matVec(rotX(p[2]), camera))
<1> DEFINE H == HeadAt(p)
           g == handed * p[1]
           Z == rotZ(-g)
           X == rotX(p[2])
<1>1. IsRot(Z) /\ IsRot(X) /\ IsRot(H) /\ H = matMul(Z, X)
  <2>1. g \in Int /\ p[2] \in Int /\ -g \in Int
    OBVIOUS
  <2> HIDE DEF g
  <2> QED
    BY <2>1, HeadIsRot, RotXIs, RotZIs DEF HeadAt, mountHeadRotation, g
<1>2. LooksAt(p) = matVec(matMul(tripod, H), camera)
  BY DEF LooksAt, boresightToEnu, HeadAt
<1> HIDE DEF H, Z, X
<1>3. tripod \in Matrices /\ H \in Matrices /\ Z \in Matrices /\ X \in Matrices
  BY <1>1, RotForm
<1>4. matVec(H, camera) \in Vectors
  BY <1>3, MatVecType
<1>5. LooksAt(p) = matVec(tripod, matVec(H, camera))
  BY <1>2, <1>3, MatMulVec
<1>6. matVec(transpose(tripod), LooksAt(p)) = matVec(H, camera)
  BY <1>4, <1>5, RotInverse
<1>7. matVec(H, camera) = matVec(Z, matVec(X, camera))
  BY <1>1, <1>3, MatMulVec
<1> QED
  BY <1>5, <1>6, <1>7 DEF H, Z, X

(* The roots for the direction of posture p and the one of them that is    *)
(* taken (geo/imu-orientation.ts:170-198): one at p's own tilt, on a pan   *)
(* from which the camera looks there, or one over the top, which is only   *)
(* taken when that at p's tilt is out of the limits.                       *)
LEMMA RootIsEither ==
  ASSUME AttitudeTypeOK, solution = [R |-> tripod, cHead |-> camera],
         NEW p \in (PanMin .. PanMax) \X (-1 .. 1),
         NEW root \in enuToPanTiltOffset(solution.R, solution.cHead, handed, LooksAt(p)),
         NEW b, b = matVec(rotX(p[2]), camera)
  PROVE  \/ \E n \in -2 .. 2 : /\ root = <<n, p[2]>>
                               /\ ~ (b[1] = 0 /\ b[2] = 0) =>
                                    (n - handed * ((handed * p[1]) % 4)) % 4 = 0
         \/ p[2] = 0 /\ root[2] = 2 /\ p[1] \notin -1 .. 1
<1> DEFINE a == p[1]
           t == p[2]
           g == handed * a
           w == LooksAt(p)
           m == matVec(transpose(tripod), w)
           h == AzLess(m, b)
           over == IF t = 0 THEN 2 ELSE t
           hOver == AzLess(m, matVec(rotX(over), camera))
           Pans == {n \in -2 .. 2 :
                      h # <<0, 0>> /\ IsQuarter(h) => (n - handed * Quarter(h)) % 4 = 0}
           Overs == {n \in -2 .. 2 : hOver # <<0, 0>> /\ IsQuarter(hOver) =>
                                       (n - handed * Quarter(hOver)) % 4 = 0}
<1>1. /\ IsRot(tripod) /\ IsCamera(camera) /\ handed \in {-1, 1} /\ camera \in Vectors
      /\ PanMin \in -4 .. 0 /\ PanMax \in 0 .. 4
  <2>1. IsRot(tripod) /\ IsCamera(camera) /\ handed \in {-1, 1}
    BY AttitudeTypes DEF AttitudeTypeOK
  <2> QED
    BY <2>1, AttitudeAssumption DEF IsCamera, Vectors
<1>2. /\ a \in PanMin .. PanMax /\ a \in -4 .. 4 /\ t \in -1 .. 1 /\ p = <<a, t>>
      /\ p \in Int \X Int
      /\ g \in Int
  BY <1>1
<1>3. /\ b \in Vectors /\ Unit(b)[3] = t
      /\ b[1] * b[1] + b[2] * b[2] \in 0 .. 25
      /\ b[1] = 0 /\ b[2] = 0 => t # 0
  BY <1>1, <1>2, Tilted
<1>4. m = matVec(rotZ(-g), b)
  BY <1>1, <1>2, LooksBack
<1>5. /\ m[3] = b[3]
      /\ ~ (b[1] = 0 /\ b[2] = 0) => h # <<0, 0>> /\ IsQuarter(h) /\ Quarter(h) = g % 4
  <2> HIDE DEF m, g
  <2> QED
    BY <1>2, <1>3, <1>4, PanBetween
<1>6. Unit(m)[3] = t
  BY <1>3, <1>5 DEF Unit
<1>7. enuToPanTiltOffsetAll(solution.R, solution.cHead, handed, w) =
        {<<n, t>> : n \in Pans} \X {<<n, over>> : n \in Overs}
  <2>1. solution.R = tripod /\ solution.cHead = camera
    OBVIOUS
  <2> QED
    BY <1>6, <2>1 DEF enuToPanTiltOffsetAll
<1> HIDE DEF h, hOver, m, w
<1>8. PICK n1 \in Pans, n2 \in Overs : root \in Preferred(<<<<n1, t>>, <<n2, over>>>>)
  <2>1. PICK sols \in {<<n, t>> : n \in Pans} \X {<<n, over>> : n \in Overs} :
          root \in Preferred(sols)
    BY <1>7 DEF enuToPanTiltOffset, w
  <2> HIDE DEF Pans, Overs, over
  <2>2. PICK n1 \in Pans, n2 \in Overs : sols = <<<<n1, t>>, <<n2, over>>>>
    BY <2>1
  <2> QED
    BY <2>1, <2>2
<1>9. \/ root = <<n1, t>>
      \/ root = <<n2, over>> /\ (inRange(<<n2, over>>) \/ ~ inRange(<<n1, t>>))
  BY <1>8 DEF Preferred
<1>10. ASSUME NEW n \in Pans, ~ (b[1] = 0 /\ b[2] = 0)
       PROVE  (n - handed * (g % 4)) % 4 = 0
  BY <1>5, <1>10
<1>11. CASE root = <<n1, t>>
  BY <1>10, <1>11
<1>12. CASE t # 0 /\ root = <<n2, over>>
  <2>1. over = t /\ n2 \in Pans
    BY <1>12 DEF h, hOver
  <2> QED
    BY <1>10, <1>12, <2>1
<1>13. CASE t = 0 /\ root = <<n2, over>> /\ ~ (root = <<n1, t>>)
  <2>1. over = 2 /\ root[2] = 2
    BY <1>13
  <2>2. ~ inRange(<<n2, over>>)
    BY <2>1 DEF inRange
  <2>3. ~ inRange(<<n1, t>>)
    BY <1>9, <1>13, <2>2
  <2>4. n1 \notin PanMin .. PanMax
    BY <1>2, <2>3 DEF inRange
  <2>5. (n1 - handed * ((handed * a) % 4)) % 4 = 0 /\ n1 \in -2 .. 2
    BY <1>3, <1>10, <1>13
  <2>6. a \in -1 .. 1 => n1 = a
    BY <1>1, <1>2, <2>5, PanCongruent
  <2> QED
    BY <1>2, <1>13, <2>1, <2>4, <2>6
<1> QED
  BY <1>9, <1>11, <1>12, <1>13

(* Asked for a direction some posture within the limits looks in, the rig  *)
(* goes to a posture that looks there or refuses, the latter only where it *)
(* may (point_at_azel, geo-tools.ts:300-320).                              *)
LEMMA PointsBack ==
  ASSUME AttitudeTypeOK, solution = [R |-> tripod, cHead |-> camera],
         NEW p \in (PanMin .. PanMax) \X (-1 .. 1),
         NEW q \in PointAt(LooksAt(p))
  PROVE  IF q = Unsolved
           THEN p[1] \notin -1 .. 1 \/ AlongAxis(p)
           ELSE q[1] \in PanMin .. PanMax /\ q[2] \in -1 .. 1 /\ LooksAt(q) = LooksAt(p)
<1> DEFINE a == p[1]
           t == p[2]
           g == handed * a
           b == matVec(rotX(t), camera)
           m == matVec(rotZ(-g), b)
<1>1. /\ IsRot(tripod) /\ IsCamera(camera) /\ handed \in {-1, 1} /\ camera \in Vectors
      /\ PanMin \in -4 .. 0 /\ PanMax \in 0 .. 4
      /\ Unsolved \notin Int /\ Unsolved \notin Int \X Int
  <2>1. IsRot(tripod) /\ IsCamera(camera) /\ handed \in {-1, 1}
    BY AttitudeTypes DEF AttitudeTypeOK
  <2> QED
    BY <2>1, AttitudeAssumption DEF IsCamera, Vectors
<1>2. /\ a \in PanMin .. PanMax /\ a \in -4 .. 4 /\ t \in -1 .. 1 /\ p = <<a, t>>
      /\ p \in Int \X Int
      /\ g \in Int
  BY <1>1
<1>3. /\ b \in Vectors /\ b[1] * b[1] + b[2] * b[2] \in 0 .. 25
      /\ b[1] = 0 /\ b[2] = 0 => AlongAxis(p)
  BY <1>1, <1>2, Tilted DEF AlongAxis
<1>4. PICK root \in enuToPanTiltOffset(solution.R, solution.cHead, handed, LooksAt(p)) :
        q = reachablePanTilt(root)
  BY DEF PointAt
<1>5. \/ \E n \in -2 .. 2 : /\ root = <<n, t>>
                            /\ ~ (b[1] = 0 /\ b[2] = 0) =>
                                 (n - handed * ((handed * a) % 4)) % 4 = 0
      \/ t = 0 /\ root[2] = 2 /\ a \notin -1 .. 1
  BY <1>4, RootIsEither
<1> HIDE DEF b, m
<1>6. ASSUME NEW n \in -2 .. 2, root = <<n, t>>,
             ~ (b[1] = 0 /\ b[2] = 0) => (n - handed * ((handed * a) % 4)) % 4 = 0
      PROVE  IF q = Unsolved
               THEN a \notin -1 .. 1 \/ AlongAxis(p)
               ELSE q[1] \in PanMin .. PanMax /\ q[2] \in -1 .. 1 /\ LooksAt(q) = LooksAt(p)
  <2> DEFINE r == resolvePanInRange(n)
  <2>1. q = IF r = Unsolved THEN Unsolved ELSE <<r, t>>
    BY <1>2, <1>4, <1>6 DEF reachablePanTilt
  <2>2. ~ (b[1] = 0 /\ b[2] = 0) => a - n \in {-4, 0, 4} /\ (a \in -1 .. 1 => n = a)
    BY <1>1, <1>2, <1>6, PanCongruent
  <2>3. /\ r = Unsolved \/ (r \in PanMin .. PanMax /\ r - n \in {-4, 0, 4})
        /\ n \in PanMin .. PanMax => r = n
    <3> HIDE DEF r
    <3>1. r = resolvePanInRange(n)
      BY DEF r
    <3> QED
      BY <3>1, ResolveIs
  <2> HIDE DEF r
  <2>4. CASE r = Unsolved
    BY <1>1, <1>2, <1>3, <2>1, <2>2, <2>3, <2>4
  <2>5. CASE r # Unsolved
    <3>1. q = <<r, t>> /\ r \in PanMin .. PanMax /\ r \in Int /\ r - n \in {-4, 0, 4}
      BY <1>1, <2>1, <2>3, <2>5
    <3>2. q \in Int \X Int /\ q # Unsolved
      BY <1>1, <1>2, <3>1
    <3>3. LooksAt(q) = matVec(tripod, matVec(rotZ(-(handed * r)), b))
      <4>1. LooksAt(q) =
              matVec(tripod, matVec(rotZ(-(handed * q[1])), matVec(rotX(q[2]), camera)))
        BY <1>1, <3>2, LooksBack
      <4> QED
        BY <3>1, <4>1 DEF b
    <3>4. LooksAt(p) = matVec(tripod, m)
      BY <1>1, <1>2, LooksBack DEF m, b
    <3>5. matVec(rotZ(-(handed * r)), b) = m
      <4>1. CASE b[1] = 0 /\ b[2] = 0
        <5>1. handed * r \in Int
          BY <1>1, <3>1
        <5>2. matVec(rotZ(-(handed * r)), b) = b
          BY <1>3, <4>1, <5>1, PanBetween
        <5>3. m = b
          BY <1>2, <1>3, <4>1, PanBetween DEF m
        <5> QED
          BY <5>2, <5>3
      <4>2. CASE ~ (b[1] = 0 /\ b[2] = 0)
        <5>1. PICK k \in -2 .. 2 : r = a + 4 * k
          BY <1>2, <2>2, <3>1, <4>2
        <5>2. handed * k \in -2 .. 2 /\ handed * r = g + 4 * (handed * k)
          BY <1>1, <1>2, <5>1
        <5>3. rotZ(-(handed * r)) = rotZ(-g)
          BY <1>2, <5>2, TurnsAgain
        <5> QED
          BY <5>3 DEF m
      <4> QED
        BY <4>1, <4>2
    <3> QED
      BY <1>2, <3>1, <3>2, <3>3, <3>4, <3>5
  <2> QED
    BY <2>4, <2>5
<1>7. CASE t = 0 /\ root[2] = 2 /\ a \notin -1 .. 1
  <2>1. q = Unsolved
    BY <1>4, <1>7 DEF reachablePanTilt
  <2> QED
    BY <1>7, <2>1
<1> QED
  BY <1>5, <1>6, <1>7

(* PointsTrue (geo-tools.ts:201-204, 300-320), for every camera, mount,    *)
(* pan range and pair of postures.                                         *)
THEOREM AlwaysPointsTrue == AttitudeSpec => []PointsTrue
<1>1. AttitudeTypeOK /\ SolvedTrue => PointsTrue
  BY PointsBack DEF SolvedTrue, PointsTrue
<1> QED
  BY <1>1, SolvedAlwaysTrue, PTL
=============================================================================
