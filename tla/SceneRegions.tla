---------------------------- MODULE SceneRegions ----------------------------
(***************************************************************************)
(* The rectangles an administrator draws over a scene, from the browser to *)
(* the pixels of the source: accepted by the control plane                 *)
(* (web/src/lib/domain/scene-settings.ts), turned into regions by          *)
(* scene_blur_regions (src/ytb_vps_v2/application/media_job.py), and       *)
(* checked again in the document of TRACK (domain/pipeline.py).            *)
(*                                                                         *)
(* A coordinate is a fraction of the frame's side, here n / Units.  The    *)
(* two axes are treated alike and one after the other.                     *)
(***************************************************************************)
EXTENDS Integers

CONSTANTS
    Units,        \* the steps between 0 and 1
    Settings,     \* what a request may send: a rectangle for each region
    Sides         \* widths and heights of sources

MINIMUM == 8
RegionNames == {"sourceSubtitle", "logo"}
Axes == {"x", "y"}

\* A rectangle has a start and a length on each axis.
ASSUME SceneAssumption ==
    /\ Units \in Nat \ {0} /\ Sides \subseteq Nat \ {0}
    /\ Settings \subseteq [RegionNames -> [Axes -> [from : Int, length : Int]]]

VARIABLE scene  \* the settings, the source's sides, and what became of them

-----------------------------------------------------------------------------
\* rectangle: the schema of the control plane.
rectangle(r) ==
    \A a \in Axes : /\ r[a].from \in 0 .. Units /\ r[a].length \in 1 .. Units
                    /\ r[a].from + r[a].length <= Units

\* round() of n / Units: to the nearest, a half to the even one.
Rounded(n) ==
    LET down == n \div Units
        twice == 2 * (n - Units * down)
    IN  IF twice > Units \/ (twice = Units /\ down % 2 = 1) THEN down + 1 ELSE down

AtLeast(a, b) == IF a >= b THEN a ELSE b
AtMost(a, b) == IF a <= b THEN a ELSE b

\* SLIP (breaks SceneIsHonoured): a start moved to 0 does not move the end.
ExpandFromTheStart(low, high, bound) ==
    IF high - low >= MINIMUM THEN <<low, high>>
    ELSE LET start == AtLeast(0, low - (MINIMUM - (high - low)) \div 2)
         IN  <<start, AtMost(bound, start + MINIMUM)>>

\* A range that is too short grows on both sides, as far as the source goes.
_expand_to_minimum(low, high, bound) ==
    IF high - low >= MINIMUM THEN <<low, high>>
    ELSE LET start == AtLeast(0, low - (MINIMUM - (high - low)) \div 2)
             end == AtMost(bound, start + MINIMUM)
         IN  <<AtLeast(0, end - MINIMUM), end>>

Pixels(r, a, side) ==
    _expand_to_minimum(Rounded(r[a].from * side),
                       Rounded((r[a].from + r[a].length) * side), side)

\* _rectangle: the same test again, and no range that stays too short.
Fits(r, sides) ==
    rectangle(r) /\ \A a \in Axes : LET e == Pixels(r, a, sides[a]) IN e[2] - e[1] >= MINIMUM
_rectangle(r, sides) == [a \in Axes |-> Pixels(r, a, sides[a])]

\* BoundingBox and _blur_regions: an area, inside the media.
BoxHolds(box, sides) ==
    \A a \in Axes : 0 <= box[a][1] /\ box[a][1] < box[a][2] /\ box[a][2] <= sides[a]

-----------------------------------------------------------------------------
SRInit ==
    \E settings \in Settings, sides \in [Axes -> Sides] :
        scene = [pc |-> "sent", settings |-> settings, sides |-> sides, boxes |-> <<>>]

\* The control plane saves the settings or refuses them; a job gets a copy.
saveSceneSettings ==
    /\ scene.pc = "sent"
    /\ scene' = [scene EXCEPT !.pc = IF \A n \in RegionNames : rectangle(scene.settings[n])
                                     THEN "saved" ELSE "refused"]

AllFit == \A n \in RegionNames : Fits(scene.settings[n], scene.sides)
Boxes == [n \in RegionNames |-> _rectangle(scene.settings[n], scene.sides)]

scene_blur_regions ==
    /\ scene.pc = "saved"
    /\ \/ AllFit /\ scene' = [scene EXCEPT !.pc = "regions", !.boxes = Boxes]
       \/ ~AllFit /\ scene' = [scene EXCEPT !.pc = "failed"]

\* The document of TRACK.
TrackRegions ==
    /\ scene.pc = "regions"
    /\ scene' = [scene EXCEPT !.pc = IF \A n \in RegionNames : BoxHolds(scene.boxes[n], scene.sides)
                                     THEN "tracked" ELSE "failed"]

SRNext == saveSceneSettings \/ scene_blur_regions \/ TrackRegions
SRSpec == SRInit /\ [][SRNext]_scene

-----------------------------------------------------------------------------
\* The middle of pixel p is inside the range the administrator drew.
Drawn(r, a, side, p) ==
    /\ 2 * r[a].from * side < (2 * p + 1) * Units
    /\ (2 * p + 1) * Units < 2 * (r[a].from + r[a].length) * side

CoversDrawn(box, r, sides) ==
    \A a \in Axes : \A p \in 0 .. sides[a] - 1 :
        Drawn(r, a, sides[a], p) => p \in box[a][1] .. box[a][2] - 1

\* Settings that the control plane accepted never fail a job, however thin the
\* rectangle and wherever it lies, unless the source itself is smaller than
\* eight pixels; and the regions of the TRACK document are inside the source, at
\* least eight pixels long, and leave out no pixel whose middle was drawn over.
SceneIsHonoured ==
    /\ scene.pc = "failed" => \E a \in Axes : scene.sides[a] < MINIMUM
    /\ scene.pc = "tracked" =>
         \A n \in RegionNames :
            LET box == scene.boxes[n]
            IN  /\ BoxHolds(box, scene.sides)
                /\ \A a \in Axes : box[a][2] - box[a][1] >= MINIMUM
                /\ CoversDrawn(box, scene.settings[n], scene.sides)
=============================================================================
