------------------------------- MODULE GridMap -------------------------------
(***************************************************************************)
(* plan_env's occupancy map (grid_map.cpp, grid_map.h, raycast.cpp and     *)
(* depth_projection.h): the three depth callbacks, the odometry and the    *)
(* point cloud callback, and the 50 ms timer that casts the rays of the    *)
(* last image into a log-odds buffer and inflates it into the buffer that  *)
(* the searches and the collision checks read.                             *)
(*                                                                         *)
(* The map is a vertical slice: an index is <<x, z>>, a buffer is indexed  *)
(* by address as in toAddress(), and y is left out.  One executor thread   *)
(* runs every callback, so each is one step.  The world, the vehicle and   *)
(* what the camera measures are the environment.  Only depthPoseCallback   *)
(* tests that the camera is inside the map: with the other two it must be, *)
(* as a ray from outside indexes the buffers out of their bounds.          *)
(***************************************************************************)
EXTENDS Integers, Sequences, Functions

CONSTANTS
    NumX, NumZ,        \* map_voxel_num_
    InfStep,           \* ceil(obstacles_inflation_ / resolution_)
    LocalMapMargin,    \* local_map_margin_
    VecMargin,         \* vec_margin: how far outside the cut is forgotten
    UpdateRange,       \* local_update_range_, in voxels
    CeilId,            \* the row of virtual_ceil_height_, -1 for none
    ProbHitLog, ProbMissLog, ClampMinLog, ClampMaxLog,
    MinOccupancyLog,   \* the buffer is occupied above it
    UnknownFlag,       \* an unobserved voxel is this much below ClampMinLog
    CharMax,           \* the greatest char: raycast_num_ and the two flag buffers
    MinDepth,          \* depth_filter_mindist_, in voxels
    OdomDepthTimeout,  \* odom_depth_timeout_, in timer periods
    Poses,             \* voxels the camera visits
    Outside,           \* poses of the camera outside the map
    Pixels,            \* pose -> where each pixel looks, in image order
    Worlds,            \* sets of solid voxels
    MaxChanges         \* bound on moves of the vehicle and of the world

Min2(a, b) == IF a < b THEN a ELSE b
Max2(a, b) == IF a > b THEN a ELSE b
AbsOf(n) == IF n < 0 THEN -n ELSE n
signum(n) == IF n = 0 THEN 0 ELSE IF n < 0 THEN -1 ELSE 1

Voxels == (0 .. NumX - 1) \X (0 .. NumZ - 1)
Addresses == 0 .. NumX * NumZ - 1
isInMap(v) == v \in Voxels
toAddress(v) == v[1] * NumZ + v[2]
boundIndex(v) == << Max2(Min2(v[1], NumX - 1), 0), Max2(Min2(v[2], NumZ - 1), 0) >>
Box(lo, hi) == (lo[1] .. hi[1]) \X (lo[2] .. hi[2])
Shift(v, n) == << v[1] + n, v[2] + n >>
Plus(v, w) == << v[1] + w[1], v[2] + w[2] >>
Minus(v, w) == << v[1] - w[1], v[2] - w[2] >>

Chars == -CharMax - 1 .. CharMax

\* Mutant: the counter saturates instead of wrapping.
Saturates(n) == Min2(n, CharMax)

\* A signed char: the counter of fused images wraps to negative.
Char(n) == ((n + CharMax + 1) % (2 * (CharMax + 1))) - (CharMax + 1)

ASSUME MapAssumption ==
    /\ NumX \in Nat \ {0} /\ NumZ \in Nat \ {0} /\ CharMax \in Nat
    /\ InfStep \in Nat /\ LocalMapMargin \in Nat /\ VecMargin \in Nat
    /\ UpdateRange \in Nat \X Nat /\ OdomDepthTimeout \in Nat
    /\ CeilId \in -1 .. NumZ - 1
    /\ {ProbHitLog, ProbMissLog, ClampMinLog, ClampMaxLog, MinOccupancyLog, UnknownFlag}
          \subseteq Int
    /\ ClampMinLog < MinOccupancyLog /\ MinOccupancyLog < ClampMaxLog
    /\ ProbMissLog < 0 /\ 0 < ProbHitLog /\ UnknownFlag > 0
    /\ Poses \subseteq Voxels
    /\ Outside \subseteq (Int \X Int) \ Voxels
    /\ \A w \in Worlds : w \subseteq Int \X Int
    /\ Pixels \in [Poses -> Seq(Int \X Int)]

-----------------------------------------------------------------------------
\* RayCaster: the voxels from a, stepping over the nearest boundary, until b.
\* Points are taken at voxel centres, so the boundary of the k-th crossing along
\* an axis of length d is at (2k - 1) / 2d; crossing both at once steps z first.
RayFrom(a, b) ==
    LET dx == AbsOf(b[1] - a[1])
        dz == AbsOf(b[2] - a[2])
        walk[n \in 0 .. dx + dz] ==
            IF n = 0 THEN [at |-> a, i |-> 0, k |-> 0]
            ELSE LET w == walk[n - 1]
                     acrossX == dz = 0 \/ (2 * w.i + 1) * dz < (2 * w.k + 1) * dx
                 IN  IF acrossX
                     THEN [w EXCEPT !.at[1] = @ + signum(b[1] - a[1]), !.i = @ + 1]
                     ELSE [w EXCEPT !.at[2] = @ + signum(b[2] - a[2]), !.k = @ + 1]
    IN  [n \in 1 .. dx + dz |-> walk[n - 1].at]

\* What the camera at p measures along one pixel: the nearest solid voxel on
\* the line, or no return within range.
Return(p, w, target) ==
    LET line == RayFrom(p, target) \o << target >>
        solid == {n \in DOMAIN line : n > 1 /\ line[n] \in w}
    IN  IF solid = {} THEN [to |-> Minus(target, p), hit |-> FALSE]
        ELSE [to |-> Minus(line[CHOOSE n \in solid : \A m \in solid : n <= m], p),
              hit |-> TRUE]

Depth(r) == Max2(AbsOf(r.to[1]), AbsOf(r.to[2]))

Images == {[pose |-> p, world |-> w,
            depth |-> [n \in DOMAIN Pixels[p] |-> Return(p, w, Pixels[p][n])]] :
               p \in Poses, w \in Worlds}

\* projectDepthImage: the points of an image, too near ones dropped, placed at the
\* camera pose of the moment.
ProjPoints(im, cam) ==
    LET proj_points[n \in 0 .. Len(im.depth)] ==
            IF n = 0 THEN << >>
            ELSE LET r == im.depth[n]
                 IN  IF r.hit /\ Depth(r) < MinDepth THEN proj_points[n - 1]
                     ELSE Append(proj_points[n - 1], [at |-> Plus(cam, r.to), hit |-> r.hit])
    IN  proj_points[Len(im.depth)]

\* Rays to the camera from the points an image can put in and around the map.
Measured == UNION {Range(im.depth) : im \in Images}
Projected == {Plus(cam, r.to) : cam \in Poses, r \in Measured}
Rays == [ends \in (Voxels \cup Projected) \X Poses |-> RayFrom(ends[1], ends[2])]

\* closetPointInMap: where the ray to a point outside leaves the map; never a hit.
InMap(p, cam) ==
    IF isInMap(p.at) THEN p
    ELSE LET back == Rays[<< p.at, cam >>] \o << cam >>
         IN  [at |-> back[CHOOSE n \in DOMAIN back :
                            /\ isInMap(back[n])
                            /\ \A m \in 1 .. n - 1 : ~ isInMap(back[m])],
              hit |-> FALSE]

\* setCacheOccupancy.
Cache(acc, v, occ) ==
    [acc EXCEPT !.seen[toAddress(v)] = @ + 1,
                !.hits[toAddress(v)] = @ + IF occ THEN 1 ELSE 0]

\* Singletons, so that TLC evaluates what they hold once.
Only(S) == CHOOSE x \in S : TRUE

\* One voxel of a ray; a voxel some ray of this image crossed ends the ray.
Cross(num, acc, v) ==
    IF acc.stop THEN acc
    ELSE [Cache(acc, v, FALSE) EXCEPT
            !.stop = acc.traverse[toAddress(v)] = num,
            !.traverse[toAddress(v)] = num]

\* One projected point; a voxel some ray of this image ended in casts no ray.
CastPoint(num, ray, acc, p) ==
    LET cast[n \in 0 .. Len(ray)] ==
            IF n = 0 THEN [Cache(acc, p.at, p.hit) EXCEPT
                             !.rayend[toAddress(p.at)] = num, !.stop = FALSE]
            ELSE Only({Cross(num, a, ray[n]) : a \in {cast[n - 1]}})
    IN  IF acc.rayend[toAddress(p.at)] = num THEN Cache(acc, p.at, p.hit)
        ELSE cast[Len(ray)]

\* The log-odds of one counted voxel after the image.
Fuse(old, hits, seen, inLocal) ==
    LET update == IF hits >= seen - hits THEN ProbHitLog ELSE ProbMissLog
        base == IF inLocal THEN old ELSE ClampMinLog
    IN  CASE update >= 0 /\ old >= ClampMaxLog -> old
          [] update <= 0 /\ old <= ClampMinLog -> ClampMinLog
          [] OTHER -> Min2(Max2(base + update, ClampMinLog), ClampMaxLog)

\* The local box of an update: every point it touched and the camera.
BoundingBox(points, cam) ==
    LET all == points \cup {cam}
        Least(S) == CHOOSE a \in S : \A b \in S : a <= b
        Most(S) == CHOOSE a \in S : \A b \in S : a >= b
        xs == {v[1] : v \in all}
        zs == {v[2] : v \in all}
    IN  [lo |-> boundIndex(<< Least(xs), Least(zs) >>),
         hi |-> boundIndex(<< Most(xs), Most(zs) >>)]

\* clearAndInflateLocalMap: the ring of observations around the local box that
\* is forgotten.
Forgotten(box) ==
    LET lo == boundIndex(Shift(box.lo, -LocalMapMargin))
        hi == boundIndex(Shift(box.hi, LocalMapMargin))
    IN  {toAddress(v) : v \in Box(boundIndex(Shift(lo, -VecMargin)),
                                  boundIndex(Shift(hi, VecMargin))) \ Box(lo, hi)}

\* inflatePoint: only the ADDRESS of an inflated voxel is tested, not its index.
InflatePoint(v) ==
    {toAddress(Plus(v, d)) : d \in (-InfStep .. InfStep) \X (-InfStep .. InfStep)}
        \cap Addresses

Ceiling(box) ==
    IF CeilId < 0 THEN {}
    ELSE {toAddress(<< x, CeilId >>) : x \in box.lo[1] .. box.hi[1]}

\* Mutant: the whole buffer is cleared before the box is inflated.
InflatedAfresh(old, occ, box) ==
    LET blocked == UNION {InflatePoint(v) : v \in
                            {u \in Box(box.lo, box.hi) :
                                occ[toAddress(u)] > MinOccupancyLog}}
    IN  [a \in Addresses |-> IF a \in blocked \cup Ceiling(box) THEN 1 ELSE 0]

\* The inflated buffer after an image: the box is cleared, then every occupied
\* voxel of the box is inflated, and the ceiling is drawn over it.
Inflated(old, occ, box) ==
    LET inBox == {toAddress(v) : v \in Box(box.lo, box.hi)}
        blocked == UNION {InflatePoint(v) : v \in
                            {u \in Box(box.lo, box.hi) :
                                occ[toAddress(u)] > MinOccupancyLog}}
    IN  [a \in Addresses |->
            IF a \in blocked \cup Ceiling(box) THEN 1
            ELSE IF a \in inBox THEN 0 ELSE old[a]]

-----------------------------------------------------------------------------
VARIABLES
    mode,            \* "tf", "pose" or "odom": which depth callback is registered
    occupancy,       \* occupancy_buffer_
    inflate,         \* occupancy_buffer_inflate_
    rayend, traverse,\* flag_rayend_, flag_traverse_
    raycastNum,      \* raycast_num_
    localBox,        \* local_bound_min_, local_bound_max_
    image,           \* depth_image_, and the pose it was taken at
    cameraPos,       \* camera_pos_, camera_r_m_
    needUpdate,      \* occ_need_update_
    hasFirstDepth, hasOdom, hasCloud, useFusion,
    age,             \* timer periods since last_occ_update_time_
    timedOut,        \* flag_depth_odom_timeout_
    vehicle, world, changes

buffers == << occupancy, inflate, rayend, traverse, raycastNum, localBox >>
flags == << needUpdate, hasFirstDepth, hasOdom, hasCloud, useFusion >>
clock == << age, timedOut >>
env == << vehicle, world, changes >>
vars == << mode, buffers, image, cameraPos, flags, clock, env >>

\* initMap.  camera_pos_ is not initialised before the first pose; nothing reads
\* it until then.
Init ==
    /\ mode \in {"tf", "pose", "odom"}
    /\ occupancy = [a \in Addresses |-> ClampMinLog - UnknownFlag]
    /\ inflate = [a \in Addresses |-> 0]
    /\ rayend = [a \in Addresses |-> -1]
    /\ traverse = [a \in Addresses |-> -1]
    /\ raycastNum = 0
    /\ localBox = [lo |-> << 0, 0 >>, hi |-> << 0, 0 >>]
    /\ vehicle \in Poses
    /\ world \in Worlds
    /\ changes = 0
    /\ image \in {im \in Images : im.pose = vehicle /\ im.world = world}
    /\ cameraPos = vehicle
    /\ needUpdate = FALSE /\ hasFirstDepth = FALSE /\ hasOdom = FALSE
    /\ hasCloud = FALSE /\ useFusion = FALSE
    /\ age = 0 /\ timedOut = FALSE

TakeImage == image' \in {im \in Images : im.pose = vehicle /\ im.world = world}

\* depthPoseCallback: an image from outside the map withdraws the one waiting.
DepthPoseCallback ==
    /\ mode = "pose"
    /\ IF isInMap(vehicle)
       THEN TakeImage /\ hasOdom' = TRUE /\ needUpdate' = TRUE
       ELSE UNCHANGED << image, hasOdom >> /\ needUpdate' = FALSE
    /\ cameraPos' = vehicle
    /\ useFusion' = TRUE
    /\ UNCHANGED << mode, buffers, hasFirstDepth, hasCloud, clock, env >>

\* depthOdomCallback.
DepthOdomCallback ==
    /\ mode = "odom" /\ isInMap(vehicle)
    /\ TakeImage
    /\ cameraPos' = vehicle
    /\ needUpdate' = TRUE /\ useFusion' = TRUE
    /\ UNCHANGED << mode, buffers, hasFirstDepth, hasOdom, hasCloud, clock, env >>

\* depthTfCallback, the frame accepted.
DepthTfCallback ==
    /\ mode = "tf" /\ isInMap(vehicle)
    /\ TakeImage
    /\ cameraPos' = vehicle
    /\ hasOdom' = TRUE /\ needUpdate' = TRUE /\ useFusion' = TRUE
    /\ UNCHANGED << mode, buffers, hasFirstDepth, hasCloud, clock, env >>

\* depthTfCallback, the frame rejected for its encoding: the camera pose has
\* been stored by then.  (A frame rejected before that changes nothing.)
DepthTfRejected ==
    /\ mode = "tf" /\ isInMap(vehicle)
    /\ cameraPos' = vehicle
    /\ UNCHANGED << mode, buffers, image, flags, clock, env >>

\* Mutant: in the map, odometry keeps writing the camera pose.
OdomAlwaysWrites ==
    /\ isInMap(vehicle)
    /\ hasOdom' = TRUE
    /\ cameraPos' = vehicle
    /\ UNCHANGED << mode, buffers, image, needUpdate, hasFirstDepth, hasCloud,
                    useFusion, clock, env >>

\* odomCallback: until the first image is projected, odometry is the camera pose.
OdomCallback ==
    /\ \/ mode = "tf" /\ UNCHANGED cameraPos /\ hasOdom' = TRUE
       \/ /\ mode # "tf" /\ ~ hasFirstDepth
          /\ cameraPos' = vehicle
          /\ hasOdom' = TRUE
    /\ UNCHANGED << mode, buffers, image, needUpdate, hasFirstDepth, hasCloud,
                    useFusion, clock, env >>

\* The addresses of the update range around the camera.
InRange(cam) ==
    {toAddress(v) : v \in Box(boundIndex(Minus(cam, UpdateRange)),
                              boundIndex(Plus(cam, UpdateRange)))}

\* The voxels a cloud inflates: those around its points in the update range.
Spread(points, cam) ==
    LET near == {p \in points : \A i \in {1, 2} : AbsOf(p[i] - cam[i]) < UpdateRange[i]}
    IN  {Plus(p, d) : p \in near, d \in (-InfStep .. InfStep) \X (-1 .. 1)}

\* cloudCallback: clear the update range, inflate each point by one voxel up and
\* down and InfStep sideways, and draw the ceiling.
CloudCallback(points) ==
    /\ hasCloud' = TRUE
    /\ IF ~ hasOdom \/ points = {}
       THEN UNCHANGED << inflate, localBox >>
       ELSE LET spread == Spread(points, cameraPos)
                reach == BoundingBox(spread, cameraPos)
                drawn == {toAddress(v) : v \in {u \in spread : isInMap(u)}}
            IN  /\ localBox' = reach
                /\ inflate' = [a \in Addresses |->
                                 IF a \in drawn \cup Ceiling(reach) THEN 1
                                 ELSE IF a \in InRange(cameraPos) THEN 0 ELSE inflate[a]]
    /\ UNCHANGED << mode, occupancy, rayend, traverse, raycastNum, image, cameraPos,
                    needUpdate, hasFirstDepth, hasOdom, useFusion, clock, env >>

\* updateOccupancyCallback with no image waiting.
OccTimerIdle ==
    /\ ~ needUpdate
    /\ age' = Min2(age + 1, OdomDepthTimeout + 1)
    /\ timedOut' = (timedOut \/ (useFusion /\ age > OdomDepthTimeout))
    /\ UNCHANGED << mode, buffers, image, cameraPos, flags, env >>

\* updateOccupancyCallback with the first image, which the filter only stores.
OccTimerFirst ==
    /\ needUpdate /\ ~ hasFirstDepth
    /\ hasFirstDepth' = TRUE
    /\ needUpdate' = FALSE
    /\ age' = 0
    /\ UNCHANGED << mode, buffers, image, cameraPos, hasOdom, hasCloud, useFusion,
                    timedOut, env >>

\* The points of an image, cast in order.
CastAll(num, cam, points) ==
    LET zero == [a \in Addresses |-> 0]
        cast[n \in 0 .. Len(points)] ==
            IF n = 0 THEN [seen |-> zero, hits |-> zero, rayend |-> rayend,
                           traverse |-> traverse, stop |-> FALSE]
            ELSE Only({CastPoint(num, Rays[<< points[n].at, cam >>], a, points[n]) :
                         a \in {cast[n - 1]}})
    IN  cast[Len(points)]

\* updateOccupancyCallback: project the image, cast it, fuse it, inflate it.
FuseImage(points) ==
    LET num == Char(raycastNum + 1)
    IN  \E acc \in {CastAll(num, cameraPos, points)},
           box \in {BoundingBox({points[n].at : n \in DOMAIN points}, cameraPos)} :
          /\ raycastNum' = num
          /\ rayend' = acc.rayend
          /\ traverse' = acc.traverse
          /\ localBox' = box
          /\ occupancy' =
                [a \in Addresses |->
                    IF a \in Forgotten(box) THEN ClampMinLog - UnknownFlag
                    ELSE IF acc.seen[a] = 0 THEN occupancy[a]
                    ELSE Fuse(occupancy[a], acc.hits[a], acc.seen[a],
                              a \in InRange(cameraPos))]
          /\ inflate' = Inflated(inflate, occupancy', box)

OccTimerFuses ==
    /\ needUpdate /\ hasFirstDepth
    /\ \E points \in {ProjPoints(image, cameraPos)} :
          IF points = << >> THEN UNCHANGED buffers
          ELSE FuseImage([n \in DOMAIN points |-> InMap(points[n], cameraPos)])
    /\ needUpdate' = FALSE
    /\ age' = 0
    /\ UNCHANGED << mode, image, cameraPos, hasFirstDepth, hasOdom, hasCloud,
                    useFusion, timedOut, env >>

\* getInflateOccupancy, as every caller reads it: outside the map counts as
\* occupied, because -1 converts to true.
Blocked(v) == ~ isInMap(v) \/ inflate[toAddress(v)] = 1

\* The vehicle or the world moves.
Change ==
    /\ changes < MaxChanges
    /\ changes' = changes + 1
    /\ \/ /\ vehicle' \in (Poses \cup IF mode = "pose" THEN Outside ELSE {}) \ {vehicle}
          /\ UNCHANGED world
       \/ world' \in Worlds \ {world} /\ UNCHANGED vehicle
    /\ UNCHANGED << mode, buffers, image, cameraPos, flags, clock >>

DepthCallback == DepthPoseCallback \/ DepthOdomCallback \/ DepthTfCallback
OccTimer == OccTimerIdle \/ OccTimerFirst \/ OccTimerFuses

Next ==
    \/ DepthCallback
    \/ DepthTfRejected
    \/ OdomCallback
    \/ ~ hasCloud /\ CloudCallback(world)   \* bound: one cloud
    \/ OccTimer
    \/ Change

\* The camera keeps publishing and the executor keeps serving the timer.
Spec == Init /\ [][Next]_vars /\ WF_vars(DepthCallback) /\ WF_vars(OccTimer)

-----------------------------------------------------------------------------
\* Between callbacks the buffers keep their ranges and the log-odds their clamps,
\* through the wrap of the char counter and the ring that is forgotten.
TypeOK ==
    /\ mode \in {"tf", "pose", "odom"}
    /\ occupancy \in [Addresses -> Int]
    /\ \A a \in Addresses :
          \/ occupancy[a] = ClampMinLog - UnknownFlag
          \/ occupancy[a] >= ClampMinLog /\ occupancy[a] <= ClampMaxLog
    /\ inflate \in [Addresses -> {0, 1}]
    /\ raycastNum \in Chars
    /\ rayend \in [Addresses -> Chars] /\ traverse \in [Addresses -> Chars]
    /\ isInMap(localBox.lo) /\ isInMap(localBox.hi)
    /\ {needUpdate, hasFirstDepth, hasOdom, hasCloud, useFusion, timedOut} \subseteq BOOLEAN
    /\ age \in 0 .. OdomDepthTimeout + 1

\* No obstacle the depth images established is ever open to the planner: a voxel
\* whose log-odds say occupied is set in the buffer the searches read, however the
\* local box, the forgotten ring and the update range moved since it was seen.
\* (Only a point cloud, which clears without looking at the log-odds, breaks it.)
OccupiedBlocks ==
    hasCloud \/ \A v \in Voxels : occupancy[toAddress(v)] > MinOccupancyLog => Blocked(v)

MapInv == TypeOK /\ OccupiedBlocks

\* What is said of the production pose in real_single_drone.launch.py ("resolve
\* map <- depth optical directly at the depth measurement stamp"): the rays of an
\* image are cast from the pose the image was taken at.
FusesAtOwnPose == OccTimerFuses => cameraPos = image.pose
ImagesKeepTheirPose == [][FusesAtOwnPose]_vars

\* The two callbacks that fall back on odometry keep an image and its pose
\* together although odometry also writes the camera pose: it stops doing so
\* before the first image that is cast.
FallbackKeepsPose == [][mode # "tf" => FusesAtOwnPose]_vars

\* The voxels an image hits that no other ray of it crosses, and those it sees
\* through.
HitBy == [im \in Images |->
    {q.at : q \in {r \in Range(ProjPoints(im, im.pose)) : r.hit}}]
CrossedBy == [im \in Images |->
    UNION {Range(RayFrom(q.at, im.pose)) \ {q.at} : q \in Range(ProjPoints(im, im.pose))}]

\* The map ends up being the world the camera keeps looking at, whatever it
\* remembered: obstacles it looks at become occupied and the places it looks
\* through free, across a wrap of the char counter, images overwritten before
\* they are cast, rays cut short and pixels dropped.  (The vehicle and the world
\* change a bounded number of times, so both are steady in the end.)
MapFollowsWorld ==
    <>[](vehicle \in Poses =>
           \A im \in {i \in Images : i.pose = vehicle /\ i.world = world} :
             /\ \A v \in HitBy[im] \ CrossedBy[im] : occupancy[toAddress(v)] > MinOccupancyLog
             /\ \A v \in CrossedBy[im] \ HitBy[im] :
                   occupancy[toAddress(v)] \in ClampMinLog .. MinOccupancyLog)
=============================================================================
