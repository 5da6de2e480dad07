------------------------------ MODULE VoxelMesh ------------------------------
(***************************************************************************)
(* src/src/impl/mesh.cpp: what is drawn of a volume of voxels, at full     *)
(* detail and at a lower one, and the collision boxes that fill its solid  *)
(* voxels.                                                                 *)
(*                                                                         *)
(* A volume holds Size voxels from <<0, 0, 0>> on and a layer of undefined *)
(* ones around them; it is kept as the array PolyVox keeps.  A face is a   *)
(* voxel and the direction of its outward normal.  Lengths are counted in  *)
(* half voxels, so that the 0.5s of the code are whole numbers.            *)
(***************************************************************************)
EXTENDS Integers, Sequences, FiniteSets

CONSTANTS
  Size,        \* w, h and d of the volumes
  Volumes,     \* the volumes, as functions of their points to raw voxels
  ByteVolumes, \* those given in 8 bits for each voxel
  Registry,    \* draw, edge, solid and textured of every defined voxel
  LowerLods,   \* the lower levels of detail
  OldShapes    \* bound: collision shapes of the volume that was shown before

VARIABLES
  data,      \* the array of the volume
  geometry,  \* what the CustomGeometry of the node shows
  shapes,    \* the CollisionShapes of the node
  boxed      \* whether they are those of this volume

vmVars == <<data, geometry, shapes, boxed>>

Undefined == 0  \* VOXELTYPEID_UNDEFINED

Axes == 1..3
Unit(a) == [i \in Axes |-> IF i = a THEN 1 ELSE 0]
Plus(p, q) == [i \in Axes |-> p[i] + q[i]]
Minus(p, q) == [i \in Axes |-> p[i] - q[i]]
Times(k, p) == [i \in Axes |-> k * p[i]]

\* The points from lc to uc
Region(lc, uc) ==
  {<<x, y, z>> : x \in lc[1]..uc[1], y \in lc[2]..uc[2], z \in lc[3]..uc[3]}

Ones == <<1, 1, 1>>
Inside == Region(<<0, 0, 0>>, Minus(Size, Ones))

\* The definition of the undefined voxel that the registry keeps is a default
\* one: it is not solid and has no textures.  Level 1 is full detail.
ASSUME MeshAssumption ==
  /\ Size \in [Axes -> Nat \ {0}]
  /\ Volumes \subseteq [Inside -> Nat] /\ ByteVolumes \subseteq [Inside -> 0..255]
  /\ Undefined \in DOMAIN Registry /\ ~Registry[Undefined].solid
  /\ \A face \in 0..5 : ~Registry[Undefined].textured[face]
  /\ LowerLods \subseteq Nat \ {0, 1}

-----------------------------------------------------------------------------
(* pv::RawVolume *)

\* The volumes of the code reach from lc to uc.
Array(lc, uc, voxels) ==
  LET w == uc[1] - lc[1] + 1
      h == uc[2] - lc[2] + 1
  IN [lc |-> lc, uc |-> uc,
      at |-> [i \in 0..(w * h * (uc[3] - lc[3] + 1) - 1) |->
                voxels[Plus(lc, <<i % w, (i \div w) % h, i \div (w * h)>>)]]]

IndexIn(v, p) ==
  LET w == v.uc[1] - v.lc[1] + 1
      q == Minus(p, v.lc)
  IN q[1] + w * (q[2] + (v.uc[2] - v.lc[2] + 1) * q[3])

\* getVoxelAt(): only an index outside of the array is outside of the volume.
Get(v, p) ==
  LET i == IndexIn(v, p) IN IF i \in DOMAIN v.at THEN v.at[i] ELSE Undefined

Padded(volume) ==
  Array(<<-1, -1, -1>>, Size,
        [p \in Region(<<-1, -1, -1>>, Size) |->
          IF p \in Inside THEN volume[p] ELSE Undefined])

\* The bytes are signed characters; a voxel's id is 21 bits of it.
Voxel8(c) == (IF c < 128 THEN c ELSE c - 256) % 2^21

Defined(v) == \A i \in DOMAIN v.at : v.at[i] \in DOMAIN Registry

\* Of the voxels of a cell of the lower level, the highest id.
Highest(lod, v, p) ==
  LET of == {v.at[IndexIn(v, q)] :
              q \in Region(Times(lod, p), Plus(Times(lod, p), Times(lod - 1, Ones)))
                      \cap Region(v.lc, v.uc)}
  IN CHOOSE id \in of \cup {Undefined} : \A k \in of : k <= id

-----------------------------------------------------------------------------
(* Seeded faults *)

LodVolume_NoLast(lod, v) ==
  LET lc == Minus([i \in Axes |-> 0], Ones)
      uc == [i \in Axes |-> v.uc[i] \div lod]
  IN Array(lc, uc, [p \in Region(lc, uc) |-> Highest(lod, v, p)])

Layer_OneRow(lo, hi, a, k) ==
  {[lo EXCEPT ![a] = k]}

-----------------------------------------------------------------------------
(* Faces *)

\* IsQuadNeededByRegistry
QuadNeeded(back, front) ==
  \/ Registry[back].draw = "always"
  \/ Registry[back].draw = "on_edge" /\ Registry[back].edge # Registry[front].edge

\* CubicSurfaceExtractorWithNormals: between each two neighbours, either way.
Quads(v) ==
  LET pairs == Region(v.lc, Minus(v.uc, Ones)) \X Axes
  IN {[voxel |-> s[1], axis |-> s[2], sign |-> 1] :
        s \in {t \in pairs : QuadNeeded(Get(v, t[1]), Get(v, Plus(t[1], Unit(t[2]))))}}
     \cup
     {[voxel |-> Plus(s[1], Unit(s[2])), axis |-> s[2], sign |-> -1] :
        s \in {t \in pairs : QuadNeeded(Get(v, Plus(t[1], Unit(t[2]))), Get(v, t[1]))}}

\* Its vertices: the lower or the upper end of the two other axes.
Vertex(a, i) ==
  LET b == IF a = 1 THEN 2 ELSE 1
      c == IF a = 3 THEN 2 ELSE 3
  IN [j \in Axes |-> IF j = b THEN (IF i \div 2 = 1 THEN 1 ELSE -1)
                     ELSE IF j = c THEN (IF i % 2 = 1 THEN 1 ELSE -1) ELSE 0]

\* assign_txcoords(): the corner of the texture that the vertex i is given;
\* <<0, 0>> is the top left one.
Corner(a, sign, i) ==
  LET tl == <<0, 0>>
      tr == <<1, 0>>
      bl == <<0, 1>>
      br == <<1, 1>>
  IN CASE a = 3 /\ sign = 1 -> <<br, tr, bl, tl>>[i + 1]
       [] a = 1 /\ sign = 1 -> <<bl, br, tl, tr>>[i + 1]
       [] a = 1 /\ sign = -1 -> <<br, bl, tr, tl>>[i + 1]
       [] OTHER -> <<bl, tl, br, tr>>[i + 1]

\* The face_id of the textures of the definition.
FaceId(a, sign) == IF sign = 1 THEN <<2, 0, 4>>[a] ELSE <<3, 1, 5>>[a]

\* One face of the geometry: its texture, its middle, and where the corners of
\* the texture are.  The middle is relative to the lower corner of the volume
\* until shift moves it.
Drawn(v, q, lod, shift) ==
  [id |-> Get(v, q.voxel), face |-> FaceId(q.axis, q.sign),
   axis |-> q.axis, sign |-> q.sign,
   middle |-> Minus(Times(lod, Plus(Times(2, Minus(q.voxel, v.lc)),
                                    Times(q.sign, Unit(q.axis)))), shift),
   corners |-> [i \in 0..3 |-> Corner(q.axis, q.sign, i)]]

IsTextured(v, q) == Registry[Get(v, q.voxel)].textured[FaceId(q.axis, q.sign)]

\* generate_voxel_geometry()
FacesOf(v) ==
  LET shift == Plus(Size, Ones)
  IN {Drawn(v, q, 1, shift) : q \in {r \in Quads(v) : IsTextured(v, r)}}

\* C++ divides toward zero.
Quotient(a, b) == IF a < 0 THEN -((-a) \div b) ELSE a \div b

\* generate_voxel_lod_volume()
LodVolume(lod, v) ==
  LET lc == Minus([i \in Axes |-> Quotient(v.lc[i], lod)], Ones)
      uc == Plus([i \in Axes |-> Quotient(v.uc[i], lod)], Ones)
  IN Array(lc, uc, [p \in Region(lc, uc) |-> Highest(lod, v, p)])

\* generate_voxel_lod_geometry()
LodFaces(lod, v) ==
  LET cells == Minus(v.uc, v.lc)  \* the width less one
      w == [i \in Axes |-> (cells[i] - 1) * lod - 2]
      shift == Plus(w, Times(1 + lod, Ones))
  IN {Drawn(v, q, lod, shift) : q \in {r \in Quads(v) : IsTextured(v, r)}}

-----------------------------------------------------------------------------
(* Boxes *)

\* The layer k of the box from lo to hi, across the axis a
Layer(lo, hi, a, k) == Region([lo EXCEPT ![a] = k], [hi EXCEPT ![a] = k])

\* How far the box reaches along a without covering a voxel that is not solid.
Stretch(v, lo, hi, a) ==
  LET Reach[k \in Int] ==
        IF \A p \in Layer(lo, hi, a, k) : Get(v, p) # 0 THEN Reach[k + 1] ELSE k - 1
  IN [hi EXCEPT ![a] = Reach[hi[a] + 1]]

\* The planes are searched in the order of z, and each in that of x and y.
SearchOrder ==
  LET s == Plus(Size, Times(2, Ones))
  IN [k \in 1..(s[1] * s[2] * s[3]) |->
        Minus(<<((k - 1) \div s[2]) % s[1], (k - 1) % s[2], (k - 1) \div (s[1] * s[2])>>, Ones)]

\* The volume which only holds the solidity of the voxels
Solidity(v) ==
  [v EXCEPT !.at = [i \in DOMAIN v.at |-> IF Registry[v.at[i]].solid THEN 1 ELSE 0]]

\* The box from lo to hi; the volumes are placed by half of their size.
BoxOf(lo, hi) ==
  [size |-> Plus(Minus(hi, lo), Ones),
   position |-> Plus(Minus(Plus(lo, hi), [i \in Axes |-> 2 * (Size[i] \div 2)]), Ones)]

\* A solid voxel that no box covers yet starts a box, which may cover some again.
Cover(solid, found, p) ==
  IF Get(solid, p) # 1 \/ p \in found.covered THEN found
  ELSE LET hi == Stretch(solid, p, Stretch(solid, p, Stretch(solid, p, p, 1), 2), 3)
       IN [covered |-> found.covered \cup Region(p, hi),
           boxes |-> Append(found.boxes, BoxOf(p, hi))]

\* generate_voxel_physics_boxes()
PhysicsBoxes(v) ==
  LET solid == Solidity(v)
      Found[k \in 0..Len(SearchOrder)] ==
        IF k = 0 THEN [covered |-> {}, boxes |-> <<>>]
        ELSE Cover(solid, Found[k - 1], SearchOrder[k])
  IN Found[Len(SearchOrder)].boxes

-----------------------------------------------------------------------------
(* The functions that the node is given its geometry by.  A voxel that the    *)
(* registry does not know is an exception, and nothing is changed.            *)

VMInit ==
  /\ data \in {Padded(v) : v \in Volumes}
              \cup {Padded([p \in Inside |-> Voxel8(b[p])]) : b \in ByteVolumes}
  /\ geometry = [lod |-> 0, faces |-> {}]
  /\ \E n \in 0..OldShapes :
       shapes = [i \in 1..n |-> [size |-> Size, position |-> <<0, 0, 0>>]]
  /\ boxed = FALSE

\* preload_textures(), generate_voxel_geometry(), set_voxel_geometry()
SetVoxelGeometry ==
  /\ Defined(data)
  /\ geometry' = [lod |-> 1, faces |-> FacesOf(data)]
  /\ UNCHANGED <<data, shapes, boxed>>

SetVoxelLodGeometry(lod) ==
  /\ Defined(data)
  /\ geometry' = [lod |-> lod, faces |-> LodFaces(lod, LodVolume(lod, data))]
  /\ UNCHANGED <<data, shapes, boxed>>

\* set_voxel_physics_boxes(): the shapes that are there are used again, more
\* are created or the excess removed.
SetVoxelPhysicsBoxes ==
  /\ Defined(data)
  /\ LET boxes == PhysicsBoxes(data)
         reused == IF Len(shapes) < Len(boxes) THEN Len(shapes) ELSE Len(boxes)
     IN shapes' = [i \in 1..reused |-> boxes[i]]
                    \o SubSeq(boxes, reused + 1, Len(boxes))
  /\ boxed' = TRUE
  /\ UNCHANGED <<data, geometry>>

VMNext ==
  \/ SetVoxelGeometry
  \/ \E lod \in LowerLods : SetVoxelLodGeometry(lod)
  \/ SetVoxelPhysicsBoxes

VMSpec == VMInit /\ [][VMNext]_vmVars

-----------------------------------------------------------------------------
(* Properties *)

Solid(p) == Registry[Get(data, p)].solid

\* The voxels of the volume inside a box, where full detail draws them.
CoveredBy(box) ==
  {p \in Inside : \A i \in Axes :
     /\ box.position[i] - box.size[i] <= 2 * p[i] - Size[i]
     /\ box.position[i] + box.size[i] >= 2 * p[i] - Size[i] + 2}

\* Whatever shapes the node had before, its shapes cover every solid voxel and
\* nothing else: none sticks out of the solid voxels, or of the volume, and
\* none is where the voxels are not drawn.
ShapesFillSolid ==
  boxed =>
    /\ UNION {CoveredBy(shapes[i]) : i \in DOMAIN shapes} = {p \in Inside : Solid(p)}
    /\ \A i \in DOMAIN shapes :
         Cardinality(CoveredBy(shapes[i]))
           = shapes[i].size[1] * shapes[i].size[2] * shapes[i].size[3]

\* The cells of a level of detail, and what is in them: their highest voxel.
Cells(lod) ==
  Region(<<0, 0, 0>>, [i \in Axes |-> (Size[i] - 1) \div lod])
CellId(lod, c) ==
  LET last == [i \in Axes |-> IF (c[i] + 1) * lod < Size[i] THEN (c[i] + 1) * lod - 1
                              ELSE Size[i] - 1]
      ids == {Get(data, p) : p \in Region(Times(lod, c), last)}
  IN CHOOSE id \in ids : \A k \in ids : k <= id

\* The cells on the line along axis a that c is on, from where sign points to
\* up to c itself.
Before(lod, c, a, sign) ==
  {d \in Cells(lod) : /\ \A i \in Axes \ {a} : d[i] = c[i]
                      /\ d # c /\ sign * (d[a] - c[a]) > 0}

\* To the right, and up, for one who looks at a face from outside.
Right(a, sign) ==
  CASE a = 1 -> Times(sign, Unit(3)) [] a = 2 -> Unit(1) [] a = 3 -> Times(-sign, Unit(1))
Up(a) == IF a = 2 THEN Unit(3) ELSE Unit(2)
Dot(p, q) == p[1] * q[1] + p[2] * q[2] + p[3] * q[3]

\* What is shown of a cell when seen along an axis from outside: its own
\* texture for that side, in its place up to half a cell, and neither turned
\* nor mirrored (but for bottom sides, which are as seen from above).
ShownRight(f, lod, id, c, a, sign) ==
  LET place == Plus(Minus(Times(2 * lod, c), Size),
                    Times(lod, Plus(Ones, Times(sign, Unit(a)))))
  IN /\ f.id = id /\ f.axis = a /\ f.sign = sign /\ f.face = FaceId(a, sign)
     /\ \A i \in Axes : f.middle[i] - place[i] \in (1 - lod)..(lod - 1)
     /\ \A i \in 0..3 :
          f.corners[i] = <<IF Dot(Vertex(a, i), Right(a, sign)) > 0 THEN 1 ELSE 0,
                           IF Dot(Vertex(a, i), Up(a)) > 0 THEN 0 ELSE 1>>

\* A voxel is visible unless it is never drawn or is of what is nothing too.
Visible(id) ==
  \/ Registry[id].draw = "always"
  \/ Registry[id].draw = "on_edge" /\ Registry[id].edge # Registry[Undefined].edge

\* Voxels of one edge material are one body, which has no faces inside.
Joined(front, back) ==
  Registry[back].draw = "on_edge" /\ Registry[front].edge = Registry[back].edge

\* Whoever looks at a volume along an axis sees of every line the first voxel
\* (or, at a lower level of detail, cell) that is visible, unless it is behind
\* one of its own edge material that is never drawn; and all of the geometry
\* is in the volume.
SurfaceIsSeen ==
  geometry.lod > 0 =>
    LET lod == geometry.lod
    IN /\ \A c \in Cells(lod), a \in Axes, sign \in {-1, 1} :
            /\ Visible(CellId(lod, c))
            /\ \A d \in Before(lod, c, a, sign) :
                 ~Visible(CellId(lod, d)) /\ ~Joined(CellId(lod, d), CellId(lod, c))
            /\ Registry[CellId(lod, c)].textured[FaceId(a, sign)]
            => \E f \in geometry.faces : ShownRight(f, lod, CellId(lod, c), c, a, sign)
       /\ \A f \in geometry.faces :
            \E c \in Cells(lod) : ShownRight(f, lod, CellId(lod, c), c, f.axis, f.sign)
=============================================================================
