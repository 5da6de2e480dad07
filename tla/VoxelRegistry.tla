---------------------------- MODULE VoxelRegistry ----------------------------
(***************************************************************************)
(* The definitions of voxels and their textures: the server's voxel and    *)
(* block registries (src/src/impl/voxel.cpp, block.cpp), the client's copy *)
(* of the former, its cache, and the atlases that hold the textures        *)
(* (src/src/impl/atlas.cpp), as the tasks that make geometry of voxels use *)
(* them, on the main thread and on the pool's.                             *)
(*                                                                         *)
(* The six faces of a voxel are 0..5 and its levels of detail 1..4, 1      *)
(* being full detail.  Atlases are MaxResolution wide and high.            *)
(***************************************************************************)
EXTENDS Integers, Sequences, FiniteSets, SequencesExt

CONSTANTS
  Images,         \* the width and height of the client's images, by name
  MaxResolution,  \* 2048 in the code
  Blocks,         \* BlockSourceDefinitions: name, size and the image of each face
  Tasks           \* bound: tasks that make geometry

ASSUME ImagesAssumption ==
  /\ Images \in [DOMAIN Images -> (Nat \ {0}) \X (Nat \ {0})]
  /\ MaxResolution \in Nat \ {0}
  /\ \A b \in Blocks : b.size \in (Nat \ {0}) \X (Nat \ {0}) \X (Nat \ {0})

VARIABLES
  definitions, \* the VoxelDefinitions of the server, by id
  blocks,      \* the BlockDefinitions of the server
  defs,        \* m_defs of the client
  cached,      \* m_cached_defs of the client
  atlases,     \* m_defs and m_cache of the client's atlas registry
  jobs         \* tasks of voxelworld: id, definition and the textures they draw

registryVars == <<defs, cached, atlases>>
vrVars == <<definitions, blocks, registryVars, jobs>>

Faces == 0..5
Lods == 1..4  \* one more than VOXELDEF_NUM_LOD

-----------------------------------------------------------------------------
(* Seeded faults *)

FaceAxes_Same(face) == IF face \in {2, 3} THEN <<2, 3>> ELSE <<1, 3>>

-----------------------------------------------------------------------------
(* block.cpp *)

\* The axes of the block that the axes of a face's image are on.
FaceAxes(face) ==
  IF face \in {0, 1} THEN <<1, 3>> ELSE IF face \in {2, 3} THEN <<2, 3>> ELSE <<1, 2>>

\* texmap_segment_face(): how many segments the face's image has along its two
\* axes, and which of them is the one of the block's segment p.
TexmapSegmentFace(size, p, face) ==
  LET axes == FaceAxes(face)
      Nth(i) == IF face % 2 = 0 THEN p[i] ELSE size[i] - 1 - p[i]
  IN [total |-> <<size[axes[1]], size[axes[2]]>>, select |-> <<Nth(axes[1]), Nth(axes[2])>>]

\* Where the i-th segment of a block is, in order of z, y and x.
SegmentAt(size, i) ==
  <<(i - 1) % size[1], ((i - 1) \div size[1]) % size[2], ((i - 1) \div size[1]) \div size[2]>>

\* The voxels that add_block_generate_segments() makes.
SegmentVoxels(b) ==
  [i \in 1..(b.size[1] * b.size[2] * b.size[3]) |->
     [name |-> <<b.name, SegmentAt(b.size, i)>>,
      textures |-> [f \in Faces |->
        LET map == TexmapSegmentFace(b.size, SegmentAt(b.size, i), f)
        IN [image |-> b.sides[f], lod |-> <<1, "own">>,
            total |-> map.total, select |-> map.select]]]]

\* add_block_generate_segments(): a voxel that already exists is an exception,
\* and those before it remain.
AddBlock(b) ==
  LET voxels == SegmentVoxels(b)
      Exists(i) == \E j \in DOMAIN definitions : definitions[j].name = voxels[i].name
      clashes == {i \in DOMAIN voxels : Exists(i)}
      first == IF clashes = {} THEN Len(voxels) + 1
               ELSE CHOOSE i \in clashes : \A j \in clashes : i <= j
  IN /\ definitions' = definitions \o SubSeq(voxels, 1, first - 1)
     /\ blocks' = IF clashes # {} THEN blocks
                  ELSE Append(blocks, [name |-> b.name, size |-> b.size,
                         segments |-> [i \in DOMAIN voxels |-> Len(definitions) + i]])
     /\ UNCHANGED <<registryVars, jobs>>

-----------------------------------------------------------------------------
(* atlas.cpp *)

HasRoom(atlas) == Len(atlas.segments) < atlas.total[1] * atlas.total[2]

NoRef == [atlas |-> 0, segment |-> 0]
Failed == [atlas |-> -1, segment |-> 0]  \* an exception

\* update_segment_cache(): a segment is drawn into an area of twice its width
\* and height.
SegmentPlace(atlas, n) ==
  LET row == n \div atlas.total[1]
  IN <<(n - row * atlas.total[1]) * atlas.resolution[1] * 2,
       row * atlas.resolution[2] * 2>>

\* The exception for one too many comes when the segment is already added.
AddTo(all, a, seg) ==
  LET n == Len(all[a].segments)
      fits == n < all[a].total[1] * all[a].total[2]
  IN [atlases |-> [all EXCEPT
        ![a].segments = Append(@, seg),
        ![a].drawn = Append(@, IF fits THEN SegmentPlace(all[a], n) ELSE <<>>)],
      ref |-> IF fits THEN [atlas |-> a, segment |-> n + 1] ELSE Failed]

\* add_segment(): an atlas is looked for by the size of the image.
AddSegment(all, seg) ==
  LET size == Images[seg.image]
      found == {a \in DOMAIN all : all[a].resolution = size /\ HasRoom(all[a])}
      resolution == <<size[1] \div seg.total[1], size[2] \div seg.total[2]>>
      new == [resolution |-> resolution,
              total |-> <<(MaxResolution \div resolution[1]) \div 2,
                          (MaxResolution \div resolution[2]) \div 2>>,
              segments |-> <<>>, drawn |-> <<>>]
  IN IF seg.image \notin DOMAIN Images THEN [atlases |-> all, ref |-> Failed]
     ELSE IF found # {} THEN AddTo(all, CHOOSE a \in found : \A k \in found : a <= k, seg)
     ELSE AddTo(Append(all, new), Len(all) + 1, seg)

\* find_or_add_segment()
FindOrAdd(all, seg) ==
  LET found == {a \in DOMAIN all : seg \in ToSet(all[a].segments)}
      first == CHOOSE a \in found : \A k \in found : a <= k
      at == {i \in DOMAIN all[first].segments : all[first].segments[i] = seg}
  IN IF found = {} THEN AddSegment(all, seg)
     ELSE [atlases |-> all,
           ref |-> [atlas |-> first, segment |-> CHOOSE i \in at : \A k \in at : i <= k]]

-----------------------------------------------------------------------------
(* voxel.cpp *)

\* The lod_simulation of a face at a level.
Simulated(seg, face, level) ==
  IF level = 1 THEN seg
  ELSE LET side == CASE face = 0 -> "top" [] face = 5 -> "semibright1"
                     [] face = 2 -> "semibright2" [] OTHER -> "side"
       IN [seg EXCEPT !.lod = <<level, side>>]

NoRefs == [k \in Faces \X Lods |-> NoRef]
Uncached == [valid |-> FALSE, textured |-> FALSE, refs |-> NoRefs]

\* update_cache_textures() for each face and level; an exception leaves what was
\* done until then.
UpdateTexture(s, def, face, level) ==
  LET seg == def.textures[face]
      added == FindOrAdd(s.atlases, Simulated(seg, face, level))
  IN IF ~s.ok \/ seg.image = "" THEN s
     ELSE [atlases |-> added.atlases, ok |-> added.ref # Failed,
           refs |-> IF added.ref = Failed THEN s.refs
                    ELSE [s.refs EXCEPT ![<<face, level>>] = added.ref]]

UpdateTextures(all, def) ==
  LET updated[k \in 0..24] ==
        IF k = 0 THEN [atlases |-> all, ok |-> TRUE, refs |-> NoRefs]
        ELSE UpdateTexture(updated[k - 1], def, (k - 1) \div 4, ((k - 1) % 4) + 1)
  IN updated[24]

\* get_cached() with an atlas registry
Preload(id) ==
  LET grown == [i \in DOMAIN defs |-> IF i \in DOMAIN cached THEN cached[i] ELSE Uncached]
      update == UpdateTextures(atlases, defs[id])
  IN IF grown[id].textured
       THEN cached' = grown /\ UNCHANGED atlases
       ELSE /\ atlases' = update.atlases
            /\ cached' = [grown EXCEPT ![id] = [valid |-> TRUE, textured |-> update.ok,
                                                refs |-> update.refs]]

\* VoxelRegistry::deserialize() of what the server's registry is by now: it is
\* cleared and every voxel is added again.
Deserialize ==
  /\ defs # definitions
  /\ defs' = definitions /\ cached' = <<>>
  /\ jobs' = [t \in 1..Tasks |-> IF jobs[t].at \in {"preloaded", "generating"}
                                   THEN [jobs[t] EXCEPT !.torn = TRUE] ELSE jobs[t]]
  /\ UNCHANGED <<definitions, blocks, atlases>>

-----------------------------------------------------------------------------
(* Tasks that make geometry, here of one voxel each *)

\* The constructor of the task calls preload_textures() on the main thread; an
\* exception, and there is no task.
Construct(t, id) ==
  /\ jobs[t].at = "none"
  /\ IF id \notin DOMAIN defs THEN UNCHANGED <<registryVars, jobs>>
     ELSE /\ Preload(id) /\ UNCHANGED defs
          /\ jobs' = [u \in 1..Tasks |->
               IF u = t /\ cached'[id].textured
                 THEN [at |-> "preloaded", id |-> id, of |-> defs[id],
                       torn |-> FALSE, drawn |-> NoRefs]
               ELSE IF jobs[u].at = "generating" /\ atlases' # atlases
                 THEN [jobs[u] EXCEPT !.torn = TRUE]
               ELSE jobs[u]]
  /\ UNCHANGED <<definitions, blocks>>

\* thread(), on a thread of the pool, reads the registries up to EndThread.
StartThread(t) ==
  /\ jobs[t].at = "preloaded"
  /\ jobs' = [jobs EXCEPT ![t].at = "generating"]
  /\ UNCHANGED <<definitions, blocks, registryVars>>

\* get_cached() without an atlas registry.  A face without an atlas is skipped.
EndThread(t) ==
  /\ jobs[t].at = "generating"
  /\ LET id == jobs[t].id
         grown == [i \in DOMAIN defs |-> IF i \in DOMAIN cached THEN cached[i] ELSE Uncached]
     IN /\ jobs' = [jobs EXCEPT ![t].at = "generated", ![t].drawn = grown[id].refs]
        /\ cached' = [grown EXCEPT ![id].valid = TRUE]
  /\ UNCHANGED <<definitions, blocks, defs, atlases>>

VRInit ==
  /\ definitions = <<>> /\ blocks = <<>>
  /\ defs = <<>> /\ cached = <<>> /\ atlases = <<>>
  /\ jobs = [t \in 1..Tasks |-> [at |-> "none"]]

VRNext ==
  \/ \E b \in Blocks : AddBlock(b)
  \/ Deserialize
  \/ \E t \in 1..Tasks, id \in 1..(Len(definitions) + 1) : Construct(t, id)
  \/ \E t \in 1..Tasks : StartThread(t) \/ EndThread(t)

VRSpec == VRInit /\ [][VRNext]_vrVars

-----------------------------------------------------------------------------
(* Properties *)

\* Whether ref is the segment, at its own resolution and in an area of the
\* atlas that no other segment is drawn to.
IsTexture(ref, seg) ==
  /\ ref.atlas \in DOMAIN atlases
  /\ LET a == atlases[ref.atlas]
         place == a.drawn[ref.segment]
     IN /\ a.segments[ref.segment] = seg /\ place # <<>>
        /\ \A i \in 1..2 :
             /\ a.resolution[i] = Images[seg.image][i] \div seg.total[i]
             /\ place[i] + 2 * a.resolution[i] <= MaxResolution
        /\ \A k \in DOMAIN a.drawn \ {ref.segment} :
             a.drawn[k] # <<>> =>
               \E i \in 1..2 :
                 a.drawn[k][i] - place[i] \notin (1 - 2 * a.resolution[i])..(2 * a.resolution[i] - 1)

\* Images of which an atlas has room for one; update_segment_cache() refuses the
\* others, but then find_or_add_segment() finds what was refused.
Fits(image) ==
  image \in DOMAIN Images => \A i \in 1..2 : 2 * Images[image][i] <= MaxResolution

\* The faces of a definition whose texture is a whole image
WholeFaces(def) ==
  {f \in Faces : LET seg == def.textures[f]
                 IN seg.image # "" /\ seg.total = <<1, 1>> /\ Fits(seg.image)}

HasTextures(refs, def) ==
  \A f \in WholeFaces(def), l \in Lods :
    IsTexture(refs[<<f, l>>], Simulated(def.textures[f], f, l))

\* However often the registry is replaced, and however full the atlases become:
\* voxels that are ready to be drawn have the textures of their definition.
TexturesAreOwn ==
  \A id \in DOMAIN cached : cached[id].textured => HasTextures(cached[id].refs, defs[id])

\* A task that nothing was changed under draws what its voxel was when the task
\* was made, on all sides and at all levels.
TasksDrawTextures ==
  \A t \in 1..Tasks :
    jobs[t].at = "generated" /\ ~jobs[t].torn =>
      HasTextures(jobs[t].drawn, jobs[t].of)

\* The axis that a face is across
Normal(face) == IF face < 2 THEN 2 ELSE IF face < 4 THEN 1 ELSE 3

\* Each side of a block shows each part of its image, and each part once.
BlocksShowImages ==
  \A k \in DOMAIN blocks :
    LET ids == blocks[k].segments
        size == blocks[k].size
        Outer(f) == {i \in DOMAIN ids :
                       definitions[ids[i]].name[2][Normal(f)]
                         = IF f % 2 = 0 THEN size[Normal(f)] - 1 ELSE 0}
    IN \A f \in Faces :
         LET shown == {definitions[ids[i]].textures[f].select : i \in Outer(f)}
         IN /\ Cardinality(shown) = Cardinality(Outer(f))
            /\ \A i \in Outer(f) :
                 LET total == definitions[ids[i]].textures[f].total
                 IN shown = (0..(total[1] - 1)) \X (0..(total[2] - 1))

\* Textures are not mixed up in the atlases, on the way to the tasks that draw
\* them, or between the voxels of a block.
ImagesAreShown == TexturesAreOwn /\ TasksDrawTextures /\ BlocksShowImages

(* What the source says of itself *)

\* Geometry "can be called from any thread": the registries stay as they are
\* while a thread of the pool reads them.
NeverTorn ==
  \A t \in 1..Tasks : jobs[t].at # "none" => ~jobs[t].torn

\* add_segment() tries to find an atlas "for this texture size": the parts of
\* an image are drawn at their own resolution too.
PartsAreOwn ==
  \A id \in DOMAIN cached : cached[id].textured =>
    \A f \in Faces, l \in Lods : defs[id].textures[f].image # "" =>
      IsTexture(cached[id].refs[<<f, l>>], Simulated(defs[id].textures[f], f, l))

\* get_texture(): "Cache is always up-to-date".  What a voxel's textures refer to
\* has been drawn.
CacheIsDrawn ==
  \A id \in DOMAIN cached : cached[id].textured =>
    \A k \in Faces \X Lods :
      LET ref == cached[id].refs[k]
      IN ref # NoRef => atlases[ref.atlas].drawn[ref.segment] # <<>>
=============================================================================
