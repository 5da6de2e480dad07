------------------------------ MODULE MCParts ------------------------------
(* Six components for TLC, which do not interact in the models and are    *)
(* checked side by side: in a behaviour one of them moves, and the others  *)
(* keep an initial state.                                                  *)
EXTENDS ClientVoxels, VoxelMesh, VoxelRegistry, GroundPlaneLighting, Loader,
        JsonParser, TLC

CONSTANTS x1, x2, p1

VARIABLES
  part,
  val, left

jsonVars == <<val, left, jpVars>>

(* ClientVoxels: a node at the camera's first place, which leaves it so far *)
(* that levels of detail change, and the node is clipped.                  *)
MCPlaceOf == <<0>>

(* VoxelMesh: rows of empty, invisible, drawn and solid voxels.             *)
MCSize == <<4, 2, 2>>
Points == (0..3) \X (0..1) \X (0..1)
AllSides(textured) == [f \in 0..5 |-> textured]
MCRegistry ==
  [id \in 0..4 |->
     CASE id < 2 -> [draw |-> "on_edge", edge |-> 0, solid |-> FALSE,
                     textured |-> AllSides(FALSE)]
       [] id = 2 -> [draw |-> "always", edge |-> 0, solid |-> FALSE,
                     textured |-> [AllSides(TRUE) EXCEPT ![1] = FALSE]]
       [] id = 3 -> [draw |-> "on_edge", edge |-> 1, solid |-> TRUE,
                     textured |-> AllSides(TRUE)]
       [] id = 4 -> [draw |-> "never", edge |-> 0, solid |-> FALSE,
                     textured |-> AllSides(TRUE)]]
\* The bottom rows differ, and the top has two solid voxels.
MCVolumes ==
  {[p \in Points |-> IF p[2] = 0 THEN f[p[1]][p[3] + 1]
                     ELSE IF p[1] \in {1, 2} THEN 3 ELSE 1] :
     f \in [0..3 -> {<<4, 1>>, <<3, 1>>, <<2, 3>>}]}
MCByteVolumes == {[p \in Points |-> b] : b \in {3, 200}}

(* VoxelRegistry: a small image, and one of which parts are shown too.      *)
Sides(image) == [f \in 0..5 |-> image]
MCBlocks ==
  {[name |-> "b2", size |-> <<1, 1, 1>>,
    sides |-> [Sides("s") EXCEPT ![1] = "m", ![3] = ""]],
   [name |-> "b3", size |-> <<2, 1, 2>>,
    sides |-> [f \in 0..5 |-> IF f = 0 THEN "m" ELSE ""]]}

MCImages == [i \in {"s", "m"} |-> IF i = "m" THEN <<2, 2>> ELSE <<1, 1>>]

(* GroundPlaneLighting: two columns in sectors of their own.               *)
MCSectorOf == [c \in Columns |-> c]

(* Loader: three modules with any dependencies, one of them declared in    *)
(* reverse too, the third of which may be absent or broken.                *)
Pairs == {p \in Modules \X Modules : p[1] # p[2]}
Relation(f) == [m \in Modules |-> [d \in Modules |->
                  IF m = d THEN "none" ELSE f[<<m, d>>]]]
Reverses == {[p \in Pairs |-> IF p = q THEN k ELSE "none"] :
               q \in Pairs, k \in Kinds}
MCMetas ==
  {[file |-> [m \in Modules |-> IF m = 3 THEN f ELSE "ok"],
    depends |-> Relation(d), reverse |-> Relation(r)] :
     f \in {"ok", "absent"},
     d \in [Pairs -> Kinds], r \in Reverses}
  \cup
  {[file |-> [m \in Modules |-> IF m = 3 THEN "broken" ELSE "ok"],
    depends |-> Relation(d), reverse |-> Relation([p \in Pairs |-> "none"])] :
     d \in [Pairs -> Kinds]}

(* Json: a value of each kind, also those that do not come back, or not     *)
(* with all digits (-1234567.5), and strings with bytes above 127 before    *)
(* and after what is escaped; texts of somebody's hand:                     *)
(* { "bb" : ["\ud83d\ude00" , 1.5e1 ] , "a" : 1}, and the same without 1.  *)
Str(s) == <<"string", s>>
HandWritten(rest) ==
  <<123, 32, 34, 98, 98, 34, 32, 58, 32, 91, 34, 92, 117, 100, 56, 51, 100,
    92, 117, 100, 101, 48, 48, 34, 32, 44, 32, 49, 46, 53, 101, 49, 32, 93,
    32, 44, 32, 34, 97, 34, 32, 58, 32>> \o rest

JS == INSTANCE Json WITH
  Keys <- {<<97>>, <<10, 195>>},
  Scalars <- {<<"undefined">>, <<"int", -7>>, <<"int", 2147483570>>, <<"bool", TRUE>>,
              <<"float", <<FALSE, <<5>>, -1>>>>, <<"float", <<"nan">>>>,
              <<"float", <<TRUE, <<1, 2, 3, 4, 5, 6, 7, 5>>, -1>>>>, Str(<<>>), Str(<<195, 1, 34>>),
              Str(<<47, 195, 164>>)},
  Texts <- {HandWritten(<<49, 125, 10>>), HandWritten(<<125>>)},
  MaxEdits <- 2

-----------------------------------------------------------------------------
Parts == {"client_voxels", "mesh", "registry", "ground", "loader", "json"}

\* The other parts' first state does not matter: any one will do.
MCInit ==
  /\ part \in Parts
  /\ CVInit /\ VRInit /\ GPLInit
  /\ IF part = "json" THEN JS!Init
     ELSE val = <<>> /\ left = 0 /\ JPInit
  /\ IF part = "mesh" THEN VMInit
     ELSE data = <<>> /\ geometry = [lod |-> 0] /\ shapes = <<>> /\ boxed = FALSE
  /\ IF part = "loader" THEN LDInit
     ELSE /\ meta = <<>> /\ phase = "inactive" /\ required = {} /\ order = <<>>
          /\ loaded = 0 /\ shutdown = FALSE
          /\ toReload = {} /\ quiet = TRUE /\ reloads = <<>>

MCNext ==
  /\ UNCHANGED part
  /\ \/ /\ part = "client_voxels" /\ CVNext
        /\ UNCHANGED <<vmVars, vrVars, gplVars, ldVars, jsonVars>>
     \/ /\ part = "mesh" /\ VMNext
        /\ UNCHANGED <<cvVars, vrVars, gplVars, ldVars, jsonVars>>
     \/ /\ part = "registry" /\ VRNext
        /\ UNCHANGED <<cvVars, vmVars, gplVars, ldVars, jsonVars>>
     \/ /\ part = "ground" /\ GPLNext
        /\ UNCHANGED <<cvVars, vmVars, vrVars, ldVars, jsonVars>>
     \/ /\ part = "loader" /\ LDNext
        /\ UNCHANGED <<cvVars, vmVars, vrVars, gplVars, jsonVars>>
     \/ /\ part = "json" /\ JS!Next
        /\ UNCHANGED <<cvVars, vmVars, vrVars, gplVars, ldVars>>

MCSpec ==
  /\ MCInit
  /\ [][MCNext]_<<part, cvVars, vmVars, vrVars, gplVars, ldVars, jsonVars>>

-----------------------------------------------------------------------------
(* The properties of the parts that are instances; the other modules have  *)
(* their own.                                                              *)

\* See Json.
RoundTrip == part = "json" => JS!RoundTrip /\ JS!HalfIsRejected
=============================================================================
