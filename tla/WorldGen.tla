------------------------------ MODULE WorldGen ------------------------------
(***************************************************************************)
(* How the sections of a voxel world come to be generated:                 *)
(* src/builtin/voxelworld/voxelworld.cpp asks for them with an event, and  *)
(* src/builtin/worldgen/worldgen.cpp queues them for a thread of its own.  *)
(*                                                                         *)
(* One semaphore is posted for every request, and with every token the     *)
(* GenerateThread takes one section from the queue of every scene.  It     *)
(* does so in a callback on worldgen's thread, which handles nothing else  *)
(* meanwhile, while voxelworld goes on.                                    *)
(***************************************************************************)
EXTENDS Integers, Sequences, FiniteSets

CONSTANTS
  Scenes,
  Size,         \* sections of a world
  MaxDeletes,   \* bound: deletions of worlds and of generators
  MaxTokens     \* bound: tokens that disabled generators may pile up

ASSUME WorldGenAssumption ==
  Size \in Nat /\ MaxDeletes \in Nat /\ MaxTokens \in Nat

\* Sections, in the order in which a new world comes to them.
Sections == 1..Size

Places == Scenes \X Sections

VARIABLES
  worlds,     \* scenes with an instance of voxelworld
  events,     \* voxelworld:generation_request events for worldgen
  generator,  \* worldgen's instance of each scene
  queue,      \* m_queued_sections of each scene
  sem,        \* m_queued_sections_sem
  todo,       \* scenes the callback of the thread has still to see
  pc,         \* the GenerateThread
  made,       \* history: sections whose generator ran for the present world
  deletes     \* deletions so far

vars == <<worlds, events, generator, queue, sem, todo, pc, made, deletes>>

TypeOK ==
  /\ worlds \in SUBSET Scenes
  /\ events \in Seq(Places)
  /\ generator \in [Scenes -> {"none", "disabled", "enabled"}]
  /\ queue \in [Scenes -> Seq(Sections)]
  /\ sem \in Nat
  /\ todo \in SUBSET Scenes
  /\ pc \in {"wait", "access", "callback"}
  /\ pc # "callback" => todo = {}
  /\ made \in SUBSET (worlds \X Sections)
  /\ deletes \in 0..MaxDeletes

Init ==
  /\ worlds = {} /\ events = <<>>
  /\ generator = [s \in Scenes |-> "none"]
  /\ queue = [s \in Scenes |-> <<>>]
  /\ sem = 0 /\ todo = {} /\ pc = "wait" /\ made = {} /\ deletes = 0

-----------------------------------------------------------------------------
(* Seeded faults *)

\* OnGenerationRequest, posting only for the first section of a queue.
OnGenerationRequest_PostsOnce ==
  /\ pc # "callback" /\ events # <<>>
  /\ events' = Tail(events)
  /\ LET s == Head(events)[1]
         x == Head(events)[2]
     IN IF generator[s] = "none"
        THEN UNCHANGED <<queue, sem>>
        ELSE /\ queue' = [queue EXCEPT ![s] = Append(@, x)]
             /\ sem' = IF queue[s] = <<>> THEN sem + 1 ELSE sem
  /\ UNCHANGED <<worlds, generator, todo, pc, made, deletes>>

\* PostAgain, without the post.
PostAgain_Forgets(s) ==
  /\ pc = "callback" /\ s \in todo /\ generator[s] = "disabled"
  /\ todo' = todo \ {s}
  /\ UNCHANGED <<worlds, events, generator, queue, sem, pc, made, deletes>>

-----------------------------------------------------------------------------
(* voxelworld *)

\* create_instance().  The constructor asks for every section, once; other
\* threads may see the events one by one, in this order.
CreateWorld(s) ==
  /\ s \notin worlds
  /\ worlds' = worlds \cup {s}
  /\ events' = events \o [x \in 1..Size |-> <<s, x>>]
  /\ UNCHANGED <<generator, queue, sem, todo, pc, made, deletes>>

\* delete_instance() or on_scene_deleted()
DeleteWorld(s) ==
  /\ s \in worlds /\ deletes < MaxDeletes
  /\ deletes' = deletes + 1
  /\ worlds' = worlds \ {s}
  /\ made' = made \ ({s} \X Sections)
  /\ UNCHANGED <<events, generator, queue, sem, todo, pc>>

-----------------------------------------------------------------------------
(* worldgen, on its own thread *)

Idle == pc # "callback"

CreateGenerator(s) ==
  /\ Idle /\ generator[s] = "none"
  /\ generator' = [generator EXCEPT ![s] = "disabled"]
  /\ UNCHANGED <<worlds, events, queue, sem, todo, pc, made, deletes>>

\* set_generator() and enable()
Enable(s) ==
  /\ Idle /\ generator[s] = "disabled"
  /\ generator' = [generator EXCEPT ![s] = "enabled"]
  /\ UNCHANGED <<worlds, events, queue, sem, todo, pc, made, deletes>>

DeleteGenerator(s) ==
  /\ Idle /\ generator[s] # "none" /\ deletes < MaxDeletes
  /\ deletes' = deletes + 1
  /\ generator' = [generator EXCEPT ![s] = "none"]
  /\ queue' = [queue EXCEPT ![s] = <<>>]
  /\ UNCHANGED <<worlds, events, sem, todo, pc, made>>

\* A request for a scene without an instance is dropped.
OnGenerationRequest ==
  /\ Idle /\ events # <<>>
  /\ events' = Tail(events)
  /\ LET s == Head(events)[1]
         x == Head(events)[2]
     IN IF generator[s] = "none"
        THEN UNCHANGED <<queue, sem>>
        ELSE /\ queue' = [queue EXCEPT ![s] = Append(@, x)]
             /\ sem' = sem + 1
  /\ UNCHANGED <<worlds, generator, todo, pc, made, deletes>>

-----------------------------------------------------------------------------
(* The GenerateThread *)

\* Disabled instances with a queue, which post the semaphore again.
Waiting == {s \in Scenes : generator[s] = "disabled" /\ queue[s] # <<>>}

TakeToken ==
  /\ pc = "wait" /\ sem > 0
  /\ sem < MaxTokens \/ Cardinality(Waiting) < 2
  /\ sem' = sem - 1
  /\ pc' = "access"
  /\ UNCHANGED <<worlds, events, generator, queue, todo, made, deletes>>

EnterCallback ==
  /\ pc = "access"
  /\ pc' = "callback"
  /\ todo' = {s \in Scenes : generator[s] # "none"}
  /\ UNCHANGED <<worlds, events, generator, queue, sem, made, deletes>>

PostAgain(s) ==
  /\ pc = "callback" /\ s \in todo /\ generator[s] = "disabled"
  /\ sem' = IF queue[s] # <<>> THEN sem + 1 ELSE sem
  /\ todo' = todo \ {s}
  /\ UNCHANGED <<worlds, events, generator, queue, pc, made, deletes>>

\* The generator calls voxelworld.  If the scene's world is gone, that is
\* an exception which generate_next_section() catches.
GenerateNextSection(s) ==
  /\ pc = "callback" /\ s \in todo /\ generator[s] = "enabled"
  /\ todo' = todo \ {s}
  /\ IF queue[s] = <<>>
     THEN UNCHANGED <<queue, made>>
     ELSE /\ queue' = [queue EXCEPT ![s] = Tail(@)]
          /\ made' = made \cup (({s} \cap worlds) \X {Head(queue[s])})
  /\ UNCHANGED <<worlds, events, generator, sem, pc, deletes>>

LeaveCallback ==
  /\ pc = "callback" /\ todo = {}
  /\ pc' = "wait"
  /\ UNCHANGED <<worlds, events, generator, queue, sem, todo, made, deletes>>

-----------------------------------------------------------------------------

Thread ==
  \/ TakeToken \/ EnterCallback \/ LeaveCallback
  \/ \E s \in Scenes : PostAgain(s) \/ GenerateNextSection(s)

Next ==
  \/ Thread \/ OnGenerationRequest
  \/ \E s \in Scenes :
       \/ CreateWorld(s) \/ DeleteWorld(s)
       \/ CreateGenerator(s) \/ Enable(s) \/ DeleteGenerator(s)

\* worldgen's thread takes an event or a call whenever it is free, the
\* GenerateThread goes on, and generators come to an end.  Weak fairness is
\* not enough for the events, since callbacks interrupt them again and again.
Fairness == WF_vars(Thread) /\ SF_vars(OnGenerationRequest)

Spec == Init /\ [][Next]_vars
FairSpec == Spec /\ Fairness

-----------------------------------------------------------------------------
(* Properties *)

\* There are tokens for the longest queue: the thread never sleeps over a
\* section, however scenes share, waste and repost them.
Owed(s) == IF pc = "access" \/ (pc = "callback" /\ s \in todo) THEN 1 ELSE 0
TokensSuffice == \A s \in Scenes : Len(queue[s]) <= sem + Owed(s)

\* A section that waits for an enabled generator is generated, unless its
\* scene loses the generator or the world first.
Requested(s, x) ==
  \/ \E i \in DOMAIN events : events[i] = <<s, x>>
  \/ \E i \in DOMAIN queue[s] : queue[s][i] = x

SectionsAreGenerated ==
  \A s \in Scenes, x \in Sections :
    Requested(s, x) /\ generator[s] = "enabled" ~>
      <<s, x>> \in made \/ s \notin worlds \/ generator[s] # "enabled"
=============================================================================
