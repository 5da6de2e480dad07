------------------------------- MODULE Loader -------------------------------
(***************************************************************************)
(* src/builtin/loader/loader.cpp: which modules the loader loads when it   *)
(* is activated and in which order, from the dependencies in their         *)
(* meta.json files, and when it reloads the ones that are modified.        *)
(*                                                                         *)
(* A module is a number; the sets of names are walked in their order.      *)
(* Dependencies are "none", "optional" or "required", and a dependency may *)
(* be declared in reverse by the module that is depended on.               *)
(***************************************************************************)
EXTENDS Integers, Sequences, FiniteSets, SequencesExt

CONSTANTS
  Modules,
  Main,        \* the modules in the main module path
  Metas,       \* the meta.json files to be found: sets of records
  MaxReloads   \* bound: reloads

Kinds == {"none", "optional", "required"}

ASSUME ModulesAssumption ==
  /\ Modules \subseteq Nat /\ IsFiniteSet(Modules) /\ Main \subseteq Modules
  /\ Metas \subseteq [file : [Modules -> {"ok", "absent", "broken"}],
                     depends : [Modules -> [Modules -> Kinds]],
                     reverse : [Modules -> [Modules -> Kinds]]]

VARIABLES
  meta,      \* file, depends and reverse of every module
  phase,     \* of load_modules()
  required,  \* m_required_modules
  order,     \* m_module_load_order
  loaded,    \* how many of the order are loaded
  shutdown,  \* whether the server was told to shut down
  toReload,  \* m_modules_to_reload
  quiet,     \* whether a second has passed since the last modification
  reloads    \* what the server was asked to reload, one set for each time

resolveVars == <<required, order>>
reloadVars == <<toReload, quiet, reloads>>
ldVars == <<meta, phase, resolveVars, loaded, shutdown, reloadVars>>

LDInit ==
  /\ meta \in Metas
  /\ phase = "inactive"
  /\ required = {} /\ order = <<>> /\ loaded = 0 /\ shutdown = FALSE
  /\ toReload = {} /\ quiet = TRUE /\ reloads = <<>>

-----------------------------------------------------------------------------
(* Seeded faults *)

Hinders_IgnoreReverse(m, d, follow) ==
  /\ d \notin ToSet(order)
  /\ \/ meta.depends[m][d] = "required"
     \/ ~follow /\ meta.depends[m][d] = "optional"

-----------------------------------------------------------------------------
(* Resolution *)

\* get_module_info(): absent files are looked for everywhere and not found, and
\* broken ones shut the server down besides.
Exists(m) == meta.file[m] = "ok"

\* What m depends on, be it declared by m or in reverse by a required module.
Depends(m, d, kind) ==
  \/ meta.depends[m][d] = kind
  \/ d \in required /\ meta.reverse[d][m] = kind

\* Modules that require_module() goes on to from m.
Successors(m) ==
  {d \in Modules : meta.depends[m][d] # "none" \/ meta.reverse[m][d] # "none"}

\* Where require_module() has been to everything it goes on to.
Complete(visited) ==
  Main \subseteq visited /\ \A m \in visited : Exists(m) => Successors(m) \subseteq visited

\* Modules that require_module() comes to from the main module path.
Reached ==
  {m \in Modules : \A visited \in SUBSET Modules : Complete(visited) => m \in visited}

\* What is not to be found and not optional to everyone that asks for it.
Missing ==
  {d \in Reached : /\ ~Exists(d)
                   /\ \/ d \in Main
                      \/ \E m \in Reached :
                           /\ Exists(m)
                           /\ \/ meta.depends[m][d] = "required"
                              \/ meta.reverse[m][d] = "required"}

\* activate(): require_modules().  On an error the walk ends early, and nothing
\* is loaded.
Activate ==
  /\ phase = "inactive"
  /\ IF Missing # {}
       THEN phase' = "failed" /\ shutdown' = TRUE /\ UNCHANGED required
       ELSE /\ phase' = "optional_too" /\ required' = {m \in Reached : Exists(m)}
            /\ shutdown' = (\E m \in Reached : meta.file[m] = "broken")
  /\ UNCHANGED <<meta, order, loaded, reloadVars>>

\* What keeps step() from taking m: with follow_optdepends set, an optional
\* dependency is no obstacle.
Hinders(m, d, follow) ==
  /\ d \notin ToSet(order)
  /\ \/ Depends(m, d, "required")
     \/ ~follow /\ Depends(m, d, "optional")

Ready(follow) ==
  {m \in required \ ToSet(order) : \A d \in Modules : ~Hinders(m, d, follow)}

\* step(): the first module in the order of names that is ready.
Step ==
  /\ phase \in {"optional_too", "all"}
  /\ LET ready == Ready(phase = "optional_too")
     IN /\ ready # {}
        /\ order' = Append(order, CHOOSE m \in ready : \A k \in ready : m <= k)
  /\ UNCHANGED <<meta, phase, required, loaded, shutdown, reloadVars>>

\* step_through(): step(true) until it finds nothing, then step(false), then
\* what is left has missing dependencies.
EndSteps ==
  /\ phase \in {"optional_too", "all"}
  /\ Ready(phase = "optional_too") = {}
  /\ phase' = IF phase = "optional_too" THEN "all"
              ELSE IF required \subseteq ToSet(order) THEN "load" ELSE "failed"
  /\ shutdown' = (shutdown \/ phase' = "failed")
  /\ UNCHANGED <<meta, resolveVars, loaded, reloadVars>>

\* The server loads the modules one by one; one that cannot be built ends it.
LoadNext ==
  /\ phase = "load" /\ loaded < Len(order)
  /\ \/ loaded' = loaded + 1 /\ UNCHANGED <<phase, shutdown>>
     \/ phase' = "failed" /\ shutdown' = TRUE /\ UNCHANGED loaded
  /\ UNCHANGED <<meta, resolveVars, reloadVars>>

EndLoading ==
  /\ phase = "load" /\ loaded = Len(order)
  /\ phase' = "active"
  /\ UNCHANGED <<meta, resolveVars, loaded, shutdown, reloadVars>>

-----------------------------------------------------------------------------
(* Modified modules *)

\* on_module_modified(): events that come before the activation are ignored,
\* and those that come while it lasts wait in the module's queue.
\* Modules has all but the loader, which the handler leaves alone (418).
OnModuleModified(m) ==
  /\ phase \in {"inactive", "active"}
  /\ Len(reloads) < MaxReloads
  /\ IF phase = "inactive" THEN UNCHANGED <<toReload, quiet>>
     ELSE toReload' = toReload \cup {m} /\ quiet' = FALSE
  /\ UNCHANGED <<meta, phase, resolveVars, loaded, shutdown, reloads>>

SecondPasses ==
  /\ ~quiet /\ quiet' = TRUE
  /\ UNCHANGED <<meta, phase, resolveVars, loaded, shutdown, toReload, reloads>>

\* on_tick()
LoaderTick ==
  /\ phase = "active" /\ toReload # {} /\ quiet
  /\ reloads' = Append(reloads, toReload)
  /\ toReload' = {}
  /\ UNCHANGED <<meta, phase, resolveVars, loaded, shutdown, quiet>>

LDNext ==
  \/ Activate \/ Step \/ EndSteps \/ LoadNext \/ EndLoading
  \/ \E m \in Modules : OnModuleModified(m)
  \/ SecondPasses
  \/ LoaderTick

LDSpec == LDInit /\ [][LDNext]_ldVars

-----------------------------------------------------------------------------
(* Properties *)

\* An order is right if no module comes before one that it requires.
RightOrder(o) ==
  \A i \in 1..Len(o), j \in 1..Len(o) :
    i <= j => ~Depends(o[i], o[j], "required")

\* Everything that is wanted or required is loaded, each module once and after
\* what it requires, whoever declared it; and the loader gives up only if there
\* is no such order, or a module is missing or cannot be built.
LoadsInOrder ==
  /\ phase \in {"load", "active"} =>
       /\ RightOrder(order) /\ IsInjective(order)
       /\ ToSet(order) = {m \in Reached : Exists(m)}
  /\ phase = "failed" =>
       \/ Missing # {} \/ loaded < Len(order)
       \/ ~\E o \in SetToSeqs(required) : RightOrder(o)

(* What the source says of itself *)

\* step() picks a module "which has all dependencies promised": an optional
\* dependency that is going to be loaded comes before what depends on it,
\* where the required ones allow it.  The first phase ignores them.
OptionalComeFirst ==
  phase = "load" =>
    \A i \in 1..Len(order), j \in 1..Len(order) :
      i < j /\ Depends(order[i], order[j], "optional") =>
        ~\E o \in SetToSeqs(required) :
            /\ RightOrder(o)
            /\ \A k \in 1..Len(o), l \in 1..Len(o) :
                 k < l => ~Depends(o[k], o[l], "optional")
=============================================================================
