--------------------------- MODULE ModuleAccess ---------------------------
(***************************************************************************)
(* Modules that call into each other with Server::access_module()          *)
(* (src/src/server/state.cpp).  A handler that runs in one module's thread *)
(* blocks until its callback has run in another's, which may call on from  *)
(* there: the threads form chains, and the check of check_valid_access_u() *)
(* is what should keep a chain from closing.                               *)
(*                                                                         *)
(* One call is the atomic call of ModuleCalls, which ModuleThread is shown *)
(* to implement, in three steps: get the target's direct_cb, have the      *)
(* callback executed, return.                                              *)
(***************************************************************************)
EXTENDS Naturals

CONSTANTS
  Modules,      \* names of the loaded modules
  NoModule,     \* nullptr
  Deps,         \* info.meta.dependencies: [Modules -> SUBSET Modules]
  Accesses,     \* the modules each module's code accesses
  EventsEach,   \* bound: events each module gets
  MaxAccesses   \* bound: accesses one handler makes

ASSUME NoModuleAssumption == NoModule \notin Modules

ASSUME DepsAssumption ==
  /\ Deps \in [Modules -> SUBSET Modules]
  /\ Accesses \in [Modules -> SUBSET Modules]

ASSUME AccessBoundsAssumption == EventsEach \in Nat /\ MaxAccesses \in Nat

\* No module depends on itself in a circle: every nonempty set of modules has
\* one that depends on nothing in the set.  The loader loads dependencies first,
\* but for optional ones (loader.cpp:180): with a circle of those, the search of
\* is_dependency_u() for a module that is not in it would not end.
ASSUME DepsAcyclic ==
  \A S \in SUBSET Modules :
    S # {} => \E m \in S : Deps[m] \cap S = {}

VARIABLES
  running,    \* what each module's thread is executing
  caller,     \* thread->m_caller_thread of each module's thread
  slotOwner,  \* the module whose callback is posted to each module
  waiting,    \* the module each module's access_module() is blocked on
  answer,     \* what the callback a module is waiting for came to
  failed,     \* is the handler unwinding an exception?
  budget,     \* accesses the running handler may still make
  events,     \* events each module has yet to get
  shutdown,   \* did an event handler fail and shut the server down?
  accessed    \* history: pairs <<m, n>> such that m was let into n

chainVars == <<caller, slotOwner, waiting, answer>>
accessVars == <<running, chainVars, failed, budget, events, shutdown, accessed>>

AccessTypeOK ==
  /\ running \in [Modules -> {"idle", "event", "callback"}]
  /\ caller \in [Modules -> Modules \cup {NoModule}]
  /\ slotOwner \in [Modules -> Modules \cup {NoModule}]
  /\ waiting \in [Modules -> Modules \cup {NoModule}]
  /\ answer \in [Modules -> {"none", "ok", "throw"}]
  /\ failed \in [Modules -> BOOLEAN]
  /\ budget \in [Modules -> Nat]
  /\ events \in [Modules -> Nat]
  /\ shutdown \in BOOLEAN
  /\ accessed \in SUBSET (Modules \X Modules)

AccessInit ==
  /\ running = [m \in Modules |-> "idle"]
  /\ caller = [m \in Modules |-> NoModule]
  /\ slotOwner = [m \in Modules |-> NoModule]
  /\ waiting = [m \in Modules |-> NoModule]
  /\ answer = [m \in Modules |-> "none"]
  /\ failed = [m \in Modules |-> FALSE]
  /\ budget = [m \in Modules |-> 0]
  /\ events = [m \in Modules |-> EventsEach]
  /\ shutdown = FALSE
  /\ accessed = {}

-----------------------------------------------------------------------------
(* Seeded faults *)

\* Looks at direct dependencies only.
IsDependency_DirectOnly(m, n) == n \in Deps[m]

\* direct_cb is taken without waiting for it to be free.
AcquireSlot_Shared(m) ==
  /\ waiting[m] # NoModule /\ slotOwner[waiting[m]] # m /\ answer[m] = "none"
  /\ slotOwner' = [slotOwner EXCEPT ![waiting[m]] = m]
  /\ caller' = [caller EXCEPT ![waiting[m]] = m]
  /\ UNCHANGED <<running, waiting, answer, failed, budget, events, shutdown,
                 accessed>>

\* The exception leaves access_module() before direct_cb is freed.
Return_KeptOnThrow(m) ==
  /\ waiting[m] # NoModule /\ answer[m] # "none"
  /\ slotOwner' = [slotOwner EXCEPT ![waiting[m]] =
                     IF answer[m] = "throw" THEN @ ELSE NoModule]
  /\ caller' = [caller EXCEPT ![waiting[m]] = NoModule]
  /\ waiting' = [waiting EXCEPT ![m] = NoModule]
  /\ answer' = [answer EXCEPT ![m] = "none"]
  /\ failed' = [failed EXCEPT ![m] = answer[m] = "throw"]
  /\ UNCHANGED <<running, budget, events, shutdown, accessed>>

-----------------------------------------------------------------------------

\* is_dependency_u(): is n a dependency of m, or of one of its dependencies?
\* The search visits the least set that contains Deps[m] and with each module
\* its dependencies.
ClosedUnderDeps(S) == \A x \in S : Deps[x] \subseteq S
IsDependency(m, n) ==
  \A S \in SUBSET Modules :
    Deps[m] \subseteq S /\ ClosedUnderDeps(S) => n \in S

\* check_valid_access_u(): not itself, and not a module that depends on it.
ValidAccess(target, from) ==
  from # target /\ ~IsDependency(target, from)

Busy(m) == running[m] # "idle" /\ waiting[m] = NoModule /\ ~failed[m]

\* A callback is posted to n and not yet executed.
Posted(n) == slotOwner[n] # NoModule /\ answer[slotOwner[n]] = "none"

\* The module's thread takes an event; a posted callback goes first.
StartEvent(m) ==
  /\ running[m] = "idle" /\ ~Posted(m) /\ events[m] > 0
  /\ running' = [running EXCEPT ![m] = "event"]
  /\ budget' = [budget EXCEPT ![m] = MaxAccesses]
  /\ events' = [events EXCEPT ![m] = @ - 1]
  /\ UNCHANGED <<chainVars, failed, shutdown, accessed>>

\* access_module(), up to the check.
Access(m, n) ==
  /\ Busy(m) /\ budget[m] > 0 /\ n \in Accesses[m]
  /\ ValidAccess(n, m)
  /\ waiting' = [waiting EXCEPT ![m] = n]
  /\ budget' = [budget EXCEPT ![m] = @ - 1]
  /\ accessed' = accessed \cup {<<m, n>>}
  /\ UNCHANGED <<running, caller, slotOwner, answer, failed, events, shutdown>>

\* The check throws; the handler catches the exception or it does not.
RejectAccess(m, n) ==
  /\ Busy(m) /\ budget[m] > 0 /\ n \in Accesses[m]
  /\ ~ValidAccess(n, m)
  /\ budget' = [budget EXCEPT ![m] = @ - 1]
  /\ \E caught \in BOOLEAN : failed' = [failed EXCEPT ![m] = ~caught]
  /\ UNCHANGED <<running, chainVars, events, shutdown, accessed>>

\* Wait for direct_cb of the target to be free, and post the callback.
AcquireSlot(m) ==
  /\ waiting[m] # NoModule /\ slotOwner[waiting[m]] = NoModule
  /\ slotOwner' = [slotOwner EXCEPT ![waiting[m]] = m]
  /\ caller' = [caller EXCEPT ![waiting[m]] = m]
  /\ UNCHANGED <<running, waiting, answer, failed, budget, events, shutdown,
                 accessed>>

RunCallback(n) ==
  /\ running[n] = "idle" /\ Posted(n)
  /\ running' = [running EXCEPT ![n] = "callback"]
  /\ budget' = [budget EXCEPT ![n] = MaxAccesses]
  /\ UNCHANGED <<chainVars, failed, events, shutdown, accessed>>

\* The running handler throws an exception of its own.
HandlerThrows(m) ==
  /\ Busy(m)
  /\ failed' = [failed EXCEPT ![m] = TRUE]
  /\ UNCHANGED <<running, chainVars, budget, events, shutdown, accessed>>

\* handle_direct_cb(): the callback's exception goes to the caller.
FinishCallback(n) ==
  /\ running[n] = "callback" /\ waiting[n] = NoModule
  /\ running' = [running EXCEPT ![n] = "idle"]
  /\ answer' = [answer EXCEPT ![caller[n]] = IF failed[n] THEN "throw" ELSE "ok"]
  /\ failed' = [failed EXCEPT ![n] = FALSE]
  /\ UNCHANGED <<caller, slotOwner, waiting, budget, events, shutdown,
                 accessed>>

\* handle_event(): an exception nobody caught shuts the server down.
FinishEvent(m) ==
  /\ running[m] = "event" /\ waiting[m] = NoModule
  /\ running' = [running EXCEPT ![m] = "idle"]
  /\ shutdown' = (shutdown \/ failed[m])
  /\ failed' = [failed EXCEPT ![m] = FALSE]
  /\ UNCHANGED <<chainVars, budget, events, accessed>>

\* The caller reads the result, clears the caller pointer, frees direct_cb;
\* access_module() throws the exception again in the caller's handler.
Return(m) ==
  /\ waiting[m] # NoModule /\ answer[m] # "none"
  /\ slotOwner' = [slotOwner EXCEPT ![waiting[m]] = NoModule]
  /\ caller' = [caller EXCEPT ![waiting[m]] = NoModule]
  /\ waiting' = [waiting EXCEPT ![m] = NoModule]
  /\ answer' = [answer EXCEPT ![m] = "none"]
  /\ \E caught \in BOOLEAN :
       failed' = [failed EXCEPT ![m] = answer[m] = "throw" /\ ~caught]
  /\ UNCHANGED <<running, budget, events, shutdown, accessed>>

Finish(m) == FinishCallback(m) \/ FinishEvent(m)

Step(m) == StartEvent(m) \/ AcquireSlot(m) \/ RunCallback(m) \/ Finish(m)
             \/ Return(m)

\* All threads idle and all events handled: nothing more is to happen.
Quiet == \A m \in Modules : running[m] = "idle" /\ events[m] = 0
Done == Quiet /\ UNCHANGED accessVars

AccessNext ==
  \/ \E m \in Modules : Step(m) \/ HandlerThrows(m)
  \/ \E m, n \in Modules : Access(m, n) \/ RejectAccess(m, n)
  \/ Done

\* Handlers end: a thread that can finish, answer, post or take up work does.
AccessFairness == \A m \in Modules : WF_accessVars(Step(m))

AccessSpec == AccessInit /\ [][AccessNext]_accessVars
FairAccessSpec == AccessSpec /\ AccessFairness

-----------------------------------------------------------------------------
\* Every access is between modules of which one depends on the other: what is
\* not declared in meta.json is not accessed.
DependenciesDeclared ==
  \A m \in Modules : \A n \in Accesses[m] :
    n = m \/ IsDependency(m, n) \/ IsDependency(n, m)

\* No circle of modules each blocked in access_module() on the next, which
\* would block them for ever.
NoWaitCycle ==
  \A S \in SUBSET Modules :
    S # {} => \E m \in S : waiting[m] \notin S

\* "The parent callers in the chain cannot be deleted while this function is
\* executing": whoever a thread names as its caller is blocked on that thread
\* and owns its direct_cb, so access_module() can follow the pointers to the
\* thread that began the chain.
CallersWait ==
  \A n \in Modules :
    /\ caller[n] # NoModule => waiting[caller[n]] = n
    /\ caller[n] = slotOwner[n]
    /\ running[n] = "callback" => caller[n] # NoModule

\* Every access_module() returns, at whatever depth it was made, and every
\* event is handled in the end.
AccessesReturn ==
  /\ \A m \in Modules : waiting[m] # NoModule ~> waiting[m] = NoModule
  /\ <>Quiet

(* What the source says of itself *)

\* "If module 1 accesses module 2 at some point, then at no point shall
\* module 2 be allowed to access module 1."
NeverBothWays ==
  \A m, n \in Modules : <<m, n>> \in accessed => <<n, m>> \notin accessed
=============================================================================
