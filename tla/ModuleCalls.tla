---------------------------- MODULE ModuleCalls ----------------------------
(***************************************************************************)
(* What a module container promises to the threads that use it: a call     *)
(* executes its callback once, in the module, between the call and its     *)
(* return, one callback at a time, and returns what became of it; events   *)
(* are handled one by one in the order they were sent.  Only a container   *)
(* that is closing may leave a callback unexecuted.                        *)
(***************************************************************************)
EXTENDS Naturals

CONSTANT Threads

VARIABLES
  state,    \* [Threads -> where the thread's call is]
  outcome,  \* what became of the thread's last callback
  answer,   \* what the thread's last call returned
  closing,  \* has the module been asked to stop?
  sent,     \* events sent to the module
  seen      \* events it has handled

vars == <<state, outcome, answer, closing, sent, seen>>

Init ==
  /\ state = [t \in Threads |-> "idle"]
  /\ outcome = [t \in Threads |-> "no"]
  /\ answer = [t \in Threads |-> "none"]
  /\ closing = FALSE
  /\ sent = 0 /\ seen = 0

Call(t) ==
  /\ state[t] = "idle"
  /\ state' = [state EXCEPT ![t] = "called"]
  /\ outcome' = [outcome EXCEPT ![t] = "no"]
  /\ answer' = [answer EXCEPT ![t] = "none"]
  /\ UNCHANGED <<closing, sent, seen>>

Execute(t) ==
  /\ state[t] = "called"
  /\ state' = [state EXCEPT ![t] = "executed"]
  /\ \E o \in {"ok", "throw"} : outcome' = [outcome EXCEPT ![t] = o]
  /\ UNCHANGED <<answer, closing, sent, seen>>

Return(t) ==
  /\ state[t] = "executed"
  /\ state' = [state EXCEPT ![t] = "idle"]
  /\ answer' = [answer EXCEPT ![t] = outcome[t]]
  /\ UNCHANGED <<outcome, closing, sent, seen>>

\* A closing module refuses a call, or drops it as if it had been executed.
Refuse(t) ==
  /\ closing /\ state[t] = "called"
  /\ state' = [state EXCEPT ![t] = "idle"]
  /\ \E a \in {"not_available", "ok"} : answer' = [answer EXCEPT ![t] = a]
  /\ UNCHANGED <<outcome, closing, sent, seen>>

Close ==
  /\ ~closing /\ closing' = TRUE
  /\ UNCHANGED <<state, outcome, answer, sent, seen>>

Send ==
  /\ sent' = sent + 1
  /\ UNCHANGED <<state, outcome, answer, closing, seen>>

See ==
  /\ seen < sent /\ seen' = seen + 1
  /\ UNCHANGED <<state, outcome, answer, closing, sent>>

Next ==
  \/ Close \/ Send \/ See
  \/ \E t \in Threads : Call(t) \/ Execute(t) \/ Return(t) \/ Refuse(t)

Spec == Init /\ [][Next]_vars
=============================================================================
