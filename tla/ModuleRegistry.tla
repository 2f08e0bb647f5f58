--------------------------- MODULE ModuleRegistry ---------------------------
(***************************************************************************)
(* What the module list of the board support package promises: a sequence  *)
(* of distinct modules, each with a life cycle, where a module changes its *)
(* state only while it is registered, becomes LIVE only from COMING, and   *)
(* leaves the sequence only while it is not LIVE.                          *)
(***************************************************************************)
EXTENDS Sequences, Integers

CONSTANT Modules

VARIABLES
  order,  \* the registered modules, in the order of registration
  state   \* life cycle of every module

registry == <<order, state>>

Registered == {order[i] : i \in DOMAIN order}

Init ==
  /\ order = <<>>
  /\ state = [m \in Modules |-> "COMING"]

Register(m) ==
  /\ m \notin Registered
  /\ state[m] # "LIVE"
  /\ order' = Append(order, m)
  /\ UNCHANGED state

(* the sequence without its i-th module *)
Without(i) == [j \in 1 .. Len(order) - 1 |-> IF j < i THEN order[j] ELSE order[j + 1]]

Unregister(m) ==
  /\ state[m] # "LIVE"
  /\ \E i \in DOMAIN order : order[i] = m /\ order' = Without(i)
  /\ UNCHANGED state

Change(m, s) ==
  /\ m \in Registered
  /\ s = "LIVE" => state[m] = "COMING"
  /\ state' = [state EXCEPT ![m] = s]
  /\ UNCHANGED order

Next ==
  \E m \in Modules :
    \/ Register(m)
    \/ Unregister(m)
    \/ \E s \in {"LIVE", "COMING", "GOING"} : Change(m, s)

Spec == Init /\ [][Next]_registry
=============================================================================
