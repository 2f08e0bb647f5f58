----------------------------- MODULE BspModule -----------------------------
(***************************************************************************)
(* The module list of the board support package (bsp_module.h) on top of   *)
(* Zephyr's singly linked list (slist.h, list_gen.h).  A module is its own *)
(* list node, so next, state and descriptor are functions on Modules.      *)
(* prepare_all, setup_all and desetup_all walk the list and call into the  *)
(* drivers; they are modelled one list element per step.                   *)
(***************************************************************************)
EXTENDS Integers, Sequences, FiniteSets

CONSTANTS
  Modules,      \* the bsp_module structures of the image
  Nil,          \* the null pointer
  HasPrepare,   \* modules whose prepare, setup, desetup pointer is not NULL
  HasSetup,
  HasDesetup,
  Retries,      \* TRUE: the client appends a module again when bsp_module_append
                \* reports an error
  Disciplined   \* TRUE: like bsp_init the client runs prepare_all between an
                \* append and setup_all

ASSUME ModulesAssumption ==
  /\ IsFiniteSet(Modules) /\ Nil \notin Modules
  /\ HasPrepare \subseteq Modules
  /\ HasSetup \subseteq Modules
  /\ HasDesetup \subseteq Modules

VARIABLES
  head, tail,  \* bsp_module_list
  next,        \* node.next of every module
  state,       \* LIVE, COMING, GOING
  des,         \* is the descriptor pointer set
  armed,       \* the driver's interrupt and hardware are running
  op, cur,     \* the loop in progress and its iterator
  fresh        \* prepare_all has run since the last append

list == <<head, tail, next>>
vars == <<head, tail, next, state, des, armed, op, cur, fresh>>

States == {"LIVE", "COMING", "GOING"}

(* s is the list: the sequence of distinct modules the pointers spell out *)
Represents(s) ==
  /\ \A i, j \in DOMAIN s : s[i] = s[j] => i = j
  /\ head = IF s = <<>> THEN Nil ELSE s[1]
  /\ tail = IF s = <<>> THEN Nil ELSE s[Len(s)]
  /\ \A i \in DOMAIN s : next[s[i]] = IF i = Len(s) THEN Nil ELSE s[i + 1]

(* The pointers a walk over the list meets are in every set that holds the *)
(* head and is closed under next; the walk ends if Nil is one of them.     *)
Pointers == Modules \cup {Nil}
Closed(S) == head \in S /\ \A m \in S \ {Nil} : next[m] \in S
Met == {p \in Pointers : \A S \in SUBSET Pointers : Closed(S) => p \in S}
InList == Met \ {Nil}
WalkEnds == Nil \in Met

Linked(m) == m \in InList

(* bsp_module_init, and the statically initialised structures *)
Init ==
  /\ head = Nil /\ tail = Nil
  /\ next = [m \in Modules |-> Nil]
  /\ state = [m \in Modules |-> "COMING"]
  /\ des = [m \in Modules |-> FALSE]
  /\ armed = [m \in Modules |-> FALSE]
  /\ op = "none" /\ cur = Nil
  /\ fresh = FALSE

(***************************************************************************)
(* sys_slist_append, sys_slist_find_and_remove                             *)
(***************************************************************************)
SlistAppend(m) ==
  LET cut == [next EXCEPT ![m] = Nil] IN
  /\ tail' = m
  /\ head' = IF tail = Nil THEN m ELSE head
  /\ next' = IF tail = Nil THEN cut ELSE [cut EXCEPT ![tail] = m]

(* Mutant: the removed tail stays the tail of the list. *)
SlistRemoveKeepsTail(prev, m) ==
  /\ head' = IF prev = Nil THEN next[m] ELSE head
  /\ tail' = tail
  /\ next' = [k \in Modules |-> IF k = m THEN Nil
                                ELSE IF k = prev THEN next[m] ELSE next[k]]

SlistRemove(prev, m) ==
  /\ head' = IF prev = Nil THEN next[m] ELSE head
  /\ tail' = IF tail # m THEN tail ELSE IF prev = Nil THEN next[m] ELSE prev
  /\ next' = [k \in Modules |-> IF k = m THEN Nil
                                ELSE IF k = prev THEN next[m] ELSE next[k]]

(* On a list with a cycle the walk may not return; that case is left out. *)
SlistFindAndRemove(m) ==
  /\ WalkEnds
  /\ \/ head = m /\ SlistRemove(Nil, m)
     \/ \E prev \in InList : next[prev] = m /\ SlistRemove(prev, m)
     \/ ~Linked(m) /\ UNCHANGED list

(***************************************************************************)
(* bsp_module_append, bsp_module_remove                                    *)
(***************************************************************************)

(* The value bsp_module_append returns: -EBUSY on both paths. *)
AppendResult(m) == "EBUSY"

bsp_module_append(m) ==
  /\ op = "none"
  /\ ~Linked(m) \/ (Retries /\ AppendResult(m) # "OK")
  /\ IF state[m] # "LIVE" THEN SlistAppend(m) ELSE UNCHANGED list
  /\ fresh' = FALSE
  /\ UNCHANGED <<state, des, armed, op, cur>>

(* Mutant: the state of the module is not looked at. *)
RemoveAnyway(m) ==
  /\ op = "none"
  /\ SlistFindAndRemove(m)
  /\ UNCHANGED <<state, des, armed, op, cur, fresh>>

bsp_module_remove(m) ==
  /\ op = "none"
  /\ state[m] # "LIVE"
  /\ SlistFindAndRemove(m)
  /\ UNCHANGED <<state, des, armed, op, cur, fresh>>

(***************************************************************************)
(* The loops: BSP_MODULE_FOR_EACH, one element per step                    *)
(***************************************************************************)
Begin(loop) ==
  /\ op = "none"
  /\ loop = "setup" /\ Disciplined => fresh
  /\ op' = loop
  /\ cur' = head
  /\ UNCHANGED <<list, state, des, armed, fresh>>

End ==
  /\ op # "none"
  /\ cur = Nil
  /\ op' = "none"
  /\ fresh' = (fresh \/ op = "prepare")
  /\ UNCHANGED <<list, state, des, armed, cur>>

In(loop) == op = loop /\ cur # Nil
Advance == cur' = next[cur] /\ UNCHANGED <<list, op, fresh>>
SetState(s) == state' = [state EXCEPT ![cur] = s]

(* Mutant: a module whose prepare fails keeps its state. *)
PrepareFailKeepsState ==
  /\ In("prepare")
  /\ Advance
  /\ UNCHANGED <<state, des, armed>>

(* prepare returned NULL or an error, or there is no prepare function *)
PrepareFail ==
  /\ In("prepare")
  /\ SetState("GOING")
  /\ Advance
  /\ UNCHANGED <<des, armed>>

PrepareOk ==
  /\ In("prepare")
  /\ cur \in HasPrepare
  /\ SetState("COMING")
  /\ des' = [des EXCEPT ![cur] = TRUE]
  /\ Advance
  /\ UNCHANGED armed

(* Mutant: the skipped module is not stepped over. *)
SetupSkipStuck ==
  /\ In("setup")
  /\ state[cur] # "COMING"
  /\ UNCHANGED vars

SetupSkip ==
  /\ In("setup")
  /\ state[cur] # "COMING"
  /\ Advance
  /\ UNCHANGED <<state, des, armed>>

(* setup failed, possibly after it had enabled the hardware: init_dma      *)
(* enables the interrupts before the steps that can still fail             *)
SetupFail ==
  /\ In("setup")
  /\ state[cur] = "COMING"
  /\ SetState("GOING")
  /\ \/ UNCHANGED armed
     \/ cur \in HasSetup /\ armed' = [armed EXCEPT ![cur] = TRUE]
  /\ Advance
  /\ UNCHANGED des

(* Mutant: setup is called whatever the state of the module. *)
SetupAnyState ==
  /\ In("setup")
  /\ cur \in HasSetup
  /\ SetState("LIVE")
  /\ armed' = [armed EXCEPT ![cur] = TRUE]
  /\ Advance
  /\ UNCHANGED des

SetupOk ==
  /\ In("setup")
  /\ state[cur] = "COMING"
  /\ cur \in HasSetup
  /\ SetState("LIVE")
  /\ armed' = [armed EXCEPT ![cur] = TRUE]
  /\ Advance
  /\ UNCHANGED des

DesetupSkip ==
  /\ In("desetup")
  /\ state[cur] = "GOING"
  /\ Advance
  /\ UNCHANGED <<state, des, armed>>

(* The result of desetup, -1 without a desetup function, is only printed. *)
Desetup ==
  /\ In("desetup")
  /\ state[cur] # "GOING"
  /\ SetState("GOING")
  /\ \/ UNCHANGED armed
     \/ cur \in HasDesetup /\ armed' = [armed EXCEPT ![cur] = FALSE]
  /\ Advance
  /\ UNCHANGED des

Call ==
  \/ \E m \in Modules : bsp_module_append(m) \/ bsp_module_remove(m)
  \/ \E loop \in {"prepare", "setup", "desetup"} : Begin(loop)

Loop ==
  \/ PrepareFail \/ PrepareOk
  \/ SetupSkip \/ SetupFail \/ SetupOk
  \/ DesetupSkip \/ Desetup
  \/ End

Next == Call \/ Loop
Spec == Init /\ [][Next]_vars

(* The loops are plain code: they keep running.  Nobody has to call them. *)
FairSpec == Spec /\ WF_vars(Loop)

(***************************************************************************)
(* Properties                                                              *)
(***************************************************************************)
TypeOK ==
  /\ head \in Modules \cup {Nil} /\ tail \in Modules \cup {Nil}
  /\ next \in [Modules -> Modules \cup {Nil}]
  /\ state \in [Modules -> States]
  /\ des \in [Modules -> BOOLEAN] /\ armed \in [Modules -> BOOLEAN]
  /\ op \in {"none", "prepare", "setup", "desetup"}
  /\ cur \in Modules \cup {Nil}
  /\ fresh \in BOOLEAN

(* The sequences that a list of distinct modules can spell out, and the    *)
(* one the pointers do.                                                    *)
Lists == UNION {[1 .. n -> Modules] : n \in 0 .. Cardinality(Modules)}
Walk == CHOOSE s \in Lists : Represents(s)

(* The pointers always spell out a sequence of distinct modules: no cycle, *)
(* no lost tail, whatever is appended and removed (sys_slist_append,       *)
(* sys_slist_remove).                                                      *)
WellFormed ==
  /\ TypeOK
  /\ \E s \in Lists : Represents(s)

(* The linked list with its loops implements the abstract registry.        *)
Registry == INSTANCE ModuleRegistry WITH order <- Walk
ImplementsRegistry == Registry!Spec

(* A LIVE module is in the list: no sequence of appends, removals and      *)
(* loops loses a module whose driver runs (bsp_module_remove's state test).*)
LiveIsLinked == \A m \in Modules : state[m] = "LIVE" => Linked(m)

(* setup_all never hands a driver a NULL descriptor when, as in bsp_init,  *)
(* prepare_all runs after the last append: tty and lcd dereference it.     *)
SetupGetsDescriptor ==
  Disciplined => (In("setup") /\ state[cur] = "COMING" => des[cur])

(* Every walk over the list ends (BSP_MODULE_FOR_EACH has no other exit).  *)
LoopsEnd == op # "none" ~> op = "none"

(* "Only desetuped module can be removed" (bsp_module.h:53): a module that *)
(* is not in the list any more has no interrupt or hardware running.       *)
RemovedIsQuiet == \A m \in Modules : armed[m] => Linked(m)
=============================================================================
