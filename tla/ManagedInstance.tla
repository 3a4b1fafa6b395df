--------------------------- MODULE ManagedInstance ---------------------------
(***************************************************************************)
(* What the finalizers of a Crossplane instance promise, with no word on   *)
(* how the operator gets there: resources exist only under a guarded       *)
(* instance, only the holder of an access touches them, and an instance    *)
(* goes only after its resources and its access.                           *)
(***************************************************************************)
CONSTANTS Resources     \* what an instance can own: components, revisions

VARIABLES stage,        \* "gone", "registered" or "guarded"
          held,         \* an access to the control plane is held
          resources     \* the resources that exist

vars == <<stage, held, resources>>

TypeOK == /\ stage \in {"gone", "registered", "guarded"}
          /\ held \in BOOLEAN
          /\ resources \subseteq Resources

Init == stage = "gone" /\ held = FALSE /\ resources = {}

Register == stage = "gone" /\ stage' = "registered" /\ UNCHANGED <<held, resources>>

Connect == stage = "registered" /\ ~ held /\ held' = TRUE /\ UNCHANGED <<stage, resources>>

Guard == stage = "registered" /\ held /\ stage' = "guarded" /\ UNCHANGED <<held, resources>>

\* Resources come and go, under the guard only.
Adjust == stage = "guarded" /\ held /\ resources' \in SUBSET Resources /\ UNCHANGED <<stage, held>>

Unguard == /\ stage = "guarded" /\ resources = {}
           /\ stage' = "registered" /\ UNCHANGED <<held, resources>>

Disconnect == /\ stage = "registered" /\ resources = {} /\ held
              /\ held' = FALSE /\ UNCHANGED <<stage, resources>>

Remove == /\ stage = "registered" /\ resources = {} /\ ~ held
          /\ stage' = "gone" /\ UNCHANGED <<held, resources>>

Next == Register \/ Connect \/ Guard \/ Adjust \/ Unguard \/ Disconnect \/ Remove

Spec == Init /\ [][Next]_vars
=============================================================================
