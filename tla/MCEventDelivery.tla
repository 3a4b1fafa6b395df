--------------------------- MODULE MCEventDelivery ---------------------------
(* Two instances share a channel with room for one event.  A pass that is   *)
(* held up does nothing, or all but what takes a missing secret.            *)
EXTENDS EventDelivery

MCParts == {{}} \cup {Inputs \ {s} : s \in Secrets}
=============================================================================
