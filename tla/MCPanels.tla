------------------------------ MODULE MCPanels ------------------------------
(* Two services, the first of which moves about the list as it fails, and may go. *)
EXTENDS Panels

MCLook == [s \in Service |-> IF s = 1 THEN {"failed", "disabled", "absent"} ELSE {"up"}]
=============================================================================
