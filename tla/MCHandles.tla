----------------------------- MODULE MCHandles -----------------------------
(* Watchers of a service, that comes and goes, and of the list of services. *)
EXTENDS Handles

CONSTANTS poller, browser, service, list
=============================================================================
