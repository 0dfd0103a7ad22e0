------------------------------ MODULE Provider ------------------------------
(***************************************************************************)
(* What a provider promises the manager that calls it (provider.go, as     *)
(* service.go uses it): Start and Stop block until the operation is        *)
(* complete, and Check reports what has happened since.  Module Process    *)
(* implements it.  Supervisor takes less for granted: there a Check may    *)
(* fail at any time.                                                       *)
(*                                                                         *)
(* The manager calls Start only of what is down and Stop only of what is   *)
(* up (s.running), never two of them at a time.                            *)
(***************************************************************************)

VARIABLES
    called,  \* "down", "up", or "stopping": Stop was called and has not returned
    runs,    \* something runs on behalf of the provider
    faulty   \* Check returns an error

providerVars == <<called, runs, faulty>>

ProviderInit == called = "down" /\ runs = FALSE /\ faulty = FALSE

\* Start blocks until the service is started or has definitively failed.
Started == called = "down" /\ called' = "up" /\ runs' = TRUE /\ faulty' = FALSE
StartFailed == called = "down" /\ faulty' = TRUE /\ UNCHANGED <<called, runs>>

\* What runs may end at any time, and the provider finds out or does not.  The end
\* of what is being stopped is no fault.
Ended == runs' = FALSE /\ UNCHANGED <<called, faulty>>
Faulted == called = "up" /\ ~runs /\ faulty' = TRUE /\ UNCHANGED <<called, runs>>

\* Stop blocks until nothing runs any more.
StopCalled == called = "up" /\ called' = "stopping" /\ UNCHANGED <<runs, faulty>>
Stopped ==
    /\ called \in {"up", "stopping"} /\ ~runs
    /\ called' = "down"
    /\ UNCHANGED <<runs, faulty>>

ProviderNext ==
    Started \/ StartFailed \/ Ended \/ Faulted \/ StopCalled \/ Stopped

ProviderSpec == ProviderInit /\ [][ProviderNext]_providerVars
=============================================================================
