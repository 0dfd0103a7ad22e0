-------------------------- MODULE MCSupervisorPair --------------------------
(***************************************************************************)
(* A database and an application that depends on it: the smallest instance *)
(* with a cascade, for the rate limit and for the liveness properties.     *)
(***************************************************************************)
EXTENDS SupervisorInvariant

CONSTANTS db, app

Plain(b) == [base |-> b, variant |-> NoVariant]

MCService == {db, app}
MCNameSet == {Plain("db"), Plain("app")}
MCName == [s \in MCService |-> IF s = db THEN Plain("db") ELSE Plain("app")]
MCProvides == [s \in MCService |-> {}]
MCDepends == [s \in MCService |-> IF s = app THEN <<Plain("db")>> ELSE <<>>]
MCConflicts == [s \in MCService |-> {}]
=============================================================================
