------------------------ MODULE MCSupervisorConflict ------------------------
(***************************************************************************)
(* Two mail transports, one of which tolerates no other (its conflict      *)
(* names the base "smtp", which it bears itself), and a mailing list       *)
(* manager that needs whichever of them runs.                              *)
(***************************************************************************)
EXTENDS SupervisorInvariant

CONSTANTS postfix, qmail, list

Plain(b) == [base |-> b, variant |-> NoVariant]
Full(b, v) == [base |-> b, variant |-> v]

MCService == {postfix, qmail, list}
MCNameSet == {Full("smtp", "postfix"), Full("smtp", "qmail"), Plain("list"),
              Plain("smtp")}
MCName == [s \in MCService |-> CASE s = postfix -> Full("smtp", "postfix")
                                 [] s = qmail -> Full("smtp", "qmail")
                                 [] s = list -> Plain("list")]
MCProvides == [s \in MCService |-> {}]
MCDepends == [s \in MCService |-> IF s = list THEN <<Plain("smtp")>> ELSE <<>>]
MCConflicts == [s \in MCService |->
                  IF s = postfix THEN {Plain("smtp")} ELSE {}]
=============================================================================
