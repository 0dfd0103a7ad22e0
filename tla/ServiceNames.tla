---------------------------- MODULE ServiceNames ----------------------------
(***************************************************************************)
(* The static description of the services of one govisor manager and the   *)
(* rule that resolves a dependency or a conflict (service.go).             *)
(*                                                                         *)
(* A name is <base> or <base>:<variant>.  It is split once, at the first   *)
(* colon, so it is modelled as a record of its two parts; NoVariant stands *)
(* for a name without a colon, which is not a name with an empty variant.  *)
(* What a service declares is fixed while it is managed: setProp answers   *)
(* ErrPropReadOnly for each of these properties.                           *)
(***************************************************************************)
EXTENDS Naturals, Sequences

CONSTANTS
    Service,    \* the *Service objects an application has created
    NameSet,    \* the names in use: [base |-> ..., variant |-> ...]
    NoVariant,  \* the variant of a name that has no colon
    Name,       \* Name[s]: the service's own name
    Provides,   \* Provides[s]: the further names it offers (a set)
    Depends,    \* Depends[s]: the names it depends on (the order matters)
    Conflicts   \* Conflicts[s]: the names it conflicts with (a set)

ASSUME NamesAssumption ==
    /\ Name \in [Service -> NameSet]
    /\ Provides \in [Service -> SUBSET NameSet]
    /\ Depends \in [Service -> Seq(NameSet)]
    /\ Conflicts \in [Service -> SUBSET NameSet]

\* Does a service called s2 answer to the check s1?
serviceMatches(s1, s2) ==
    /\ s1.base = s2.base
    /\ s1.variant \in {NoVariant, s2.variant}

\* Service.Matches: the service's own name or one it provides answers.
Matches(s, check) ==
    \E n \in {Name[s]} \cup Provides[s] : serviceMatches(check, n)

\* The keys of Service.parents: the distinct dependencies of s.
DependsOn(s) == {Depends[s][i] : i \in DOMAIN Depends[s]}

\* The dependencies of t that s is recorded for when one of the two joins the
\* other: the loop of setManager breaks at the first of t's dependencies that
\* s matches, so this has at most one element.
LinkedBy(t, s) ==
    {Depends[t][i] : i \in {j \in DOMAIN Depends[t] :
        /\ Matches(s, Depends[t][j])
        /\ \A k \in 1 .. (j - 1) : ~Matches(s, Depends[t][k])}}

\* Does either of the two services name the other as a conflict?
Clash(s, t) ==
    \/ \E c \in Conflicts[t] : Matches(s, c)
    \/ \E c \in Conflicts[s] : Matches(t, c)
=============================================================================
