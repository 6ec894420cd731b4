-------------------------- MODULE MCRequestEngine ---------------------------
(***************************************************************************)
(* Instances of RequestEngine.  ann submits, bob approves (and is          *)
(* administrator), cyd reviews for security; each may stand in for another.*)
(***************************************************************************)
EXTENDS RequestEngine, TLC

CONSTANTS ann, bob, cyd, r1, r2

MCUser == {ann, bob, cyd}

Manager  == {"access_request.approve", "workforce.leave.review",
             "onboarding.approve", "rbac.manage"}
Security == {"access_request.security_approve", "onboarding.provision",
             "onboarding.complete"}

MCHolds == ann :> Manager @@ bob :> Manager @@ cyd :> Security

MCRequester == [r \in Request |-> ann]
\* The calls of a run without liveness are interchangeable.
CallSymmetry == Permutations(ApiCall)

AccessOnly  == [r \in Request |-> "access_request"]
OnboardingLeave ==
  [r \in Request |-> IF r = r1 THEN "onboarding" ELSE "leave_request"]

\* The delegations a run allows: cyd or ann stands in for bob.
OnePair   == {<<bob, cyd>>}
StandIn   == {<<bob, ann>>}
NoPairs   == {}
NoTypes   == {}
=============================================================================
