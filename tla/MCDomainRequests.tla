-------------------------- MODULE MCDomainRequests --------------------------
(* Instance of DomainRequests for TLC.  Ids, employees and calls are told  *)
(* apart by equality alone, so that permuting them changes nothing.        *)
EXTENDS DomainRequests, TLC

Symmetry ==
  Permutations(Item) \cup Permutations(Employee) \cup Permutations(DomainCall)
=============================================================================
