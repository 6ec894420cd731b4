---------------------------- MODULE RequestTypes ----------------------------
(***************************************************************************)
(* The RequestTypeDef implementations the domain modules register with the *)
(* request engine, reduced to the data the engine reads: the approval      *)
(* chain (one permission per step) and what each lifecycle hook writes to  *)
(* the type's own table.  No type allows self approval, none defines       *)
(* onSubmit or onCancel, and none resolves an assignee.                    *)
(***************************************************************************)
EXTENDS Naturals

RequestType ==
  {"access_request", "leave_request", "overtime",
   "onboarding", "offboarding", "catalog_request"}

\* approvalSteps: three types of chain; the other types are single-step.
MaxStep(t) ==
  IF t = "access_request" THEN 2 ELSE IF t = "onboarding" THEN 3 ELSE 1

\* stepDef?.requiredPermission ?? def.requiredApprovalPermission
RequiredPermission(t, s) ==
  CASE t = "access_request" /\ s = 1 -> "access_request.approve"
    [] t = "access_request" /\ s # 1 -> "access_request.security_approve"
    [] t = "onboarding" /\ s = 1     -> "onboarding.approve"
    [] t = "onboarding" /\ s = 2     -> "onboarding.provision"
    [] t = "onboarding" /\ s > 2     -> "onboarding.complete"
    [] t = "leave_request"           -> "workforce.leave.review"
    [] t = "overtime"                -> "workforce.overtime.review"
    [] t = "offboarding"             -> "offboarding.approve"
    [] OTHER                         -> "requests.approve"

\* rbac.manage is what lets an administrator cancel someone else's request.
Permission ==
  {RequiredPermission(t, s) : t \in RequestType, s \in 1..3} \cup {"rbac.manage"}

(***************************************************************************)
(* The types whose payload points at a row of a domain table with a status *)
(* of its own, and the status their hooks write there.  "none" is the      *)
(* domain status of a type that has no such row.                           *)
(***************************************************************************)
HasDomainRow(t) == t \in {"access_request", "leave_request", "overtime"}

DomainStatus == {"none", "pending", "approved", "rejected", "expired", "cancelled"}

OnSubmitDomain(t) == IF HasDomainRow(t) THEN "pending" ELSE "none"

OnApproveDomain(t, d) == IF HasDomainRow(t) THEN "approved" ELSE d

OnRejectDomain(t, d) == IF HasDomainRow(t) THEN "rejected" ELSE d

OnExpireDomain(t, d) ==
  IF HasDomainRow(t)
    THEN [access_request |-> "expired",
          leave_request  |-> "cancelled",
          overtime       |-> "rejected"][t]
    ELSE d

\* No TypeDef implements onCancel: the domain row keeps its status.
OnCancelDomain(t, d) == d

\* onApprove of an access request inserts one access_grants row.
GrantsOnApprove(t) == IF t = "access_request" THEN 1 ELSE 0
=============================================================================
