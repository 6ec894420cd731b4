-------------------------- MODULE RequestLifecycle --------------------------
(***************************************************************************)
(* What the request engine promises of its requests, seen from outside.    *)
(* A request is submitted, moves through its approval chain and is         *)
(* resolved, always by a caller who has looked at it while it was open,    *)
(* and who decides on what it saw: a caller at a step before the last      *)
(* moves the request to the step after that one, and only a caller who     *)
(* saw the last step can approve.  A caller decides once per look.         *)
(*                                                                         *)
(* Several callers may be looking at a time.  If none does, a resolved     *)
(* request stays as it is; with one caller the steps follow one another.   *)
(***************************************************************************)
EXTENDS Naturals

CONSTANTS Request, LastStep, Caller, Nothing

VARIABLES
  status, currentStep,
  seen  \* what each caller has looked at: a request and its step, or Nothing

Open == {"pending", "in_review"}

Init ==
  /\ status      = [r \in Request |-> "none"]
  /\ currentStep = [r \in Request |-> 1]
  /\ seen        = [c \in Caller |-> Nothing]

Submit(r) ==
  /\ status[r] = "none"
  /\ status' = [status EXCEPT ![r] = "pending"]
  /\ UNCHANGED <<currentStep, seen>>

Look(c, r) ==
  /\ seen[c] = Nothing
  /\ status[r] \in Open
  /\ seen' = [seen EXCEPT ![c] = [req |-> r, step |-> currentStep[r]]]
  /\ UNCHANGED <<status, currentStep>>

LookAway(c) ==
  /\ seen' = [seen EXCEPT ![c] = Nothing]
  /\ UNCHANGED <<status, currentStep>>

Advance(c) ==
  /\ seen[c] # Nothing
  /\ seen[c].step < LastStep[seen[c].req]
  /\ status'      = [status EXCEPT ![seen[c].req] = "in_review"]
  /\ currentStep' = [currentStep EXCEPT ![seen[c].req] = seen[c].step + 1]
  /\ seen'        = [seen EXCEPT ![c] = Nothing]

Approve(c) ==
  /\ seen[c] # Nothing
  /\ seen[c].step = LastStep[seen[c].req]
  /\ status'      = [status EXCEPT ![seen[c].req] = "approved"]
  /\ currentStep' = [currentStep EXCEPT ![seen[c].req] = seen[c].step]
  /\ seen'        = [seen EXCEPT ![c] = Nothing]

Close(c, outcome) ==
  /\ seen[c] # Nothing
  /\ status' = [status EXCEPT ![seen[c].req] = outcome]
  /\ seen'   = [seen EXCEPT ![c] = Nothing]
  /\ UNCHANGED currentStep

Next ==
  \/ \E r \in Request : Submit(r)
  \/ \E c \in Caller :
       \/ \E r \in Request : Look(c, r)
       \/ LookAway(c)
       \/ Advance(c)
       \/ Approve(c)
       \/ \E o \in {"rejected", "cancelled", "expired"} : Close(c, o)

Spec == Init /\ [][Next]_<<status, currentStep, seen>>
=============================================================================
