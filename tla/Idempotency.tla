----------------------------- MODULE Idempotency ----------------------------
(***************************************************************************)
(* The Idempotency-Key interceptor, for one key of one user.               *)
(*                                                                         *)
(* The response is looked up before the handler runs and stored after it,  *)
(* without waiting for the store and without marking the key as taken in   *)
(* the meantime.  A handler's body is JSON or nothing; nothing is stored   *)
(* as the empty string, which the lookup takes for a miss.                 *)
(***************************************************************************)
EXTENDS Naturals, FiniteSets

CONSTANTS
  Attempt,    \* requests in flight with the key
  MaxAttempts \* bound: requests altogether

ASSUME AttemptAssumption == IsFiniteSet(Attempt) /\ MaxAttempts \in Nat

VARIABLES
  body,      \* what the handler answers: "json" or "empty"
  stored,    \* the cache entry: "none", "json" or "empty"
  attempt,   \* where each request is, and the runs it has seen
  runs,      \* times the handler has run
  attempts,  \* requests so far
  excuse     \* history: why the handler may run again

idemVars == <<body, stored, attempt, runs, attempts, excuse>>

Away == [pc |-> "away"]

IdemInit ==
  /\ body \in {"json", "empty"}
  /\ stored = "none"
  /\ attempt = [c \in Attempt |-> Away]
  /\ runs = 0
  /\ attempts = 0
  /\ excuse = {}

Sent == attempts < MaxAttempts /\ attempts' = attempts + 1

\* `if (cached)`: a stored JSON body is replayed, and the request ends.
Replay(c) ==
  /\ attempt[c] = Away
  /\ stored = "json"
  /\ Sent
  /\ UNCHANGED <<body, stored, attempt, runs, excuse>>

\* A miss, also while somebody else's response is on its way to the cache.
Miss(c) ==
  /\ attempt[c] = Away
  /\ stored # "json"
  /\ Sent
  /\ attempt' = [attempt EXCEPT ![c] = [pc |-> "run", seen |-> runs]]
  /\ excuse' = excuse
       \cup (IF \E d \in Attempt : attempt[d].pc = "store" THEN {"overlap"} ELSE {})
       \cup (IF stored = "empty" THEN {"empty body"} ELSE {})
  /\ UNCHANGED <<body, stored, runs>>

\* Redis is unreachable: the interceptor lets the request through.
Bypass(c) ==
  /\ attempt[c] = Away
  /\ Sent
  /\ runs' = runs + 1
  /\ excuse' = excuse \cup {"redis"}
  /\ UNCHANGED <<body, stored, attempt>>

Handled(c, next) ==
  /\ attempt[c].pc = "run"
  /\ runs' = runs + 1
  /\ attempt' = [attempt EXCEPT ![c] = next]

HandlerDone(c) ==
  /\ Handled(c, [pc |-> "store"])
  /\ excuse' = IF runs # attempt[c].seen THEN excuse \cup {"overlap"} ELSE excuse
  /\ UNCHANGED <<body, stored, attempts>>

\* The handler has had its effect and then throws: nothing is stored.
HandlerThrows(c) ==
  /\ Handled(c, Away)
  /\ excuse' = excuse \cup {"error"}
  /\ UNCHANGED <<body, stored, attempts>>

\* Mutant: the response is not stored.
StoreForgets(c) ==
  /\ attempt[c].pc = "store"
  /\ attempt' = [attempt EXCEPT ![c] = Away]
  /\ UNCHANGED <<body, stored, runs, attempts, excuse>>

\* Mutant: a body of another kind reaches the cache.
StoreRaw(c) ==
  /\ attempt[c].pc = "store"
  /\ stored' = "raw"
  /\ attempt' = [attempt EXCEPT ![c] = Away]
  /\ UNCHANGED <<body, runs, attempts, excuse>>

\* cache.set, not awaited: the client has its answer.
Store(c) ==
  /\ attempt[c].pc = "store"
  /\ stored' = body
  /\ attempt' = [attempt EXCEPT ![c] = Away]
  /\ UNCHANGED <<body, runs, attempts, excuse>>

StoreLost(c) ==
  /\ attempt[c].pc = "store"
  /\ attempt' = [attempt EXCEPT ![c] = Away]
  /\ excuse' = excuse \cup {"redis"}
  /\ UNCHANGED <<body, stored, runs, attempts>>

\* IDEMPOTENCY_TTL_SECONDS.
Forgotten ==
  /\ stored # "none"
  /\ stored' = "none"
  /\ excuse' = excuse \cup {"expired"}
  /\ UNCHANGED <<body, attempt, runs, attempts>>

IdemNext ==
  \/ \E c \in Attempt :
       \/ Replay(c) \/ Miss(c) \/ Bypass(c)
       \/ HandlerDone(c) \/ HandlerThrows(c)
       \/ Store(c) \/ StoreLost(c)
  \/ Forgotten

IdemSpec == IdemInit /\ [][IdemNext]_idemVars

-----------------------------------------------------------------------------
(* Properties.                                                             *)

\* What is stored is the handler's answer, and only after it ran.
IdemTypeOK ==
  /\ stored \in {"none", body}
  /\ runs \in 0..MaxAttempts /\ attempts \in 0..MaxAttempts
  /\ stored # "none" => runs > 0

\* A repeated request is answered from the cache: the handler runs a second
\* time only when the two overlapped, the first failed, Redis was away or has
\* dropped the entry, or the response had no body.
RepeatHasCause == runs > 1 => excuse # {}
=============================================================================
