---------------------------- MODULE AssetRegister ----------------------------
(***************************************************************************)
(* Hardware assets: the row of an asset, its assignment history and the    *)
(* events written to the outbox (AssetService), and the return of an       *)
(* employee's hardware when an offboarding is approved (OffboardingTypeDef).*)
(*                                                                         *)
(* An operation reads the asset, checks it, and then writes by id: in a    *)
(* transaction with the event (assign, unassign), or the row first and the *)
(* event in a transaction of its own (retire).  A transaction is one step: *)
(* two of them on one asset wait for each other on its row.  Of the asset's*)
(* states nothing in the program writes in_repair or lost.                 *)
(***************************************************************************)
EXTENDS Naturals, FiniteSets

CONSTANTS
  Asset,        \* asset tags, which a unique index keeps apart
  Staff, Nobody,
  AssetCall,    \* requests in flight
  MaxAssetOps   \* bound: operations altogether

ASSUME AssetAssumption ==
  Nobody \notin Staff /\ MaxAssetOps \in Nat

VARIABLES
  asset,       \* assets: status and assigned_to
  held,        \* asset_assignments without returned_at, counted by employee
  told,        \* the latest outbox event of each asset
  assetCall,   \* what each request has read
  assetOps,    \* operations so far
  offboarded,  \* employees whose offboarding was approved
  behind,      \* history: requests whose asset changed since they read it
  crossed,     \* history: assets such a request has written
  untold       \* history: assets whose row changed since their last event

assetVars ==
  <<asset, held, told, assetCall, assetOps, offboarded, behind, crossed, untold>>

AssetIdle == [pc |-> "idle"]
WritePc   == {"assign", "unassign", "retire"}

AssetCallType ==
  {AssetIdle}
    \cup [pc: WritePc \cup {"announce"}, asset: Asset, emp: Staff \cup {Nobody}]

AssetRow   == [status: {"none", "in_stock", "assigned", "retired"},
               to: Staff \cup {Nobody}]
InStock    == [status |-> "in_stock", to |-> Nobody]
NoneHeld   == [e \in Staff |-> 0]
OpenRows(a) == {e \in Staff : held[a][e] > 0}

AssetInit ==
  /\ asset = [a \in Asset |-> [status |-> "none", to |-> Nobody]]
  /\ held = [a \in Asset |-> NoneHeld]
  /\ told = [a \in Asset |-> InStock]
  /\ assetCall = [c \in AssetCall |-> AssetIdle]
  /\ assetOps = 0
  /\ offboarded = {}
  /\ behind = {}
  /\ crossed = {}
  /\ untold = {}

-----------------------------------------------------------------------------
AssetOp == assetOps < MaxAssetOps /\ assetOps' = assetOps + 1

Reads(c, pc, a, e) ==
  /\ assetCall[c] = AssetIdle
  /\ AssetOp
  /\ assetCall' = [assetCall EXCEPT ![c] = [pc |-> pc, asset |-> a, emp |-> e]]
  /\ UNCHANGED <<asset, held, told, offboarded, behind, crossed, untold>>

\* Requests that have read one of these assets and have yet to write it.
Reading(as) ==
  {c \in AssetCall : assetCall[c].pc \in WritePc /\ assetCall[c].asset \in as}

Writes(c, a, row) ==
  /\ asset' = [asset EXCEPT ![a] = row]
  /\ crossed' = IF c \in behind THEN crossed \cup {a} ELSE crossed
  /\ behind' = (behind \cup Reading({a})) \ {c}

\* create: the tag is looked for first, and the unique index has the last word
CreateAsset(a) ==
  /\ asset[a].status = "none"
  /\ AssetOp
  /\ asset' = [asset EXCEPT ![a] = InStock]
  /\ UNCHANGED <<held, told, assetCall, offboarded, behind, crossed, untold>>

\* assign: getById and its two checks; the employee only has to exist
AssetAssignRead(c, a, e) ==
  /\ asset[a].status \notin {"none", "retired"}
  /\ asset[a].to = Nobody
  /\ Reads(c, "assign", a, e)

\* Mutant: the assignment row is not written.
AssetAssignNoHistory(c) ==
  LET a == assetCall[c].asset
      row == [status |-> "assigned", to |-> assetCall[c].emp]
  IN /\ assetCall[c].pc = "assign"
     /\ Writes(c, a, row)
     /\ told' = [told EXCEPT ![a] = row]
     /\ untold' = untold \ {a}
     /\ assetCall' = [assetCall EXCEPT ![c] = AssetIdle]
     /\ UNCHANGED <<held, assetOps, offboarded>>

\* assign: row, history and event in one transaction
AssetAssign(c) ==
  LET a == assetCall[c].asset
      e == assetCall[c].emp
      row == [status |-> "assigned", to |-> e]
  IN /\ assetCall[c].pc = "assign"
     /\ Writes(c, a, row)
     /\ held' = [held EXCEPT ![a][e] = @ + 1]
     /\ told' = [told EXCEPT ![a] = row]
     /\ untold' = untold \ {a}
     /\ assetCall' = [assetCall EXCEPT ![c] = AssetIdle]
     /\ UNCHANGED <<assetOps, offboarded>>

AssetUnassignRead(c, a) ==
  /\ asset[a].to # Nobody
  /\ Reads(c, "unassign", a, Nobody)

\* Mutant: the event is left out of the transaction and forgotten.
AssetUnassignSilent(c) ==
  LET a == assetCall[c].asset
  IN /\ assetCall[c].pc = "unassign"
     /\ Writes(c, a, InStock)
     /\ held' = [held EXCEPT ![a] = NoneHeld]
     /\ untold' = untold \ {a}
     /\ assetCall' = [assetCall EXCEPT ![c] = AssetIdle]
     /\ UNCHANGED <<told, assetOps, offboarded>>

\* unassign: the row, every open assignment of the asset, and the event
AssetUnassign(c) ==
  LET a == assetCall[c].asset
  IN /\ assetCall[c].pc = "unassign"
     /\ Writes(c, a, InStock)
     /\ held' = [held EXCEPT ![a] = NoneHeld]
     /\ told' = [told EXCEPT ![a] = InStock]
     /\ untold' = untold \ {a}
     /\ assetCall' = [assetCall EXCEPT ![c] = AssetIdle]
     /\ UNCHANGED <<assetOps, offboarded>>

\* Mutant: an assigned asset can be retired.
AssetRetireReadAny(c, a) ==
  /\ asset[a].status \notin {"none", "retired"}
  /\ Reads(c, "retire", a, Nobody)

\* retire: refused for a retired or an assigned asset
AssetRetireRead(c, a) ==
  /\ asset[a].status \notin {"none", "retired", "assigned"}
  /\ Reads(c, "retire", a, Nobody)

\* Mutant: a status that the enum of the column does not have.
AssetRetireBadEnum(c) ==
  LET a == assetCall[c].asset
  IN /\ assetCall[c].pc = "retire"
     /\ Writes(c, a, [status |-> "disposed", to |-> Nobody])
     /\ untold' = untold \cup {a}
     /\ assetCall' = [assetCall EXCEPT ![c].pc = "announce"]
     /\ UNCHANGED <<held, told, assetOps, offboarded>>

\* retire: the UPDATE; assignment rows are left alone
AssetRetire(c) ==
  LET a == assetCall[c].asset
  IN /\ assetCall[c].pc = "retire"
     /\ Writes(c, a, [status |-> "retired", to |-> Nobody])
     /\ untold' = untold \cup {a}
     /\ assetCall' = [assetCall EXCEPT ![c].pc = "announce"]
     /\ UNCHANGED <<held, told, assetOps, offboarded>>

\* retire: the event, in a second transaction
AssetRetireEvent(c) ==
  LET a == assetCall[c].asset
      row == [status |-> "retired", to |-> Nobody]
  IN /\ assetCall[c].pc = "announce"
     /\ told' = [told EXCEPT ![a] = row]
     /\ untold' = IF asset[a] = row THEN untold \ {a} ELSE untold \cup {a}
     /\ assetCall' = [assetCall EXCEPT ![c] = AssetIdle]
     /\ UNCHANGED <<asset, held, assetOps, offboarded, behind, crossed>>

\* A request ends early: a statement fails or the process dies.
AssetCallFails(c) ==
  /\ assetCall[c] # AssetIdle
  /\ assetCall' = [assetCall EXCEPT ![c] = AssetIdle]
  /\ behind' = behind \ {c}
  /\ UNCHANGED <<asset, held, told, assetOps, offboarded, crossed, untold>>

\* OffboardingTypeDef.onApprove: the employee's open rows are closed and their
\* assets put in stock, without an event and with assigned_to as it was.
Offboard(e) ==
  LET back == {a \in Asset : held[a][e] > 0}
  IN /\ AssetOp
     /\ offboarded' = offboarded \cup {e}
     /\ held' = [a \in Asset |-> [held[a] EXCEPT ![e] = 0]]
     /\ asset' = [a \in Asset |->
                    IF a \in back THEN [asset[a] EXCEPT !.status = "in_stock"]
                    ELSE asset[a]]
     /\ untold' = untold \cup back
     /\ behind' = behind \cup Reading(back)
     /\ UNCHANGED <<told, assetCall, crossed>>

AssetCallStep(c) ==
  \/ \E a \in Asset, e \in Staff : AssetAssignRead(c, a, e)
  \/ \E a \in Asset : AssetUnassignRead(c, a) \/ AssetRetireRead(c, a)
  \/ AssetAssign(c) \/ AssetUnassign(c)
  \/ AssetRetire(c) \/ AssetRetireEvent(c)
  \/ AssetCallFails(c)

AssetNext ==
  \/ \E a \in Asset : CreateAsset(a)
  \/ \E e \in Staff : Offboard(e)
  \/ \E c \in AssetCall : AssetCallStep(c)

AssetSpec == AssetInit /\ [][AssetNext]_assetVars

-----------------------------------------------------------------------------
\* The shapes of the two tables, of the events and of a request (assets.ts).
AssetsTypeOK ==
  /\ asset \in [Asset -> AssetRow]
  /\ held \in [Asset -> [Staff -> Nat]]
  /\ told \in [Asset -> AssetRow]
  /\ assetCall \in [AssetCall -> AssetCallType]
  /\ assetOps \in Nat
  /\ offboarded \subseteq Staff
  /\ behind \subseteq AssetCall
  /\ crossed \subseteq Asset /\ untold \subseteq Asset

\* Whatever overlaps: an asset marked as assigned names an employee, and that
\* employee has an open assignment row for it.
HolderHasRow ==
  \A a \in Asset :
    asset[a].status = "assigned" =>
      asset[a].to \in Staff /\ held[a][asset[a].to] > 0

\* An asset no overlapping request has touched has one open row when it is
\* assigned and none otherwise, retired assets included; and it names an
\* employee out of stock only if that employee was offboarded
\* (asset.service.ts:60-148, offboarding.type-def.ts:82-97).
BooksMatchShelf ==
  \A a \in Asset \ crossed :
    /\ OpenRows(a) = IF asset[a].status = "assigned" THEN {asset[a].to} ELSE {}
    /\ \A e \in Staff : held[a][e] <= 1
    /\ asset[a].to \in offboarded \cup {Nobody} \/ asset[a].status = "assigned"

\* The latest event of an asset tells its state, unless its row was changed
\* without one: by an offboarding, or by a retirement whose event is yet to
\* come, was lost with its request or arrived after a later change.
EventsTellState ==
  \A a \in Asset \ untold :
    asset[a].status # "none" => told[a] = asset[a]

\* What the asset pages show can be relied on: the holder has a row, the rows
\* match the asset, and the event stream tells its state (asset.service.ts).
AssetBooks == HolderHasRow /\ BooksMatchShelf /\ EventsTellState
=============================================================================
