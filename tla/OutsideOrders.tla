---------------------------- MODULE OutsideOrders ----------------------------
(***************************************************************************)
(* Orders that are carried out of the house and the tableware that goes    *)
(* with them (src/outside-orders/outside-orders.service.ts, the materials  *)
(* of src/inventory/inventory.service.ts).  One kind of material; requests *)
(* come one at a time.                                                     *)
(***************************************************************************)
EXTENDS Integers, FiniteSets, FiniteSetsExt

CONSTANTS Outside,   \* ids of outside_orders
          Issues,    \* ids of order_material_issues
          MaxQty     \* bound: pieces of an issue, and counted on a shelf

(* What the constants are.                                                 *)
OutsideAssumption == MaxQty \in Nat \ {0} /\ IsFiniteSet(Issues)

VARIABLES
  outside,   \* outside_orders
  issue,     \* order_material_issues, each with its one line
  material,  \* inventory_materials.status
  balance,   \* inventory_material_balances, with whether there is a row
  owned,     \* history: pieces counted, in the house or out, and lost
  lapse      \* history: audited out of turn, or issued from no balance

vars == <<outside, issue, material, balance, owned, lapse>>
-----------------------------------------------------------------------------
NoRow == [status |-> "NONE"]
Outstanding == {"ISSUED", "RETURNED", "DISPUTED"}
OutsideOrder == {NoRow} \cup [status : {"OPEN", "CLOSED"}, mustReturn : BOOLEAN, ordered : BOOLEAN]
Issue == {NoRow} \cup
  [status : Outstanding \cup {"APPROVED"}, outside : Outside,
   qty : 1..MaxQty, back : 0..MaxQty, short : 0..MaxQty]
Balance == [row : BOOLEAN, onHand : Int, out : Int, lost : Int]

(* The tables hold rows of their types.                                    *)
TypeOK ==
  /\ outside \in [Outside -> OutsideOrder] /\ issue \in [Issues -> Issue]
  /\ material \in {"NONE", "ACTIVE", "ARCHIVED"}
  /\ balance \in Balance
  /\ owned \in Int /\ lapse \in BOOLEAN

Init ==
  /\ outside = [x \in Outside |-> NoRow] /\ issue = [i \in Issues |-> NoRow]
  /\ material = "NONE" /\ balance = [row |-> FALSE, onHand |-> 0, out |-> 0, lost |-> 0]
  /\ owned = 0 /\ lapse = FALSE

Kept == UNCHANGED <<material, balance, owned, lapse>>
(* A balance changes only where there is a row.                            *)
Booked(onHand, out, lost) ==
  balance' = IF balance.row
             THEN [balance EXCEPT !.onHand = @ + onHand, !.out = @ + out, !.lost = @ + lost]
             ELSE balance
-----------------------------------------------------------------------------
CreateOutsideOrder(x, mustReturn) ==
  /\ outside[x] = NoRow
  /\ outside' = [outside EXCEPT ![x] = [status |-> "OPEN", mustReturn |-> mustReturn, ordered |-> FALSE]]
  /\ Kept /\ UNCHANGED issue
(* updateOutsideOrder takes any status, CLOSED too.                        *)
UpdateOutsideOrder(x, status) ==
  /\ outside[x].status = "OPEN"
  /\ outside' = [outside EXCEPT ![x].status = status]
  /\ Kept /\ UNCHANGED issue
(* OrdersService.confirmOrder of an outside order.                         *)
ConfirmOrder(x) ==
  /\ outside[x].status = "OPEN"
  /\ outside' = [outside EXCEPT ![x].ordered = TRUE]
  /\ Kept /\ UNCHANGED issue
MaterialsBack(x) ==
  \A i \in Issues : issue[i] # NoRow /\ issue[i].outside = x => issue[i].status \notin Outstanding
CloseOutsideOrder(x) ==
  /\ outside[x].status = "OPEN"
  /\ outside[x].mustReturn => MaterialsBack(x)
  /\ outside' = [outside EXCEPT ![x].status = "CLOSED"]
  /\ Kept /\ UNCHANGED issue

(* issueMaterials: any existing order will do, and what is on the shelf is *)
(* not asked for.                                                          *)
IssueMaterials(i, x, qty) ==
  /\ issue[i] = NoRow /\ outside[x] # NoRow /\ outside[x].ordered /\ material # "NONE"
  /\ issue' = [issue EXCEPT ![i] =
       [status |-> "ISSUED", outside |-> x, qty |-> qty, back |-> 0, short |-> 0]]
  /\ Booked(-qty, qty, 0)
  /\ lapse' = (lapse \/ ~balance.row)
  /\ UNCHANGED <<outside, material, owned>>

ReturnMaterials(i, n) ==
  /\ issue[i].status \in Outstanding
  /\ LET back == IF n < issue[i].qty THEN n ELSE issue[i].qty IN
       issue' = [issue EXCEPT ![i].status = "RETURNED", ![i].back = back,
                              ![i].short = issue[i].qty - back]
  /\ Kept /\ UNCHANGED outside

(* auditMaterialIssue asks for no status of the issue.                     *)
Dispute(i) ==
  /\ issue[i] # NoRow
  /\ issue' = [issue EXCEPT ![i].status = "DISPUTED"]
  /\ lapse' = (lapse \/ issue[i].status # "RETURNED")
  /\ UNCHANGED <<outside, material, balance, owned>>
(* Mutant: what did not come back is not written off.                      *)
WrittenOffNothing(i) == 0
WrittenOff(i) == issue[i].short
Approve(i) ==
  /\ issue[i] # NoRow
  /\ issue' = [issue EXCEPT ![i].status = "APPROVED"]
  /\ Booked(issue[i].back, -issue[i].qty, WrittenOff(i))
  /\ lapse' = (lapse \/ issue[i].status \notin {"RETURNED", "DISPUTED"})
  /\ UNCHANGED <<outside, material, owned>>
-----------------------------------------------------------------------------
CreateMaterial ==
  material = "NONE" /\ material' = "ACTIVE" /\ UNCHANGED <<outside, issue, balance, owned, lapse>>
UpdateMaterial(status) ==
  material # "NONE" /\ material' = status /\ UNCHANGED <<outside, issue, balance, owned, lapse>>
DeleteMaterial ==
  /\ material # "NONE"
  /\ \A i \in Issues : issue[i] # NoRow => issue[i].status \notin Outstanding
  /\ material' = "ARCHIVED" /\ UNCHANGED <<outside, issue, balance, owned, lapse>>
(* upsertMaterialBalance: a count sets what is on the shelf.               *)
UpsertMaterialBalance(n) ==
  /\ material # "NONE"
  /\ balance' = [balance EXCEPT !.row = TRUE, !.onHand = n]
  /\ owned' = n + balance.out + balance.lost
  /\ UNCHANGED <<outside, issue, material, lapse>>
-----------------------------------------------------------------------------
Carrying ==
  \/ \E x \in Outside :
       \/ \E mustReturn \in BOOLEAN : CreateOutsideOrder(x, mustReturn)
       \/ \E status \in {"OPEN", "CLOSED"} : UpdateOutsideOrder(x, status)
       \/ ConfirmOrder(x) \/ CloseOutsideOrder(x)
       \/ \E i \in Issues, qty \in 1..MaxQty : IssueMaterials(i, x, qty)
  \/ \E i \in Issues : Dispute(i) \/ Approve(i) \/ \E n \in 0..MaxQty : ReturnMaterials(i, n)
Shelving ==
  \/ CreateMaterial \/ DeleteMaterial
  \/ \E status \in {"ACTIVE", "ARCHIVED"} : UpdateMaterial(status)
  \/ \E n \in 0..MaxQty : UpsertMaterialBalance(n)
(* Bound: nothing is asked of the stock after a lapse.                     *)
Next == ~lapse /\ (Carrying \/ Shelving)
Spec == Init /\ [][Next]_vars
-----------------------------------------------------------------------------
(* Every piece is on the shelf, out with an order or written off, and what *)
(* the balance says is out is what the outstanding issues took, as long as *)
(* the kitchen audits each issue once and after its return                 *)
(* (issueMaterials, returnMaterials, auditMaterialIssue).                  *)
MaterialsConserved ==
  ~lapse =>
    /\ balance.onHand + balance.out + balance.lost = owned
    /\ balance.out = MapThenSumSet(LAMBDA i : issue[i].qty,
                       {i \in Issues : issue[i] # NoRow /\ issue[i].status \in Outstanding})
=============================================================================
