---------------------------- MODULE ApprovalChain ----------------------------
(***************************************************************************)
(* ApprovalChain (src/core/approval/chain): one request, the users who     *)
(* decide it and the job that escalates it, each in a thread or a process  *)
(* of its own.                                                             *)
(*                                                                         *)
(* Every call reads the row, tests the copy, and writes the copy back      *)
(* whole; _lock is taken for the write only.  So a call is two steps, and  *)
(* a decision may be written over another one.  Roles are their ranks in   *)
(* ROLE_HIERARCHY.                                                         *)
(***************************************************************************)
EXTENDS Integers

CONSTANTS
  Users,          \* everyone who calls the chain
  RoleOf,         \* the rank of each user's role
  Requester,      \* request.requested_by
  Timeout         \* timeout_hours, in ticks; NoTimeout for none

Roles == -1..3    \* a role unknown, viewer, operador, gerente, admin
Admin == 3
NoTimeout == -1
Nobody == "nobody"

ASSUME UsersAssumption == Requester \in Users /\ Nobody \notin Users
ASSUME RolesAssumption == RoleOf \in [Users -> Roles]
ASSUME TimeoutAssumption == Timeout \in Nat \cup {NoTimeout}

VARIABLES
  apRow,          \* the row of approval_requests
  apCall,         \* the call each user is in, between its read and its write
  apCopy,         \* the row as each user read it
  apSweep         \* the row as check_escalations listed it

apVars == <<apRow, apCall, apCopy, apSweep>>

Decided == {"approved", "rejected", "cancelled", "expired", "escalated"}

Rows == [status : {"none", "pending"} \cup Decided, role : Roles,
         by : Users \cup {Nobody}, due : Nat \cup {NoTimeout}]

NoRequest == [status |-> "none", role |-> 0, by |-> Nobody, due |-> NoTimeout]

ApprovalTypeOK ==
  /\ apRow \in Rows
  /\ apCall \in [Users -> {"none", "approve", "reject", "cancel"}]
  /\ apCopy \in [Users -> Rows]
  /\ apSweep \in Rows

ApprovalInit ==
  /\ apRow = NoRequest
  /\ apCall = [u \in Users |-> "none"]
  /\ apCopy = [u \in Users |-> NoRequest]
  /\ apSweep = NoRequest

-----------------------------------------------------------------------------
(* create_request; the risk routing may choose another role than the        *)
(* caller.  submit_memory_approval and check_adaptive_auto_approve create a *)
(* request and approve it as its requester, which is refused: they leave a  *)
(* pending request. *)
CreateRequest(role) ==
  /\ apRow.status = "none"
  /\ apRow' = [status |-> "pending", role |-> role, by |-> Nobody, due |-> Timeout]
  /\ UNCHANGED <<apCall, apCopy, apSweep>>

(* Fault: anyone may approve. *)
MayApproveAny(u, row) == u # Requester

(* approve: the role suffices and the request is not the user's own. *)
MayApprove(u, row) == RoleOf[u] >= row.role /\ u # Requester

(* The tests of approve, reject and cancel; reject asks for no role. *)
MayCall(u, call, row) ==
  /\ row.status = "pending"
  /\ call = "approve" => MayApprove(u, row)
  /\ call = "cancel" => u = Requester

(* get_request and the tests.  A call that is refused changes nothing. *)
Begin(u, call) ==
  /\ apCall[u] = "none"
  /\ MayCall(u, call, apRow)
  /\ apCall' = [apCall EXCEPT ![u] = call]
  /\ apCopy' = [apCopy EXCEPT ![u] = apRow]
  /\ UNCHANGED <<apRow, apSweep>>

Result(u, call, row) ==
  CASE call = "approve" -> [row EXCEPT !.status = "approved", !.by = u]
    [] call = "reject" -> [row EXCEPT !.status = "rejected", !.by = u]
    [] call = "cancel" -> [row EXCEPT !.status = "cancelled"]

(* update_request: every column that may change is written, whatever the    *)
(* row has become, or an error of the database is logged and forgotten. *)
UpdateRequest(row) == apRow' = row \/ UNCHANGED apRow

(* update_request and the answer, which is a success in any case. *)
End(u) ==
  /\ apCall[u] # "none"
  /\ UpdateRequest(Result(u, apCall[u], apCopy[u]))
  /\ apCall' = [apCall EXCEPT ![u] = "none"]
  /\ apCopy' = [apCopy EXCEPT ![u] = NoRequest]
  /\ UNCHANGED apSweep

(* check_escalations, first part: list_expired. *)
ListExpired ==
  /\ apSweep.status = "none"
  /\ apRow.status = "pending" /\ apRow.due = 0
  /\ apSweep' = apRow
  /\ UNCHANGED <<apRow, apCall, apCopy>>

(* role_escalation.get(role, "admin") *)
NextRole(role) == IF role \in 0..2 THEN role + 1 ELSE Admin

(* Fault: the request stays pending under its new role. *)
EscalatedPending(row) ==
  IF row.role = Admin THEN [row EXCEPT !.status = "expired"]
  ELSE [row EXCEPT !.role = NextRole(row.role)]

(* The new expiry of an escalated request is left out: nothing looks for    *)
(* the expiry of a request that is not pending. *)
Escalated(row) ==
  IF row.role = Admin THEN [row EXCEPT !.status = "expired"]
  ELSE [row EXCEPT !.role = NextRole(row.role), !.status = "escalated"]

(* check_escalations, second part. *)
Escalate ==
  /\ apSweep.status # "none"
  /\ UpdateRequest(Escalated(apSweep))
  /\ apSweep' = NoRequest
  /\ UNCHANGED <<apCall, apCopy>>

Hour ==
  /\ apRow.due > 0
  /\ apRow' = [apRow EXCEPT !.due = @ - 1]
  /\ apCopy' = [u \in Users |-> [apCopy[u] EXCEPT !.due = IF @ > 0 THEN @ - 1 ELSE @]]
  /\ UNCHANGED <<apCall, apSweep>>

Decide(u) == End(u) \/ \E call \in {"approve", "reject", "cancel"} : Begin(u, call)

ApprovalNext ==
  \/ \E role \in Roles : CreateRequest(role)
  \/ \E u \in Users : Decide(u)
  \/ ListExpired \/ Escalate \/ Hour

ApprovalSpec == ApprovalInit /\ [][ApprovalNext]_apVars

-----------------------------------------------------------------------------
(* Properties *)

(* An approved row was approved by somebody else than its requester, with   *)
(* the role that the row asks for, whatever escalations and decisions were  *)
(* written over one another in between.                                     *)
ApprovedByAuthority ==
  apRow.status = "approved" =>
    apRow.by \in Users \ {Requester} /\ RoleOf[apRow.by] >= apRow.role

(* No stale copy takes a request that was decided or escalated back to      *)
(* pending, where it could be decided again.                                *)
NeverReopened == [][apRow.status \in Decided => apRow'.status # "pending"]_apVars
=============================================================================
