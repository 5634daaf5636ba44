------------------------------- MODULE Accounts -------------------------------
(***************************************************************************)
(* The local accounts: application/services/users.py and the first-run     *)
(* setup of auth.py, with the endpoints of api/v1/endpoints/users.py, the  *)
(* bootstrap endpoint, and the checks of api/dependencies.py.              *)
(*                                                                         *)
(* A request reads the account that acts, the account it is about and the  *)
(* number of active administrators in one statement after another and      *)
(* commits what it changes in a last one; requests overlap.  is_active is  *)
(* written only where it differs from what the request has read of it.     *)
(*                                                                         *)
(* Passwords, sessions and tokens are left out (see Sessions), so are      *)
(* names: an account is one row, created once.                             *)
(***************************************************************************)
EXTENDS Integers, FiniteSets

CONSTANTS
  Account,         \* rows of the users table that may come to be
  Caller,          \* requests that may overlap
  MaxCalls         \* bound: requests

ASSUME AccountsAssumption == Account # {} /\ MaxCalls \in Nat

VARIABLES
  account,         \* the users table
  call,            \* each request
  crossed,         \* history: two requests were past their reads at once
  calls            \* how much of MaxCalls is used

acVars == <<account, call, crossed, calls>>

----------------------------------------------------------------------------
Role == {"administrator", "read_only"}
AccountRow == [is : {"new", "there", "deleted"}, active : BOOLEAN, role : Role]
NoAccount == [is |-> "new", active |-> FALSE, role |-> "read_only"]

(* What a request wants: the first administrator, another account, the     *)
(* account enabled, disabled or deleted.                                   *)
Wish == {"setup", "create", "enable", "disable", "delete"}
Call == [pc : {"idle", "allowed", "loaded", "checked"}, wish : Wish, actor : Account,
         subject : Account, active : BOOLEAN, role : Role]
NoCall == [pc |-> "idle", wish |-> "setup", actor |-> CHOOSE a \in Account : TRUE,
           subject |-> CHOOSE a \in Account : TRUE, active |-> FALSE, role |-> "read_only"]

There(a) == account[a].is = "there"
ActiveAdministrators ==
  {a \in Account : There(a) /\ account[a].active /\ account[a].role = "administrator"}

Reaches(r, pc) == call' = [call EXCEPT ![r].pc = pc]
Ended(r) == call' = [call EXCEPT ![r] = NoCall]

(* A request has read what it is about while another has.                  *)
Crosses(r) == crossed \/ \E q \in Caller \ {r} : call[q].pc \in {"loaded", "checked"}

----------------------------------------------------------------------------
AccountsInit ==
  /\ account = [a \in Account |-> NoAccount]
  /\ call = [r \in Caller |-> NoCall]
  /\ crossed = FALSE
  /\ calls = 0

(* POST bootstrap, and bootstrap_admin when the process starts: nobody is  *)
(* there yet.                                                              *)
SetupRequired(r, a) ==
  /\ call[r].pc = "idle"
  /\ calls < MaxCalls
  /\ calls' = calls + 1
  /\ \A b \in Account : ~There(b)
  /\ call' = [call EXCEPT ![r] = [NoCall EXCEPT !.pc = "checked", !.subject = a,
                                                !.role = "administrator"]]
  /\ crossed' = Crosses(r)
  /\ UNCHANGED account

(* get_current_user and require_administrator.                             *)
RequireAdministrator(r, actor, wish, a, role) ==
  /\ call[r].pc = "idle"
  /\ calls < MaxCalls
  /\ calls' = calls + 1
  /\ actor \in ActiveAdministrators
  /\ wish # "setup"
  /\ role # "read_only" => wish = "create"
  /\ call' = [call EXCEPT ![r] = [pc |-> "allowed", wish |-> wish, actor |-> actor,
                                  subject |-> a, active |-> FALSE, role |-> role]]
  /\ UNCHANGED <<account, crossed>>

(* get_by_username: the name is taken, or not.                             *)
NameFree(r) ==
  /\ call[r].pc = "allowed"
  /\ call[r].wish = "create"
  /\ IF There(call[r].subject) THEN Ended(r) ELSE Reaches(r, "checked")
  /\ UNCHANGED <<account, crossed, calls>>

(* Mutant: without the safeguard of the own account.                       *)
LoadsOwn(r) ==
  LET a == call[r].subject
  IN /\ call[r].pc = "allowed"
     /\ call[r].wish # "create"
     /\ IF There(a)
        THEN call' = [call EXCEPT ![r] = [@ EXCEPT !.pc = "loaded", !.active = account[a].active,
                                                   !.role = account[a].role]]
             /\ crossed' = Crosses(r)
        ELSE Ended(r) /\ UNCHANGED crossed
     /\ UNCHANGED <<account, calls>>

(* _require, and the safeguard of the own account.                         *)
Load(r) ==
  LET a == call[r].subject
  IN /\ call[r].pc = "allowed"
     /\ call[r].wish # "create"
     /\ IF There(a) /\ (a = call[r].actor => call[r].wish = "enable")
        THEN call' = [call EXCEPT ![r] = [@ EXCEPT !.pc = "loaded", !.active = account[a].active,
                                                   !.role = account[a].role]]
             /\ crossed' = Crosses(r)
        ELSE Ended(r) /\ UNCHANGED crossed
     /\ UNCHANGED <<account, calls>>

(* Mutant: the safeguard is for deletions only.                            *)
TakesByDeletion(r) ==
  call[r].wish = "delete" /\ call[r].active /\ call[r].role = "administrator"

(* The safeguard of the last active administrator.                         *)
TakesAdministrator(r) ==
  call[r].wish # "enable" /\ call[r].active /\ call[r].role = "administrator"

Safeguard(r) ==
  /\ call[r].pc = "loaded"
  /\ IF TakesAdministrator(r) /\ Cardinality(ActiveAdministrators) <= 1
     THEN Ended(r)
     ELSE Reaches(r, "checked")
  /\ UNCHANGED <<account, crossed, calls>>

(* create, for setup and for administrators: the name is unique.           *)
Create(r, active) ==
  /\ call[r].pc = "checked"
  /\ call[r].wish \in {"setup", "create"}
  /\ call[r].wish = "setup" => active
  /\ account' = [account EXCEPT ![call[r].subject] =
       IF @.is = "new" THEN [is |-> "there", active |-> active, role |-> call[r].role] ELSE @]
  /\ Ended(r)
  /\ UNCHANGED <<crossed, calls>>

(* set_active: an account deleted meanwhile is not there to be updated.    *)
(* The row is read once more before; that may give what it was at first,   *)
(* or what it is by now.                                                   *)
SetActive(r) ==
  LET active == call[r].wish = "enable"
  IN /\ call[r].pc = "checked"
     /\ call[r].wish \in {"enable", "disable"}
     /\ \E read \in {call[r].active, account[call[r].subject].active} :
          account' = [account EXCEPT ![call[r].subject] =
            IF @.is = "there" /\ read # active THEN [@ EXCEPT !.active = active] ELSE @]
     /\ Ended(r)
     /\ UNCHANGED <<crossed, calls>>

DeleteAccount(r) ==
  /\ call[r].pc = "checked"
  /\ call[r].wish = "delete"
  /\ account' = [account EXCEPT ![call[r].subject].is = "deleted"]
  /\ Ended(r)
  /\ UNCHANGED <<crossed, calls>>

(* A request breaks off, all of them if the process ends.                  *)
BreaksOff(R) ==
  /\ R # {}
  /\ \A r \in R : call[r].pc # "idle"
  /\ call' = [r \in Caller |-> IF r \in R THEN NoCall ELSE call[r]]
  /\ UNCHANGED <<account, crossed, calls>>

----------------------------------------------------------------------------
AccountsNext ==
  \/ \E r \in Caller, a \in Account : SetupRequired(r, a)
  \/ \E r \in Caller, actor, a \in Account, wish \in Wish, role \in Role :
       RequireAdministrator(r, actor, wish, a, role)
  \/ \E r \in Caller : NameFree(r)
  \/ \E r \in Caller : Load(r)
  \/ \E r \in Caller : Safeguard(r)
  \/ \E r \in Caller, active \in BOOLEAN : Create(r, active)
  \/ \E r \in Caller : SetActive(r)
  \/ \E r \in Caller : DeleteAccount(r)
  \/ \E R \in SUBSET Caller : BreaksOff(R)

AccountsSpec == AccountsInit /\ [][AccountsNext]_acVars

----------------------------------------------------------------------------
AccountsTyped ==
  /\ account \in [Account -> AccountRow]
  /\ call \in [Caller -> Call]
  /\ crossed \in BOOLEAN
  /\ calls \in 0 .. MaxCalls

(* The type invariant; and who is about to be disabled or deleted is not   *)
(* the one who asked for it.                                               *)
OwnAccountSafe ==
  \A r \in Caller : call[r].pc \in {"loaded", "checked"} /\ call[r].wish \in {"disable", "delete"}
                    => call[r].subject # call[r].actor
AccountsTypeOK == AccountsTyped /\ OwnAccountSafe

SetUp == \E a \in Account : account[a].is # "new"

(* docs/security.md:26, "Last-active-administrator safeguards prevent      *)
(* lockout": once there is an account, somebody can administer the         *)
(* connector, and the setup does not open again.                           *)
AdministratorRemains == SetUp => ActiveAdministrators # {}

(* ... which holds as long as no request reads the account it is about     *)
(* while another has and is not done.                                      *)
AdministratorRemainsInTurn == ~crossed => AdministratorRemains
=============================================================================
