------------------------------ MODULE UserProofs ------------------------------
(* Of the accounts: that an administrator remains while no two requests    *)
(* cross.  Of their sessions: that revocations reach the sessions they are *)
(* for and that one session replaces another.  For any number of accounts, *)
(* sessions and requests.                                                  *)
EXTENDS Accounts, Sessions, FiniteSetTheorems, TLAPS

LEMMA NoCallTyped == NoCall \in Call
BY AccountsAssumption DEF NoCall, Call, Wish, Role

(* A refused, finished or broken off request leaves a typed table.         *)
LEMMA EndedTyped ==
  ASSUME call \in [Caller -> Call], NEW r \in Caller, Ended(r)
  PROVE  call' \in [Caller -> Call]
BY NoCallTyped DEF Ended

LEMMA ReachesTyped ==
  ASSUME call \in [Caller -> Call], NEW r \in Caller, NEW pc \in {"loaded", "checked"},
         Reaches(r, pc)
  PROVE  call' \in [Caller -> Call]
<1>1. [call[r] EXCEPT !.pc = pc] \in Call
  BY DEF Call
<1> QED BY <1>1 DEF Reaches

LEMMA AccountsTypeStep ==
  ASSUME AccountsTyped, [AccountsNext]_acVars
  PROVE  AccountsTyped'
<1> USE DEF AccountsTyped
<1>1. CASE UNCHANGED acVars
  BY <1>1 DEF acVars
<1>2. ASSUME NEW r \in Caller, NEW a \in Account, SetupRequired(r, a)
      PROVE  AccountsTyped'
  <2>1. [NoCall EXCEPT !.pc = "checked", !.subject = a, !.role = "administrator"] \in Call
    BY NoCallTyped DEF Call, Role
  <2>2. call' \in [Caller -> Call]
    BY <1>2, <2>1 DEF SetupRequired
  <2> QED BY <1>2, <2>2, AccountsAssumption DEF SetupRequired, Crosses
<1>3. ASSUME NEW r \in Caller, NEW actor \in Account, NEW a \in Account, NEW wish \in Wish,
             NEW role \in Role, RequireAdministrator(r, actor, wish, a, role)
      PROVE  AccountsTyped'
  <2>1. call' \in [Caller -> Call]
    BY <1>3 DEF RequireAdministrator, Call
  <2> QED BY <1>3, <2>1, AccountsAssumption DEF RequireAdministrator
<1>4. ASSUME NEW r \in Caller, NameFree(r)
      PROVE  AccountsTyped'
  BY <1>4, EndedTyped, ReachesTyped DEF NameFree
<1>5. ASSUME NEW r \in Caller, Load(r)
      PROVE  AccountsTyped'
  <2> DEFINE a == call[r].subject
             loaded == [call[r] EXCEPT !.pc = "loaded", !.active = account[a].active,
                                       !.role = account[a].role]
  <2>1. a \in Account /\ account[a] \in AccountRow
    BY DEF Call
  <2>2. loaded \in Call
    BY <2>1 DEF Call, AccountRow
  <2>3. call' \in [Caller -> Call]
    <3>1. CASE call' = [call EXCEPT ![r] = loaded]
      BY <2>2, <3>1
    <3>2. CASE Ended(r)
      BY <3>2, EndedTyped
    <3> QED BY <1>5, <3>1, <3>2 DEF Load
  <2> QED BY <1>5, <2>3 DEF Load, Crosses
<1>6. ASSUME NEW r \in Caller, Safeguard(r)
      PROVE  AccountsTyped'
  BY <1>6, EndedTyped, ReachesTyped DEF Safeguard
<1>7. ASSUME NEW r \in Caller, NEW active \in BOOLEAN, Create(r, active)
      PROVE  AccountsTyped'
  <2>1. call[r].role \in Role
    BY DEF Call
  <2>2. [is |-> "there", active |-> active, role |-> call[r].role] \in AccountRow
    BY <2>1 DEF AccountRow
  <2> QED BY <1>7, <2>2, EndedTyped DEF Create
<1>8. ASSUME NEW r \in Caller, SetActive(r)
      PROVE  AccountsTyped'
  <2>1. \A a \in Account, on \in BOOLEAN : [account[a] EXCEPT !.active = on] \in AccountRow
    BY DEF AccountRow
  <2>2. PICK read \in BOOLEAN :
          account' = [account EXCEPT ![call[r].subject] =
            IF @.is = "there" /\ read # (call[r].wish = "enable")
            THEN [@ EXCEPT !.active = (call[r].wish = "enable")] ELSE @]
    BY <1>8 DEF SetActive, Call, AccountRow
  <2>3. account' \in [Account -> AccountRow]
    BY <2>1, <2>2
  <2> QED BY <1>8, <2>3, EndedTyped DEF SetActive
<1>9. ASSUME NEW r \in Caller, DeleteAccount(r)
      PROVE  AccountsTyped'
  <2>1. \A a \in Account : [account[a] EXCEPT !.is = "deleted"] \in AccountRow
    BY DEF AccountRow
  <2> QED BY <1>9, <2>1, EndedTyped DEF DeleteAccount
<1>10. ASSUME NEW R \in SUBSET Caller, BreaksOff(R)
       PROVE  AccountsTyped'
  BY <1>10, NoCallTyped DEF BreaksOff
<1> HIDE DEF AccountsTyped
<1>11. CASE AccountsNext
  BY <1>2, <1>3, <1>4, <1>5, <1>6, <1>7, <1>8, <1>9, <1>10, <1>11 DEF AccountsNext
<1> QED BY <1>1, <1>11

(* A request has read the account it is about only if that is not its own, *)
(* or is to be enabled.                                                    *)
LEMMA OwnAccountStep ==
  ASSUME AccountsTyped, OwnAccountSafe, [AccountsNext]_acVars
  PROVE  OwnAccountSafe'
<1>0. call \in [Caller -> Call]
  BY DEF AccountsTyped
<1> DEFINE Late(c) == c.pc \in {"loaded", "checked"} /\ c.wish \in {"disable", "delete"}
           Safe(c) == Late(c) => c.subject # c.actor
<1>1. ASSUME \A r \in Caller : Safe(call'[r])
      PROVE  OwnAccountSafe'
  BY <1>1 DEF OwnAccountSafe
<1>2. \A r \in Caller : Safe(call[r])
  BY DEF OwnAccountSafe
<1>3. Safe(NoCall)
  BY DEF NoCall
<1>4. ASSUME NEW r \in Caller, Ended(r)
      PROVE  OwnAccountSafe'
  BY <1>0, <1>1, <1>2, <1>3, <1>4 DEF Ended
<1>5. ASSUME NEW r \in Caller, Reaches(r, "checked"),
             call[r].wish = "create" \/ call[r].pc = "loaded"
      PROVE  OwnAccountSafe'
  <2>1. /\ call'[r].wish = call[r].wish /\ call'[r].subject = call[r].subject
        /\ call'[r].actor = call[r].actor
        /\ \A q \in Caller : q # r => call'[q] = call[q]
    BY <1>0, <1>5 DEF Reaches
  <2>2. Safe(call'[r])
    BY <1>2, <1>5, <2>1
  <2> HIDE DEF Safe
  <2> QED BY <1>1, <1>2, <2>1, <2>2
<1>6. ASSUME NEW r \in Caller, NEW c, call' = [call EXCEPT ![r] = c], Safe(c)
      PROVE  OwnAccountSafe'
  <2> HIDE DEF Safe
  <2> QED BY <1>0, <1>1, <1>2, <1>6
<1>7. CASE UNCHANGED acVars
  BY <1>7 DEF acVars, OwnAccountSafe
<1>8. ASSUME NEW r \in Caller, NEW a \in Account, SetupRequired(r, a)
      PROVE  OwnAccountSafe'
  <2> DEFINE c == [NoCall EXCEPT !.pc = "checked", !.subject = a, !.role = "administrator"]
  <2>1. Safe(c)
    BY DEF NoCall
  <2>2. call' = [call EXCEPT ![r] = c]
    BY <1>8 DEF SetupRequired
  <2> HIDE DEF c, Safe
  <2> QED BY <1>6, <2>1, <2>2
<1>9. ASSUME NEW r \in Caller, NEW actor \in Account, NEW a \in Account, NEW wish \in Wish,
             NEW role \in Role, RequireAdministrator(r, actor, wish, a, role)
      PROVE  OwnAccountSafe'
  <2> DEFINE c == [pc |-> "allowed", wish |-> wish, actor |-> actor, subject |-> a,
                   active |-> FALSE, role |-> role]
  <2>1. call' = [call EXCEPT ![r] = c] /\ Safe(c)
    BY <1>9 DEF RequireAdministrator
  <2> HIDE DEF c, Safe
  <2> QED BY <1>6, <2>1
<1>10. ASSUME NEW r \in Caller, NameFree(r)
       PROVE  OwnAccountSafe'
  BY <1>4, <1>5, <1>10 DEF NameFree
<1>11. ASSUME NEW r \in Caller, Load(r)
       PROVE  OwnAccountSafe'
  <2> DEFINE a == call[r].subject
             c == [call[r] EXCEPT !.pc = "loaded", !.active = account[a].active,
                                  !.role = account[a].role]
  <2>1. CASE Ended(r)
    BY <1>4, <2>1
  <2>2. CASE call' = [call EXCEPT ![r] = c] /\ (a = call[r].actor => call[r].wish = "enable")
    <3>1. Safe(c)
      BY <1>0, <2>2 DEF Call
    <3>2. call' = [call EXCEPT ![r] = c]
      BY <2>2
    <3> HIDE DEF c, Safe
    <3> QED BY <1>6, <3>1, <3>2
  <2> QED BY <1>11, <2>1, <2>2 DEF Load
<1>12. ASSUME NEW r \in Caller, Safeguard(r)
       PROVE  OwnAccountSafe'
  BY <1>4, <1>5, <1>12 DEF Safeguard
<1>13. ASSUME NEW r \in Caller, SetActive(r) \/ DeleteAccount(r)
       PROVE  OwnAccountSafe'
  BY <1>4, <1>13 DEF SetActive, DeleteAccount
<1>14. ASSUME NEW r \in Caller, NEW active \in BOOLEAN, Create(r, active)
       PROVE  OwnAccountSafe'
  BY <1>4, <1>14 DEF Create
<1>15. ASSUME NEW R \in SUBSET Caller, BreaksOff(R)
       PROVE  OwnAccountSafe'
  BY <1>1, <1>2, <1>3, <1>15 DEF BreaksOff
<1>16. CASE AccountsNext
  BY <1>8, <1>9, <1>10, <1>11, <1>12, <1>13, <1>14, <1>15, <1>16 DEF AccountsNext
<1> QED BY <1>7, <1>16

(* Every variable of the accounts keeps its type, and who is about to be   *)
(* disabled or deleted did not ask for it: application/services/users.py.  *)
THEOREM AccountsTypeCorrect == AccountsSpec => []AccountsTypeOK
<1>1. AccountsInit => AccountsTyped
  <2>1. NoAccount \in AccountRow
    BY DEF NoAccount, AccountRow, Role
  <2>2. 0 \in 0 .. MaxCalls
    BY AccountsAssumption
  <2> QED BY <2>1, <2>2, NoCallTyped DEF AccountsInit, AccountsTyped
<1>2. AccountsInit => OwnAccountSafe
  BY DEF AccountsInit, OwnAccountSafe, NoCall
<1> QED BY <1>1, <1>2, AccountsTypeStep, OwnAccountStep, PTL DEF AccountsSpec, AccountsTypeOK

----------------------------------------------------------------------------
(* A request past its reads.                                               *)
Late(r) == call[r].pc \in {"loaded", "checked"}
Changes(r) == call[r].wish \in {"enable", "disable", "delete"}

(* What makes the invariant inductive: as long as requests have not        *)
(* crossed, a request past its reads that changes an account has read it   *)
(* as it is, and, past the safeguard, leaves another administrator.        *)
AsRead(r) ==
  LET a == call[r].subject
  IN There(a) /\ account[a].active = call[r].active /\ account[a].role = call[r].role
LeavesAnother(r) == \E a \in ActiveAdministrators : a # call[r].subject

InTurn ==
  /\ SetUp => ActiveAdministrators # {}
  /\ \A r, q \in Caller : r # q /\ Late(r) /\ Late(q)
                          => call[r].wish = "create" \/ call[q].wish = "create"
  /\ \A r \in Caller : Late(r) /\ Changes(r) => AsRead(r)
  /\ \A r \in Caller : call[r].pc = "checked" /\ TakesAdministrator(r) /\ Changes(r)
                       => LeavesAnother(r)

Begun ==
  \A r \in Caller :
    /\ call[r].pc # "idle" /\ call[r].wish = "setup" => call[r].role = "administrator"
    /\ call[r].pc # "idle" /\ call[r].wish # "setup" => SetUp
    /\ call[r].pc \in {"allowed", "loaded"} => call[r].wish # "setup"
    /\ call[r].pc = "loaded" => call[r].wish # "create"

----------------------------------------------------------------------------
(* Accounts are not forgotten: once one is there, setup is over.           *)
LEMMA SetUpStays ==
  ASSUME AccountsTyped, [AccountsNext]_acVars
  PROVE  SetUp => SetUp'
<1>1. ASSUME NEW r \in Caller, NEW active \in BOOLEAN, Create(r, active)
      PROVE  SetUp => SetUp'
  BY <1>1 DEF Create, SetUp, AccountsTyped
<1>2. ASSUME NEW r \in Caller, SetActive(r)
      PROVE  SetUp => SetUp'
  BY <1>2 DEF SetActive, SetUp, AccountsTyped, AccountRow
<1>3. ASSUME NEW r \in Caller, DeleteAccount(r)
      PROVE  SetUp => SetUp'
  BY <1>3 DEF DeleteAccount, SetUp, AccountsTyped, AccountRow
<1>4. CASE UNCHANGED account
  BY <1>4 DEF SetUp
<1> QED
  BY <1>1, <1>2, <1>3, <1>4
  DEF AccountsNext, acVars, SetupRequired, RequireAdministrator, NameFree, Load, Safeguard,
      BreaksOff

LEMMA BegunStep ==
  ASSUME AccountsTyped, Begun, [AccountsNext]_acVars
  PROVE  Begun'
<1>0. SetUp => SetUp'
  BY SetUpStays
<1>1. CASE UNCHANGED acVars
  BY <1>1, <1>0 DEF acVars, Begun
<1>2. ASSUME NEW r \in Caller, NEW a \in Account, SetupRequired(r, a)
      PROVE  Begun'
  <2>1. call' = [call EXCEPT ![r] = [NoCall EXCEPT !.pc = "checked", !.subject = a,
                                                   !.role = "administrator"]]
    BY <1>2 DEF SetupRequired
  <2>2. call'[r].pc = "checked" /\ call'[r].wish = "setup" /\ call'[r].role = "administrator"
    BY <2>1 DEF AccountsTyped, NoCall
  <2> QED BY <2>1, <2>2, <1>0 DEF Begun, AccountsTyped
<1>3. ASSUME NEW r \in Caller, NEW actor \in Account, NEW a \in Account, NEW wish \in Wish,
             NEW role \in Role, RequireAdministrator(r, actor, wish, a, role)
      PROVE  Begun'
  <2>1. SetUp
    BY <1>3 DEF RequireAdministrator, ActiveAdministrators, There, SetUp
  <2> QED BY <1>3, <2>1, <1>0 DEF RequireAdministrator, Begun, AccountsTyped
<1>4. ASSUME NEW r \in Caller, NameFree(r)
      PROVE  Begun'
  BY <1>4, <1>0 DEF NameFree, Begun, AccountsTyped, Ended, Reaches, NoCall, Call
<1>5. ASSUME NEW r \in Caller, Load(r)
      PROVE  Begun'
  <2>1. CASE Ended(r)
    BY <1>5, <2>1, <1>0 DEF Begun, AccountsTyped, Ended, NoCall, Call
  <2>2. CASE ~Ended(r)
    BY <1>5, <2>2, <1>0 DEF Load, Begun, AccountsTyped, Call
  <2> QED BY <2>1, <2>2
<1>6. ASSUME NEW r \in Caller, Safeguard(r)
      PROVE  Begun'
  BY <1>6, <1>0 DEF Safeguard, Begun, AccountsTyped, Ended, Reaches, NoCall, Call
<1>7. ASSUME NEW r \in Caller, Ended(r)
      PROVE  Begun'
  BY <1>7, <1>0 DEF Begun, AccountsTyped, Ended, NoCall
<1>8. ASSUME NEW R \in SUBSET Caller, BreaksOff(R)
      PROVE  Begun'
  BY <1>8, <1>0 DEF BreaksOff, Begun, AccountsTyped, NoCall
<1>9. CASE AccountsNext
  BY <1>9, <1>2, <1>3, <1>4, <1>5, <1>6, <1>7, <1>8
  DEF AccountsNext, Create, SetActive, DeleteAccount
<1> QED BY <1>1, <1>9

----------------------------------------------------------------------------
(* More than one active administrator is one beside any account.           *)
LEMMA Another ==
  ASSUME NEW s, ~(Cardinality(ActiveAdministrators) <= 1)
  PROVE  \E a \in ActiveAdministrators : a # s
<1> SUFFICES ASSUME \A a \in ActiveAdministrators : a = s
             PROVE  FALSE
  OBVIOUS
<1>1. CASE ActiveAdministrators = {}
  BY <1>1, FS_EmptySet
<1>2. CASE ActiveAdministrators = {s}
  <2>1. Cardinality({s}) = 1
    BY FS_Singleton
  <2> QED BY <1>2, <2>1
<1> QED BY <1>1, <1>2

(* What a step that leaves the accounts as they are must keep.             *)
LEMMA InTurnKept ==
  ASSUME AccountsTyped, InTurn, UNCHANGED account,
         \A r, q \in Caller : r # q /\ Late(r)' /\ Late(q)'
                             => call'[r].wish = "create" \/ call'[q].wish = "create",
         \A r \in Caller : Late(r)' /\ Changes(r)' => AsRead(r)',
         \A r \in Caller : call'[r].pc = "checked" /\ TakesAdministrator(r)' /\ Changes(r)'
                          => LeavesAnother(r)'
  PROVE  InTurn'
<1>1. SetUp' = SetUp /\ ActiveAdministrators' = ActiveAdministrators
  BY DEF SetUp, ActiveAdministrators, There
<1>2. SetUp' => ActiveAdministrators' # {}
  BY <1>1 DEF InTurn
<1> QED BY <1>2 DEF InTurn

(* A request that ends, or does not pass its reads, disturbs nothing.      *)
LEMMA Withdraws ==
  ASSUME AccountsTyped, InTurn, UNCHANGED account,
         \A q \in Caller : call'[q] = call[q] \/ ~Late(q)'
  PROVE  InTurn'
<1>1. \A q \in Caller : Late(q)' => call'[q] = call[q]
  OBVIOUS
<1>2. \A q \in Caller : call'[q].pc = "checked" => Late(q)'
  BY DEF Late
<1> QED
  BY <1>1, <1>2, InTurnKept
  DEF InTurn, Late, Changes, AsRead, TakesAdministrator, LeavesAnother, ActiveAdministrators,
      There

(* A request that passes its reads disturbs nothing if it is the only one, *)
(* or creates.                                                             *)
LEMMA Passes ==
  ASSUME AccountsTyped, InTurn, UNCHANGED account,
         NEW r \in Caller, \A q \in Caller \ {r} : call'[q] = call[q],
         \A q \in Caller \ {r} : Late(q) => call'[r].wish = "create",
         Changes(r)' => AsRead(r)',
         call'[r].pc = "checked" /\ TakesAdministrator(r)' /\ Changes(r)' => LeavesAnother(r)'
  PROVE  InTurn'
<1>1. \A q \in Caller \ {r} : Late(q)' <=> Late(q)
  BY DEF Late
<1>2. \A p, q \in Caller : p # q /\ Late(p)' /\ Late(q)'
                          => call'[p].wish = "create" \/ call'[q].wish = "create"
  BY <1>1 DEF InTurn
<1>3. \A q \in Caller : Late(q)' /\ Changes(q)' => AsRead(q)'
  BY <1>1 DEF InTurn, Changes, AsRead, There
<1>4. \A q \in Caller : call'[q].pc = "checked" /\ TakesAdministrator(q)' /\ Changes(q)'
                       => LeavesAnother(q)'
  BY DEF InTurn, Changes, TakesAdministrator, LeavesAnother, ActiveAdministrators, There
<1> QED BY <1>2, <1>3, <1>4, InTurnKept

(* A request that stores is the only one that changes an account past its  *)
(* reads, so that those that create are all that goes on beside it.        *)
LEMMA Stores ==
  ASSUME AccountsTyped, InTurn, NEW r \in Caller, Late(r), call[r].wish # "create", Ended(r),
         SetUp' => ActiveAdministrators' # {}
  PROVE  InTurn'
<1>1. \A q \in Caller \ {r} : call'[q] = call[q]
  BY DEF Ended, AccountsTyped
<1>2. call'[r].pc = "idle"
  BY DEF Ended, AccountsTyped, NoCall
<1>3. \A q \in Caller : Late(q)' => call'[q].wish = "create"
  BY <1>1, <1>2 DEF InTurn, Late
<1>4. \A q \in Caller : ~(Late(q)' /\ Changes(q)')
  BY <1>3 DEF Changes
<1>5. \A q \in Caller : call'[q].pc = "checked" => Late(q)'
  BY DEF Late
<1> QED BY <1>3, <1>4, <1>5 DEF InTurn

LEMMA InTurnStep ==
  ASSUME AccountsTyped, Begun, ~crossed => InTurn, [AccountsNext]_acVars, ~crossed'
  PROVE  InTurn'
<1>1. CASE UNCHANGED acVars
  BY <1>1, Withdraws DEF acVars
<1>2. ASSUME NEW r \in Caller, NEW a \in Account, SetupRequired(r, a)
      PROVE  InTurn'
  <2>1. ~crossed /\ InTurn /\ \A q \in Caller \ {r} : ~Late(q)
    BY <1>2 DEF SetupRequired, Crosses, Late
  <2>2. call'[r].wish = "setup"
    BY <1>2 DEF SetupRequired, AccountsTyped, NoCall
  <2>3. ~Changes(r)'
    BY <2>2 DEF Changes
  <2> QED BY <1>2, <2>1, <2>3, Passes DEF SetupRequired, AccountsTyped
<1>3. ASSUME NEW r \in Caller, NEW actor \in Account, NEW a \in Account, NEW wish \in Wish,
             NEW role \in Role, RequireAdministrator(r, actor, wish, a, role)
      PROVE  InTurn'
  <2>1. \A q \in Caller : call'[q] = call[q] \/ ~Late(q)'
    BY <1>3 DEF RequireAdministrator, AccountsTyped, Late
  <2> QED BY <1>3, <2>1, Withdraws DEF RequireAdministrator
<1>4. ASSUME NEW r \in Caller, Ended(r), UNCHANGED <<account, crossed>>
      PROVE  InTurn'
  <2>1. \A q \in Caller : call'[q] = call[q] \/ ~Late(q)'
    BY <1>4 DEF Ended, AccountsTyped, NoCall, Late
  <2> QED BY <1>4, <2>1, Withdraws
<1>5. ASSUME NEW r \in Caller, NameFree(r)
      PROVE  InTurn'
  <2>1. CASE Ended(r)
    BY <1>4, <1>5, <2>1 DEF NameFree
  <2>2. CASE Reaches(r, "checked")
    <3>1. call'[r].wish = "create" /\ \A q \in Caller \ {r} : call'[q] = call[q]
      BY <1>5, <2>2 DEF NameFree, Reaches, AccountsTyped, Call
    <3>2. ~Changes(r)'
      BY <3>1 DEF Changes
    <3> QED BY <1>5, <3>1, <3>2, Passes DEF NameFree
  <2> QED BY <1>5, <2>1, <2>2 DEF NameFree
<1>6. ASSUME NEW r \in Caller, Load(r)
      PROVE  InTurn'
  <2> DEFINE a == call[r].subject
  <2>1. CASE Ended(r) /\ UNCHANGED crossed
    BY <1>4, <1>6, <2>1 DEF Load
  <2>2. CASE /\ There(a)
             /\ call' = [call EXCEPT ![r] = [@ EXCEPT !.pc = "loaded", !.role = account[a].role,
                                                      !.active = account[a].active]]
             /\ crossed' = Crosses(r)
    <3>1. ~crossed /\ InTurn /\ \A q \in Caller \ {r} : ~Late(q)
      BY <2>2 DEF Crosses, Late
    <3>2. /\ call'[r].pc = "loaded" /\ call'[r].subject = a
          /\ call'[r].active = account[a].active /\ call'[r].role = account[a].role
          /\ \A q \in Caller \ {r} : call'[q] = call[q]
      BY <2>2 DEF AccountsTyped, Call
    <3>3. AsRead(r)'
      BY <1>6, <2>2, <3>2 DEF Load, AsRead, There
    <3> QED BY <1>6, <3>1, <3>2, <3>3, Passes DEF Load
  <2> QED BY <1>6, <2>1, <2>2 DEF Load
<1>7. ASSUME NEW r \in Caller, Safeguard(r)
      PROVE  InTurn'
  <2>1. CASE Ended(r)
    BY <1>4, <1>7, <2>1 DEF Safeguard
  <2>2. CASE Reaches(r, "checked") /\ (TakesAdministrator(r)
                                      => ~(Cardinality(ActiveAdministrators) <= 1))
    <3>1. InTurn /\ Late(r) /\ call[r].wish # "create" /\ call[r].wish # "setup"
      BY <1>7 DEF Safeguard, Late, Begun
    <3>2. /\ call'[r].pc = "checked" /\ call'[r].wish = call[r].wish
          /\ call'[r].subject = call[r].subject /\ call'[r].active = call[r].active
          /\ call'[r].role = call[r].role
          /\ \A q \in Caller \ {r} : call'[q] = call[q]
      BY <2>2 DEF Reaches, AccountsTyped, Call
    <3>3. AsRead(r)
      BY <3>1 DEF InTurn, Changes, AccountsTyped, Call, Wish
    <3>4. UNCHANGED account
      BY <1>7 DEF Safeguard
    <3>5. AsRead(r)'
      BY <3>2, <3>3, <3>4 DEF AsRead, There
    <3>6. TakesAdministrator(r) => LeavesAnother(r)
      BY <2>2, Another DEF LeavesAnother
    <3>7. TakesAdministrator(r)' => LeavesAnother(r)'
      BY <3>2, <3>4, <3>6 DEF TakesAdministrator, LeavesAnother, ActiveAdministrators, There
    <3>8. \A p, q \in Caller : p # q /\ Late(p)' /\ Late(q)'
                              => call'[p].wish = "create" \/ call'[q].wish = "create"
      BY <3>1, <3>2 DEF InTurn, Late
    <3>9. \A q \in Caller : Late(q)' /\ Changes(q)' => AsRead(q)'
      BY <3>1, <3>2, <3>4, <3>5 DEF InTurn, Late, Changes, AsRead, There
    <3>10. \A q \in Caller : call'[q].pc = "checked" /\ TakesAdministrator(q)' /\ Changes(q)'
                           => LeavesAnother(q)'
      BY <3>1, <3>2, <3>4, <3>7
      DEF InTurn, Changes, TakesAdministrator, LeavesAnother, ActiveAdministrators, There
    <3> QED BY <3>1, <3>4, <3>8, <3>9, <3>10, InTurnKept
  <2> QED BY <1>7, <2>1, <2>2 DEF Safeguard
<1>8. ASSUME NEW r \in Caller, NEW active \in BOOLEAN, Create(r, active)
      PROVE  InTurn'
  <2> DEFINE a == call[r].subject
  <2>1. /\ InTurn /\ Late(r) /\ a \in Account /\ Ended(r)
        /\ call[r].wish = "setup" => active /\ call[r].role = "administrator"
        /\ call[r].wish \in {"setup", "create"}
    BY <1>8 DEF Create, Late, Begun, AccountsTyped, Call
  <2>2. \A b \in Account : There(b) => account'[b] = account[b]
    BY <1>8 DEF Create, There, AccountsTyped
  <2>3. ActiveAdministrators \subseteq ActiveAdministrators'
    BY <2>2 DEF ActiveAdministrators, There
  <2>4. CASE call[r].wish = "setup"
    <3>1. CASE SetUp
      BY <2>1, <2>3, <2>4, <3>1, Stores DEF InTurn
    <3>2. CASE ~SetUp
      <4>1. account'[a] = [is |-> "there", active |-> active, role |-> call[r].role]
        BY <1>8, <2>1, <3>2 DEF Create, SetUp, AccountsTyped
      <4>2. a \in ActiveAdministrators'
        BY <2>1, <2>4, <4>1 DEF ActiveAdministrators, There
      <4> QED BY <2>1, <2>4, <4>2, Stores
    <3> QED BY <3>1, <3>2
  <2>5. CASE call[r].wish = "create"
    <3>1. SetUp
      BY <1>8, <2>5 DEF Create, Begun
    <3>2. call'[r].pc = "idle" /\ \A q \in Caller \ {r} : call'[q] = call[q]
      BY <2>1 DEF Ended, AccountsTyped, NoCall
    <3>3. \A q \in Caller : Late(q)' => q # r /\ Late(q)
      BY <3>2 DEF Late
    <3>4. \A q \in Caller : Late(q)' /\ Changes(q)' => AsRead(q)'
      <4> SUFFICES ASSUME NEW q \in Caller, Late(q)', Changes(q)'
                   PROVE  AsRead(q)'
        OBVIOUS
      <4>1. call'[q] = call[q] /\ AsRead(q) /\ call[q].subject \in Account
        BY <2>1, <3>2, <3>3 DEF InTurn, Changes, AccountsTyped, Call
      <4>2. account'[call[q].subject] = account[call[q].subject]
        BY <2>2, <4>1 DEF AsRead
      <4> QED BY <4>1, <4>2 DEF AsRead, There
    <3>5. \A q \in Caller : call'[q].pc = "checked" /\ TakesAdministrator(q)' /\ Changes(q)'
                          => LeavesAnother(q)'
      BY <2>1, <2>3, <3>2 DEF InTurn, Changes, TakesAdministrator, LeavesAnother
    <3>6. \A p, q \in Caller : p # q /\ Late(p)' /\ Late(q)'
                              => call'[p].wish = "create" \/ call'[q].wish = "create"
      BY <2>1, <3>2, <3>3 DEF InTurn
    <3> QED BY <2>1, <2>3, <3>1, <3>4, <3>5, <3>6 DEF InTurn
  <2> QED BY <2>1, <2>4, <2>5
<1>9. ASSUME NEW r \in Caller, SetActive(r) \/ DeleteAccount(r)
      PROVE  InTurn'
  <2> DEFINE a == call[r].subject
  <2>1. /\ InTurn /\ Late(r) /\ a \in Account /\ Ended(r) /\ Changes(r)
        /\ call[r].wish # "create" /\ call[r].pc = "checked"
    BY <1>9 DEF SetActive, DeleteAccount, Late, Changes, AccountsTyped, Call
  <2>2. AsRead(r)
    BY <2>1 DEF InTurn
  <2>3. \A b \in Account \ {a} : account'[b] = account[b]
    BY <1>9 DEF SetActive, DeleteAccount, AccountsTyped
  <2>4. PICK b \in ActiveAdministrators : TRUE
    BY <2>1, <2>2 DEF InTurn, AsRead, There, SetUp
  <2>5. CASE call[r].wish = "enable"
    <3>1. account'[b] = account[b] \/ account'[b] = [account[b] EXCEPT !.active = TRUE]
      BY <1>9, <2>3, <2>5 DEF SetActive, DeleteAccount, ActiveAdministrators, AccountsTyped
    <3>2. b \in ActiveAdministrators'
      BY <3>1 DEF ActiveAdministrators, There, AccountsTyped, AccountRow
    <3> QED BY <2>1, <3>2, Stores
  <2>6. CASE call[r].wish # "enable"
    <3>1. \E c \in ActiveAdministrators : c # a
      <4>1. CASE TakesAdministrator(r)
        BY <2>1, <4>1 DEF InTurn, LeavesAnother
      <4>2. CASE ~TakesAdministrator(r)
        BY <2>2, <2>4, <2>6, <4>2 DEF TakesAdministrator, AsRead, ActiveAdministrators
      <4> QED BY <4>1, <4>2
    <3>2. ActiveAdministrators' # {}
      BY <2>3, <3>1 DEF ActiveAdministrators, There
    <3> QED BY <2>1, <3>2, Stores
  <2> QED BY <2>5, <2>6
<1>10. ASSUME NEW R \in SUBSET Caller, BreaksOff(R)
       PROVE  InTurn'
  <2>1. \A q \in Caller : call'[q] = call[q] \/ ~Late(q)'
    BY <1>10 DEF BreaksOff, NoCall, Late
  <2> QED BY <1>10, <2>1, Withdraws DEF BreaksOff
<1>11. CASE AccountsNext
  BY <1>11, <1>2, <1>3, <1>5, <1>6, <1>7, <1>8, <1>9, <1>10 DEF AccountsNext
<1> QED BY <1>1, <1>11

(* docs/security.md:26: as long as no request reads the account it is      *)
(* about while another is past its reads, an active administrator remains  *)
(* once there is an account (users.py: the safeguards), for any number of  *)
(* accounts and requests.                                                  *)
THEOREM AdministratorKept == AccountsSpec => []AdministratorRemainsInTurn
<1>1. AccountsInit => Begun /\ (~crossed => InTurn)
  BY DEF AccountsInit, Begun, InTurn, SetUp, NoAccount, NoCall, Late, Changes
<1>2. AccountsTyped /\ Begun /\ (~crossed => InTurn) /\ [AccountsNext]_acVars
        => (Begun /\ (~crossed => InTurn))'
  BY BegunStep, InTurnStep
<1>3. Begun /\ (~crossed => InTurn) => AdministratorRemainsInTurn
  BY DEF InTurn, AdministratorRemainsInTurn, AdministratorRemains
<1>4. AccountsTypeOK => AccountsTyped
  BY DEF AccountsTypeOK
<1> QED BY <1>1, <1>2, <1>3, <1>4, AccountsTypeCorrect, PTL DEF AccountsSpec

----------------------------------------------------------------------------
LEMMA Blank == NoSession \in SessionRow /\ NoWork \in Work /\ Anybody \in User
<1>1. Anybody \in User
  BY SessionsAssumption DEF Anybody
<1> QED BY <1>1, SessionsAssumption DEF NoSession, NoWork, SessionRow, Work

(* A row that is revoked stays the row it is.                              *)
LEMMA EndedIs ==
  ASSUME session \in [Session -> SessionRow], NEW s \in Session
  PROVE  /\ EndedRow(s) \in SessionRow
         /\ EndedRow(s).of = session[s].of /\ EndedRow(s).from = session[s].from
         /\ EndedRow(s).is # "valid"
         /\ session[s].is = "ended" => EndedRow(s).is = "ended"
         /\ session[s].is # "new" => EndedRow(s).is = "ended"
<1>1. CASE ~Valid(s)
  BY <1>1 DEF EndedRow, Valid, SessionRow
<1>2. CASE Valid(s)
  <2>1. 0 \in 0 .. MaxTerm
    BY SessionsAssumption
  <2>2. session[s] \in SessionRow
    OBVIOUS
  <2>3. session[s].of \in User /\ session[s].from \in SUBSET Session
    BY <2>2 DEF SessionRow
  <2>4. EndedRow(s) = [session[s] EXCEPT !.is = "ended", !.term = 0, !.late = FALSE]
    BY <1>2 DEF EndedRow
  <2>5. EndedRow(s) = [is |-> "ended", of |-> session[s].of, from |-> session[s].from,
                       term |-> 0, late |-> FALSE]
    BY <2>2, <2>4 DEF SessionRow
  <2> QED BY <2>1, <2>3, <2>5 DEF SessionRow
<1> QED BY <1>1, <1>2

LEMMA RequestOverTyped ==
  ASSUME work \in [Client -> Work], NEW c \in Client, RequestOver(c)
  PROVE  work' \in [Client -> Work]
BY Blank DEF RequestOver

LEMMA ContinuesTyped ==
  ASSUME work \in [Client -> Work], NEW c \in Client, NEW pc \in {"loaded", "admitted"},
         Continues(c, pc)
  PROVE  work' \in [Client -> Work]
<1>1. [work[c] EXCEPT !.pc = pc] \in Work
  BY DEF Work
<1> QED BY <1>1 DEF Continues

----------------------------------------------------------------------------
LEMMA SessionsTypeStep ==
  ASSUME SessionsTyped, [SessionsNext]_ssVars
  PROVE  SessionsTyped'
<1> USE DEF SessionsTyped
<1>1. CASE UNCHANGED ssVars
  BY <1>1 DEF ssVars
<1>2. ASSUME NEW c \in Client, NEW u \in User, SignIn(c, u)
      PROVE  SessionsTyped'
  <2>1. user[u].term \in 0 .. MaxTerm
    BY DEF UserRow
  <2>2. [NoWork EXCEPT !.pc = "admitted", !.of = u, !.term = user[u].term] \in Work
    BY <2>1, Blank DEF Work
  <2> QED BY <1>2, <2>2 DEF SignIn
<1>3. ASSUME NEW c \in Client, NEW s \in Session, Presents(c, s)
      PROVE  SessionsTyped'
  <2>1. [pc |-> "presented", of |-> session[s].of, from |-> {s}, term |-> session[s].term,
         late |-> session[s].late] \in Work
    BY DEF Work, SessionRow
  <2>2. work' \in [Client -> Work]
    BY <1>3, <2>1 DEF Presents
  <2> QED BY <1>3, <2>2 DEF Presents
<1>4. ASSUME NEW c \in Client, LoadsUser(c)
      PROVE  SessionsTyped'
  BY <1>4, RequestOverTyped, ContinuesTyped DEF LoadsUser
<1>5. ASSUME NEW c \in Client, Rotates(c)
      PROVE  SessionsTyped'
  BY <1>5, ContinuesTyped, EndedIs DEF Rotates
<1>6. ASSUME NEW c \in Client, CreateSession(c)
      PROVE  SessionsTyped'
  <2> DEFINE w == work[c]
  <2>1. [is |-> "valid", of |-> w.of, from |-> w.from, term |-> w.term, late |-> w.late]
          \in SessionRow
    BY DEF Work, SessionRow
  <2>2. session' \in [Session -> SessionRow]
    BY <1>6, <2>1 DEF CreateSession
  <2> QED BY <1>6, <2>2, RequestOverTyped DEF CreateSession
<1>7. ASSUME NEW s \in Session, SessionEnds(s)
      PROVE  SessionsTyped'
  BY <1>7, EndedIs DEF SessionEnds
<1>8. ASSUME NEW c \in Client, NEW u \in User, StoresPassword(c, u) \/ Disables(c, u)
      PROVE  SessionsTyped'
  <2>1. user[u].term + 1 \in 0 .. MaxTerm
    BY <1>8, SessionsAssumption DEF StoresPassword, Disables, UserRow
  <2>2. /\ [user[u] EXCEPT !.term = user[u].term + 1] \in UserRow
        /\ [user[u] EXCEPT !.active = FALSE, !.term = user[u].term + 1] \in UserRow
    BY <2>1 DEF UserRow
  <2>3. user' \in [User -> UserRow]
    BY <1>8, <2>2 DEF StoresPassword, Disables
  <2>4. [NoWork EXCEPT !.pc = "changed", !.of = u] \in Work
    BY Blank DEF Work
  <2> QED BY <1>8, <2>3, <2>4 DEF StoresPassword, Disables
<1>9. ASSUME NEW c \in Client, RevokesAll(c)
      PROVE  SessionsTyped'
  <2>1. \A u \in User : [user[u] EXCEPT !.missed = FALSE] \in UserRow
    BY DEF UserRow
  <2>2. user' \in [User -> UserRow]
    BY <1>9, <2>1 DEF RevokesAll
  <2>3. \A d \in Client, late \in BOOLEAN : [work[d] EXCEPT !.late = late] \in Work
    BY DEF Work
  <2>4. \A d \in Client : (work[d].late \/ Signing(d, work[c].of)) \in BOOLEAN
    BY DEF Work
  <2>5. work' \in [Client -> Work]
    BY <1>9, <2>3, <2>4, Blank DEF RevokesAll
  <2> QED BY <1>9, <2>2, <2>5, EndedIs DEF RevokesAll
<1>10. ASSUME NEW u \in User, Enables(u) \/ DeletesUser(u)
       PROVE  SessionsTyped'
  <2>1. /\ [user[u] EXCEPT !.active = TRUE] \in UserRow
        /\ [user[u] EXCEPT !.there = FALSE, !.active = FALSE] \in UserRow
    BY DEF UserRow
  <2>2. CASE Enables(u)
    BY <2>1, <2>2 DEF Enables
  <2>3. CASE DeletesUser(u)
    <3>1. user' = [user EXCEPT ![u] = [user[u] EXCEPT !.there = FALSE, !.active = FALSE]]
      BY <2>3 DEF DeletesUser
    <3>2. user' \in [User -> UserRow]
      BY <2>1, <3>1
    <3>3. session' \in [Session -> SessionRow]
      BY <2>3, EndedIs DEF DeletesUser
    <3> QED BY <2>3, <3>2, <3>3 DEF DeletesUser
  <2> QED BY <1>10, <2>2, <2>3
<1>11. ASSUME NEW C \in SUBSET Client, RequestsEnd(C)
       PROVE  SessionsTyped'
  <2>1. \A u \in User, missed \in BOOLEAN : [user[u] EXCEPT !.missed = missed] \in UserRow
    BY DEF UserRow
  <2>2. \A u \in User :
          (user[u].missed \/ \E c \in C : work[c].pc = "changed" /\ work[c].of = u) \in BOOLEAN
    BY DEF UserRow
  <2>3. user' \in [User -> UserRow]
    BY <1>11, <2>1, <2>2 DEF RequestsEnd
  <2> QED BY <1>11, <2>3, Blank DEF RequestsEnd
<1> HIDE DEF SessionsTyped
<1>12. CASE SessionsNext
  BY <1>2, <1>3, <1>4, <1>5, <1>6, <1>7, <1>8, <1>9, <1>10, <1>11, <1>12 DEF SessionsNext
<1> QED BY <1>1, <1>12

(* A session that can be used has its account: who deletes the account     *)
(* deletes the session, and none is created for an account that is gone.   *)
LEMMA OfUsersStep ==
  ASSUME SessionsTyped, SessionsOfUsers, [SessionsNext]_ssVars
  PROVE  SessionsOfUsers'
<1>0. session \in [Session -> SessionRow] /\ user \in [User -> UserRow]
  BY DEF SessionsTyped
<1> DEFINE Kept == \A u \in User : user'[u].there = user[u].there
           Same(s) == session'[s] = session[s] \/ session'[s].is # "valid"
<1>1. ASSUME Kept, \A s \in Session : Same(s)
      PROVE  SessionsOfUsers'
  BY <1>0, <1>1 DEF SessionsOfUsers, Valid, SessionRow
<1>2. CASE UNCHANGED ssVars
  BY <1>2 DEF ssVars, SessionsOfUsers, Valid
<1>3. CASE UNCHANGED <<user, session>>
  BY <1>3 DEF SessionsOfUsers, Valid
<1>4. ASSUME NEW c \in Client, Rotates(c)
      PROVE  SessionsOfUsers'
  BY <1>0, <1>1, <1>4, EndedIs DEF Rotates
<1>5. ASSUME NEW c \in Client, CreateSession(c)
      PROVE  SessionsOfUsers'
  <2> DEFINE w == work[c]
             t == CHOOSE x \in Session : session[x].is = "new"
  <2>1. t \in Session /\ user' = user
    BY <1>5 DEF CreateSession
  <2>2. session' = IF user[w.of].there
                   THEN [session EXCEPT ![t] = [is |-> "valid", of |-> w.of, from |-> w.from,
                                                term |-> w.term, late |-> w.late]]
                   ELSE session
    BY <1>5 DEF CreateSession
  <2> HIDE DEF t
  <2>3. CASE user[w.of].there
    <3>1. \A s \in Session : session'[s] = session[s] \/ session'[s].of = w.of
      BY <1>0, <2>1, <2>2, <2>3
    <3> QED BY <2>1, <2>3, <3>1 DEF SessionsOfUsers, Valid
  <2>4. CASE ~user[w.of].there
    BY <1>1, <2>1, <2>2, <2>4
  <2> QED BY <2>3, <2>4
<1>6. ASSUME NEW s \in Session, SessionEnds(s)
      PROVE  SessionsOfUsers'
  BY <1>0, <1>1, <1>6, EndedIs DEF SessionEnds
<1>7. ASSUME NEW c \in Client, NEW u \in User, StoresPassword(c, u) \/ Disables(c, u)
      PROVE  SessionsOfUsers'
  <2>1. Kept /\ session' = session
    BY <1>0, <1>7 DEF StoresPassword, Disables, UserRow
  <2> QED BY <1>1, <2>1
<1>8. ASSUME NEW c \in Client, RevokesAll(c)
      PROVE  SessionsOfUsers'
  <2>1. Kept
    BY <1>0, <1>8 DEF RevokesAll, UserRow
  <2>2. \A s \in Session : Same(s)
    BY <1>0, <1>8, EndedIs DEF RevokesAll
  <2> QED BY <1>1, <2>1, <2>2
<1>9. ASSUME NEW u \in User, Enables(u)
      PROVE  SessionsOfUsers'
  <2>1. Kept /\ session' = session
    BY <1>0, <1>9 DEF Enables, UserRow
  <2> QED BY <1>1, <2>1
<1>10. ASSUME NEW u \in User, DeletesUser(u)
       PROVE  SessionsOfUsers'
  <2>1. \A v \in User : v # u => user'[v] = user[v]
    BY <1>0, <1>10 DEF DeletesUser
  <2>2. \A s \in Session : IF session[s].of = u THEN session'[s].is # "valid"
                           ELSE session'[s] = session[s]
    BY <1>0, <1>10, EndedIs DEF DeletesUser
  <2> QED BY <1>0, <2>1, <2>2 DEF SessionsOfUsers, Valid, SessionRow
<1>11. ASSUME NEW C \in SUBSET Client, RequestsEnd(C)
       PROVE  SessionsOfUsers'
  <2>1. Kept /\ session' = session
    BY <1>0, <1>11 DEF RequestsEnd, UserRow
  <2> QED BY <1>1, <2>1
<1>12. CASE SessionsNext
  BY <1>3, <1>4, <1>5, <1>6, <1>7, <1>8, <1>9, <1>10, <1>11, <1>12
     DEF SessionsNext, SignIn, Presents, LoadsUser
<1> QED BY <1>2, <1>12

(* Every variable of the sessions keeps its type, and a session that can   *)
(* be used is of an account that is there: application/services/auth.py.   *)
THEOREM SessionsTypeCorrect == SessionsSpec => []SessionsTypeOK
<1>1. SessionsInit => SessionsTyped
  BY Blank, SessionsAssumption DEF SessionsInit, SessionsTyped, UserRow
<1>2. SessionsInit => SessionsOfUsers
  BY DEF SessionsInit, SessionsOfUsers, Valid, NoSession
<1> QED BY <1>1, <1>2, SessionsTypeStep, OfUsersStep, PTL DEF SessionsSpec, SessionsTypeOK

----------------------------------------------------------------------------
(* What a request is about to store goes back to the account's term, too,  *)
(* or is known to be late, or its sessions are still to be revoked.        *)
WorkInTerm ==
  \A c \in Client : work[c].pc \in {"presented", "loaded", "admitted"} =>
    \/ work[c].term = user[work[c].of].term
    \/ work[c].late
    \/ Outstanding(work[c].of)

InTerm == SessionsTyped /\ OldSessionsEnd /\ WorkInTerm

(* A step that ends no term and loses no revocation, after which every     *)
(* session that is valid and every request goes back to one that did.      *)
LEMMA InTermKept ==
  ASSUME InTerm, SessionsTyped',
         \A u \in User : user'[u].term = user[u].term /\ (Outstanding(u) => Outstanding(u)'),
         \A s \in Session : session'[s].is = "valid" =>
           \/ /\ session[s].is = "valid" /\ session'[s] = session[s]
           \/ \E c \in Client : /\ work[c].pc = "admitted"
                                /\ session'[s].of = work[c].of /\ session'[s].term = work[c].term
                                /\ session'[s].late = work[c].late,
         \A c \in Client : work'[c].pc \in {"presented", "loaded", "admitted"} =>
           \/ /\ work[c].pc \in {"presented", "loaded", "admitted"}
              /\ work'[c].of = work[c].of /\ work'[c].term = work[c].term
              /\ work[c].late => work'[c].late
           \/ \E s \in Session : /\ Valid(s) /\ work'[c].of = session[s].of
                                 /\ work'[c].term = session[s].term /\ work'[c].late = session[s].late
           \/ work'[c].term = user[work'[c].of].term
  PROVE  InTerm'
<1>1. OldSessionsEnd'
  <2> SUFFICES ASSUME NEW s \in Session, session'[s].is = "valid"
               PROVE  \/ session'[s].term = user'[session'[s].of].term
                      \/ session'[s].late
                      \/ Outstanding(session[s].of)'
    BY DEF OldSessionsEnd, Valid
  <2>1. session'[s].of \in User
    BY DEF SessionsTyped, SessionRow
  <2>2. CASE session[s].is = "valid" /\ session'[s] = session[s]
    BY <2>1, <2>2 DEF InTerm, OldSessionsEnd, Valid, Outstanding
  <2>3. ASSUME NEW c \in Client, work[c].pc = "admitted", session'[s].of = work[c].of,
               session'[s].term = work[c].term, session'[s].late = work[c].late
        PROVE  \/ session'[s].term = user'[session'[s].of].term
               \/ session'[s].late
               \/ Outstanding(session[s].of)'
    BY <2>1, <2>3 DEF InTerm, WorkInTerm, Outstanding
  <2> QED BY <2>2, <2>3
<1>2. WorkInTerm'
  <2> SUFFICES ASSUME NEW c \in Client, work'[c].pc \in {"presented", "loaded", "admitted"}
               PROVE  \/ work'[c].term = user'[work'[c].of].term
                      \/ work'[c].late
                      \/ Outstanding(work[c].of)'
    BY DEF WorkInTerm
  <2>1. work'[c].of \in User
    BY DEF SessionsTyped, Work
  <2>2. CASE /\ work[c].pc \in {"presented", "loaded", "admitted"}
             /\ work'[c].of = work[c].of /\ work'[c].term = work[c].term
             /\ work[c].late => work'[c].late
    BY <2>1, <2>2 DEF InTerm, WorkInTerm, Outstanding
  <2>3. ASSUME NEW s \in Session, Valid(s), work'[c].of = session[s].of,
               work'[c].term = session[s].term, work'[c].late = session[s].late
        PROVE  \/ work'[c].term = user'[work'[c].of].term
               \/ work'[c].late
               \/ Outstanding(work[c].of)'
    BY <2>1, <2>3 DEF InTerm, OldSessionsEnd, Outstanding
  <2>4. CASE work'[c].term = user[work'[c].of].term
    BY <2>1, <2>4
  <2> QED BY <2>2, <2>3, <2>4
<1> QED BY <1>1, <1>2 DEF InTerm

(* A request that is not to revoke takes a step of its own.                *)
LEMMA StillOutstanding ==
  ASSUME SessionsTyped, UNCHANGED user,
         \A d \in Client : work[d].pc = "changed" => work'[d] = work[d]
  PROVE  \A u \in User : user'[u].term = user[u].term /\ (Outstanding(u) => Outstanding(u)')
BY DEF Outstanding

LEMMA InTermStep ==
  ASSUME InTerm, [SessionsNext]_ssVars
  PROVE  InTerm'
<1>0. SessionsTyped /\ SessionsTyped'
  BY SessionsTypeStep DEF InTerm
<1>1. CASE UNCHANGED ssVars
  BY <1>0, <1>1 DEF ssVars, InTerm, OldSessionsEnd, WorkInTerm, Valid, Outstanding
<1>2. ASSUME NEW c \in Client, NEW u \in User, SignIn(c, u)
      PROVE  InTerm'
  <2>1. /\ work[c].pc = "idle" /\ UNCHANGED <<user, session>>
        /\ \A d \in Client \ {c} : work'[d] = work[d]
        /\ work'[c].of = u /\ work'[c].term = user[u].term
    BY <1>0, <1>2, Blank DEF SignIn, SessionsTyped, NoWork
  <2>2. \A d \in Client : work[d].pc = "changed" => work'[d] = work[d]
    BY <2>1
  <2> QED BY <1>0, <2>1, <2>2, StillOutstanding, InTermKept
<1>3. ASSUME NEW c \in Client, NEW s \in Session, Presents(c, s)
      PROVE  InTerm'
  <2>1. /\ work[c].pc = "idle" /\ UNCHANGED <<user, session>> /\ Valid(s)
        /\ \A d \in Client \ {c} : work'[d] = work[d]
        /\ work'[c].of = session[s].of /\ work'[c].term = session[s].term
        /\ work'[c].late = session[s].late
    BY <1>0, <1>3 DEF Presents, SessionsTyped
  <2>2. \A d \in Client : work[d].pc = "changed" => work'[d] = work[d]
    BY <2>1
  <2> QED BY <1>0, <2>1, <2>2, StillOutstanding, InTermKept
<1>4. ASSUME NEW c \in Client, LoadsUser(c) \/ Rotates(c)
      PROVE  InTerm'
  <2>1. /\ work[c].pc \in {"presented", "loaded"} /\ UNCHANGED user
        /\ \A d \in Client \ {c} : work'[d] = work[d]
        /\ \/ work'[c].pc = "idle"
           \/ work'[c].of = work[c].of /\ work'[c].term = work[c].term
              /\ work'[c].late = work[c].late
    BY <1>0, <1>4 DEF LoadsUser, Rotates, Continues, RequestOver, NoWork, SessionsTyped, Work
  <2>2. \A d \in Client : work[d].pc = "changed" => work'[d] = work[d]
    BY <2>1
  <2>3. \A s \in Session : session'[s] = session[s] \/ session'[s].is # "valid"
    BY <1>0, <1>4, EndedIs DEF LoadsUser, Rotates, SessionsTyped
  <2> QED BY <1>0, <2>1, <2>2, <2>3, StillOutstanding, InTermKept
<1>5. ASSUME NEW c \in Client, CreateSession(c)
      PROVE  InTerm'
  <2>1. /\ work[c].pc = "admitted" /\ UNCHANGED user
        /\ \A d \in Client \ {c} : work'[d] = work[d]
        /\ work'[c].pc = "idle"
    BY <1>0, <1>5 DEF CreateSession, RequestOver, NoWork, SessionsTyped
  <2>2. \A d \in Client : work[d].pc = "changed" => work'[d] = work[d]
    BY <2>1
  <2>3. \A s \in Session :
          \/ session'[s] = session[s]
          \/ /\ session'[s].of = work[c].of /\ session'[s].term = work[c].term
             /\ session'[s].late = work[c].late
    BY <1>0, <1>5 DEF CreateSession, SessionsTyped
  <2> QED BY <1>0, <2>1, <2>2, <2>3, StillOutstanding, InTermKept
<1>6. ASSUME NEW s \in Session, SessionEnds(s)
      PROVE  InTerm'
  <2>1. \A t \in Session : session'[t] = session[t] \/ session'[t].is # "valid"
    BY <1>0, <1>6, EndedIs DEF SessionEnds, SessionsTyped
  <2>2. UNCHANGED <<user, work>>
    BY <1>6 DEF SessionEnds
  <2> QED BY <1>0, <2>1, <2>2, StillOutstanding, InTermKept
<1>7. ASSUME NEW c \in Client, NEW u \in User, StoresPassword(c, u) \/ Disables(c, u)
      PROVE  InTerm'
  <2>0. /\ work[c].pc = "idle" /\ UNCHANGED session
        /\ work' = [work EXCEPT ![c] = [NoWork EXCEPT !.pc = "changed", !.of = u]]
        /\ \A v \in User \ {u} : user'[v] = user[v]
    BY <1>0, <1>7 DEF StoresPassword, Disables, SessionsTyped
  <2>1. /\ work[c].pc = "idle" /\ UNCHANGED session
        /\ \A d \in Client \ {c} : work'[d] = work[d]
        /\ work'[c].pc = "changed" /\ work'[c].of = u
        /\ \A v \in User \ {u} : user'[v] = user[v]
    BY <1>0, <2>0 DEF SessionsTyped, NoWork
  <2>2. Outstanding(u)'
    BY <2>1 DEF Outstanding
  <2>3. \A v \in User \ {u} : Outstanding(v) => Outstanding(v)'
    BY <2>1 DEF Outstanding
  <2>4. OldSessionsEnd'
    BY <1>0, <2>1, <2>2, <2>3 DEF InTerm, OldSessionsEnd, Valid, SessionsTyped, SessionRow
  <2>5. WorkInTerm'
    BY <1>0, <2>1, <2>2, <2>3 DEF InTerm, WorkInTerm, SessionsTyped, Work
  <2> QED BY <1>0, <2>4, <2>5 DEF InTerm
<1>8. ASSUME NEW c \in Client, RevokesAll(c)
      PROVE  InTerm'
  <2> DEFINE u == work[c].of
  <2>1. /\ u \in User
        /\ \A v \in User : user'[v].term = user[v].term
        /\ \A v \in User \ {u} : user'[v] = user[v]
    BY <1>0, <1>8 DEF RevokesAll, SessionsTyped, Work, UserRow
  <2>2. \A s \in Session : session'[s].is = "valid" => session'[s] = session[s] /\ session[s].of # u
    BY <1>0, <1>8, EndedIs DEF RevokesAll, SessionsTyped
  <2>3. /\ work'[c].pc = "idle"
        /\ \A d \in Client \ {c} :
             /\ work'[d].pc = work[d].pc /\ work'[d].of = work[d].of /\ work'[d].term = work[d].term
             /\ work'[d].late = (work[d].late \/ Signing(d, u))
    BY <1>0, <1>8 DEF RevokesAll, SessionsTyped, NoWork, Work
  <2>4. \A v \in User \ {u} : Outstanding(v) => Outstanding(v)'
    BY <2>1, <2>3 DEF Outstanding
  <2>5. OldSessionsEnd'
    BY <1>0, <2>1, <2>2, <2>4 DEF InTerm, OldSessionsEnd, Valid, SessionsTyped, SessionRow
  <2>6. WorkInTerm'
    BY <1>0, <2>1, <2>3, <2>4 DEF InTerm, WorkInTerm, Signing, SessionsTyped, Work
  <2> QED BY <1>0, <2>5, <2>6 DEF InTerm
<1>9. ASSUME NEW u \in User, Enables(u) \/ DeletesUser(u)
      PROVE  InTerm'
  <2>1. /\ UNCHANGED work
        /\ \A v \in User : user'[v].term = user[v].term /\ user'[v].missed = user[v].missed
    BY <1>0, <1>9 DEF Enables, DeletesUser, SessionsTyped, UserRow
  <2>2. \A v \in User : Outstanding(v) => Outstanding(v)'
    BY <2>1 DEF Outstanding
  <2>3. \A s \in Session : session'[s] = session[s] \/ session'[s].is # "valid"
    BY <1>0, <1>9, EndedIs DEF Enables, DeletesUser, SessionsTyped
  <2> QED BY <1>0, <2>1, <2>2, <2>3, InTermKept
<1>10. ASSUME NEW C \in SUBSET Client, RequestsEnd(C)
       PROVE  InTerm'
  <2>1. /\ UNCHANGED session
        /\ \A d \in Client : work'[d] = work[d] \/ work'[d].pc = "idle"
    BY <1>0, <1>10 DEF RequestsEnd, SessionsTyped, NoWork
  <2>2. \A v \in User : /\ user'[v].term = user[v].term
                        /\ user'[v].missed = (user[v].missed \/ \E c \in C :
                                                work[c].pc = "changed" /\ work[c].of = v)
    BY <1>0, <1>10 DEF RequestsEnd, SessionsTyped, UserRow
  <2>3. \A d \in Client \ C : work'[d] = work[d]
    BY <1>10 DEF RequestsEnd
  <2>4. \A v \in User : Outstanding(v) => Outstanding(v)'
    BY <2>2, <2>3 DEF Outstanding
  <2> QED BY <1>0, <2>1, <2>2, <2>4, InTermKept
<1>11. CASE SessionsNext
  BY <1>2, <1>3, <1>4, <1>5, <1>6, <1>7, <1>8, <1>9, <1>10, <1>11 DEF SessionsNext
<1> QED BY <1>1, <1>11

(* docs/security.md:26: new passwords, resets and disabling revoke refresh *)
(* sessions, but for a revocation that broke off and for requests that it  *)
(* fell into: application/services/auth.py and users.py.                   *)
THEOREM RevocationsReach == SessionsSpec => []OldSessionsEnd
<1>1. SessionsInit => InTerm
  <2>1. SessionsInit => SessionsTyped
    BY Blank, SessionsAssumption DEF SessionsInit, SessionsTyped, UserRow
  <2> QED BY <2>1 DEF SessionsInit, InTerm, OldSessionsEnd, WorkInTerm, Valid, NoSession, NoWork
<1>2. InTerm => OldSessionsEnd
  BY DEF InTerm
<1> QED BY <1>1, <1>2, InTermStep, PTL DEF SessionsSpec

----------------------------------------------------------------------------
(* What a request presents is a row of the table, ended before it may      *)
(* create; a row with an heir is ended; and a row that was not presented   *)
(* twice at once has one heir or one request that may still make one.      *)
Replaced ==
  /\ SessionsTyped
  /\ \A s \in Session : Heirs(s) # {} => session[s].is = "ended"
  /\ \A c \in Client : \A s \in work[c].from :
       /\ session[s].is # "new"
       /\ work[c].pc = "admitted" => session[s].is = "ended"
  /\ \A s \in Session \ doubled :
       /\ \A a, b \in Heirs(s) : a = b
       /\ \A c \in Client : s \in work[c].from =>
            Heirs(s) = {} /\ \A d \in Client : s \in work[d].from => d = c

(* A step that makes no session and presents none.                         *)
LEMMA ReplacedKept ==
  ASSUME Replaced, SessionsTyped', UNCHANGED doubled,
         \A s \in Session : /\ session'[s].from = session[s].from
                            /\ session[s].is = "ended" => session'[s].is = "ended"
                            /\ session[s].is # "new" => session'[s].is # "new",
         \A c \in Client : \/ work'[c].from = {}
                           \/ /\ work'[c].from = work[c].from
                              /\ work'[c].pc = "admitted" =>
                                   \/ work[c].pc = "admitted"
                                   \/ \A s \in work[c].from : session'[s].is = "ended"
  PROVE  Replaced'
<1>1. \A s \in Session : Heirs(s)' = Heirs(s)
  BY DEF Heirs
<1>2. \A c \in Client : work'[c].from \subseteq Session /\ work[c].from \subseteq Session
  BY DEF Replaced, SessionsTyped, Work
<1>3. (\A s \in Session : Heirs(s) # {} => session[s].is = "ended")'
  BY <1>1 DEF Replaced
<1>4. (\A c \in Client : \A s \in work[c].from :
         /\ session[s].is # "new"
         /\ work[c].pc = "admitted" => session[s].is = "ended")'
  BY <1>2 DEF Replaced
<1>5. (\A s \in Session \ doubled :
         /\ \A a, b \in Heirs(s) : a = b
         /\ \A c \in Client : s \in work[c].from =>
              Heirs(s) = {} /\ \A d \in Client : s \in work[d].from => d = c)'
  <2> SUFFICES ASSUME NEW s \in Session, s \notin doubled
               PROVE  /\ \A a, b \in Heirs(s) : a = b
                      /\ \A c \in Client : s \in work'[c].from =>
                           Heirs(s) = {} /\ \A d \in Client : s \in work'[d].from => d = c
    BY <1>1
  <2> QED BY DEF Replaced
<1> QED BY <1>3, <1>4, <1>5 DEF Replaced

LEMMA ReplacedStep ==
  ASSUME Replaced, [SessionsNext]_ssVars
  PROVE  Replaced'
<1>0. SessionsTyped /\ SessionsTyped'
  BY SessionsTypeStep DEF Replaced
<1>1. CASE UNCHANGED ssVars
  BY <1>0, <1>1, ReplacedKept DEF ssVars
<1>2. ASSUME NEW c \in Client, NEW u \in User, SignIn(c, u)
      PROVE  Replaced'
  <2>1. \A d \in Client : work'[d] = work[d] \/ work'[d].from = {}
    BY <1>0, <1>2, Blank DEF SignIn, SessionsTyped, NoWork
  <2> QED BY <1>0, <1>2, <2>1, ReplacedKept DEF SignIn
<1>3. ASSUME NEW c \in Client, NEW s \in Session, Presents(c, s)
      PROVE  Replaced'
  <2>1. /\ UNCHANGED session /\ session[s].is = "valid" /\ Heirs(s) = {}
        /\ \A d \in Client \ {c} : work'[d] = work[d]
        /\ work'[c].from = {s} /\ work'[c].pc = "presented"
    BY <1>0, <1>3 DEF Presents, SessionsTyped, Valid, Replaced
  <2>2. /\ doubled \subseteq doubled'
        /\ s \notin doubled' => \A d \in Client : s \notin work[d].from
    BY <1>3 DEF Presents, Presented
  <2>3. \A x \in Session : Heirs(x)' = Heirs(x)
    BY <2>1 DEF Heirs
  <2>4. (\A c_1 \in Client : \A x \in work[c_1].from :
           /\ session[x].is # "new"
           /\ work[c_1].pc = "admitted" => session[x].is = "ended")'
    BY <2>1 DEF Replaced
  <2>5. (\A x \in Session \ doubled :
           /\ \A a, b \in Heirs(x) : a = b
           /\ \A c_1 \in Client : x \in work[c_1].from =>
                Heirs(x) = {} /\ \A d \in Client : x \in work[d].from => d = c_1)'
    <3> SUFFICES ASSUME NEW x \in Session, x \notin doubled'
                 PROVE  /\ \A a, b \in Heirs(x) : a = b
                        /\ \A c_1 \in Client : x \in work'[c_1].from =>
                             Heirs(x) = {} /\ \A d \in Client : x \in work'[d].from => d = c_1
      BY <2>3
    <3>1. CASE x = s
      BY <2>1, <2>2, <3>1
    <3>2. CASE x # s
      BY <2>1, <2>2, <3>2 DEF Replaced
    <3> QED BY <3>1, <3>2
  <2> QED BY <1>0, <2>1, <2>3, <2>4, <2>5 DEF Replaced
<1>4. ASSUME NEW c \in Client, LoadsUser(c)
      PROVE  Replaced'
  <2>1. \A d \in Client : \/ work'[d].from = {}
                          \/ /\ work'[d].from = work[d].from
                             /\ work'[d].pc = work[d].pc \/ work'[d].pc = "loaded"
    BY <1>0, <1>4 DEF LoadsUser, Continues, RequestOver, NoWork, SessionsTyped, Work
  <2> QED BY <1>0, <1>4, <2>1, ReplacedKept DEF LoadsUser
<1>5. ASSUME NEW c \in Client, Rotates(c)
      PROVE  Replaced'
  <2>1. \A s \in Session : /\ session'[s].from = session[s].from
                           /\ session[s].is = "ended" => session'[s].is = "ended"
                           /\ session[s].is # "new" => session'[s].is # "new"
                           /\ s \in work[c].from => session'[s].is = "ended"
    BY <1>0, <1>5, EndedIs DEF Rotates, SessionsTyped, Replaced
  <2>2. /\ \A d \in Client \ {c} : work'[d] = work[d]
        /\ work'[c].from = work[c].from /\ work[c].from \subseteq Session
    BY <1>0, <1>5 DEF Rotates, Continues, SessionsTyped, Work
  <2>3. UNCHANGED doubled
    BY <1>5 DEF Rotates
  <2> QED BY <1>0, <2>1, <2>2, <2>3, ReplacedKept
<1>6. ASSUME NEW c \in Client, CreateSession(c)
      PROVE  Replaced'
  <2> DEFINE created == [is |-> "valid", of |-> work[c].of, from |-> work[c].from,
                         term |-> work[c].term, late |-> work[c].late]
  <2>1. PICK t \in Session : /\ session[t].is = "new"
                             /\ UNCHANGED session \/ session' = [session EXCEPT ![t] = created]
    BY <1>6 DEF CreateSession
  <2>2. /\ work[c].pc = "admitted" /\ work'[c].from = {} /\ UNCHANGED doubled
        /\ \A d \in Client \ {c} : work'[d] = work[d]
    BY <1>0, <1>6 DEF CreateSession, RequestOver, NoWork, SessionsTyped
  <2>3. CASE UNCHANGED session
    BY <1>0, <2>2, <2>3, ReplacedKept
  <2>4. CASE session' = [session EXCEPT ![t] = created]
    <3>0. session[t].is = "new"
      BY <2>1
    <3>1. /\ session'[t].from = work[c].from /\ session'[t].is = "valid"
          /\ \A s \in Session \ {t} : session'[s] = session[s]
      BY <1>0, <2>1, <2>4 DEF SessionsTyped
    <3>2. \A s \in Session : /\ s \in work[c].from => Heirs(s)' \subseteq Heirs(s) \cup {t}
                             /\ s \notin work[c].from => Heirs(s)' \subseteq Heirs(s)
      BY <2>1, <3>1 DEF Heirs
    <3>3. Heirs(t)' = {}
      <4>1. Heirs(t) = {}
        BY <3>0 DEF Replaced
      <4>2. t \notin work[c].from
        BY <3>0 DEF Replaced
      <4> QED BY <3>0, <3>2, <4>1, <4>2
    <3>4. (\A s \in Session : Heirs(s) # {} => session[s].is = "ended")'
      BY <3>0, <2>2, <3>1, <3>2, <3>3 DEF Replaced
    <3>5. (\A d \in Client : \A s \in work[d].from :
             /\ session[s].is # "new"
             /\ work[d].pc = "admitted" => session[s].is = "ended")'
      <4>1. \A d \in Client : work[d].from \subseteq Session
        BY <1>0 DEF SessionsTyped, Work
      <4> QED BY <3>0, <2>2, <3>1, <4>1 DEF Replaced
    <3>6. (\A s \in Session \ doubled :
             /\ \A a, b \in Heirs(s) : a = b
             /\ \A c_1 \in Client : s \in work[c_1].from =>
                  Heirs(s) = {} /\ \A d \in Client : s \in work[d].from => d = c_1)'
      <4> SUFFICES ASSUME NEW s \in Session, s \notin doubled
                   PROVE  /\ \A a, b \in Heirs(s)' : a = b
                          /\ \A c_1 \in Client : s \in work'[c_1].from =>
                               /\ Heirs(s)' = {}
                               /\ \A d \in Client : s \in work'[d].from => d = c_1
        BY <2>2
      <4>1. CASE s \in work[c].from
        BY <2>2, <3>2, <4>1 DEF Replaced
      <4>2. CASE s \notin work[c].from
        BY <2>2, <3>2, <4>2 DEF Replaced
      <4> QED BY <4>1, <4>2
    <3> QED BY <1>0, <3>4, <3>5, <3>6 DEF Replaced
  <2> QED BY <2>1, <2>3, <2>4
<1>7. ASSUME NEW s \in Session, SessionEnds(s)
      PROVE  Replaced'
  <2>1. \A x \in Session : /\ session'[x].from = session[x].from
                           /\ session'[x].is = session[x].is \/ session'[x].is = "ended"
    BY <1>0, <1>7, EndedIs DEF SessionEnds, SessionsTyped, Valid
  <2> QED BY <1>0, <1>7, <2>1, ReplacedKept DEF SessionEnds
<1>8. ASSUME NEW c \in Client, NEW u \in User, StoresPassword(c, u) \/ Disables(c, u)
      PROVE  Replaced'
  <2>1. \A d \in Client : work'[d] = work[d] \/ work'[d].from = {}
    <3>1. work' = [work EXCEPT ![c] = [NoWork EXCEPT !.pc = "changed", !.of = u]]
      BY <1>8 DEF StoresPassword, Disables
    <3>2. work \in [Client -> Work]
      BY <1>0 DEF SessionsTyped
    <3> QED BY <3>1, <3>2 DEF NoWork
  <2>2. UNCHANGED <<session, doubled>>
    BY <1>8 DEF StoresPassword, Disables
  <2> QED BY <1>0, <2>1, <2>2, ReplacedKept
<1>9. ASSUME NEW c \in Client, RevokesAll(c)
      PROVE  Replaced'
  <2>1. \A x \in Session : /\ session'[x].from = session[x].from
                           /\ session[x].is = "ended" => session'[x].is = "ended"
                           /\ session[x].is # "new" => session'[x].is # "new"
    BY <1>0, <1>9, EndedIs DEF RevokesAll, SessionsTyped
  <2>2. \A d \in Client : \/ work'[d].from = {}
                          \/ (work'[d].from = work[d].from /\ work'[d].pc = work[d].pc)
    <3> SUFFICES ASSUME NEW d \in Client, d # c
                 PROVE  work'[d].from = work[d].from /\ work'[d].pc = work[d].pc
      BY <1>0, <1>9 DEF RevokesAll, SessionsTyped, NoWork
    <3>1. work'[d] = [work[d] EXCEPT !.late = work[d].late \/ Signing(d, work[c].of)]
      BY <1>9 DEF RevokesAll
    <3>2. work[d] \in Work
      BY <1>0 DEF SessionsTyped
    <3> QED BY <3>1, <3>2 DEF Work
  <2>3. UNCHANGED doubled
    BY <1>9 DEF RevokesAll
  <2> QED BY <1>0, <2>1, <2>2, <2>3, ReplacedKept
<1>10. ASSUME NEW u \in User, Enables(u) \/ DeletesUser(u)
       PROVE  Replaced'
  <2>1. \A x \in Session : /\ session'[x].from = session[x].from
                           /\ session[x].is = "ended" => session'[x].is = "ended"
                           /\ session[x].is # "new" => session'[x].is # "new"
    BY <1>0, <1>10, EndedIs DEF Enables, DeletesUser, SessionsTyped
  <2>2. UNCHANGED <<work, doubled>>
    BY <1>10 DEF Enables, DeletesUser
  <2> QED BY <1>0, <2>1, <2>2, ReplacedKept
<1>11. ASSUME NEW C \in SUBSET Client, RequestsEnd(C)
       PROVE  Replaced'
  <2>1. \A d \in Client : work'[d] = work[d] \/ work'[d].from = {}
    BY <1>0, <1>11 DEF RequestsEnd, SessionsTyped, NoWork
  <2> QED BY <1>0, <1>11, <2>1, ReplacedKept DEF RequestsEnd
<1>12. CASE SessionsNext
  BY <1>2, <1>3, <1>4, <1>5, <1>6, <1>7, <1>8, <1>9, <1>10, <1>11, <1>12 DEF SessionsNext
<1> QED BY <1>1, <1>12

(* docs/security.md:24: refresh tokens are rotated, one for one where no   *)
(* two requests present the same: refresh of application/services/auth.py. *)
THEOREM RotationHolds == SessionsSpec => []RefreshReplaces
<1>1. SessionsInit => Replaced
  <2>1. SessionsInit => SessionsTyped
    BY Blank, SessionsAssumption DEF SessionsInit, SessionsTyped, UserRow
  <2> QED BY <2>1 DEF SessionsInit, Replaced, Heirs, NoSession, NoWork
<1>2. Replaced => RefreshReplaces
  BY DEF Replaced, RefreshReplaces, Valid
<1> QED BY <1>1, <1>2, ReplacedStep, PTL DEF SessionsSpec
=============================================================================
