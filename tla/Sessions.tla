------------------------------- MODULE Sessions -------------------------------
(***************************************************************************)
(* Refresh sessions: authenticate, refresh, logout and change_password of  *)
(* application/services/auth.py, and what disabling, resetting and         *)
(* deleting an account (users.py) does to its sessions, over the           *)
(* repositories users.py and sessions.py.                                  *)
(*                                                                         *)
(* A request reads the token or the account, revokes and creates in        *)
(* transactions of their own; requests overlap.  What may be asked of      *)
(* which account is in Accounts; access tokens, which no transaction of    *)
(* these ends, are left out, and so are the values of tokens and passwords.*)
(***************************************************************************)
EXTENDS Naturals

CONSTANTS
  User,            \* rows of the users table
  Session,         \* rows of refresh_tokens that may come to be: a bound
  Client,          \* requests that may overlap
  MaxTerm          \* bound: the terms of one account

ASSUME SessionsAssumption == User # {} /\ MaxTerm \in Nat

VARIABLES
  user,            \* the users table
  session,         \* refresh_tokens
  work,            \* each request
  doubled          \* history: sessions that two requests presented at once

ssVars == <<user, session, work, doubled>>

----------------------------------------------------------------------------
(* A term of an account ends when a new password is stored or the account  *)
(* is disabled.  missed: a request that ended a term has broken off before *)
(* it revoked the sessions, and none has revoked them since.               *)
UserRow == [there : BOOLEAN, active : BOOLEAN, term : 0 .. MaxTerm, missed : BOOLEAN]

(* term: of the sign-in that the session goes back to.  late: a revocation *)
(* for the account fell into a request that it goes back to.  Both are     *)
(* kept while the session is valid.                                        *)
SessionRow == [is : {"new", "valid", "ended"}, of : User, from : SUBSET Session,
               term : 0 .. MaxTerm, late : BOOLEAN]

Work == [pc : {"idle", "presented", "loaded", "admitted", "changed"}, of : User,
         from : SUBSET Session, term : 0 .. MaxTerm, late : BOOLEAN]

Anybody == CHOOSE u \in User : TRUE
NoSession == [is |-> "new", of |-> Anybody, from |-> {}, term |-> 0, late |-> FALSE]
NoWork == [pc |-> "idle", of |-> Anybody, from |-> {}, term |-> 0, late |-> FALSE]

Valid(s) == session[s].is = "valid"
Heirs(s) == {t \in Session : s \in session[t].from}
Presented(c, s) == s \in work[c].from
Signing(c, u) == work[c].pc \in {"presented", "loaded", "admitted"} /\ work[c].of = u
EndedRow(s) ==
  IF Valid(s) THEN [session[s] EXCEPT !.is = "ended", !.term = 0, !.late = FALSE] ELSE session[s]

RequestOver(c) == work' = [work EXCEPT ![c] = NoWork]
Continues(c, pc) == work' = [work EXCEPT ![c].pc = pc]

SessionsInit ==
  /\ user = [u \in User |-> [there |-> TRUE, active |-> TRUE, term |-> 0, missed |-> FALSE]]
  /\ session = [s \in Session |-> NoSession]
  /\ work = [c \in Client |-> NoWork]
  /\ doubled = {}

----------------------------------------------------------------------------
(* authenticate: the account is read and the password verified.            *)
SignIn(c, u) ==
  /\ work[c].pc = "idle"
  /\ user[u].there /\ user[u].active
  /\ work' = [work EXCEPT ![c] = [NoWork EXCEPT !.pc = "admitted", !.of = u,
                                                !.term = user[u].term]]
  /\ UNCHANGED <<user, session, doubled>>

(* refresh: get_valid_user_id.                                             *)
Presents(c, s) ==
  /\ work[c].pc = "idle"
  /\ Valid(s)
  /\ work' = [work EXCEPT ![c] = [pc |-> "presented", of |-> session[s].of, from |-> {s},
                                  term |-> session[s].term, late |-> session[s].late]]
  /\ doubled' = IF \E d \in Client : Presented(d, s) THEN doubled \cup {s} ELSE doubled
  /\ UNCHANGED <<user, session>>

LoadsUser(c) ==
  /\ work[c].pc = "presented"
  /\ LET u == user[work[c].of]
     IN IF u.there /\ u.active THEN Continues(c, "loaded") ELSE RequestOver(c)
  /\ UNCHANGED <<user, session, doubled>>

(* Mutant: the token presented stays valid.                                *)
RotatesNothing(c) ==
  /\ work[c].pc = "loaded"
  /\ Continues(c, "admitted")
  /\ UNCHANGED <<user, session, doubled>>

(* revoke, revoked before or not.                                          *)
Rotates(c) ==
  /\ work[c].pc = "loaded"
  /\ session' = [s \in Session |-> IF s \in work[c].from THEN EndedRow(s) ELSE session[s]]
  /\ Continues(c, "admitted")
  /\ UNCHANGED <<user, doubled>>

(* record_login for a sign-in, and _create_session; the account's row may  *)
(* be gone, and the request fails.                                         *)
CreateSession(c) ==
  LET w == work[c]
      t == CHOOSE x \in Session : session[x].is = "new"
  IN /\ w.pc = "admitted"
     /\ \E x \in Session : session[x].is = "new"
     /\ session' = IF user[w.of].there
                   THEN [session EXCEPT ![t] = [is |-> "valid", of |-> w.of, from |-> w.from,
                                                term |-> w.term, late |-> w.late]]
                   ELSE session
     /\ RequestOver(c)
     /\ UNCHANGED <<user, doubled>>

(* logout; or refresh_token_days are over.                                 *)
SessionEnds(s) ==
  /\ Valid(s)
  /\ session' = [session EXCEPT ![s] = EndedRow(s)]
  /\ UNCHANGED <<user, work, doubled>>

----------------------------------------------------------------------------
(* update_password, of change_password and reset_password.                 *)
StoresPassword(c, u) ==
  /\ work[c].pc = "idle"
  /\ user[u].there
  /\ user[u].term < MaxTerm
  /\ user' = [user EXCEPT ![u].term = @ + 1]
  /\ work' = [work EXCEPT ![c] = [NoWork EXCEPT !.pc = "changed", !.of = u]]
  /\ UNCHANGED <<session, doubled>>

(* Mutant: who is disabled keeps the sessions, which refresh refuses.      *)
DisablesOnly(c, u) ==
  /\ work[c].pc = "idle"
  /\ user[u].there
  /\ user[u].term < MaxTerm
  /\ user' = [user EXCEPT ![u].active = FALSE, ![u].term = @ + 1]
  /\ UNCHANGED <<work, session, doubled>>

(* set_active(False); the safeguards and their reads are in Accounts.      *)
Disables(c, u) ==
  /\ work[c].pc = "idle"
  /\ user[u].there
  /\ user[u].term < MaxTerm
  /\ user' = [user EXCEPT ![u].active = FALSE, ![u].term = @ + 1]
  /\ work' = [work EXCEPT ![c] = [NoWork EXCEPT !.pc = "changed", !.of = u]]
  /\ UNCHANGED <<session, doubled>>

(* revoke_for_user, the last transaction of the three.                     *)
RevokesAll(c) ==
  LET u == work[c].of
  IN /\ work[c].pc = "changed"
     /\ session' = [s \in Session |-> IF session[s].of = u THEN EndedRow(s) ELSE session[s]]
     /\ user' = [user EXCEPT ![u].missed = FALSE]
     /\ work' = [d \in Client |-> IF d = c THEN NoWork
                                  ELSE [work[d] EXCEPT !.late = @ \/ Signing(d, u)]]
     /\ UNCHANGED doubled

Enables(u) ==
  /\ user[u].there /\ ~user[u].active
  /\ user' = [user EXCEPT ![u].active = TRUE]
  /\ UNCHANGED <<session, work, doubled>>

(* Mutant: the sessions of a deleted account stay.                         *)
DeletesUserOnly(u) ==
  /\ user[u].there
  /\ user' = [user EXCEPT ![u].there = FALSE, ![u].active = FALSE]
  /\ UNCHANGED <<session, work, doubled>>

(* delete_user: the foreign key deletes the sessions too.                  *)
DeletesUser(u) ==
  /\ user[u].there
  /\ user' = [user EXCEPT ![u].there = FALSE, ![u].active = FALSE]
  /\ session' = [s \in Session |-> IF session[s].of = u THEN EndedRow(s) ELSE session[s]]
  /\ UNCHANGED <<work, doubled>>

(* Requests break off, all of them if the process ends.                    *)
RequestsEnd(C) ==
  /\ C # {}
  /\ \A c \in C : work[c].pc # "idle"
  /\ user' = [u \in User |->
       [user[u] EXCEPT !.missed = @ \/ \E c \in C : work[c].pc = "changed" /\ work[c].of = u]]
  /\ work' = [c \in Client |-> IF c \in C THEN NoWork ELSE work[c]]
  /\ UNCHANGED <<session, doubled>>

----------------------------------------------------------------------------
SessionsNext ==
  \/ \E c \in Client, u \in User : SignIn(c, u)
  \/ \E c \in Client, s \in Session : Presents(c, s)
  \/ \E c \in Client : LoadsUser(c)
  \/ \E c \in Client : Rotates(c)
  \/ \E c \in Client : CreateSession(c)
  \/ \E s \in Session : SessionEnds(s)
  \/ \E c \in Client, u \in User : StoresPassword(c, u)
  \/ \E c \in Client, u \in User : Disables(c, u)
  \/ \E c \in Client : RevokesAll(c)
  \/ \E u \in User : Enables(u)
  \/ \E u \in User : DeletesUser(u)
  \/ \E C \in SUBSET Client : RequestsEnd(C)

SessionsSpec == SessionsInit /\ [][SessionsNext]_ssVars

----------------------------------------------------------------------------
SessionsTyped ==
  /\ user \in [User -> UserRow]
  /\ session \in [Session -> SessionRow]
  /\ work \in [Client -> Work]
  /\ doubled \subseteq Session

(* The type invariant; and a session that can be used is of an account     *)
(* that is there, though it may be deleted while somebody signs in.        *)
SessionsOfUsers == \A s \in Session : Valid(s) => user[session[s].of].there
SessionsTypeOK == SessionsTyped /\ SessionsOfUsers

(* The sessions of u are about to be revoked, or should have been.         *)
Outstanding(u) == user[u].missed \/ \E c \in Client : work[c].pc = "changed" /\ work[c].of = u

(* docs/security.md:26, "Password changes, resets, disables, and logout    *)
(* revoke refresh sessions": a session that goes back to an earlier        *)
(* password, or to before a disabling, can be used only until the          *)
(* revocation, unless that broke off or fell into a request that made one  *)
(* of the sessions it goes back to.                                        *)
OldSessionsEnd ==
  \A s \in Session : Valid(s) =>
    \/ session[s].term = user[session[s].of].term
    \/ session[s].late
    \/ Outstanding(session[s].of)

(* docs/security.md:24, "opaque, rotated": a session that another replaces *)
(* cannot be used any more, and one replaces it, unless two requests       *)
(* presented it at once.                                                   *)
RefreshReplaces ==
  \A s \in Session :
    /\ Heirs(s) # {} => ~Valid(s)
    /\ s \in doubled \/ \A a, b \in Heirs(s) : a = b
=============================================================================
