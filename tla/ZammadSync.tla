------------------------------ MODULE ZammadSync ------------------------------
(***************************************************************************)
(* The synchronization of one Zammad configuration and the live lookup of  *)
(* a ticket: application/services/zammad.py, the endpoint that starts a    *)
(* full sync and the scheduler job that starts the others.                 *)
(*                                                                         *)
(* A sync lists the tickets, all of them when it is a full reconciliation  *)
(* and otherwise those updated since the cursor less an overlap, then      *)
(* stores them one by one: each _upsert begins with the bootstrap of the   *)
(* integrations, which commits what was stored before.  The cursor, and    *)
(* the mark on what a full reconciliation has not seen, go with the last   *)
(* commit.  Nothing keeps syncs and lookups from overlapping.              *)
(*                                                                         *)
(* A ticket is its version; its articles are read after it and stored with *)
(* it.  That a list is complete needs it to fit the 5000 tickets of        *)
(* tickets() and its pages to be consistent.                               *)
(***************************************************************************)
EXTENDS Integers, FiniteSets

CONSTANTS
  Ticket,            \* tickets at Zammad
  Runners,           \* the syncs that can run at once
  Timer,             \* the one the scheduler starts (max_instances = 1)
  NoTicket,          \* no lookup in progress
  Margin,            \* the overlap, two minutes
  RunLimit,          \* the longest a sync or a lookup takes
  LastTime,          \* bound: the clock
  MaxRevision,       \* bound: changes of each ticket
  Leavers,           \* bound: the tickets that can leave the filters or Zammad
  MaxOccasions       \* bound: manual syncs, lookups, failures, settings

ASSUME ZammadAssumption ==
  /\ Timer \in Runners
  /\ NoTicket \notin Ticket
  /\ Leavers \subseteq Ticket
  /\ MaxRevision \in [Ticket -> Nat]
  /\ {Margin, RunLimit, MaxOccasions} \subseteq Nat
  /\ LastTime \in Nat \ {0}

(* What the overlap is chosen for.  A longer sync may write an old version *)
(* under a cursor that has gone past the new one, until the next full      *)
(* reconciliation.                                                         *)
ASSUME MarginSuffices == RunLimit < Margin

VARIABLES
  zclock,        \* Zammad's clock
  ticket,        \* each ticket at Zammad: its version, updated_at, and state
  held,          \* the cache: version, and visible and active
  zcursor,       \* sync_cursor_at
  reconciled,    \* last_reconciled_at is set
  initial,       \* the integration's initial_sync_status
  enabled,       \* the configuration and its integration are enabled
  run,           \* each running sync
  lookup,        \* the live lookup in progress
  occasions      \* how much of MaxOccasions is used

zmVars == <<zclock, ticket, held, zcursor, reconciled, initial, enabled, run,
            lookup, occasions>>

----------------------------------------------------------------------------
Never == 0
Instant == 1 .. LastTime
Revision == {0} \cup UNION {0 .. MaxRevision[x] : x \in Ticket}

(* What the token and the filters (closed tickets, groups, the history     *)
(* window) make of a ticket.                                               *)
Standing == {"none", "open", "excluded", "gone"}
Listable(x) == ticket[x].is \in {"open", "excluded"}

(* A sync: whether it is full, the cursor it loaded and the time it asks   *)
(* from, when it began, what is still to be listed and to be stored, what  *)
(* was listed and the greatest updated_at of that.                         *)
Run == [step : {"idle", "list", "store"}, full : BOOLEAN, seen : {Never} \cup Instant,
        since : {Never} \cup Instant, begun : {Never} \cup Instant, todo : SUBSET Ticket,
        rest : SUBSET Ticket, got : [Ticket -> Revision], maximum : {Never} \cup Instant]
AtRest == [step |-> "idle", full |-> FALSE, seen |-> Never, since |-> Never,
           begun |-> Never, todo |-> {}, rest |-> {},
           got |-> [x \in Ticket |-> 0], maximum |-> Never]

(* get_ticket: the ticket, the cached row as loaded, what Zammad answered, *)
(* if it did, and when it began.                                           *)
Lookup == [of : Ticket \cup {NoTicket}, seen : [ver : Revision, shown : BOOLEAN],
           ver : Revision, begun : {Never} \cup Instant]
NoLookup == [of |-> NoTicket, seen |-> [ver |-> 0, shown |-> FALSE], ver |-> 0, begun |-> Never]

Occurs == occasions < MaxOccasions /\ occasions' = occasions + 1

Shown == {x \in Ticket : held[x].shown}

(* reconciliation_due: without a row, or a first reconciliation, or after  *)
(* a day, a sync is a full one whatever was asked.                         *)
FullDue == Shown = {} \/ ~reconciled

From(c) == IF c <= Margin THEN Never ELSE c - Margin

Stored(ver) == [ver |-> ver, shown |-> TRUE]

(* Mutant: an incremental sync, too, marks what it has not listed.         *)
ReconciledAlways(p) ==
  [x \in Ticket |-> IF x \in run[p].rest THEN Stored(run[p].got[x])
                    ELSE IF run[p].got[x] = 0 THEN [held[x] EXCEPT !.shown = FALSE]
                    ELSE held[x]]

(* Mutant: nothing is ever marked deleted.                                 *)
ReconciledNever(p) ==
  [x \in Ticket |-> IF x \in run[p].rest THEN Stored(run[p].got[x]) ELSE held[x]]

(* What a finished sync leaves of the cache.                               *)
Reconciled(p) ==
  [x \in Ticket |-> IF x \in run[p].rest THEN Stored(run[p].got[x])
                    ELSE IF run[p].full /\ run[p].got[x] = 0
                    THEN [held[x] EXCEPT !.shown = FALSE] ELSE held[x]]

(* Never moved when nothing was listed, and only written if it differs     *)
(* from the cursor loaded.                                                 *)
CursorMoved(p) == IF run[p].maximum \in {Never, run[p].seen} THEN zcursor ELSE run[p].maximum

----------------------------------------------------------------------------
ZammadInit ==
  /\ zclock = 1
  /\ ticket = [x \in Ticket |-> [ver |-> 0, at |-> Never, is |-> "none"]]
  /\ held = [x \in Ticket |-> [ver |-> 0, shown |-> FALSE]]
  /\ zcursor = Never
  /\ reconciled = FALSE
  /\ initial = "not_started"
  /\ enabled = TRUE
  /\ run = [p \in Runners |-> AtRest]
  /\ lookup = NoLookup
  /\ occasions = 0

(* Zammad: a ticket is created, updated, closed, moved or reopened.        *)
TicketChanges(x, is) ==
  /\ ticket[x].is # "gone"
  /\ ticket[x].ver < MaxRevision[x]
  /\ \/ is = "open"
     \/ is = "excluded" /\ x \in Leavers
  /\ ticket' = [ticket EXCEPT ![x] = [ver |-> @.ver + 1, at |-> zclock, is |-> is]]
  /\ UNCHANGED <<zclock, held, zcursor, reconciled, initial, enabled, run, lookup,
                 occasions>>

(* A ticket leaves the history window, or is withdrawn: no update tells.   *)
TicketLeaves(x, is) ==
  /\ x \in Leavers
  /\ \/ ticket[x].is = "open" /\ is = "excluded"
     \/ Listable(x) /\ is = "gone"
  /\ ticket' = [ticket EXCEPT ![x].is = is]
  /\ UNCHANGED <<zclock, held, zcursor, reconciled, initial, enabled, run, lookup,
                 occasions>>

(* Time passes; syncs and lookups do not take longer than RunLimit.        *)
TimePasses ==
  /\ zclock < LastTime
  /\ \A p \in Runners : run[p].step # "idle" => zclock < run[p].begun + RunLimit
  /\ lookup # NoLookup => zclock < lookup.begun + RunLimit
  /\ zclock' = zclock + 1
  /\ UNCHANGED <<ticket, held, zcursor, reconciled, initial, enabled, run, lookup,
                 occasions>>

(* The integration is enabled or disabled, see StreamSelection.            *)
Switch ==
  /\ Occurs
  /\ enabled' = ~enabled
  /\ UNCHANGED <<zclock, ticket, held, zcursor, reconciled, initial, run, lookup>>

----------------------------------------------------------------------------
(* synchronize begins: by the scheduler's timer, by an administrator (a    *)
(* full one), by a question for counts.                                    *)
RunBegins(p, full) ==
  /\ run[p].step = "idle"
  /\ enabled
  /\ IF p = Timer THEN UNCHANGED occasions ELSE Occurs
  /\ FullDue => full
  /\ run' = [run EXCEPT ![p] =
       [AtRest EXCEPT !.step = "list", !.full = full, !.seen = zcursor, !.begun = zclock,
                      !.since = IF full THEN Never ELSE From(zcursor), !.todo = Ticket]]
  /\ UNCHANGED <<zclock, ticket, held, zcursor, reconciled, initial, enabled, lookup>>

(* A page of the list is answered: of R, the tickets updated since ...     *)
Returned(p, R) == {x \in R : Listable(x) /\ ticket[x].at > run[p].since}

(* ... those the filters admit will be stored.                             *)
Admitted(X) == {x \in X : ticket[x].is = "open"}

PageListed(p, R) ==
  LET hits == Returned(p, R)
      kept == Admitted(hits)
  IN /\ run[p].step = "list"
     /\ R # {}
     /\ R \subseteq run[p].todo
     /\ run' = [run EXCEPT ![p] =
          [run[p] EXCEPT
            !.todo = @ \ R,
            !.step = IF run[p].todo = R THEN "store" ELSE "list",
            !.rest = @ \cup kept,
            !.got = [x \in Ticket |-> IF x \in kept THEN ticket[x].ver ELSE @[x]],
            !.maximum = CHOOSE m \in {@} \cup {ticket[x].at : x \in hits} :
                          m >= @ /\ \A x \in hits : m >= ticket[x].at]]
     /\ UNCHANGED <<zclock, ticket, held, zcursor, reconciled, initial, enabled, lookup,
                    occasions>>

(* A ticket is stored; with the next one's bootstrap it is committed, and  *)
(* with it the integration's initial_sync_status.                          *)
Upserts(p, x) ==
  /\ run[p].step = "store"
  /\ x \in run[p].rest
  /\ run[p].rest # {x}
  /\ held' = [held EXCEPT ![x] = Stored(run[p].got[x])]
  /\ initial' = "completed"
  /\ run' = [run EXCEPT ![p].rest = @ \ {x}]
  /\ UNCHANGED <<zclock, ticket, zcursor, reconciled, enabled, lookup, occasions>>

(* The last ticket, the marks of a full reconciliation and the cursor.     *)
RunCompletes(p) ==
  /\ run[p].step = "store"
  /\ Cardinality(run[p].rest) <= 1
  /\ held' = Reconciled(p)
  /\ zcursor' = CursorMoved(p)
  /\ reconciled' = (reconciled \/ run[p].full)
  /\ initial' = "completed"
  /\ run' = [run EXCEPT ![p] = AtRest]
  /\ UNCHANGED <<zclock, ticket, enabled, lookup, occasions>>

(* _request gives up: at once when it is denied or answered with nonsense, *)
(* after three attempts when it is answered late or with an error.  (The   *)
(* database may refuse a store in the same way.)                           *)
RequestBreaks(p) == Occurs /\ run[p].step # "idle"

(* Any error: what is not committed is rolled back and the integration's   *)
(* initial_sync_status becomes failed.                                     *)
RunFails(p) ==
  /\ RequestBreaks(p)
  /\ initial' = "failed"
  /\ run' = [run EXCEPT ![p] = AtRest]
  /\ UNCHANGED <<zclock, ticket, held, zcursor, reconciled, enabled, lookup>>

(* get_ticket loads the cached row, if there is one, ...                   *)
LookupBegins(x) ==
  /\ Occurs
  /\ enabled
  /\ initial = "completed"
  /\ lookup = NoLookup
  /\ lookup' = [of |-> x, seen |-> held[x], ver |-> 0, begun |-> zclock]
  /\ UNCHANGED <<zclock, ticket, held, zcursor, reconciled, initial, enabled, run>>

(* ... asks Zammad for the ticket, which may not be there, ...             *)
LookupReads ==
  /\ lookup.of \in Ticket
  /\ lookup.ver = 0
  /\ Listable(lookup.of)
  /\ lookup' = [lookup EXCEPT !.ver = ticket[lookup.of].ver]
  /\ UNCHANGED <<zclock, ticket, held, zcursor, reconciled, initial, enabled, run,
                 occasions>>

(* ... and stores the answer, which no filter applies to: of the row       *)
(* loaded, the columns that differ.                                        *)
Merged(row) ==
  [ver |-> IF lookup.ver = lookup.seen.ver THEN row.ver ELSE lookup.ver,
   shown |-> row.shown \/ ~lookup.seen.shown]

LookupStores ==
  /\ lookup # NoLookup
  /\ lookup.ver # 0
  /\ held' = [held EXCEPT ![lookup.of] = Merged(@)]
  /\ initial' = "completed"
  /\ lookup' = NoLookup
  /\ UNCHANGED <<zclock, ticket, zcursor, reconciled, enabled, run, occasions>>

(* Without an answer, or with an error, the cached row is what there is.   *)
LookupFails ==
  /\ lookup # NoLookup
  /\ lookup' = NoLookup
  /\ UNCHANGED <<zclock, ticket, held, zcursor, reconciled, initial, enabled, run,
                 occasions>>

(* The connector restarts.                                                 *)
Crashes ==
  /\ Occurs
  /\ run' = [p \in Runners |-> AtRest]
  /\ lookup' = NoLookup
  /\ UNCHANGED <<zclock, ticket, held, zcursor, reconciled, initial, enabled>>

----------------------------------------------------------------------------
RunStep(p) ==
  \/ \E full \in BOOLEAN : RunBegins(p, full)
  \/ \E R \in SUBSET Ticket : PageListed(p, R)
  \/ \E x \in Ticket : Upserts(p, x)
  \/ RunCompletes(p)
  \/ RunFails(p)

ZammadNext ==
  \/ \E x \in Ticket, is \in Standing : TicketChanges(x, is)
  \/ \E x \in Ticket, is \in Standing : TicketLeaves(x, is)
  \/ TimePasses
  \/ Switch
  \/ \E p \in Runners : RunStep(p)
  \/ \E x \in Ticket : LookupBegins(x)
  \/ LookupReads \/ LookupStores \/ LookupFails
  \/ Crashes

ZammadSpec == ZammadInit /\ [][ZammadNext]_zmVars

----------------------------------------------------------------------------
ZammadTypeOK ==
  /\ zclock \in Instant
  /\ ticket \in [Ticket -> [ver : Revision, at : {Never} \cup Instant, is : Standing]]
  /\ held \in [Ticket -> [ver : Revision, shown : BOOLEAN]]
  /\ zcursor \in {Never} \cup Instant
  /\ reconciled \in BOOLEAN
  /\ initial \in {"not_started", "completed", "failed"}
  /\ enabled \in BOOLEAN
  /\ run \in [Runners -> Run]
  /\ lookup \in Lookup
  /\ occasions \in 0 .. MaxOccasions

(* A ticket the next incremental sync will not ask for is in the cache     *)
(* with its last version and shown, though another sync or a lookup may    *)
(* have stored an older one, or a full reconciliation marked it deleted    *)
(* because it was not there when the list was made.                        *)
TicketsNotMissed ==
  \A x \in Ticket : ticket[x].is = "open" /\ ticket[x].at + Margin <= zcursor
                    => held[x] = Stored(ticket[x].ver)

(* The timer starts syncs, a full one at least daily; a sync proceeds; its *)
(* failures are among the bounded occasions.                               *)
RunProceeds(p) ==
  \/ \E R \in SUBSET Ticket : PageListed(p, R)
  \/ \E x \in Ticket : Upserts(p, x)
  \/ RunCompletes(p)

ZammadFairness ==
  /\ SF_zmVars(RunBegins(Timer, TRUE))
  /\ \A p \in Runners : WF_zmVars(RunProceeds(p))
  /\ WF_zmVars(LookupStores \/ LookupFails)

ZammadFairSpec == ZammadSpec /\ ZammadFairness

(* While the integration stays enabled, the cache comes to show the open   *)
(* tickets as they are at Zammad, and no other.                            *)
ZammadCatchesUp ==
  <>[]enabled => <>[](\A x \in Ticket :
    /\ ticket[x].is = "open" => held[x] = Stored(ticket[x].ver)
    /\ ticket[x].is \in {"excluded", "gone"} => ~held[x].shown)
=============================================================================
