------------------------ MODULE StreamSelectionProofs ------------------------
(* Proofs about StreamSelection, for any integrations, streams and number   *)
(* of requests.                                                             *)
EXTENDS StreamSelection, TLAPS

(* The values a session takes on.                                           *)
LEMMA IdleTyped == Idle \in Session /\ Prepared(Idle)
  BY SelectionAssumption DEF Idle, Session, Ops, Steps, Ahead, Prepared

LEMMA ConnectionsTyped == Connections \subseteq Integrations
  BY SelectionAssumption DEF Connections

LEMMA PassedTyped ==
  ASSUME NEW s \in Session, s.next = "linking" => s.of \in Connections
  PROVE  Passed(s) \in Session /\ Prepared(Passed(s))
<1>. DEFINE jobs == IF s.next = "reconcile" THEN {c \in Connections : conn[c] # "none"} ELSE {}
            seen == [i \in Integrations |-> Holds(s, i) /\ s.seen[i]]
            t == [s EXCEPT !.pc = s.next, !.fix = None, !.sel = FALSE, !.todo = jobs,
                           !.seen = seen]
<1>1. jobs \in SUBSET Connections /\ jobs \in SUBSET Integrations
  BY ConnectionsTyped
<1>2. seen \in [Integrations -> BOOLEAN]
  BY DEF Holds, Session
<1>3. t \in Session /\ t.pc = s.next /\ t.next = s.next /\ t.of = s.of /\ t.todo = jobs
  <2>. HIDE DEF jobs, seen
  <2>. QED
    BY <1>1, <1>2 DEF Session, Steps, Ahead
<1>4. Prepared(t)
  <2>. HIDE DEF t, jobs
  <2>. QED
    BY <1>1, <1>3 DEF Prepared, Session, Ahead
<1>5. Passed(s) = Idle \/ Passed(s) = t
  BY DEF Passed
<1>. QED
  BY <1>3, <1>4, <1>5, IdleTyped

LEMMA CorrectedTyped ==
  ASSUME NEW s \in Session, s.next = "linking" => s.of \in Connections,
         NEW T \in SUBSET Integrations,
         NEW val \in [Integrations -> BOOLEAN]
  PROVE  Corrected(s, T, val) \in Session /\ Prepared(Corrected(s, T, val))
<1>. DEFINE seen == [i \in Integrations |-> IF i \in T THEN val[i] ELSE s.seen[i]]
            on == IF s.op = "save" /\ s.of \in T THEN val[s.of] ELSE s.on
            t == [s EXCEPT !.changed = TRUE, !.seen = seen, !.on = on]
<1>1. seen \in [Integrations -> BOOLEAN] /\ on \in BOOLEAN
  BY DEF Session
<1>2. t \in Session /\ t.next = s.next /\ t.of = s.of
  <2>. HIDE DEF seen, on
  <2>. QED
    BY <1>1 DEF Session
<1>3. Corrected(s, T, val) = Passed(t)
  BY DEF Corrected
<1>. QED
  BY <1>2, <1>3, PassedTyped

LEMMA SettlingTyped ==
  ASSUME NEW s \in Session
  PROVE  Settling(s) \in Session /\ Prepared(Settling(s))
<1>1. Settling(s) \in Session
  BY IdleTyped DEF Settling, Session, Steps, Ahead
<1>. QED
  BY <1>1 DEF Settling, Idle, Prepared

(* What Enable writes.                                                      *)
LEMMA SetTyped ==
  ASSUME enabled \in [Integrations -> BOOLEAN], NEW T,
         NEW val \in [Integrations -> BOOLEAN]
  PROVE  Set(T, val) \in [Integrations -> BOOLEAN]
  BY DEF Set

LEMMA FollowTyped ==
  ASSUME conn \in [Connections -> {"none", "on", "off"}], NEW s, NEW T,
         NEW val \in [Integrations -> BOOLEAN]
  PROVE  Follow(s, T, val) \in [Connections -> {"none", "on", "off"}]
  BY DEF Follow, OnOff

(* A request moves to a session of the right type.                          *)
LEMMA SessionMoves ==
  ASSUME sess \in [Requests -> Session], \A q \in Requests : Prepared(sess[q]),
         NEW r \in Requests, NEW t \in Session, Prepared(t), Goes(r, t)
  PROVE  /\ sess' \in [Requests -> Session]
         /\ \A q \in Requests : Prepared(sess'[q])
  BY DEF Goes

(* Bootstrap. *)
LEMMA BootLoadsKeeps ==
  ASSUME SelectionInv, NEW r \in Requests, BootLoads(r)
  PROVE  SelectionInv'
<1>. DEFINE s == sess[r]
            t == [s EXCEPT !.pc = "check", !.todo = there, !.seen = Found(s)]
<1>1. s \in Session
  BY DEF SelectionInv, TypeOK
<1>2. Found(s) \in [Integrations -> BOOLEAN]
  BY <1>1 DEF Found, Session, SelectionInv, TypeOK
<1>6. s.next = "linking" => s.of \in Connections
  BY DEF SelectionInv, Prepared
<1>3. t \in Session /\ Prepared(t)
  <2>1. t \in Session /\ t.pc = "check" /\ t.next = s.next /\ t.of = s.of
    BY <1>1, <1>2 DEF Session, Steps, SelectionInv, TypeOK
  <2>. QED
    BY <1>6, <2>1 DEF Prepared
<1>4. Goes(r, Passed(s)) \/ Goes(r, t)
  BY DEF BootLoads
<1>5. sess' \in [Requests -> Session] /\ \A q \in Requests : Prepared(sess'[q])
  BY <1>1, <1>3, <1>4, <1>6, PassedTyped, SessionMoves DEF SelectionInv, TypeOK
<1>. QED
  BY <1>5 DEF BootLoads, Rest, SelectionInv, TypeOK, Unique

LEMMA BootInsertsKeeps ==
  ASSUME SelectionInv, NEW r \in Requests, BootInserts(r)
  PROVE  SelectionInv'
<1>. DEFINE s == [sess[r] EXCEPT !.seen = Found(sess[r])]
            val(N) == [i \in Integrations |-> Among(active \cup N, i)]
            T(N) == {i \in there : s.seen[i] # val(N)[i]}
<1>1. sess[r] \in Session
  BY DEF SelectionInv, TypeOK
<1>2. Found(sess[r]) \in [Integrations -> BOOLEAN]
  BY <1>1 DEF Found, Session, SelectionInv, TypeOK
<1>3. s \in Session /\ s.next = sess[r].next /\ s.of = sess[r].of
  BY <1>1, <1>2 DEF Session
<1>10. s.next = "linking" => s.of \in Connections
  BY <1>3 DEF SelectionInv, Prepared
<1>4. PICK N \in SUBSET Missing :
        /\ Backfill(N, s.seen)
        /\ active' = active \cup N
        /\ Enable(s, T(N), val(N))
        /\ Goes(r, Corrected(s, T(N), val(N)))
  BY DEF BootInserts
<1>5. val(N) \in [Integrations -> BOOLEAN] /\ T(N) \in SUBSET Integrations
  BY DEF Among, SelectionInv, TypeOK
<1>6. sess' \in [Requests -> Session] /\ \A q \in Requests : Prepared(sess'[q])
  BY <1>3, <1>4, <1>5, <1>10, CorrectedTyped, SessionMoves DEF SelectionInv, TypeOK
<1>7. /\ enabled' \in [Integrations -> BOOLEAN]
      /\ conn' \in [Connections -> {"none", "on", "off"}]
  BY <1>4, <1>5, SetTyped, FollowTyped DEF Enable, SelectionInv, TypeOK
<1>8. rows' \subseteq Sources /\ active' \subseteq rows'
  BY <1>4 DEF BootInserts, Missing, SelectionInv, TypeOK
<1>9. Unique(active')
  <2>1. \A p \in N : Serving(active, p[2]) = {}
    BY <1>4 DEF Backfill
  <2>2. \A p \in N : p \in Sources
    BY DEF Missing
  <2>3. \A p \in active, q \in N : p[2] # q[2]
    <3>. TAKE p \in active, q \in N
    <3>1. p = <<p[1], p[2]>> /\ p[1] \in Integrations
      BY DEF Sources, SelectionInv, TypeOK
    <3>2. p[1] \in Serving(active, p[2])
      BY <3>1 DEF Serving
    <3>. QED
      BY <3>2, <2>1
  <2>4. \A p, q \in N : p[2] = q[2] => p = q
    BY <1>4 DEF Backfill
  <2>5. \A p, q \in active : p[2] = q[2] => p = q
    BY DEF SelectionInv, Unique
  <2>. QED
    BY <1>4, <2>3, <2>4, <2>5 DEF Unique
<1>. QED
  BY <1>6, <1>7, <1>8, <1>9 DEF BootInserts, Rest, SelectionInv, TypeOK

LEMMA BootChecksKeeps ==
  ASSUME SelectionInv, NEW r \in Requests, BootChecks(r)
  PROVE  SelectionInv'
<1>. DEFINE s == sess[r]
            f(i) == [s EXCEPT !.pc = "fix", !.fix = i, !.sel = Selected(i), !.todo = @ \ {i}]
            c(i) == [s EXCEPT !.todo = @ \ {i}]
<1>1. s \in Session /\ s.pc = "check"
  BY DEF BootChecks, SelectionInv, TypeOK
<1>2. PICK i \in s.todo : Goes(r, f(i)) \/ Goes(r, Passed(s)) \/ Goes(r, c(i))
  BY DEF BootChecks
<1>3. Selected(i) \in BOOLEAN /\ i \in Integrations
  BY <1>1 DEF Selected, Among, Session
<1>6. s.next = "linking" => s.of \in Connections
  BY DEF SelectionInv, Prepared
<1>4. f(i) \in Session /\ Prepared(f(i)) /\ c(i) \in Session /\ Prepared(c(i))
  <2>1. f(i) \in Session /\ f(i).pc = "fix" /\ f(i).next = s.next /\ f(i).of = s.of
    BY <1>1, <1>3 DEF Session, Steps
  <2>2. c(i) \in Session /\ c(i).pc = "check" /\ c(i).next = s.next /\ c(i).of = s.of
    BY <1>1 DEF Session
  <2>. QED
    BY <1>6, <2>1, <2>2 DEF Prepared
<1>5. sess' \in [Requests -> Session] /\ \A q \in Requests : Prepared(sess'[q])
  BY <1>1, <1>2, <1>4, <1>6, PassedTyped, SessionMoves DEF SelectionInv, TypeOK
<1>. QED
  BY <1>5 DEF BootChecks, Rest, SelectionInv, TypeOK, Unique

LEMMA BreaksTyped ==
  ASSUME SelectionInv, NEW r \in Requests, Breaks(r)
  PROVE  /\ sess' \in [Requests -> Session]
         /\ \A q \in Requests : Prepared(sess'[q])
         /\ exposed' \in BOOLEAN
<1>1. sess[r].changed \in BOOLEAN
  BY DEF SelectionInv, TypeOK, Session
<1>. QED
  BY <1>1, IdleTyped, SessionMoves DEF Breaks, Ends, Outdated, SelectionInv, TypeOK

LEMMA BootFixesKeeps ==
  ASSUME SelectionInv, NEW r \in Requests, BootFixes(r)
  PROVE  SelectionInv'
<1>. DEFINE s == sess[r]
            val == [i \in Integrations |-> IF i = s.fix THEN s.sel ELSE Selected(i)]
            T == {s.fix} \cup {i \in s.todo : Differs(s, i)}
<1>1. s \in Session
  BY DEF SelectionInv, TypeOK
<1>2. val \in [Integrations -> BOOLEAN]
  BY <1>1 DEF Selected, Among, Session
<1>5. s.next = "linking" => s.of \in Connections
  BY DEF SelectionInv, Prepared
<1>3. CASE T \subseteq there
  <2>1. Enable(s, T, val) /\ Goes(r, Corrected(s, T, val)) /\ exposed' \in BOOLEAN
    BY <1>3 DEF BootFixes, Outdated, SelectionInv, TypeOK
  <2>2. sess' \in [Requests -> Session] /\ \A q \in Requests : Prepared(sess'[q])
    BY <1>1, <1>2, <1>3, <1>5, <2>1, CorrectedTyped, SessionMoves
       DEF SelectionInv, TypeOK
  <2>3. /\ enabled' \in [Integrations -> BOOLEAN]
        /\ conn' \in [Connections -> {"none", "on", "off"}]
    BY <1>2, <2>1, SetTyped, FollowTyped DEF Enable, SelectionInv, TypeOK
  <2>. QED
    BY <2>1, <2>2, <2>3 DEF BootFixes, Rest, SelectionInv, TypeOK, Unique
<1>4. CASE ~(T \subseteq there)
  BY <1>4, BreaksTyped DEF BootFixes, Rest, SelectionInv, TypeOK, Unique
<1>. QED
  BY <1>3, <1>4

(* Beginning a request. *)
LEMMA ReadsKeeps ==
  ASSUME SelectionInv, NEW r \in Requests, Reads(r)
  PROVE  SelectionInv'
<1>. DEFINE t == [Idle EXCEPT !.pc = "boot"]
<1>1. t \in Session /\ Prepared(t)
  BY IdleTyped DEF Session, Steps, Prepared
<1>2. sess' \in [Requests -> Session] /\ \A q \in Requests : Prepared(sess'[q])
  BY <1>1, SessionMoves DEF Reads, Begins, SelectionInv, TypeOK
<1>. QED
  BY <1>2 DEF Reads, Rest, SelectionInv, TypeOK, Unique

LEMMA ChangeTyped ==
  ASSUME Change, changes \in 0 .. MaxChanges
  PROVE  changes' \in 0 .. MaxChanges
  BY SelectionAssumption DEF Change

LEMMA AdoptsKeeps ==
  ASSUME SelectionInv, NEW r \in Requests, Adopts(r)
  PROVE  SelectionInv'
<1>. DEFINE t == [Idle EXCEPT !.pc = "boot", !.changed = TRUE]
<1>1. t \in Session /\ Prepared(t)
  <2>1. t \in Session /\ t.pc = "boot" /\ t.next = "idle"
    BY IdleTyped DEF Session, Steps, Idle
  <2>. QED
    BY <2>1 DEF Prepared
<1>2. sess' \in [Requests -> Session] /\ \A q \in Requests : Prepared(sess'[q])
  BY <1>1, SessionMoves DEF Adopts, Begins, SelectionInv, TypeOK
<1>. QED
  BY <1>2, ChangeTyped DEF Adopts, SelectionInv, TypeOK, Unique

LEMMA LoadedTyped ==
  ASSUME NEW i, NEW b \in BOOLEAN
  PROVE  Loaded(i, b) \in [Integrations -> BOOLEAN]
  BY DEF Loaded

LEMMA SelectBeginsKeeps ==
  ASSUME SelectionInv, NEW r \in Requests, SelectBegins(r)
  PROVE  SelectionInv'
<1>1. PICK p \in Sources, b \in BOOLEAN :
        Goes(r, [Idle EXCEPT !.pc = "boot", !.op = "select", !.of = p[1],
                             !.stream = p[2], !.confirmed = b, !.next = "load"])
  BY DEF SelectBegins, Begins
<1>. DEFINE of == p[1]
            stream == p[2]
            t == [Idle EXCEPT !.pc = "boot", !.op = "select", !.of = of,
                              !.stream = stream, !.confirmed = b, !.next = "load"]
<1>2. of \in Integrations /\ stream \in Streams
  BY DEF Sources
<1>3. t \in Session /\ t.pc = "boot" /\ t.next = "load"
  <2>. HIDE DEF of, stream
  <2>. QED
    BY <1>2, IdleTyped DEF Session, Steps, Ahead, Ops, Idle
<1>4. sess' \in [Requests -> Session] /\ \A q \in Requests : Prepared(sess'[q])
  BY <1>1, <1>3, SessionMoves DEF Prepared, SelectionInv, TypeOK
<1>. QED
  BY <1>4, ChangeTyped DEF SelectBegins, SelectionInv, TypeOK, Unique

LEMMA SetEnabledBeginsKeeps ==
  ASSUME SelectionInv, NEW r \in Requests, SetEnabledBegins(r)
  PROVE  SelectionInv'
<1>1. PICK i \in there, st \in Streams, b \in BOOLEAN :
        Goes(r, [Idle EXCEPT
              !.pc = IF b THEN "boot" ELSE "off", !.op = IF b THEN "enable" ELSE "disable",
              !.of = i, !.stream = st, !.next = IF b THEN "load" ELSE "idle",
              !.seen = Loaded(i, enabled[i])])
  BY DEF SetEnabledBegins, Begins
<1>. DEFINE pc == IF b THEN "boot" ELSE "off"
            op == IF b THEN "enable" ELSE "disable"
            next == IF b THEN "load" ELSE "idle"
            seen == Loaded(i, enabled[i])
            t == [Idle EXCEPT !.pc = pc, !.op = op, !.of = i, !.stream = st,
                              !.next = next, !.seen = seen]
<1>2. i \in Integrations /\ seen \in [Integrations -> BOOLEAN]
  BY LoadedTyped DEF SelectionInv, TypeOK
<1>3. pc \in Steps /\ pc \in {"boot", "off"} /\ op \in Ops /\ next \in Ahead
                  /\ next # "linking"
  BY DEF Steps, Ops, Ahead
<1>4. t \in Session /\ t.pc \in {"boot", "off"} /\ t.next # "linking"
  <2>. HIDE DEF pc, op, next, seen
  <2>. QED
    BY <1>2, <1>3, IdleTyped DEF Session, Idle
<1>5. sess' \in [Requests -> Session] /\ \A q \in Requests : Prepared(sess'[q])
  BY <1>1, <1>4, SessionMoves DEF Prepared, SelectionInv, TypeOK
<1>. QED
  BY <1>5, ChangeTyped DEF SetEnabledBegins, SelectionInv, TypeOK, Unique

LEMMA ZammadSavesKeeps ==
  ASSUME SelectionInv, NEW r \in Requests, ZammadSaves(r)
  PROVE  SelectionInv'
<1>1. PICK c \in Zammad, b \in BOOLEAN :
        Goes(r, [Idle EXCEPT !.pc = "boot", !.op = "save", !.of = c, !.on = b,
                             !.next = "linking", !.changed = TRUE])
  BY DEF ZammadSaves, Begins
<1>. DEFINE t == [Idle EXCEPT !.pc = "boot", !.op = "save", !.of = c, !.on = b,
                              !.next = "linking", !.changed = TRUE]
<1>2. Zammad \subseteq Connections
  BY DEF Connections
<1>3. t \in Session /\ t.pc = "boot" /\ t.of = c
  BY <1>2, ConnectionsTyped, IdleTyped DEF Session, Steps, Ahead, Ops, Idle
<1>4. sess' \in [Requests -> Session] /\ \A q \in Requests : Prepared(sess'[q])
  BY <1>1, <1>2, <1>3, SessionMoves DEF Prepared, SelectionInv, TypeOK
<1>5. /\ enabled' \in [Integrations -> BOOLEAN] /\ there' \subseteq Integrations
      /\ conn' \in [Connections -> {"none", "on", "off"}]
  BY <1>2, ConnectionsTyped DEF ZammadSaves, OnOff, SelectionInv, TypeOK
<1>. QED
  BY <1>4, <1>5, ChangeTyped DEF ZammadSaves, SelectionInv, TypeOK, Unique

LEMMA ServiceNowSavesKeeps ==
  ASSUME SelectionInv, NEW r \in Requests, ServiceNowSaves(r)
  PROVE  SelectionInv'
<1>1. PICK c \in ServiceNow :
        Goes(r, [Idle EXCEPT !.pc = "linking", !.op = "save", !.of = c,
                             !.on = conn[c] = "on", !.seen = Loaded(c, enabled[c])])
  BY DEF ServiceNowSaves, Begins
<1>. DEFINE on == conn[c] = "on"
            seen == Loaded(c, enabled[c])
            t == [Idle EXCEPT !.pc = "linking", !.op = "save", !.of = c, !.on = on,
                              !.seen = seen]
<1>2. c \in Integrations /\ c \in Connections
  BY ConnectionsTyped DEF Connections
<1>3. on \in BOOLEAN /\ seen \in [Integrations -> BOOLEAN]
  BY <1>2, LoadedTyped DEF SelectionInv, TypeOK
<1>4. t \in Session /\ t.pc = "linking" /\ t.of = c
  <2>. HIDE DEF on, seen
  <2>. QED
    BY <1>2, <1>3, IdleTyped DEF Session, Steps, Ops, Idle
<1>5. sess' \in [Requests -> Session] /\ \A q \in Requests : Prepared(sess'[q])
  BY <1>1, <1>2, <1>4, SessionMoves DEF Prepared, SelectionInv, TypeOK
<1>. QED
  BY <1>5, ChangeTyped DEF ServiceNowSaves, SelectionInv, TypeOK, Unique

LEMMA CreatesKeeps ==
  ASSUME SelectionInv, NEW r \in Requests, Creates(r)
  PROVE  SelectionInv'
<1>. DEFINE own(i) == {i} \X Offers[i]
            taken(i, b) == IF b THEN {p \in own(i) : Serving(active, p[2]) = {}} ELSE {}
            t(i, b) == [Idle EXCEPT !.pc = "linking", !.op = "create", !.of = i,
                                    !.seen = Loaded(i, taken(i, b) # {}), !.changed = TRUE]
<1>1. PICK i \in Integrations \ (Zammad \cup there), b \in BOOLEAN :
        /\ there' = there \cup {i}
        /\ rows' = rows \cup own(i)
        /\ active' = active \cup taken(i, b)
        /\ enabled' = [enabled EXCEPT ![i] = taken(i, b) # {}]
        /\ Goes(r, IF i \in ServiceNow THEN t(i, b) ELSE Idle)
  BY DEF Creates
<1>2. i \in ServiceNow => t(i, b) \in Session /\ Prepared(t(i, b))
  <2>. DEFINE seen == Loaded(i, taken(i, b) # {})
              u == [Idle EXCEPT !.pc = "linking", !.op = "create", !.of = i,
                                !.seen = seen, !.changed = TRUE]
  <2>1. seen \in [Integrations -> BOOLEAN]
    BY LoadedTyped
  <2>2. u \in Session /\ u.pc = "linking" /\ u.of = i
    <3>. HIDE DEF seen
    <3>. QED
      BY <2>1, IdleTyped DEF Session, Steps, Ops, Idle
  <2>. QED
    BY <2>2 DEF Prepared, Connections
<1>3. sess' \in [Requests -> Session] /\ \A q \in Requests : Prepared(sess'[q])
  BY <1>1, <1>2, IdleTyped, SessionMoves DEF SelectionInv, TypeOK
<1>4. own(i) \subseteq Sources
  BY SelectionAssumption DEF Sources
<1>5. /\ there' \subseteq Integrations
      /\ enabled' \in [Integrations -> BOOLEAN]
      /\ rows' \subseteq Sources
      /\ active' \subseteq rows'
  BY <1>1, <1>4 DEF SelectionInv, TypeOK
<1>6. Unique(active')
  <2>1. \A p, q \in taken(i, b) : p[2] = q[2] => p = q
    OBVIOUS
  <2>2. \A p \in active, q \in taken(i, b) : p[2] # q[2]
    <3>. TAKE p \in active, q \in taken(i, b)
    <3>1. p = <<p[1], p[2]>> /\ p[1] \in Integrations
      BY DEF Sources, SelectionInv, TypeOK
    <3>2. p[1] \in Serving(active, p[2])
      BY <3>1 DEF Serving
    <3>3. Serving(active, q[2]) = {}
      OBVIOUS
    <3>. QED
      BY <3>2, <3>3
  <2>3. \A p, q \in active : p[2] = q[2] => p = q
    BY DEF SelectionInv, Unique
  <2>. QED
    BY <1>1, <2>1, <2>2, <2>3 DEF Unique
<1>. QED
  BY <1>3, <1>5, <1>6, ChangeTyped DEF Creates, SelectionInv, TypeOK

LEMMA DeleteBeginsKeeps ==
  ASSUME SelectionInv, NEW r \in Requests, DeleteBegins(r)
  PROVE  SelectionInv'
<1>. DEFINE t(c) == [Idle EXCEPT !.pc = "delete", !.op = "delete", !.of = c,
                                !.changed = TRUE]
<1>1. \A c \in Zammad : t(c) \in Session /\ Prepared(t(c))
  BY ConnectionsTyped, IdleTyped DEF Session, Steps, Ops, Prepared, Connections
<1>2. sess' \in [Requests -> Session] /\ \A q \in Requests : Prepared(sess'[q])
  BY <1>1, SessionMoves DEF DeleteBegins, Begins, SelectionInv, TypeOK
<1>. QED
  BY <1>2, ChangeTyped DEF DeleteBegins, SelectionInv, TypeOK, Unique

(* select_source: what it is told when it reads is what it may displace.    *)
LEMMA SelectLoadsKeeps ==
  ASSUME SelectionInv, NEW r \in Requests, SelectLoads(r)
  PROVE  SelectionInv'
<1>. DEFINE s == sess[r]
            now == Serving(active, s.stream)
            current == IF now = {} THEN None ELSE CHOOSE i \in now : TRUE
            on == s.of \in now
            seen == [s.seen EXCEPT ![s.of] = Found(s)[s.of]]
            t == [s EXCEPT !.pc = "write", !.on = on, !.current = current, !.seen = seen]
            u == [s EXCEPT !.pc = "write", !.on = on, !.current = current,
                           !.seen[s.of] = Found(s)[s.of]]
<1>1. s \in Session
  BY DEF SelectionInv, TypeOK
<1>2. now \subseteq Integrations
  BY DEF Serving
<1>3. now # {} => current \in now
  OBVIOUS
<1>4. current \in Integrations \cup {None} /\ on \in BOOLEAN
  <2>. HIDE DEF now
  <2>. QED
    BY <1>2, <1>3
<1>5. seen \in [Integrations -> BOOLEAN]
  <2>1. Found(s) \in [Integrations -> BOOLEAN] /\ s.seen \in [Integrations -> BOOLEAN]
    BY <1>1 DEF Found, Session, SelectionInv, TypeOK
  <2>2. seen = [i \in Integrations |-> IF i = s.of THEN Found(s)[s.of] ELSE s.seen[i]]
    BY <2>1
  <2>3. s.of \in Integrations => Found(s)[s.of] \in BOOLEAN
    BY <2>1
  <2>. QED
    BY <2>1, <2>2, <2>3
<1>6. /\ t \in Session /\ t.of = s.of /\ t.confirmed = s.confirmed
      /\ t.current = current /\ t.on = on /\ t.pc = "write" /\ t.next = s.next
  <2>. HIDE DEF current, on, seen
  <2>. QED
    BY <1>1, <1>4, <1>5 DEF Session, Steps
<1>7. t = u
  <2>. HIDE DEF current, on
  <2>. QED
    BY <1>1 DEF Session
<1>8. Goes(r, Idle) \/ ((now \ {s.of} = {} \/ s.confirmed) /\ Goes(r, u))
  BY DEF SelectLoads, Ends
<1>9. CASE Goes(r, Idle)
  <2>1. sess' \in [Requests -> Session] /\ \A q \in Requests : Prepared(sess'[q])
    BY <1>9, IdleTyped, SessionMoves DEF SelectionInv, TypeOK
  <2>. QED
    BY <2>1 DEF SelectLoads, Rest, SelectionInv, TypeOK, Unique
<1>10. CASE (now \ {s.of} = {} \/ s.confirmed) /\ Goes(r, u)
  <2>1. current \notin {None, s.of} => s.confirmed
    <3>. HIDE DEF now
    <3>. QED
      BY <1>3, <1>10
  <2>2. on => current = s.of
    <3>. SUFFICES ASSUME on PROVE current = s.of
      OBVIOUS
    <3>1. current \in now /\ s.of \in now
      BY <1>3
    <3>2. <<current, s.stream>> \in active /\ <<s.of, s.stream>> \in active
      <4>. HIDE DEF current
      <4>. QED
        BY <3>1 DEF Serving
    <3>3. <<current, s.stream>> = <<s.of, s.stream>>
      <4>. HIDE DEF current
      <4>. QED
        BY <3>2 DEF SelectionInv, Unique
    <3>. QED
      <4>. HIDE DEF current
      <4>. QED
        BY <3>3
  <2>3. Prepared(t)
    <3>1. s.next = "linking" => s.of \in Connections
      BY DEF SelectionInv, Prepared
    <3>. HIDE DEF current, on, t
    <3>. QED
      BY <1>6, <2>1, <2>2, <3>1 DEF Prepared
  <2>4. Goes(r, t)
    BY <1>7, <1>10
  <2>5. sess' \in [Requests -> Session] /\ \A q \in Requests : Prepared(sess'[q])
    <3>. HIDE DEF t
    <3>. QED
      BY <1>6, <2>3, <2>4, SessionMoves DEF SelectionInv, TypeOK
  <2>. QED
    BY <2>5 DEF SelectLoads, Rest, SelectionInv, TypeOK, Unique
<1>. QED
  BY <1>8, <1>9, <1>10

LEMMA SelectWritesKeeps ==
  ASSUME SelectionInv, NEW r \in Requests, SelectWrites(r)
  PROVE  SelectionInv'
<1>. DEFINE s == sess[r]
            previous == IF s.current \in there \ {s.of} /\ ~Among(Chosen(s), s.current)
                          THEN {s.current} ELSE {}
            val == [i \in Integrations |-> i = s.of]
<1>1. s \in Session
  BY DEF SelectionInv, TypeOK
<1>2. val \in [Integrations -> BOOLEAN]
  OBVIOUS
<1>3. CASE <<s.of, s.stream>> \in rows /\ Unique(Chosen(s))
  <2>1. /\ active' = Chosen(s)
        /\ enabled' = Set({i \in previous \cup {s.of} : ~s.seen[i]}, val)
        /\ conn' = Follow(s, previous \cup {s.of}, val)
        /\ Goes(r, Settling(s))
        /\ exposed' \in BOOLEAN
    BY <1>3 DEF SelectWrites, Outdated, SelectionInv, TypeOK
  <2>2. sess' \in [Requests -> Session] /\ \A q \in Requests : Prepared(sess'[q])
    BY <1>1, <2>1, SettlingTyped, SessionMoves DEF SelectionInv, TypeOK
  <2>3. /\ enabled' \in [Integrations -> BOOLEAN]
        /\ conn' \in [Connections -> {"none", "on", "off"}]
    BY <1>2, <2>1, SetTyped, FollowTyped DEF SelectionInv, TypeOK
  <2>4. active' \subseteq rows
    BY <1>3, <2>1 DEF Chosen, SelectionInv, TypeOK
  <2>5. Unique(active')
    BY <1>3, <2>1
  <2>. QED
    BY <2>1, <2>2, <2>3, <2>4, <2>5 DEF SelectWrites, Rest, SelectionInv, TypeOK
<1>4. CASE ~(<<s.of, s.stream>> \in rows /\ Unique(Chosen(s)))
  BY <1>4, BreaksTyped DEF SelectWrites, Rest, SelectionInv, TypeOK, Unique
<1>. QED
  BY <1>3, <1>4

LEMMA DisableWritesKeeps ==
  ASSUME SelectionInv, NEW r \in Requests, DisableWrites(r)
  PROVE  SelectionInv'
<1>. DEFINE s == sess[r]
            val == [i \in Integrations |-> FALSE]
<1>1. s \in Session
  BY DEF SelectionInv, TypeOK
<1>2. val \in [Integrations -> BOOLEAN]
  OBVIOUS
<1>3. CASE s.of \in there
  <2>1. /\ active' = {p \in active : p[1] # s.of}
        /\ enabled' = Set({i \in {s.of} : s.seen[i]}, val)
        /\ conn' = Follow(s, {s.of}, val)
        /\ Goes(r, Settling(s))
        /\ exposed' \in BOOLEAN
    BY <1>3 DEF DisableWrites, Outdated, SelectionInv, TypeOK
  <2>2. sess' \in [Requests -> Session] /\ \A q \in Requests : Prepared(sess'[q])
    BY <1>1, <2>1, SettlingTyped, SessionMoves DEF SelectionInv, TypeOK
  <2>3. /\ enabled' \in [Integrations -> BOOLEAN]
        /\ conn' \in [Connections -> {"none", "on", "off"}]
    BY <1>2, <2>1, SetTyped, FollowTyped DEF SelectionInv, TypeOK
  <2>4. active' \subseteq rows /\ Unique(active')
    BY <2>1 DEF SelectionInv, TypeOK, Unique
  <2>. QED
    BY <2>1, <2>2, <2>3, <2>4 DEF DisableWrites, Rest, SelectionInv, TypeOK
<1>4. CASE s.of \notin there
  BY <1>4, BreaksTyped DEF DisableWrites, Rest, SelectionInv, TypeOK, Unique
<1>. QED
  BY <1>3, <1>4

(* The saves. *)
LEMMA LinkReadsKeeps ==
  ASSUME SelectionInv, NEW r \in Requests, LinkReads(r)
  PROVE  SelectionInv'
<1>. DEFINE s == sess[r]
            seen == [s.seen EXCEPT ![s.of] = IF s.of \in Zammad THEN enabled[s.of] ELSE @]
            t == [s EXCEPT !.pc = "link", !.sel = Selected(s.of), !.seen = seen]
            u == [s EXCEPT !.pc = "link", !.sel = Selected(s.of),
                           !.seen[s.of] = IF s.of \in Zammad THEN enabled[s.of] ELSE @]
<1>1. s \in Session /\ s.of \in Connections
  BY DEF LinkReads, SelectionInv, TypeOK, Prepared
<1>2. CASE s.of \in there
  <2>1. Goes(r, u) /\ exposed' = exposed
    BY <1>2 DEF LinkReads
  <2>2. t = u
    BY <1>1 DEF Session
  <2>3. seen \in [Integrations -> BOOLEAN] /\ Selected(s.of) \in BOOLEAN
    BY <1>1 DEF Session, Selected, Among, SelectionInv, TypeOK
  <2>4. t \in Session /\ t.pc = "link" /\ t.of = s.of
    <3>. HIDE DEF seen
    <3>. QED
      BY <1>1, <2>3 DEF Session, Steps
  <2>5. Prepared(t)
    <3>. HIDE DEF t
    <3>. QED
      BY <1>1, <2>4 DEF Prepared
  <2>6. sess' \in [Requests -> Session] /\ \A q \in Requests : Prepared(sess'[q])
    <3>1. Goes(r, t)
      BY <2>1, <2>2
    <3>. HIDE DEF t
    <3>. QED
      BY <2>4, <2>5, <3>1, SessionMoves DEF SelectionInv, TypeOK
  <2>. QED
    BY <2>1, <2>6 DEF LinkReads, Rest, SelectionInv, TypeOK, Unique
<1>3. CASE s.of \notin there
  BY <1>3, BreaksTyped DEF LinkReads, Rest, SelectionInv, TypeOK, Unique
<1>. QED
  BY <1>2, <1>3

LEMMA ReconcilingTyped ==
  ASSUME NEW c \in Connections
  PROVE  LET t == [Idle EXCEPT !.pc = "reconcile", !.op = "save", !.of = c,
                               !.todo = {c}, !.changed = TRUE]
         IN t \in Session /\ Prepared(t)
<1>. DEFINE todo == {c}
            t == [Idle EXCEPT !.pc = "reconcile", !.op = "save", !.of = c,
                              !.todo = todo, !.changed = TRUE]
<1>1. c \in Integrations /\ todo \in SUBSET Integrations /\ todo \subseteq Connections
  BY ConnectionsTyped
<1>2. t \in Session /\ t.pc = "reconcile" /\ t.next = "idle" /\ t.todo = todo
  <2>. HIDE DEF todo
  <2>. QED
    BY <1>1, IdleTyped DEF Session, Steps, Ops, Idle
<1>3. Prepared(t)
  <2>. HIDE DEF t, todo
  <2>. QED
    BY <1>1, <1>2 DEF Prepared
<1>. QED
  BY <1>2, <1>3

LEMMA LinkWritesKeeps ==
  ASSUME SelectionInv, NEW r \in Requests, LinkWrites(r)
  PROVE  SelectionInv'
<1>. DEFINE s == sess[r]
            val == [i \in Integrations |-> s.sel]
            t == [Idle EXCEPT !.pc = "reconcile", !.op = "save", !.of = s.of,
                              !.todo = {s.of}, !.changed = TRUE]
<1>1. s \in Session /\ s.of \in Connections
  BY DEF LinkWrites, SelectionInv, TypeOK, Prepared
<1>2. val \in [Integrations -> BOOLEAN]
  BY <1>1 DEF Session
<1>3. CASE s.of \in there
  <2>1. /\ enabled' = Set({i \in {s.of} : s.seen[i] # s.sel}, val)
        /\ conn' = Follow(s, {s.of}, val)
        /\ Goes(r, t)
    BY <1>3 DEF LinkWrites
  <2>2. exposed' \in BOOLEAN
    BY <1>1, <1>3 DEF LinkWrites, Outdated, Selected, Among, Session, SelectionInv, TypeOK
  <2>3. t \in Session /\ Prepared(t)
    BY <1>1, ReconcilingTyped
  <2>4. sess' \in [Requests -> Session] /\ \A q \in Requests : Prepared(sess'[q])
    <3>. HIDE DEF t
    <3>. QED
      BY <2>1, <2>3, SessionMoves DEF SelectionInv, TypeOK
  <2>5. /\ enabled' \in [Integrations -> BOOLEAN]
        /\ conn' \in [Connections -> {"none", "on", "off"}]
    BY <1>2, <2>1, SetTyped, FollowTyped DEF SelectionInv, TypeOK
  <2>. QED
    BY <2>2, <2>4, <2>5 DEF LinkWrites, Rest, SelectionInv, TypeOK, Unique
<1>4. CASE s.of \notin there
  BY <1>4, BreaksTyped DEF LinkWrites, Rest, SelectionInv, TypeOK, Unique
<1>. QED
  BY <1>3, <1>4

LEMMA LinksKeeps ==
  ASSUME SelectionInv, NEW r \in Requests, Links(r)
  PROVE  SelectionInv'
<1>. DEFINE i == sess[r].of
            t == [Idle EXCEPT !.pc = "reconcile", !.op = "save", !.of = i,
                              !.todo = {i}, !.changed = TRUE]
<1>1. i \in Connections
  BY DEF Links, SelectionInv, Prepared
<1>2. t \in Session /\ Prepared(t)
  BY <1>1, ReconcilingTyped
<1>3. sess' \in [Requests -> Session] /\ \A q \in Requests : Prepared(sess'[q])
  <2>1. Goes(r, t)
    BY DEF Links
  <2>. HIDE DEF t
  <2>. QED
    BY <1>2, <2>1, SessionMoves DEF SelectionInv, TypeOK
<1>4. Column(enabled[i], sess[r].seen[i], Selected(i)) \in BOOLEAN
  BY <1>1, ConnectionsTyped DEF Column, Selected, Among, SelectionInv, TypeOK
<1>5. /\ enabled' \in [Integrations -> BOOLEAN]
      /\ conn' \in [Connections -> {"none", "on", "off"}]
  BY <1>4 DEF Links, OnOff, SelectionInv, TypeOK
<1>. QED
  BY <1>3, <1>5 DEF Links, Rest, SelectionInv, TypeOK, Unique

LEMMA DeleteCommitsKeeps ==
  ASSUME SelectionInv, NEW r \in Requests, DeleteCommits(r)
  PROVE  SelectionInv'
<1>1. sess' \in [Requests -> Session] /\ \A q \in Requests : Prepared(sess'[q])
  BY IdleTyped, SessionMoves DEF DeleteCommits, Ends, SelectionInv, TypeOK
<1>2. /\ enabled' \in [Integrations -> BOOLEAN] /\ exposed' \in BOOLEAN
      /\ conn' \in [Connections -> {"none", "on", "off"}]
  BY DEF DeleteCommits, Outdated, SelectionInv, TypeOK
<1>3. /\ there' \subseteq Integrations /\ rows' \subseteq Sources
      /\ active' \subseteq rows' /\ Unique(active')
  BY DEF DeleteCommits, SelectionInv, TypeOK, Unique
<1>. QED
  BY <1>1, <1>2, <1>3 DEF DeleteCommits, Rest, SelectionInv, TypeOK

(* The jobs. *)
LEMMA ReconcilesKeeps ==
  ASSUME SelectionInv, NEW r \in Requests, Reconciles(r)
  PROVE  SelectionInv'
<1>. DEFINE s == sess[r]
            t(c) == [s EXCEPT !.todo = @ \ {c}]
<1>1. s \in Session /\ s.pc = "reconcile" /\ s.todo \subseteq Connections /\ Prepared(s)
  BY DEF Reconciles, SelectionInv, TypeOK, Prepared
<1>2. PICK c \in s.todo :
        /\ job' = IF Scheduled(c) THEN job \cup {c} ELSE job \ {c}
        /\ Goes(r, Idle) \/ Goes(r, t(c))
  BY DEF Reconciles, Ends
<1>3. t(c) \in Session /\ Prepared(t(c))
  <2>1. /\ t(c) \in Session /\ t(c).pc = s.pc /\ t(c).of = s.of /\ t(c).next = s.next
        /\ t(c).todo \subseteq Connections
    BY <1>1 DEF Session
  <2>. QED
    BY <1>1, <2>1 DEF Prepared
<1>4. sess' \in [Requests -> Session] /\ \A q \in Requests : Prepared(sess'[q])
  BY <1>2, <1>3, IdleTyped, SessionMoves DEF SelectionInv, TypeOK
<1>5. job' \subseteq Connections
  BY <1>1, <1>2 DEF SelectionInv, TypeOK
<1>. QED
  BY <1>4, <1>5 DEF Reconciles, Rest, SelectionInv, TypeOK, Unique

LEMMA ReconcileStopsKeeps ==
  ASSUME SelectionInv, NEW r \in Requests, ReconcileStops(r)
  PROVE  SelectionInv'
  BY BreaksTyped DEF ReconcileStops, Rest, SelectionInv, TypeOK, Unique

(* Errors and restarts. *)
LEMMA DisturbTyped ==
  ASSUME SelectionInv, Disturb
  PROVE  changes' \in 0 .. MaxChanges /\ disturbances' \in 0 .. MaxDisturbances
  BY ChangeTyped, SelectionAssumption DEF Disturb, SelectionInv, TypeOK

LEMMA FailsKeeps ==
  ASSUME SelectionInv, NEW r \in Requests, Fails(r)
  PROVE  SelectionInv'
  BY BreaksTyped, DisturbTyped DEF Fails, SelectionInv, TypeOK, Unique

LEMMA RestartKeeps ==
  ASSUME SelectionInv, Restart
  PROVE  SelectionInv'
<1>1. sess' \in [Requests -> Session] /\ \A q \in Requests : Prepared(sess'[q])
  BY IdleTyped DEF Restart
<1>2. exposed' \in BOOLEAN
  BY DEF Restart, Outdated, SelectionInv, TypeOK
<1>3. job' \subseteq Connections
  BY DEF Restart
<1>. QED
  BY <1>1, <1>2, <1>3, DisturbTyped DEF Restart, SelectionInv, TypeOK, Unique

LEMMA InitSelection == Init => SelectionInv
<1>. SUFFICES ASSUME Init PROVE SelectionInv
  OBVIOUS
<1>1. enabled \in [Integrations -> BOOLEAN]
  BY DEF Init, Selected, Among
<1>2. conn \in [Connections -> {"none", "on", "off"}]
  BY DEF Init, OnOff
<1>3. sess \in [Requests -> Session] /\ \A q \in Requests : Prepared(sess[q])
  BY IdleTyped DEF Init
<1>4. /\ there \subseteq Integrations /\ rows \subseteq Sources /\ active \subseteq rows
      /\ job \subseteq Connections /\ exposed \in BOOLEAN /\ Unique(active)
  BY DEF Init
<1>5. changes \in 0 .. MaxChanges /\ disturbances \in 0 .. MaxDisturbances
  BY SelectionAssumption DEF Init
<1>. QED
  BY <1>1, <1>2, <1>3, <1>4, <1>5 DEF SelectionInv, TypeOK

LEMMA NextSelection == SelectionInv /\ [Next]_vars => SelectionInv'
<1>. SUFFICES ASSUME SelectionInv, [Next]_vars PROVE SelectionInv'
  OBVIOUS
<1>1. CASE UNCHANGED vars
  BY <1>1 DEF vars, SelectionInv, TypeOK, Unique
<1>2. CASE Restart
  BY <1>2, RestartKeeps
<1>3. ASSUME NEW r \in Requests, Boots(r) PROVE SelectionInv'
  BY <1>3, BootLoadsKeeps, BootInsertsKeeps, BootChecksKeeps, BootFixesKeeps DEF Boots
<1>4. ASSUME NEW r \in Requests, Proceeds(r) PROVE SelectionInv'
  BY <1>3, <1>4, SelectLoadsKeeps, SelectWritesKeeps, DisableWritesKeeps, LinkReadsKeeps,
     LinkWritesKeeps, LinksKeeps, DeleteCommitsKeeps, ReconcilesKeeps, ReconcileStopsKeeps
     DEF Proceeds
<1>5. ASSUME NEW r \in Requests, Starts(r) PROVE SelectionInv'
  BY <1>5, AdoptsKeeps, SelectBeginsKeeps, SetEnabledBeginsKeeps, ZammadSavesKeeps,
     ServiceNowSavesKeeps, CreatesKeeps, DeleteBeginsKeeps DEF Starts
<1>6. ASSUME NEW r \in Requests, Reads(r) \/ Fails(r) PROVE SelectionInv'
  BY <1>6, ReadsKeeps, FailsKeeps
<1>. QED
  BY <1>1, <1>2, <1>4, <1>5, <1>6 DEF Next

(* The types of all variables; at most one source per stream; and what a    *)
(* request knows when it writes (integrations.py:398-444).                  *)
THEOREM SelectionInvariant == Spec => []SelectionInv
  BY InitSelection, NextSelection, PTL DEF Spec

(* The type invariant.                                                      *)
THEOREM TypeCorrect == Spec => []TypeOK
<1>1. SelectionInv => TypeOK
  BY DEF SelectionInv
<1>. QED
  BY <1>1, SelectionInvariant, PTL

(* No source loses a stream unasked: of the actions, only the writing part  *)
(* of select_source and of set_enabled and the deletion of a configuration  *)
(* make a row inactive, and a selection clears the rows of its stream only  *)
(* if it has seen another source there, for which it needed confirmation.   *)
THEOREM NeverDisplacedUnasked == Spec => DisplacedWhenAsked
<1>. DEFINE Step == \A p \in active \ active' :
                      \E r \in Requests : Asked(sess[r], p[1], p[2])
<1>1. SelectionInv /\ [Next]_vars => [Step]_vars
  <2>. SUFFICES ASSUME SelectionInv, Next PROVE Step
    BY DEF vars
  <2>1. ASSUME NEW r \in Requests, SelectWrites(r) PROVE Step
    <3>. DEFINE s == sess[r]
    <3>. SUFFICES ASSUME NEW p \in active \ active' PROVE Asked(s, p[1], p[2])
      OBVIOUS
    <3>1. active' = Chosen(s) /\ s.pc = "write"
      BY <2>1 DEF SelectWrites
    <3>2. /\ s.current \notin {None, s.of} /\ p[2] = s.stream
          /\ s.on \/ p # <<s.of, s.stream>>
      BY <3>1 DEF Chosen
    <3>3. s.confirmed /\ ~s.on
      BY <3>1, <3>2 DEF SelectionInv, Prepared
    <3>4. p = <<p[1], p[2]>>
      BY DEF SelectionInv, TypeOK, Sources
    <3>. QED
      BY <3>1, <3>2, <3>3, <3>4 DEF Asked
  <2>2. ASSUME NEW r \in Requests, DisableWrites(r) PROVE Step
    BY <2>2 DEF DisableWrites, Asked
  <2>3. ASSUME NEW r \in Requests, DeleteCommits(r) PROVE Step
    BY <2>3 DEF DeleteCommits, Asked
  <2>4. ASSUME NEW r \in Requests, Boots(r) \/ Starts(r) PROVE active \subseteq active'
    <3>1. CASE Boots(r)
      BY <3>1 DEF Boots, BootLoads, BootInserts, BootChecks, BootFixes
    <3>2. CASE Starts(r)
      BY <3>2 DEF Starts, Adopts, SelectBegins, SetEnabledBegins, ZammadSaves,
                  ServiceNowSaves, Creates, DeleteBegins
    <3>. QED
      BY <2>4, <3>1, <3>2
  <2>5. ASSUME NEW r \in Requests,
               \/ SelectLoads(r) \/ LinkReads(r) \/ LinkWrites(r) \/ Links(r)
               \/ Reconciles(r) \/ ReconcileStops(r) \/ Reads(r) \/ Fails(r)
        PROVE  active' = active
    BY <2>5 DEF SelectLoads, LinkReads, LinkWrites, Links, Reconciles, ReconcileStops,
                Reads, Fails
  <2>6. Restart => active' = active
    BY DEF Restart
  <2>. QED
    BY <2>1, <2>2, <2>3, <2>4, <2>5, <2>6 DEF Next, Proceeds
<1>2. DisplacedWhenAsked <=> [][Step]_vars
  BY DEF DisplacedWhenAsked
<1>. QED
  BY <1>1, <1>2, SelectionInvariant, PTL DEF Spec

----------------------------------------------------------------------------
(* The copies of the selection.  The inductive invariant behind CopiesAgree *)
(* (CopiesInv, below): unless something was exposed, each copy that differs *)
(* from the selection is owed by a request that has changed something and   *)
(* will still write that copy.  A new integration's rows are owed too       *)
(* (Introduces), because bootstrap selects what it finds enabled, and so is *)
(* the configuration of a new ServiceNow integration (NoneOwed).            *)

Own(i) == {i} \X Offers[i]
Kept(i) == Own(i) \subseteq rows
Fresh(i) == i \in there /\ ~Kept(i)

(* What a session at each step knows.                                       *)
Booting(s) == s.pc \in {"boot", "check", "fix"}
Formed(s) ==
  /\ Booting(s) => (s.op = "save" <=> s.next = "linking")
  /\ \/ Booting(s) /\ s.next = "load"
     \/ s.pc \in {"load", "write"}
     => /\ s.op \in {"select", "enable"}
        /\ <<s.of, s.stream>> \in Sources
        /\ s.op = "enable" => Offers[s.of] = {s.stream}
  /\ s.pc \in {"load", "write"} => \A i \in Integrations : i # s.of => ~s.seen[i]
  /\ s.pc = "boot" /\ s.next = "load" => ~s.changed
  /\ s.pc = "write" /\ s.current # None =>
       /\ <<s.current, s.stream>> \in Sources
       /\ s.current \in Zammad \/ s.current \in there
       /\ s.current \in there => Kept(s.current)
  /\ s.pc = "linking" => s.op \in {"save", "create"}
  /\ s.pc = "link" => s.op = "save"
  /\ s.pc = "linking" /\ s.op = "create" => s.of \in ServiceNow \cap there /\ s.changed
  /\ s.op = "save" => s.of \in Zammad \/ (s.of \in ServiceNow \cap there /\ conn[s.of] # "none")
  /\ s.op = "save" /\ s.pc \in {"check", "fix", "linking", "link"} /\ s.of \in there => Kept(s.of)
  /\ s.pc = "off" => s.op = "disable" /\ s.of \in Integrations
  /\ s.pc = "delete" => s.of \in Zammad
  /\ s.pc = "idle" => s = Idle

(* The rows of an integration are there, or none of them yet.               *)
Whole ==
  /\ \A i \in there : Kept(i) \/ Own(i) \cap rows = {}
  /\ \A p \in rows : p[1] \in there
  /\ \A i \in there \cap ServiceNow : Kept(i)
  /\ \A c \in Connections : conn[c] # "none" => c \in there
  /\ \A c \in Zammad \cap there : conn[c] # "none"

(* A request that will make an integration enabled as selected ...          *)
OwesFlag(s, i) ==
  /\ s.changed /\ s.op \in {"read", "save"}
  /\ \/ s.pc = "boot"
     \/ s.pc \in {"check", "fix"} /\ i \in s.todo /\ s.seen[i] = enabled[i]
     \/ s.pc = "fix" /\ s.fix = i

(* ... one that will make its connection ...                                *)
Saves(s, c) ==
  s.changed /\ s.op = "save" /\ s.of = c /\ (Booting(s) \/ s.pc \in {"linking", "link"})
Creating(s, c) == s.changed /\ s.op = "create" /\ s.of = c /\ s.pc = "linking"
Enabling(s, c) ==
  s.changed /\ s.op = "enable" /\ s.of = c /\ s.pc \in {"load", "write"} /\ Selected(c)
OwesConn(s, c) ==
  \/ Saves(s, c) /\ (s.on <=> conn[c] = "on")
  \/ Creating(s, c)
  \/ Enabling(s, c)

(* ... and one that will make its job.                                      *)
OwesJob(s, c) ==
  \/ Saves(s, c) \/ Creating(s, c) \/ Enabling(s, c)
  \/ s.changed /\ s.next = "reconcile" /\ Booting(s)
  \/ s.changed /\ s.pc = "reconcile" /\ c \in s.todo
  \/ s.changed /\ s.pc = "delete" /\ s.of = c

(* The request that has added an integration will insert its rows.          *)
Introduces(s, i) ==
  /\ s.changed /\ s.pc = "boot" /\ s.op \in {"read", "save"}
  /\ i \in Zammad => s.op = "save" /\ s.of = i

FlagAgrees(i) == enabled[i] <=> Selected(i)
ConnAgrees(c) == conn[c] = "on" <=> Selected(c)
JobAgrees(c) == c \in job <=> Selected(c)

FlagOwed(i) == FlagAgrees(i) \/ \E r \in Requests : OwesFlag(sess[r], i)
ConnOwed(c) == ConnAgrees(c) \/ \E r \in Requests : OwesConn(sess[r], c)
JobOwed(c) == JobAgrees(c) \/ \E r \in Requests : OwesJob(sess[r], c)
FreshOwed(i) ==
  Fresh(i) =>
    /\ \E r \in Requests : Introduces(sess[r], i)
    /\ i \in Zammad => \/ enabled[i] <=> conn[i] = "on"
                       \/ \E r \in Requests : OwesConn(sess[r], i)
NoneOwed(c) ==
  conn[c] = "none" => /\ c \notin job
                      /\ c \in there => \E r \in Requests : Creating(sess[r], c)

Owed ==
  /\ \A i \in there : FlagOwed(i) /\ FreshOwed(i)
  /\ \A c \in Connections : ConnOwed(c) /\ JobOwed(c) /\ NoneOwed(c)

CopiesKept == Whole /\ (\A r \in Requests : Formed(sess[r])) /\ (~exposed => Owed)
CopiesInv == SelectionInv /\ CopiesKept

(* A request that does not move still owes what it owed.                    *)
LEMMA FlagStays ==
  ASSUME NEW r \in Requests, \A q \in Requests : q # r => sess'[q] = sess[q],
         NEW i, FlagOwed(i), ~OwesFlag(sess[r], i),
         enabled'[i] = enabled[i], Selected(i)' <=> Selected(i)
  PROVE  FlagOwed(i)'
<1>1. CASE FlagAgrees(i)
  BY <1>1 DEF FlagOwed, FlagAgrees
<1>2. CASE \E q \in Requests : OwesFlag(sess[q], i)
  <2>1. PICK q \in Requests : OwesFlag(sess[q], i)
    BY <1>2
  <2>2. sess'[q] = sess[q]
    BY <2>1
  <2>3. OwesFlag(sess[q], i)'
    BY <2>1, <2>2 DEF OwesFlag
  <2> QED BY <2>3 DEF FlagOwed
<1> QED BY <1>1, <1>2 DEF FlagOwed

LEMMA ConnStays ==
  ASSUME NEW r \in Requests, \A q \in Requests : q # r => sess'[q] = sess[q],
         NEW c, ConnOwed(c), ~OwesConn(sess[r], c),
         conn'[c] = conn[c], Selected(c)' <=> Selected(c)
  PROVE  ConnOwed(c)'
<1>1. CASE ConnAgrees(c)
  BY <1>1 DEF ConnOwed, ConnAgrees
<1>2. CASE \E q \in Requests : OwesConn(sess[q], c)
  <2>1. PICK q \in Requests : OwesConn(sess[q], c)
    BY <1>2
  <2>2. sess'[q] = sess[q]
    BY <2>1
  <2>3. OwesConn(sess[q], c)'
    BY <2>1, <2>2 DEF OwesConn, Saves, Creating, Enabling, Booting
  <2> QED BY <2>3 DEF ConnOwed
<1> QED BY <1>1, <1>2 DEF ConnOwed

LEMMA JobStays ==
  ASSUME NEW r \in Requests, \A q \in Requests : q # r => sess'[q] = sess[q],
         NEW c, JobOwed(c), ~OwesJob(sess[r], c),
         c \in job' <=> c \in job, Selected(c)' <=> Selected(c)
  PROVE  JobOwed(c)'
<1>1. CASE JobAgrees(c)
  BY <1>1 DEF JobOwed, JobAgrees
<1>2. CASE \E q \in Requests : OwesJob(sess[q], c)
  <2>1. PICK q \in Requests : OwesJob(sess[q], c)
    BY <1>2
  <2>2. sess'[q] = sess[q]
    BY <2>1
  <2>3. OwesJob(sess[q], c)'
    BY <2>1, <2>2 DEF OwesJob, Saves, Creating, Enabling, Booting
  <2> QED BY <2>3 DEF JobOwed
<1> QED BY <1>1, <1>2 DEF JobOwed

LEMMA FreshStays ==
  ASSUME NEW r \in Requests, \A q \in Requests : q # r => sess'[q] = sess[q],
         NEW i, FreshOwed(i), sess[r].pc # "boot" \/ sess'[r] = sess[r],
         ~OwesConn(sess[r], i) \/ OwesConn(sess[r], i)',
         enabled'[i] = enabled[i], i \in Zammad => conn'[i] = conn[i], Selected(i)' <=> Selected(i),
         Fresh(i)' => Fresh(i)
  PROVE  FreshOwed(i)'
<1> SUFFICES ASSUME Fresh(i)'
             PROVE  FreshOwed(i)'
  BY DEF FreshOwed
<1>1. \E q \in Requests : Introduces(sess[q], i)'
  <2>1. PICK q \in Requests : Introduces(sess[q], i)
    BY DEF FreshOwed
  <2>2. sess'[q] = sess[q]
    BY <2>1 DEF Introduces
  <2>3. Introduces(sess[q], i)'
    BY <2>1, <2>2 DEF Introduces
  <2> QED BY <2>3
<1>2. ASSUME i \in Zammad
      PROVE  (enabled'[i] <=> conn'[i] = "on") \/ \E q \in Requests : OwesConn(sess[q], i)'
  <2>1. CASE enabled[i] <=> conn[i] = "on"
    BY <1>2, <2>1
  <2>2. CASE \E q \in Requests : OwesConn(sess[q], i)
    <3>1. PICK q \in Requests : OwesConn(sess[q], i)
      BY <2>2
    <3>2. CASE q = r
      BY <3>1, <3>2
    <3>3. CASE q # r
      <4>1. sess'[q] = sess[q]
        BY <3>1, <3>3
      <4>2. OwesConn(sess[q], i)'
        BY <1>2, <3>1, <4>1 DEF OwesConn, Saves, Creating, Enabling, Booting
      <4> QED BY <4>2
    <3> QED BY <3>2, <3>3
  <2> QED BY <1>2, <2>1, <2>2 DEF FreshOwed
<1> QED BY <1>1, <1>2 DEF FreshOwed

LEMMA NoneStays ==
  ASSUME NEW r \in Requests, \A q \in Requests : q # r => sess'[q] = sess[q],
         NEW c, NoneOwed(c), ~Creating(sess[r], c), conn'[c] = "none" => conn[c] = "none",
         c \in job' => c \in job, c \in there' => c \in there
  PROVE  NoneOwed(c)'
<1>1. \A q \in Requests : Creating(sess[q], c) => Creating(sess[q], c)'
  BY DEF Creating
<1> QED BY <1>1 DEF NoneOwed

(* ... and still knows what it knew.                                        *)
LEMMA FormedStays ==
  ASSUME NEW q \in Requests, Formed(sess[q]), sess'[q] = sess[q],
         sess[q].op = "save" /\ sess[q].of \in there' => sess[q].of \in there,
         sess[q].current \in Zammad \cap there' => sess[q].current \in there,
         \A i \in there : i \notin Zammad => i \in there',
         \A i \in there \cap there' : Kept(i) => Kept(i)',
         \A c \in ServiceNow : conn[c] # "none" => conn'[c] # "none"
  PROVE  Formed(sess[q])'
<1> DEFINE s == sess[q]
<1>1. \A c \in ServiceNow : c \notin Zammad
  BY SelectionAssumption
<1>2. /\ s.pc = "write" /\ s.current # None =>
           /\ s.current \in Zammad \/ s.current \in there'
           /\ s.current \in there' => Kept(s.current)'
      /\ s.pc = "linking" /\ s.op = "create" => s.of \in ServiceNow \cap there' /\ s.changed
      /\ s.op = "save" => \/ s.of \in Zammad
                          \/ s.of \in ServiceNow \cap there' /\ conn'[s.of] # "none"
      /\ s.op = "save" /\ s.pc \in {"check", "fix", "linking", "link"} /\ s.of \in there'
           => Kept(s.of)'
  <2> HIDE DEF s
  <2> QED BY <1>1 DEF Formed, s
<1> QED BY <1>2 DEF Formed, Booting

LEMMA ShapeStays ==
  ASSUME CopiesInv, NEW r \in Requests, \A q \in Requests : q # r => sess'[q] = sess[q],
         UNCHANGED <<there, rows>>,
         \A c \in Connections : conn'[c] = "none" <=> conn[c] = "none",
         Formed(sess[r])'
  PROVE  Whole' /\ \A q \in Requests : Formed(sess[q])'
<1>1. Zammad \subseteq Connections /\ ServiceNow \subseteq Connections
  BY DEF Connections
<1>2. \A i : Kept(i)' <=> Kept(i)
  BY DEF Kept
<1>3. Whole'
  BY <1>1, <1>2 DEF CopiesInv, CopiesKept, Whole
<1>4. ASSUME NEW q \in Requests, q # r
      PROVE  Formed(sess[q])'
  <2>1. Formed(sess[q]) /\ sess'[q] = sess[q]
    BY <1>4 DEF CopiesInv, CopiesKept
  <2> QED BY <1>1, <1>2, <2>1, FormedStays
<1> QED BY <1>3, <1>4

LEMMA MissingRows ==
  ASSUME SelectionInv, Missing = {}, NEW i \in there
  PROVE  Kept(i)
<1>1. i \in Integrations /\ Offers[i] \subseteq Streams
  BY SelectionAssumption DEF SelectionInv, TypeOK
<1>2. \A p \in Own(i) : p \in Sources /\ p[1] \in there
  BY <1>1 DEF Own, Sources
<1> QED BY <1>2 DEF Kept, Missing

(* After bootstrap.                                                         *)
LEMMA PassedIs ==
  ASSUME NEW s \in Session
  PROVE  \/ /\ Passed(s) = Idle
            /\ \/ s.next = "idle"
               \/ s.next = "reconcile" /\ \A c \in Connections : conn[c] = "none"
         \/ /\ s.next \in {"load", "linking", "reconcile"}
            /\ Passed(s).pc = s.next /\ Passed(s).op = s.op /\ Passed(s).of = s.of
            /\ Passed(s).stream = s.stream /\ Passed(s).on = s.on
            /\ Passed(s).changed = s.changed /\ Passed(s).next = s.next
            /\ \A i \in Integrations : i # s.of => ~Passed(s).seen[i]
            /\ s.next = "reconcile" => Passed(s).todo = {c \in Connections : conn[c] # "none"}
<1> DEFINE jobs == IF s.next = "reconcile" THEN {c \in Connections : conn[c] # "none"} ELSE {}
           seen == [i \in Integrations |-> Holds(s, i) /\ s.seen[i]]
           t == [s EXCEPT !.pc = s.next, !.fix = None, !.sel = FALSE, !.todo = jobs,
                          !.seen = seen]
<1>1. Passed(s) = IF s.next = "idle" \/ (s.next = "reconcile" /\ jobs = {}) THEN Idle ELSE t
  BY DEF Passed
<1>2. /\ t.pc = s.next /\ t.op = s.op /\ t.of = s.of /\ t.stream = s.stream /\ t.on = s.on
      /\ t.changed = s.changed /\ t.next = s.next /\ t.todo = jobs /\ t.seen = seen
  <2>1. jobs \in SUBSET Integrations /\ seen \in [Integrations -> BOOLEAN]
    BY ConnectionsTyped DEF Holds, Session
  <2> HIDE DEF jobs, seen
  <2> QED BY <2>1 DEF Session
<1>3. s.next \in {"idle", "load", "linking", "reconcile"}
  BY DEF Session, Ahead
<1>4. s.next = "reconcile" /\ jobs = {} => \A c \in Connections : conn[c] = "none"
  OBVIOUS
<1>5. \A i \in Integrations : i # s.of => ~seen[i]
  BY DEF Holds
<1>6. s.next = "reconcile" => jobs = {c \in Connections : conn[c] # "none"}
  OBVIOUS
<1> HIDE DEF t, jobs, seen
<1> QED BY <1>1, <1>2, <1>3, <1>4, <1>5, <1>6

LEMMA Passing ==
  ASSUME CopiesInv, NEW r \in Requests, Booting(sess[r]), NEW s \in Session,
         s.op = sess[r].op, s.of = sess[r].of, s.stream = sess[r].stream, s.next = sess[r].next,
         sess[r].changed => s.changed,
         sess' = [sess EXCEPT ![r] = Passed(s)], there' = there, job' = job,
         \A c \in Connections : conn'[c] = "none" <=> conn[c] = "none",
         \A i \in there : sess[r].op = "save" /\ i = sess[r].of => Kept(i)'
  PROVE  /\ Formed(sess[r])'
         /\ \A c \in Connections : Saves(sess[r], c) => Saves(sess[r], c)'
         /\ sess[r].op = "save" => sess'[r].on = s.on
         /\ ~exposed => \A c \in Connections :
              /\ Selected(c)' <=> Selected(c) => JobOwed(c)'
              /\ NoneOwed(c)'
<1> DEFINE o == sess[r]
<1>0. o \in Session /\ Formed(o) /\ TypeOK
  BY DEF CopiesInv, CopiesKept, SelectionInv, TypeOK
<1>1. sess'[r] = Passed(s) /\ \A q \in Requests : q # r => sess'[q] = sess[q]
  BY <1>0 DEF TypeOK
<1>2. \/ /\ sess'[r] = Idle
         /\ \/ o.next = "idle"
            \/ o.next = "reconcile" /\ \A c \in Connections : conn[c] = "none"
      \/ /\ o.next \in {"load", "linking", "reconcile"}
         /\ sess'[r].pc = o.next /\ sess'[r].op = o.op /\ sess'[r].of = o.of
         /\ sess'[r].stream = o.stream /\ sess'[r].on = s.on
         /\ o.changed => sess'[r].changed
         /\ sess'[r].next = o.next
         /\ \A i \in Integrations : i # o.of => ~sess'[r].seen[i]
         /\ o.next = "reconcile" => sess'[r].todo = {c \in Connections : conn[c] # "none"}
  BY <1>1, PassedIs DEF o
<1>3. Connections = Zammad \cup ServiceNow /\ Zammad \cap ServiceNow = {}
  BY SelectionAssumption DEF Connections
<1>4. /\ o.op = "save" <=> o.next = "linking"
      /\ o.next = "load" => /\ o.op \in {"select", "enable"}
                            /\ <<o.of, o.stream>> \in Sources
                            /\ o.op = "enable" => Offers[o.of] = {o.stream}
      /\ o.op = "save" => \/ o.of \in Zammad
                          \/ o.of \in ServiceNow \cap there' /\ conn'[o.of] # "none"
      /\ \A i \in there' : o.op = "save" /\ i = o.of => Kept(i)'
  <2>1. Booting(o)
    OBVIOUS
  <2> HIDE DEF o
  <2> QED BY <1>0, <1>3, <2>1 DEF Formed, o
<1> HIDE DEF o
<1>5. Formed(sess[r])'
  <2>1. CASE sess'[r] = Idle
    BY <2>1 DEF Formed, Idle, Booting
  <2>2. CASE sess'[r].pc = o.next /\ o.next \in {"load", "linking", "reconcile"}
    <3>1. sess'[r].op = o.op /\ sess'[r].of = o.of /\ sess'[r].stream = o.stream
      BY <1>2, <2>2 DEF Idle
    <3>2. o.next = "load" => \A i \in Integrations : i # o.of => ~sess'[r].seen[i]
      BY <1>2, <2>2 DEF Idle
    <3> QED BY <1>4, <2>2, <3>1, <3>2 DEF Formed, Booting
  <2> QED BY <1>2, <2>1, <2>2
<1>6. \A c \in Connections : Saves(o, c) => Saves(sess[r], c)'
  BY <1>2, <1>4 DEF Saves, Booting
<1>7. o.op = "save" => sess'[r].on = s.on
  BY <1>2, <1>4
<1>8. ASSUME ~exposed, NEW c \in Connections
      PROVE  NoneOwed(c)'
  <2>1. ~Creating(sess[r], c)
    BY DEF Creating, Booting
  <2>2. NoneOwed(c)
    BY <1>8 DEF CopiesInv, CopiesKept, Owed
  <2> QED BY <1>1, <1>8, <2>1, <2>2, NoneStays
<1>9. ASSUME ~exposed, NEW c \in Connections, Selected(c)' <=> Selected(c)
      PROVE  JobOwed(c)'
  <2>1. JobOwed(c) /\ NoneOwed(c)'
    BY <1>8, <1>9 DEF CopiesInv, CopiesKept, Owed
  <2>2. CASE ~OwesJob(sess[r], c)
    BY <1>1, <1>9, <2>1, <2>2, JobStays
  <2>3. CASE OwesJob(sess[r], c)
    <3>1. CASE Saves(o, c)
      BY <1>6, <1>9, <3>1 DEF JobOwed, OwesJob
    <3>2. CASE o.changed /\ o.next = "reconcile"
      <4>1. CASE conn[c] # "none"
        <5>1. sess'[r].pc = "reconcile" /\ sess'[r].changed /\ c \in sess'[r].todo
          BY <1>2, <1>9, <3>2, <4>1
        <5> QED BY <5>1 DEF JobOwed, OwesJob
      <4>2. CASE conn[c] = "none"
        <5>1. CASE ~Selected(c)
          BY <1>9, <2>1, <4>2, <5>1 DEF JobOwed, JobAgrees, NoneOwed
        <5>2. CASE Selected(c)
          <6>1. c \in there'
            BY <1>0, <5>2 DEF Selected, Among, CopiesInv, CopiesKept, Whole, TypeOK
          <6>2. PICK q \in Requests : Creating(sess[q], c)'
            BY <1>9, <2>1, <4>2, <6>1 DEF NoneOwed
          <6> QED BY <6>2 DEF JobOwed, OwesJob
        <5> QED BY <5>1, <5>2
      <4> QED BY <4>1, <4>2
    <3> QED BY <2>3, <3>1, <3>2 DEF OwesJob, Creating, Enabling, Booting, o
  <2> QED BY <2>2, <2>3
<1> QED BY <1>5, <1>6, <1>7, <1>8, <1>9 DEF o

(* A step of r that leaves the others, and the database but for jobs, alone.*)
LEMMA QuietStep ==
  ASSUME CopiesInv, NEW r \in Requests, \A q \in Requests : q # r => sess'[q] = sess[q],
         UNCHANGED <<there, enabled, rows, active, conn, job>>,
         Formed(sess[r])', exposed => exposed',
         ~exposed' =>
           /\ \A i \in there : OwesFlag(sess[r], i) => FlagOwed(i)'
           /\ \A c \in Connections : OwesConn(sess[r], c) => OwesConn(sess[r], c)'
           /\ \A c \in Connections : OwesJob(sess[r], c) => JobOwed(c)'
           /\ \A c \in Connections : Creating(sess[r], c) => Creating(sess[r], c)'
           /\ \A i \in there : Introduces(sess[r], i) => Introduces(sess[r], i)' \/ Missing = {}
  PROVE  CopiesKept'
<1>0. /\ \A c : Selected(c)' <=> Selected(c)
      /\ \A i : Kept(i)' <=> Kept(i)
      /\ \A i : Fresh(i)' <=> Fresh(i)
  BY DEF Selected, Among, Kept, Fresh
<1>1. Whole' /\ \A q \in Requests : Formed(sess[q])'
  BY ShapeStays
<1>2. ASSUME ~exposed'
      PROVE  Owed'
  <2>0. Owed
    BY <1>2 DEF CopiesInv, CopiesKept
  <2>1. ASSUME NEW i \in there
        PROVE  FlagOwed(i)'
    <3>1. CASE OwesFlag(sess[r], i)
      BY <1>2, <2>1, <3>1
    <3>2. CASE ~OwesFlag(sess[r], i)
      BY <1>0, <2>0, <2>1, <3>2, FlagStays DEF Owed
    <3> QED BY <3>1, <3>2
  <2>2. ASSUME NEW c \in Connections
        PROVE  ConnOwed(c)' /\ JobOwed(c)'
    <3>1. ConnOwed(c)'
      <4>1. CASE OwesConn(sess[r], c)
        BY <1>2, <2>2, <4>1 DEF ConnOwed
      <4>2. CASE ~OwesConn(sess[r], c)
        BY <1>0, <2>0, <2>2, <4>2, ConnStays DEF Owed
      <4> QED BY <4>1, <4>2
    <3>2. JobOwed(c)'
      <4>1. CASE OwesJob(sess[r], c)
        BY <1>2, <2>2, <4>1
      <4>2. CASE ~OwesJob(sess[r], c)
        BY <1>0, <2>0, <2>2, <4>2, JobStays DEF Owed
      <4> QED BY <4>1, <4>2
    <3> QED BY <3>1, <3>2
  <2>3. ASSUME NEW c \in Connections
        PROVE  NoneOwed(c)'
    <3>1. \A q \in Requests : Creating(sess[q], c) => Creating(sess[q], c)'
      BY <1>2, <2>3 DEF Creating
    <3>2. NoneOwed(c)
      BY <2>0, <2>3 DEF Owed
    <3> QED BY <3>1, <3>2 DEF NoneOwed
  <2>4. ASSUME NEW i \in there
        PROVE  FreshOwed(i)'
    <3> SUFFICES ASSUME Fresh(i)
                 PROVE  FreshOwed(i)'
      BY <1>0 DEF FreshOwed
    <3>0. FreshOwed(i)
      BY <2>0, <2>4 DEF Owed
    <3>1. Missing # {}
      BY <2>4, MissingRows DEF CopiesInv, Fresh
    <3>2. \A q \in Requests : Introduces(sess[q], i) => Introduces(sess[q], i)'
      BY <1>2, <2>4, <3>1 DEF Introduces
    <3>3. i \in Zammad => \A q \in Requests : OwesConn(sess[q], i) => OwesConn(sess[q], i)'
      <4> SUFFICES ASSUME i \in Zammad, NEW q \in Requests, OwesConn(sess[q], i)
                   PROVE  OwesConn(sess[q], i)'
        OBVIOUS
      <4>1. CASE q = r
        BY <1>2, <4>1 DEF Connections
      <4>2. CASE q # r
        BY <1>0, <4>2 DEF OwesConn, Saves, Creating, Enabling, Booting
      <4> QED BY <4>1, <4>2
    <3> QED BY <3>0, <3>2, <3>3 DEF FreshOwed
  <2> QED BY <2>1, <2>2, <2>3, <2>4 DEF Owed
<1> QED BY <1>1, <1>2 DEF CopiesKept

(* A request that has changed nothing, or is idle, owes nothing.            *)
LEMMA OwesNothing ==
  ASSUME NEW s, ~s.changed
  PROVE  /\ \A i : ~OwesFlag(s, i) /\ ~OwesConn(s, i) /\ ~OwesJob(s, i)
         /\ \A i : ~Creating(s, i) /\ ~Introduces(s, i)
BY DEF OwesFlag, OwesConn, OwesJob, Saves, Creating, Enabling, Introduces

LEMMA IdleIs ==
  ASSUME CopiesInv, NEW r \in Requests, sess[r].pc = "idle"
  PROVE  ~sess[r].changed
<1>1. sess[r] = Idle
  BY DEF CopiesInv, CopiesKept, Formed
<1> QED BY <1>1 DEF Idle

LEMMA Moving ==
  ASSUME CopiesInv, NEW r \in Requests, NEW t, Goes(r, t)
  PROVE  sess'[r] = t /\ \A q \in Requests : q # r => sess'[q] = sess[q]
BY DEF Goes, CopiesInv, SelectionInv, TypeOK

LEMMA BreaksKept ==
  ASSUME CopiesInv, NEW r \in Requests, Breaks(r),
         UNCHANGED <<there, enabled, rows, active, conn, job>>
  PROVE  CopiesKept'
<1>1. sess'[r] = Idle /\ \A q \in Requests : q # r => sess'[q] = sess[q]
  BY Moving DEF Breaks, Ends
<1>2. exposed' = (exposed \/ sess[r].changed)
  BY DEF Breaks, Outdated
<1>3. Formed(sess[r])'
  BY <1>1 DEF Formed, Idle, Booting
<1>4. exposed => exposed'
  BY <1>2
<1>5. ~exposed' => /\ \A i : ~OwesFlag(sess[r], i) /\ ~OwesConn(sess[r], i) /\ ~OwesJob(sess[r], i)
                   /\ \A i : ~Creating(sess[r], i) /\ ~Introduces(sess[r], i)
  BY <1>2, OwesNothing
<1> QED BY <1>1, <1>3, <1>4, <1>5, QuietStep

(* A request begins that has changed nothing yet.                           *)
LEMMA BeginsKept ==
  ASSUME CopiesInv, NEW r \in Requests, NEW t, Begins(r, t), Formed(sess[r])',
         UNCHANGED <<there, enabled, rows, active, conn, job, exposed>>
  PROVE  CopiesKept'
<1>1. \A q \in Requests : q # r => sess'[q] = sess[q]
  BY Moving DEF Begins
<1>2. ~sess[r].changed
  BY IdleIs DEF Begins
<1>3. /\ \A i : ~OwesFlag(sess[r], i) /\ ~OwesConn(sess[r], i) /\ ~OwesJob(sess[r], i)
      /\ \A i : ~Creating(sess[r], i) /\ ~Introduces(sess[r], i)
  BY <1>2, OwesNothing
<1> QED BY <1>1, <1>3, QuietStep

LEMMA ReadsAgrees ==
  ASSUME CopiesInv, NEW r \in Requests, Reads(r)
  PROVE  CopiesKept'
<1>1. sess'[r] = [Idle EXCEPT !.pc = "boot"]
  BY Moving DEF Reads, Begins
<1>2. Formed(sess[r])'
  BY <1>1 DEF Formed, Idle, Booting
<1> QED BY <1>2, BeginsKept DEF Reads

LEMMA SelectBeginsAgrees ==
  ASSUME CopiesInv, NEW r \in Requests, SelectBegins(r)
  PROVE  CopiesKept'
<1>1. PICK p \in Sources, b \in BOOLEAN :
        Begins(r, [Idle EXCEPT !.pc = "boot", !.op = "select", !.of = p[1],
                               !.stream = p[2], !.confirmed = b, !.next = "load"])
  BY DEF SelectBegins
<1> DEFINE t == [Idle EXCEPT !.pc = "boot", !.op = "select", !.of = p[1],
                             !.stream = p[2], !.confirmed = b, !.next = "load"]
<1>2. sess'[r] = t
  BY <1>1, Moving DEF Begins
<1>3. p = <<p[1], p[2]>>
  BY DEF Sources
<1>4. /\ t.pc = "boot" /\ t.op = "select" /\ t.of = p[1] /\ t.stream = p[2]
      /\ t.next = "load" /\ t.changed = FALSE
  BY DEF Idle
<1> HIDE DEF t
<1>5. Formed(sess[r])'
  BY <1>2, <1>3, <1>4 DEF Formed, Booting
<1> QED BY <1>1, <1>5, BeginsKept DEF SelectBegins, t

LEMMA SetEnabledBeginsAgrees ==
  ASSUME CopiesInv, NEW r \in Requests, SetEnabledBegins(r)
  PROVE  CopiesKept'
<1>1. PICK i \in there, st \in Streams, b \in BOOLEAN :
        /\ Offers[i] = {st}
        /\ Begins(r, [Idle EXCEPT
              !.pc = IF b THEN "boot" ELSE "off", !.op = IF b THEN "enable" ELSE "disable",
              !.of = i, !.stream = st, !.next = IF b THEN "load" ELSE "idle",
              !.seen = Loaded(i, enabled[i])])
  BY DEF SetEnabledBegins
<1> DEFINE t == [Idle EXCEPT
              !.pc = IF b THEN "boot" ELSE "off", !.op = IF b THEN "enable" ELSE "disable",
              !.of = i, !.stream = st, !.next = IF b THEN "load" ELSE "idle",
              !.seen = Loaded(i, enabled[i])]
<1>2. sess'[r] = t
  BY <1>1, Moving DEF Begins
<1>3. i \in Integrations /\ <<i, st>> \in Sources
  BY <1>1 DEF Sources, CopiesInv, SelectionInv, TypeOK
<1>4. /\ t.of = i /\ t.stream = st /\ t.changed = FALSE
      /\ \/ t.pc = "boot" /\ t.op = "enable" /\ t.next = "load"
         \/ t.pc = "off" /\ t.op = "disable"
  BY DEF Idle
<1> HIDE DEF t
<1>5. Formed(sess[r])'
  BY <1>1, <1>2, <1>3, <1>4 DEF Formed, Booting
<1> QED BY <1>1, <1>5, BeginsKept DEF SetEnabledBegins, t

LEMMA ServiceNowSavesAgrees ==
  ASSUME CopiesInv, NEW r \in Requests, ServiceNowSaves(r)
  PROVE  CopiesKept'
<1>1. PICK c \in ServiceNow :
        /\ conn[c] # "none"
        /\ Begins(r, [Idle EXCEPT !.pc = "linking", !.op = "save", !.of = c,
                                  !.on = conn[c] = "on", !.seen = Loaded(c, enabled[c])])
  BY DEF ServiceNowSaves
<1> DEFINE t == [Idle EXCEPT !.pc = "linking", !.op = "save", !.of = c,
                             !.on = conn[c] = "on", !.seen = Loaded(c, enabled[c])]
<1>2. sess'[r] = t
  BY <1>1, Moving DEF Begins
<1>3. there' = there /\ rows' = rows /\ conn' = conn /\ c \in there /\ Kept(c)
  BY <1>1 DEF ServiceNowSaves, CopiesInv, CopiesKept, Whole, Connections
<1>4. t.of = c /\ t.pc = "linking" /\ t.op = "save"
  BY DEF Idle
<1> HIDE DEF t
<1>5. Formed(sess[r])'
  BY <1>1, <1>2, <1>3, <1>4 DEF Formed, Booting, Kept
<1> QED BY <1>1, <1>5, BeginsKept DEF ServiceNowSaves, t

LEMMA SelectLoadsAgrees ==
  ASSUME CopiesInv, NEW r \in Requests, SelectLoads(r)
  PROVE  CopiesKept'
<1> DEFINE s == sess[r]
           now == Serving(active, s.stream)
           current == IF now = {} THEN None ELSE CHOOSE i \in now : TRUE
           on == s.of \in now
           found == Found(s)[s.of]
           t == [s EXCEPT !.pc = "write", !.on = on, !.current = current, !.seen[s.of] = found]
<1>0. s \in Session /\ Formed(s) /\ s.pc = "load"
  BY DEF SelectLoads, CopiesInv, CopiesKept, SelectionInv, TypeOK
<1>1. IF <<s.of, s.stream>> \notin rows \/ (now \ {s.of} # {} /\ ~s.confirmed)
        THEN Goes(r, Idle) ELSE Goes(r, t)
  BY DEF SelectLoads, Ends
<1>2. sess'[r] \in {Idle, t} /\ \A q \in Requests : q # r => sess'[q] = sess[q]
  BY <1>1, Moving
<1>3. UNCHANGED <<there, enabled, rows, active, conn, job, exposed>>
  BY DEF SelectLoads, Rest
<1>4. /\ s.op \in {"select", "enable"}
      /\ <<s.of, s.stream>> \in Sources /\ s.of \in Integrations
      /\ s.op = "enable" => Offers[s.of] = {s.stream}
      /\ \A i \in Integrations : i # s.of => ~s.seen[i]
  BY <1>0 DEF Formed, Sources
<1>5. /\ t.pc = "write" /\ t.op = s.op /\ t.of = s.of /\ t.stream = s.stream /\ t.next = s.next
      /\ t.changed = s.changed /\ t.current = current
      /\ \A i \in Integrations : i # s.of => t.seen[i] = s.seen[i]
  <2> HIDE DEF current, on, found
  <2> QED BY <1>0 DEF Session
<1>6. current # None => <<current, s.stream>> \in rows
  BY DEF Serving, CopiesInv, SelectionInv, TypeOK
<1>7. current # None => <<current, s.stream>> \in Sources /\ current \in there /\ Kept(current)
  <2> SUFFICES ASSUME current # None
               PROVE  <<current, s.stream>> \in Sources /\ current \in there /\ Kept(current)
    OBVIOUS
  <2> HIDE DEF current
  <2>1. <<current, s.stream>> \in Sources /\ current \in there
    BY <1>6 DEF CopiesInv, CopiesKept, SelectionInv, TypeOK, Whole
  <2>2. <<current, s.stream>> \in Own(current)
    BY <2>1 DEF Sources, Own
  <2> QED BY <1>6, <2>1, <2>2 DEF CopiesInv, CopiesKept, Whole
<1>8. ASSUME NEW c \in Connections, Enabling(s, c)
      PROVE  Enabling(sess[r], c)'
  <2>1. s.op = "enable" /\ s.of = c /\ Selected(c) /\ s.changed /\ c \in Integrations
    BY <1>8, ConnectionsTyped DEF Enabling
  <2>2. PICK st \in Streams : <<c, st>> \in active
    BY <2>1 DEF Selected, Among
  <2>3. <<c, st>> \in Sources /\ <<c, st>> \in rows
    BY <2>2 DEF CopiesInv, SelectionInv, TypeOK
  <2>4. st = s.stream
    BY <1>4, <2>1, <2>3 DEF Sources
  <2>5. now = {c}
    BY <2>1, <2>2, <2>4 DEF Serving, CopiesInv, SelectionInv, Unique
  <2>6. Goes(r, t)
    BY <1>1, <2>1, <2>3, <2>4, <2>5
  <2>7. sess'[r] = t
    <3> HIDE DEF t
    <3> QED BY <2>6, Moving
  <2> HIDE DEF t
  <2> QED BY <1>3, <1>5, <2>1, <2>7 DEF Enabling, Selected, Among
<1> HIDE DEF t, current
<1>9. Formed(sess[r])'
  <2>1. CASE sess'[r] = Idle
    BY <2>1 DEF Formed, Idle, Booting
  <2>2. CASE sess'[r] = t
    BY <1>3, <1>4, <1>5, <1>7, <2>2 DEF Formed, Booting, Kept
  <2> QED BY <1>2, <2>1, <2>2
<1>10. /\ \A i : ~OwesFlag(s, i) /\ ~Introduces(s, i) /\ ~Creating(s, i)
       /\ \A i : OwesConn(s, i) => Enabling(s, i)
       /\ \A i : OwesJob(s, i) => Enabling(s, i)
  BY <1>0, <1>4 DEF OwesFlag, Introduces, Creating, OwesConn, OwesJob, Saves, Booting
<1>11. \A c \in Connections : OwesConn(s, c) => OwesConn(sess[r], c)'
  BY <1>8, <1>10 DEF OwesConn
<1>12. \A c \in Connections : OwesJob(s, c) => JobOwed(c)'
  BY <1>8, <1>10 DEF OwesJob, JobOwed
<1> QED BY <1>2, <1>3, <1>9, <1>10, <1>11, <1>12, QuietStep

LEMMA LinkReadsAgrees ==
  ASSUME CopiesInv, NEW r \in Requests, LinkReads(r)
  PROVE  CopiesKept'
<1> DEFINE s == sess[r]
           sel == Selected(s.of)
           seen == IF s.of \in Zammad THEN enabled[s.of] ELSE s.seen[s.of]
           t == [s EXCEPT !.pc = "link", !.sel = sel, !.seen[s.of] = seen]
<1>0. s \in Session /\ Formed(s) /\ s.pc = "linking" /\ s.op = "save"
  BY DEF LinkReads, CopiesInv, CopiesKept, SelectionInv, TypeOK
<1>1. UNCHANGED <<there, enabled, rows, active, conn, job>>
  BY DEF LinkReads, Rest
<1>2. CASE s.of \notin there
  BY <1>1, <1>2, BreaksKept DEF LinkReads
<1>3. CASE s.of \in there
  <2>1. Goes(r, t) /\ exposed' = exposed
    BY <1>0, <1>3 DEF LinkReads, Session
  <2>2. sess'[r] = t /\ \A q \in Requests : q # r => sess'[q] = sess[q]
    <3> HIDE DEF t
    <3> QED BY <2>1, Moving
  <2>3. /\ t.pc = "link" /\ t.op = "save" /\ t.of = s.of /\ t.on = s.on /\ t.next = s.next
        /\ t.changed = s.changed
    <3> HIDE DEF sel, seen
    <3> QED BY <1>0 DEF Session
  <2> HIDE DEF t
  <2>4. /\ s.of \in Zammad \/ (s.of \in ServiceNow \cap there /\ conn[s.of] # "none")
        /\ Kept(s.of)
    BY <1>0, <1>3 DEF Formed
  <2>5. Formed(sess[r])'
    BY <1>1, <2>2, <2>3, <2>4 DEF Formed, Booting, Kept
  <2>6. /\ \A i : ~OwesFlag(s, i) /\ ~Introduces(s, i) /\ ~Creating(s, i)
        /\ \A i : OwesConn(s, i) => Saves(s, i) /\ (s.on <=> conn[i] = "on")
        /\ \A i : OwesJob(s, i) => Saves(s, i)
    BY <1>0 DEF OwesFlag, Introduces, Creating, Enabling, OwesConn, OwesJob, Booting
  <2>7. \A i : Saves(s, i) => Saves(sess[r], i)'
    BY <1>0, <2>2, <2>3 DEF Saves
  <2>8. \A i : OwesConn(s, i) => OwesConn(sess[r], i)'
    BY <1>1, <2>2, <2>3, <2>6, <2>7 DEF OwesConn
  <2>9. \A i : OwesJob(s, i) => JobOwed(i)'
    BY <2>6, <2>7 DEF OwesJob, JobOwed
  <2> QED BY <1>1, <2>1, <2>2, <2>5, <2>6, <2>8, <2>9, QuietStep
<1> QED BY <1>2, <1>3

LEMMA BootLoadsAgrees ==
  ASSUME CopiesInv, NEW r \in Requests, BootLoads(r)
  PROVE  CopiesKept'
<1> DEFINE s == sess[r]
           t == [s EXCEPT !.pc = "check", !.todo = there, !.seen = Found(s)]
<1>0. s \in Session /\ Formed(s) /\ s.pc = "boot" /\ Missing = {}
  BY DEF BootLoads, CopiesInv, CopiesKept, SelectionInv, TypeOK
<1>1. UNCHANGED <<there, enabled, rows, active, conn, job, exposed>>
  BY DEF BootLoads, Rest
<1>2. \A i \in there : Kept(i) /\ Kept(i)'
  BY <1>0, <1>1, MissingRows DEF CopiesInv, Kept
<1>3. CASE there = {}
  <2>1. Goes(r, Passed(s))
    BY <1>3 DEF BootLoads
  <2>2. sess' = [sess EXCEPT ![r] = Passed(s)] /\ \A q \in Requests : q # r => sess'[q] = sess[q]
    BY <2>1, Moving DEF Goes
  <2>3. \A c \in Connections : conn'[c] = "none" <=> conn[c] = "none"
    BY <1>1
  <2>4. \A c : Selected(c)' <=> Selected(c)
    BY <1>1 DEF Selected, Among
  <2>5. Booting(s)
    BY <1>0 DEF Booting
  <2> HIDE DEF s
  <2>6. /\ Formed(sess[r])'
        /\ \A c \in Connections : Saves(s, c) => Saves(sess[r], c)'
        /\ s.op = "save" => sess'[r].on = s.on
        /\ ~exposed => \A c \in Connections : JobOwed(c)'
    BY <1>0, <1>1, <1>2, <2>2, <2>3, <2>4, <2>5, Passing DEF s
  <2>7. \A c \in Connections : OwesConn(s, c) => OwesConn(sess[r], c)'
    BY <1>0, <1>1, <2>6 DEF OwesConn, Saves, Creating, Enabling
  <2>8. \A c : ~Creating(s, c)
    BY <1>0 DEF Creating
  <2> QED BY <1>0, <1>1, <1>3, <2>2, <2>6, <2>7, <2>8, QuietStep DEF s
<1>4. CASE there # {}
  <2>1. Goes(r, t)
    BY <1>4 DEF BootLoads
  <2>2. sess'[r] = t /\ \A q \in Requests : q # r => sess'[q] = sess[q]
    <3> HIDE DEF t
    <3> QED BY <2>1, Moving
  <2>3. /\ t.pc = "check" /\ t.op = s.op /\ t.of = s.of /\ t.stream = s.stream /\ t.on = s.on
        /\ t.next = s.next /\ t.changed = s.changed /\ t.todo = there /\ t.seen = Found(s)
    BY <1>0 DEF Session
  <2> HIDE DEF t, s
  <2>4. Formed(sess[r])'
    BY <1>0, <1>1, <1>2, <2>2, <2>3 DEF Formed, Booting, Kept
  <2>5. \A i \in there : OwesFlag(s, i) => OwesFlag(sess[r], i)'
    <3> SUFFICES ASSUME NEW i \in there, OwesFlag(s, i)
                 PROVE  OwesFlag(sess[r], i)'
      OBVIOUS
    <3>1. s.op # "enable" /\ i \in Integrations
      BY DEF OwesFlag, CopiesInv, SelectionInv, TypeOK
    <3>2. t.seen[i] = enabled[i]
      BY <2>3, <3>1 DEF Found, Holds
    <3> QED BY <1>1, <2>2, <2>3, <3>2 DEF OwesFlag
  <2>6. \A c : Saves(s, c) => Saves(sess[r], c)'
    BY <2>2, <2>3 DEF Saves, Booting
  <2>7. \A c : OwesConn(s, c) => OwesConn(sess[r], c)'
    BY <1>0, <1>1, <2>2, <2>3, <2>6 DEF OwesConn, Creating, Enabling
  <2>8. \A c : OwesJob(s, c) => OwesJob(sess[r], c)'
    BY <1>0, <2>2, <2>3, <2>6 DEF OwesJob, Creating, Enabling, Booting
  <2>9. \A c : ~Creating(s, c)
    BY <1>0 DEF Creating
  <2>10. /\ \A i \in there : OwesFlag(s, i) => FlagOwed(i)'
         /\ \A c : OwesJob(s, c) => JobOwed(c)'
    BY <2>5, <2>8 DEF FlagOwed, JobOwed
  <2> QED BY <1>0, <1>1, <2>2, <2>4, <2>7, <2>9, <2>10, QuietStep DEF s
<1> QED BY <1>3, <1>4

LEMMA BootChecksAgrees ==
  ASSUME CopiesInv, NEW r \in Requests, BootChecks(r)
  PROVE  CopiesKept'
<1> DEFINE s == sess[r]
           f(i) == [s EXCEPT !.pc = "fix", !.fix = i, !.sel = Selected(i), !.todo = @ \ {i}]
           c(i) == [s EXCEPT !.todo = @ \ {i}]
<1>0. s \in Session /\ Formed(s) /\ s.pc = "check"
  BY DEF BootChecks, CopiesInv, CopiesKept, SelectionInv, TypeOK
<1>1. UNCHANGED <<there, enabled, rows, active, conn, job, exposed>>
  BY DEF BootChecks, Rest
<1>2. PICK i \in s.todo : Goes(r, IF Differs(s, i) THEN f(i)
                                  ELSE IF s.todo = {i} THEN Passed(s) ELSE c(i))
  BY DEF BootChecks
<1>3. \A j : Selected(j)' <=> Selected(j)
  BY <1>1 DEF Selected, Among
<1>4. \A j \in there : s.op = "save" /\ j = s.of => Kept(j) /\ Kept(j)'
  BY <1>0, <1>1 DEF Formed, Kept
<1>5. Booting(s)
  BY <1>0 DEF Booting
<1>6. /\ \A j : ~Creating(s, j) /\ ~Introduces(s, j)
      /\ \A j : OwesConn(s, j) => Saves(s, j) /\ (s.on <=> conn[j] = "on")
      /\ \A j : OwesFlag(s, j) => s.changed /\ s.op \in {"read", "save"} /\ j \in s.todo
                                            /\ s.seen[j] = enabled[j]
  BY <1>0 DEF Creating, Introduces, OwesConn, Enabling, OwesFlag
<1>7. CASE ~Differs(s, i) /\ s.todo = {i}
  <2>1. sess' = [sess EXCEPT ![r] = Passed(s)] /\ \A q \in Requests : q # r => sess'[q] = sess[q]
    BY <1>2, <1>7, Moving DEF Goes
  <2>2. \A d \in Connections : conn'[d] = "none" <=> conn[d] = "none"
    BY <1>1
  <2>3. \A j : OwesFlag(s, j) => FlagOwed(j)'
    BY <1>1, <1>3, <1>6, <1>7 DEF Differs, FlagOwed, FlagAgrees
  <2> HIDE DEF s
  <2>4. /\ Formed(sess[r])'
        /\ \A d \in Connections : Saves(s, d) => Saves(sess[r], d)'
        /\ s.op = "save" => sess'[r].on = s.on
        /\ ~exposed => \A d \in Connections : JobOwed(d)'
    BY <1>0, <1>1, <1>3, <1>4, <1>5, <2>1, <2>2, Passing DEF s
  <2>5. \A d \in Connections : OwesConn(s, d) => OwesConn(sess[r], d)'
    BY <1>1, <1>6, <2>4 DEF OwesConn, Saves
  <2> QED BY <1>0, <1>1, <1>6, <2>1, <2>3, <2>4, <2>5, QuietStep DEF s
<1>8. ASSUME NEW t, Goes(r, t), t.pc \in {"check", "fix"},
             t.op = s.op, t.of = s.of, t.stream = s.stream, t.on = s.on, t.next = s.next,
             t.changed = s.changed, t.seen = s.seen,
             \A j \in s.todo : j \in t.todo \/ (t.pc = "fix" /\ t.fix = j) \/ ~Differs(s, j)
      PROVE  CopiesKept'
  <2>1. sess'[r] = t /\ \A q \in Requests : q # r => sess'[q] = sess[q]
    BY <1>8, Moving
  <2>2. Formed(sess[r])'
    BY <1>0, <1>1, <1>4, <1>8, <2>1 DEF Formed, Booting, Kept
  <2>3. \A j : OwesFlag(s, j) => FlagOwed(j)'
    <3> SUFFICES ASSUME NEW j, OwesFlag(s, j)
                 PROVE  FlagOwed(j)'
      OBVIOUS
    <3>1. CASE ~Differs(s, j)
      BY <1>1, <1>3, <1>6, <3>1 DEF Differs, FlagOwed, FlagAgrees
    <3>2. CASE j \in t.todo \/ (t.pc = "fix" /\ t.fix = j)
      <4>1. OwesFlag(sess[r], j)'
        BY <1>1, <1>6, <1>8, <2>1, <3>2 DEF OwesFlag
      <4> QED BY <4>1 DEF FlagOwed
    <3> QED BY <1>6, <1>8, <3>1, <3>2
  <2>4. \A d : Saves(s, d) => Saves(sess[r], d)'
    BY <1>8, <2>1 DEF Saves, Booting
  <2>5. \A d : OwesConn(s, d) => OwesConn(sess[r], d)'
    BY <1>1, <1>6, <1>8, <2>1, <2>4 DEF OwesConn
  <2>6. \A d : OwesJob(s, d) => OwesJob(sess[r], d)'
    BY <1>0, <1>8, <2>1, <2>4 DEF OwesJob, Creating, Enabling, Booting
  <2>7. \A d : OwesJob(s, d) => JobOwed(d)'
    BY <2>6 DEF JobOwed
  <2> QED BY <1>1, <1>6, <2>1, <2>2, <2>3, <2>5, <2>7, QuietStep
<1>9. CASE Differs(s, i)
  <2>1. /\ f(i).pc = "fix" /\ f(i).op = s.op /\ f(i).of = s.of /\ f(i).stream = s.stream
        /\ f(i).on = s.on /\ f(i).next = s.next /\ f(i).changed = s.changed /\ f(i).seen = s.seen
        /\ f(i).todo = s.todo \ {i} /\ f(i).fix = i
    BY <1>0 DEF Session
  <2>2. Goes(r, f(i))
    BY <1>2, <1>9
  <2> HIDE DEF f
  <2> QED BY <1>8, <2>1, <2>2
<1>10. CASE ~Differs(s, i) /\ s.todo # {i}
  <2>1. /\ c(i).pc = "check" /\ c(i).op = s.op /\ c(i).of = s.of /\ c(i).stream = s.stream
        /\ c(i).on = s.on /\ c(i).next = s.next /\ c(i).changed = s.changed /\ c(i).seen = s.seen
        /\ c(i).todo = s.todo \ {i}
    BY <1>0 DEF Session
  <2>2. Goes(r, c(i))
    BY <1>2, <1>10
  <2> HIDE DEF c
  <2> QED BY <1>8, <1>10, <2>1, <2>2
<1> QED BY <1>7, <1>9, <1>10

LEMMA ReconcilesAgrees ==
  ASSUME CopiesInv, NEW r \in Requests, Reconciles(r)
  PROVE  CopiesKept'
<1> DEFINE s == sess[r]
<1>0. s \in Session /\ Formed(s) /\ s.pc = "reconcile"
  BY DEF Reconciles, CopiesInv, CopiesKept, SelectionInv, TypeOK
<1>1. UNCHANGED <<there, enabled, rows, active, conn, exposed>>
  BY DEF Reconciles, Rest
<1>2. PICK c \in s.todo :
        /\ job' = IF Scheduled(c) THEN job \cup {c} ELSE job \ {c}
        /\ Goes(r, IF s.todo = {c} THEN Idle ELSE [s EXCEPT !.todo = @ \ {c}])
  BY DEF Reconciles
<1> DEFINE t == [s EXCEPT !.todo = @ \ {c}]
<1>3. /\ sess'[r] = IF s.todo = {c} THEN Idle ELSE t
      /\ \A q \in Requests : q # r => sess'[q] = sess[q]
  <2> HIDE DEF t
  <2> QED BY <1>2, Moving DEF t
<1>4. /\ t.pc = "reconcile" /\ t.op = s.op /\ t.of = s.of /\ t.stream = s.stream
      /\ t.changed = s.changed /\ t.todo = s.todo \ {c}
  BY <1>0 DEF Session
<1>5. \A i : Selected(i)' <=> Selected(i)
  BY <1>1 DEF Selected, Among
<1> HIDE DEF t
<1>6. Formed(sess[r])'
  <2>1. CASE sess'[r] = Idle
    BY <2>1 DEF Formed, Idle, Booting
  <2>2. CASE sess'[r] = t
    BY <1>0, <1>1, <1>4, <2>2 DEF Formed, Booting
  <2> QED BY <1>3, <2>1, <2>2
<1>7. Whole' /\ \A q \in Requests : Formed(sess[q])'
  BY <1>1, <1>3, <1>6, ShapeStays
<1>8. /\ \A i : ~OwesFlag(s, i) /\ ~Introduces(s, i) /\ ~Creating(s, i) /\ ~OwesConn(s, i)
      /\ \A i : OwesJob(s, i) => s.changed /\ i \in s.todo
  BY <1>0 DEF OwesFlag, Introduces, Creating, Enabling, Saves, OwesConn, OwesJob, Booting
<1>9. ASSUME ~exposed
      PROVE  Owed'
  <2>0. Owed
    BY <1>9 DEF CopiesInv, CopiesKept
  <2>1. ASSUME NEW i \in there
        PROVE  FlagOwed(i)' /\ FreshOwed(i)'
    <3>1. FlagOwed(i) /\ FreshOwed(i)
      BY <2>0, <2>1 DEF Owed
    <3>2. Fresh(i)' => Fresh(i)
      BY <1>1 DEF Fresh, Kept
    <3>3. FlagOwed(i)'
      BY <1>1, <1>3, <1>5, <1>8, <3>1, FlagStays
    <3>4. s.pc # "boot" /\ ~OwesConn(sess[r], i)
      BY <1>0, <1>8
    <3>5. FreshOwed(i)'
      BY <1>1, <1>3, <1>5, <3>1, <3>2, <3>4, FreshStays
    <3> QED BY <3>3, <3>5
  <2>2. ASSUME NEW d \in Connections
        PROVE  ConnOwed(d)' /\ JobOwed(d)' /\ NoneOwed(d)'
    <3>1. ConnOwed(d) /\ JobOwed(d) /\ NoneOwed(d)
      BY <2>0, <2>2 DEF Owed
    <3>2. ConnOwed(d)'
      BY <1>1, <1>3, <1>5, <1>8, <3>1, ConnStays
    <3>3. JobOwed(d)'
      <4>1. CASE d = c
        <5>1. CASE ConnAgrees(d)
          <6>1. d \in job' <=> Selected(d)
            BY <1>2, <4>1, <5>1 DEF Scheduled, ConnAgrees
          <6> QED BY <1>5, <6>1 DEF JobOwed, JobAgrees
        <5>2. CASE ~ConnAgrees(d)
          <6>1. PICK q \in Requests : OwesConn(sess[q], d)'
            BY <1>1, <1>5, <3>2, <5>2 DEF ConnOwed, ConnAgrees
          <6> QED BY <6>1 DEF JobOwed, OwesJob, OwesConn
        <5> QED BY <5>1, <5>2
      <4>2. CASE d # c /\ ~OwesJob(s, d)
        BY <1>2, <1>3, <1>5, <3>1, <4>2, JobStays
      <4>3. CASE d # c /\ OwesJob(s, d)
        <5>1. sess'[r] = t /\ d \in t.todo /\ t.changed
          BY <1>3, <1>4, <1>8, <4>3
        <5> QED BY <1>4, <5>1 DEF JobOwed, OwesJob
      <4> QED BY <4>1, <4>2, <4>3
    <3>4. NoneOwed(d)'
      <4> SUFFICES ASSUME conn[d] = "none"
                   PROVE  NoneOwed(d)'
        BY <1>1 DEF NoneOwed
      <4>1. d \notin job'
        BY <1>2, <3>1 DEF NoneOwed, Scheduled
      <4>2. \A q \in Requests : Creating(sess[q], d) => Creating(sess[q], d)'
        BY <1>3, <1>8 DEF Creating
      <4> QED BY <1>1, <3>1, <4>1, <4>2 DEF NoneOwed
    <3> QED BY <3>2, <3>3, <3>4
  <2> QED BY <1>1, <2>1, <2>2 DEF Owed
<1> QED BY <1>1, <1>7, <1>9 DEF CopiesKept

LEMMA ReconcileStopsAgrees ==
  ASSUME CopiesInv, NEW r \in Requests, ReconcileStops(r)
  PROVE  CopiesKept'
BY BreaksKept DEF ReconcileStops, Rest

LEMMA FailsAgrees ==
  ASSUME CopiesInv, NEW r \in Requests, Fails(r)
  PROVE  CopiesKept'
BY BreaksKept DEF Fails

(* What a step leaves alone and r did not owe is still agreed on or owed.   *)
LEMMA OthersOwe ==
  ASSUME CopiesInv, NEW r \in Requests, \A q \in Requests : q # r => sess'[q] = sess[q],
         ~exposed, NEW i, Selected(i)' <=> Selected(i)
  PROVE  /\ i \in there /\ ~OwesFlag(sess[r], i) /\ enabled'[i] = enabled[i] => FlagOwed(i)'
         /\ i \in there /\ sess[r].pc # "boot" /\ ~OwesConn(sess[r], i)
              /\ enabled'[i] = enabled[i] /\ (i \in Zammad => conn'[i] = conn[i])
              /\ (Fresh(i)' => Fresh(i))
              => FreshOwed(i)'
         /\ i \in Connections /\ ~OwesConn(sess[r], i) /\ conn'[i] = conn[i] => ConnOwed(i)'
         /\ i \in Connections /\ ~OwesJob(sess[r], i) /\ (i \in job' <=> i \in job) => JobOwed(i)'
         /\ i \in Connections /\ ~Creating(sess[r], i) /\ (conn'[i] = "none" => conn[i] = "none")
              /\ (i \in job' => i \in job) /\ (i \in there' => i \in there)
              => NoneOwed(i)'
<1>1. /\ i \in there => FlagOwed(i) /\ FreshOwed(i)
      /\ i \in Connections => ConnOwed(i) /\ JobOwed(i) /\ NoneOwed(i)
  BY DEF CopiesInv, CopiesKept, Owed
<1> QED BY <1>1, FlagStays, FreshStays, ConnStays, JobStays, NoneStays

LEMMA DeleteBeginsAgrees ==
  ASSUME CopiesInv, NEW r \in Requests, DeleteBegins(r)
  PROVE  CopiesKept'
<1> DEFINE s == sess[r]
<1>1. UNCHANGED <<there, enabled, rows, active, conn, exposed>>
  BY DEF DeleteBegins
<1>2. PICK c \in Zammad :
        /\ job' = job \ {c}
        /\ Begins(r, [Idle EXCEPT !.pc = "delete", !.op = "delete", !.of = c, !.changed = TRUE])
  BY DEF DeleteBegins
<1> DEFINE t == [Idle EXCEPT !.pc = "delete", !.op = "delete", !.of = c, !.changed = TRUE]
<1>3. sess'[r] = t /\ \A q \in Requests : q # r => sess'[q] = sess[q]
  <2> HIDE DEF t
  <2> QED BY <1>2, Moving DEF Begins, t
<1>4. t.pc = "delete" /\ t.op = "delete" /\ t.of = c /\ t.changed
  BY DEF Idle
<1>5. ~s.changed /\ s.pc = "idle"
  BY <1>2, IdleIs DEF Begins
<1> HIDE DEF t
<1>6. /\ \A i : ~OwesFlag(s, i) /\ ~OwesConn(s, i) /\ ~OwesJob(s, i)
      /\ \A i : ~Creating(s, i) /\ ~Introduces(s, i)
  BY <1>5, OwesNothing
<1>7. \A i : /\ Selected(i)' <=> Selected(i)
             /\ Fresh(i)' <=> Fresh(i)
  BY <1>1 DEF Selected, Among, Fresh, Kept
<1>8. Formed(sess[r])'
  BY <1>3, <1>4 DEF Formed, Booting
<1>9. Whole' /\ \A q \in Requests : Formed(sess[q])'
  BY <1>1, <1>3, <1>8, ShapeStays
<1>10. ASSUME ~exposed
       PROVE  Owed'
  <2>1. \A i \in there : FlagOwed(i)' /\ FreshOwed(i)'
    BY <1>1, <1>3, <1>5, <1>6, <1>7, <1>10, OthersOwe
  <2>2. \A d \in Connections : ConnOwed(d)' /\ NoneOwed(d)'
    BY <1>1, <1>2, <1>3, <1>6, <1>7, <1>10, OthersOwe
  <2>3. ASSUME NEW d \in Connections
        PROVE  JobOwed(d)'
    <3>1. CASE d = c
      BY <1>3, <1>4, <3>1 DEF JobOwed, OwesJob
    <3>2. CASE d # c
      BY <1>2, <1>3, <1>6, <1>7, <1>10, <2>3, <3>2, OthersOwe
    <3> QED BY <3>1, <3>2
  <2> QED BY <1>1, <2>1, <2>2, <2>3 DEF Owed
<1> QED BY <1>1, <1>9, <1>10 DEF CopiesKept

(* What the others know survives a step that takes no rows away.            *)
LEMMA AllFormed ==
  ASSUME CopiesInv, NEW r \in Requests, \A q \in Requests : q # r => sess'[q] = sess[q],
         Formed(sess[r])',
         \A q \in Requests : q # r =>
           /\ sess[q].op = "save" /\ sess[q].of \in there' => sess[q].of \in there
           /\ sess[q].current \in Zammad \cap there' => sess[q].current \in there,
         \A i \in there : i \notin Zammad => i \in there',
         \A i \in there \cap there' : Kept(i) => Kept(i)',
         \A c \in ServiceNow : conn[c] # "none" => conn'[c] # "none"
  PROVE  \A q \in Requests : Formed(sess[q])'
<1> SUFFICES ASSUME NEW q \in Requests, q # r
             PROVE  Formed(sess[q])'
  OBVIOUS
<1>1. Formed(sess[q]) /\ sess'[q] = sess[q]
  BY DEF CopiesInv, CopiesKept
<1>2. /\ sess[q].op = "save" /\ sess[q].of \in there' => sess[q].of \in there
      /\ sess[q].current \in Zammad \cap there' => sess[q].current \in there
  OBVIOUS
<1> QED BY <1>1, <1>2, FormedStays

LEMMA AdoptsAgrees ==
  ASSUME CopiesInv, NEW r \in Requests, Adopts(r)
  PROVE  CopiesKept'
<1> DEFINE s == sess[r]
           t == [Idle EXCEPT !.pc = "boot", !.changed = TRUE]
<1>1. UNCHANGED <<rows, active, conn, job, exposed>> /\ Begins(r, t)
  BY DEF Adopts
<1>2. PICK i \in Integrations \ (Connections \cup there) :
        /\ there' = there \cup {i}
        /\ enabled' = [enabled EXCEPT ![i] = TRUE]
  BY DEF Adopts
<1>3. sess'[r] = t /\ \A q \in Requests : q # r => sess'[q] = sess[q]
  <2> HIDE DEF t
  <2> QED BY <1>1, Moving DEF Begins
<1>4. t.pc = "boot" /\ t.op = "read" /\ t.of = None /\ t.changed /\ t.next = "idle"
  BY DEF Idle
<1>5. ~s.changed /\ s.pc = "idle"
  BY <1>1, IdleIs DEF Begins
<1> HIDE DEF t
<1>6. /\ \A j : ~OwesFlag(s, j) /\ ~OwesConn(s, j) /\ ~OwesJob(s, j)
      /\ \A j : ~Creating(s, j) /\ ~Introduces(s, j)
  BY <1>5, OwesNothing
<1>7. \A j : /\ Selected(j)' <=> Selected(j)
             /\ Kept(j)' <=> Kept(j)
  BY <1>1 DEF Selected, Among, Kept
<1>8. Formed(sess[r])'
  BY <1>3, <1>4 DEF Formed, Booting
<1>9. \A q \in Requests : Formed(sess[q])'
  <2>1. \A q \in Requests : sess[q].op = "save" => sess[q].of # i
    BY <1>2 DEF CopiesInv, CopiesKept, Formed, Connections
  <2>2. i \notin Zammad
    BY <1>2 DEF Connections
  <2> QED BY <1>1, <1>2, <1>3, <1>7, <1>8, <2>1, <2>2, AllFormed
<1>10. Whole'
  <2>1. Own(i) \cap rows = {}
    BY <1>2 DEF Own, CopiesInv, CopiesKept, Whole
  <2>2. i \notin Connections /\ i \notin ServiceNow /\ i \notin Zammad
    BY <1>2 DEF Connections
  <2> QED BY <1>1, <1>2, <1>7, <2>1, <2>2 DEF CopiesInv, CopiesKept, Whole
<1>11. ASSUME ~exposed
       PROVE  Owed'
  <2>1. ASSUME NEW j \in there'
        PROVE  FlagOwed(j)'
    BY <1>3, <1>4 DEF FlagOwed, OwesFlag
  <2>2. ASSUME NEW j \in there'
        PROVE  FreshOwed(j)'
    <3>1. CASE j = i
      <4>1. j \notin Zammad
        BY <1>2, <3>1 DEF Connections
      <4>2. Introduces(sess[r], j)'
        BY <1>3, <1>4, <4>1 DEF Introduces
      <4> QED BY <4>1, <4>2 DEF FreshOwed
    <3>2. CASE j # i
      <4>1. j \in there /\ enabled'[j] = enabled[j] /\ conn'[j] = conn[j]
        BY <1>1, <1>2, <2>2, <3>2 DEF CopiesInv, SelectionInv, TypeOK
      <4>2. Fresh(j)' => Fresh(j)
        BY <1>7, <4>1 DEF Fresh
      <4> QED BY <1>3, <1>5, <1>6, <1>7, <1>11, <4>1, <4>2, OthersOwe
    <3> QED BY <3>1, <3>2
  <2>3. \A d \in Connections : d \in there' => d \in there
    BY <1>2
  <2>4. \A d \in Connections : ConnOwed(d)' /\ JobOwed(d)' /\ NoneOwed(d)'
    BY <1>1, <1>3, <1>6, <1>7, <1>11, <2>3, OthersOwe
  <2> QED BY <2>1, <2>2, <2>4 DEF Owed
<1> QED BY <1>1, <1>9, <1>10, <1>11 DEF CopiesKept

LEMMA ZammadSavesAgrees ==
  ASSUME CopiesInv, NEW r \in Requests, ZammadSaves(r)
  PROVE  CopiesKept'
<1> DEFINE s == sess[r]
<1>1. UNCHANGED <<rows, active, job, exposed>>
  BY DEF ZammadSaves
<1>2. PICK c \in Zammad, b \in BOOLEAN :
        /\ c \in there \/ Forgotten(c)
        /\ conn' = [conn EXCEPT ![c] = OnOff(b)]
        /\ enabled' = [enabled EXCEPT ![c] = IF c \in there THEN @ ELSE b]
        /\ there' = there \cup {c}
        /\ Begins(r, [Idle EXCEPT !.pc = "boot", !.op = "save", !.of = c, !.on = b,
                                  !.next = "linking", !.changed = TRUE])
  BY DEF ZammadSaves
<1> DEFINE t == [Idle EXCEPT !.pc = "boot", !.op = "save", !.of = c, !.on = b,
                             !.next = "linking", !.changed = TRUE]
<1>3. sess'[r] = t /\ \A q \in Requests : q # r => sess'[q] = sess[q]
  <2> HIDE DEF t
  <2> QED BY <1>2, Moving DEF Begins, t
<1>4. /\ t.pc = "boot" /\ t.op = "save" /\ t.of = c /\ t.on = b /\ t.next = "linking"
      /\ t.changed
  BY DEF Idle
<1>5. ~s.changed /\ s.pc = "idle"
  BY <1>2, IdleIs DEF Begins
<1> HIDE DEF t
<1>6. /\ \A j : ~OwesFlag(s, j) /\ ~OwesConn(s, j) /\ ~OwesJob(s, j)
      /\ \A j : ~Creating(s, j) /\ ~Introduces(s, j)
  BY <1>5, OwesNothing
<1>7. \A j : /\ Selected(j)' <=> Selected(j)
             /\ Kept(j)' <=> Kept(j)
  BY <1>1 DEF Selected, Among, Kept
<1>8. Formed(sess[r])'
  BY <1>3, <1>4 DEF Formed, Booting
<1>12. /\ c \in Connections /\ c \notin ServiceNow /\ Zammad \subseteq Connections
       /\ ServiceNow \subseteq Connections
  BY SelectionAssumption DEF Connections
<1>13. /\ conn'[c] \in {"on", "off"} /\ (b <=> conn'[c] = "on")
       /\ \A j \in Connections : j # c => conn'[j] = conn[j]
       /\ \A j \in Integrations : j # c => enabled'[j] = enabled[j]
  BY <1>2, <1>12 DEF OnOff, CopiesInv, SelectionInv, TypeOK
<1>9. \A q \in Requests : Formed(sess[q])'
  <2>1. \A q \in Requests :
          /\ sess[q].op = "save" /\ sess[q].of \in there' => sess[q].of \in there
          /\ sess[q].current \in Zammad \cap there' => sess[q].current \in there
    BY <1>2 DEF Forgotten
  <2>2. \A d \in ServiceNow : conn[d] # "none" => conn'[d] # "none"
    BY <1>12, <1>13
  <2> QED BY <1>2, <1>3, <1>7, <1>8, <2>1, <2>2, AllFormed
<1>10. Whole'
  <2>1. c \notin there => Own(c) \cap rows = {}
    BY <1>2 DEF Own, CopiesInv, CopiesKept, Whole
  <2>2. \A i \in there' : Kept(i)' \/ Own(i) \cap rows' = {}
    BY <1>1, <1>2, <1>7, <2>1 DEF CopiesInv, CopiesKept, Whole
  <2>3. \A p \in rows' : p[1] \in there'
    BY <1>1, <1>2 DEF CopiesInv, CopiesKept, Whole
  <2>4. \A i \in there' \cap ServiceNow : Kept(i)'
    BY <1>2, <1>7, <1>12 DEF CopiesInv, CopiesKept, Whole
  <2>5. \A d \in Connections : conn'[d] # "none" => d \in there'
    BY <1>2, <1>13 DEF CopiesInv, CopiesKept, Whole
  <2>6. \A d \in Zammad \cap there' : conn'[d] # "none"
    BY <1>2, <1>12, <1>13 DEF CopiesInv, CopiesKept, Whole
  <2> QED BY <2>2, <2>3, <2>4, <2>5, <2>6 DEF Whole
<1>14. Saves(sess[r], c)' /\ OwesConn(sess[r], c)'
  BY <1>3, <1>4, <1>13 DEF Saves, OwesConn, Booting
<1>11. ASSUME ~exposed
       PROVE  Owed'
  <2>1. ASSUME NEW j \in there'
        PROVE  FlagOwed(j)'
    BY <1>3, <1>4 DEF FlagOwed, OwesFlag
  <2>2. ASSUME NEW j \in there'
        PROVE  FreshOwed(j)'
    <3>1. CASE j = c
      <4>1. Introduces(sess[r], j)'
        BY <1>3, <1>4, <3>1 DEF Introduces
      <4> QED BY <1>14, <3>1, <4>1 DEF FreshOwed
    <3>2. CASE j # c
      <4>1. j \in there /\ j \in Integrations /\ enabled'[j] = enabled[j]
        BY <1>2, <1>13, <2>2, <3>2 DEF CopiesInv, SelectionInv, TypeOK
      <4>3. conn'[j] = conn[j]
        BY <1>2, <1>12, <3>2 DEF CopiesInv, SelectionInv, TypeOK
      <4>2. Fresh(j)' => Fresh(j)
        BY <1>7, <4>1 DEF Fresh
      <4> QED BY <1>3, <1>5, <1>6, <1>7, <1>11, <4>1, <4>2, <4>3, OthersOwe
    <3> QED BY <3>1, <3>2
  <2>3. ASSUME NEW d \in Connections
        PROVE  ConnOwed(d)' /\ JobOwed(d)' /\ NoneOwed(d)'
    <3>1. CASE d = c
      BY <1>13, <1>14, <3>1 DEF ConnOwed, JobOwed, OwesJob, NoneOwed
    <3>2. CASE d # c
      <4>1. conn'[d] = conn[d] /\ (d \in there' => d \in there)
        BY <1>2, <1>13, <2>3, <3>2
      <4> QED BY <1>1, <1>3, <1>6, <1>7, <1>11, <2>3, <4>1, OthersOwe
    <3> QED BY <3>1, <3>2
  <2> QED BY <2>1, <2>2, <2>3 DEF Owed
<1> QED BY <1>1, <1>9, <1>10, <1>11 DEF CopiesKept

LEMMA CreatesAgrees ==
  ASSUME CopiesInv, NEW r \in Requests, Creates(r)
  PROVE  CopiesKept'
<1> DEFINE s == sess[r]
<1>1. UNCHANGED <<conn, job, exposed>>
  BY DEF Creates
<1>2. PICK i \in Integrations \ (Zammad \cup there), b \in BOOLEAN :
        LET own == {i} \X Offers[i]
            taken == IF b THEN {p \in own : Serving(active, p[2]) = {}} ELSE {}
        IN /\ there' = there \cup {i}
           /\ rows' = rows \cup own
           /\ active' = active \cup taken
           /\ enabled' = [enabled EXCEPT ![i] = taken # {}]
           /\ sess[r].pc = "idle"
           /\ Goes(r, IF i \in ServiceNow
                        THEN [Idle EXCEPT !.pc = "linking", !.op = "create", !.of = i,
                                          !.seen = Loaded(i, taken # {}), !.changed = TRUE]
                        ELSE Idle)
  BY DEF Creates
<1> DEFINE taken == IF b THEN {p \in Own(i) : Serving(active, p[2]) = {}} ELSE {}
           t == [Idle EXCEPT !.pc = "linking", !.op = "create", !.of = i,
                             !.seen = Loaded(i, taken # {}), !.changed = TRUE]
<1>3. /\ there' = there \cup {i}
      /\ rows' = rows \cup Own(i)
      /\ active' = active \cup taken
      /\ enabled' = [enabled EXCEPT ![i] = taken # {}]
      /\ sess[r].pc = "idle"
      /\ Goes(r, IF i \in ServiceNow THEN t ELSE Idle)
  BY <1>2 DEF Own
<1>4. /\ sess'[r] = IF i \in ServiceNow THEN t ELSE Idle
      /\ \A q \in Requests : q # r => sess'[q] = sess[q]
  <2> HIDE DEF t
  <2> QED BY <1>3, Moving
<1>5. t.pc = "linking" /\ t.op = "create" /\ t.of = i /\ t.changed
  BY DEF Idle
<1>6. \A p \in taken : p[1] = i /\ p[2] \in Streams /\ p = <<p[1], p[2]>>
  BY <1>2, SelectionAssumption DEF Own
<1>7. ~s.changed
  BY <1>3, IdleIs
<1> HIDE DEF t, taken
<1>8. /\ \A j : ~OwesFlag(s, j) /\ ~OwesConn(s, j) /\ ~OwesJob(s, j)
      /\ \A j : ~Creating(s, j) /\ ~Introduces(s, j)
  BY <1>7, OwesNothing
<1>9. /\ Zammad \subseteq Connections /\ ServiceNow \subseteq Connections
      /\ Connections = Zammad \cup ServiceNow
  BY DEF Connections
<1>10. \A j : j # i => (Selected(j)' <=> Selected(j))
  BY <1>3, <1>6 DEF Selected, Among
<1>11. ~Selected(i) /\ (Selected(i)' <=> taken # {})
  <2>1. ~Selected(i)
    BY <1>2 DEF Selected, Among, CopiesInv, CopiesKept, Whole, SelectionInv, TypeOK
  <2>2. Selected(i)' => taken # {}
    BY <1>3, <2>1 DEF Selected, Among
  <2>3. taken # {} => Selected(i)'
    BY <1>3, <1>6 DEF Selected, Among
  <2> QED BY <2>1, <2>2, <2>3
<1>12. \A j : j # i => Own(j) \cap Own(i) = {}
  BY DEF Own
<1>13. Kept(i)' /\ \A j : Kept(j) => Kept(j)'
  BY <1>3 DEF Kept
<1>14. i \notin there /\ i \notin Zammad /\ (i \in Connections => i \in ServiceNow)
  BY <1>2, <1>9
<1>15. \A j \in Integrations : j # i => enabled'[j] = enabled[j]
  BY <1>3 DEF CopiesInv, SelectionInv, TypeOK
<1>16. enabled'[i] = (taken # {})
  BY <1>2, <1>3 DEF CopiesInv, SelectionInv, TypeOK
<1>17. Formed(sess[r])'
  <2>1. CASE sess'[r] = Idle
    BY <2>1 DEF Formed, Idle, Booting
  <2>2. CASE sess'[r] = t /\ i \in ServiceNow
    BY <1>3, <1>5, <2>2 DEF Formed, Booting
  <2> QED BY <1>4, <2>1, <2>2
<1>18. \A q \in Requests : Formed(sess[q])'
  <2>1. \A q \in Requests : sess[q].op = "save" => sess[q].of # i
    BY <1>14 DEF CopiesInv, CopiesKept, Formed
  <2> QED BY <1>1, <1>3, <1>4, <1>13, <1>14, <1>17, <2>1, AllFormed
<1>19. Whole'
  <2>2. \A j \in there' : Kept(j)' \/ Own(j) \cap rows' = {}
    <3> SUFFICES ASSUME NEW j \in there', ~Kept(j)'
                 PROVE  Own(j) \cap rows' = {}
      OBVIOUS
    <3>1. j # i /\ j \in there /\ ~Kept(j)
      BY <1>3, <1>13
    <3>2. Own(j) \cap rows = {}
      BY <3>1 DEF CopiesInv, CopiesKept, Whole
    <3> QED BY <1>3, <1>12, <3>1, <3>2
  <2>3. \A p \in rows' : p[1] \in there'
    BY <1>3 DEF Own, CopiesInv, CopiesKept, Whole
  <2>4. \A j \in there' \cap ServiceNow : Kept(j)'
    BY <1>3, <1>13 DEF CopiesInv, CopiesKept, Whole
  <2>5. \A d \in Connections : conn'[d] # "none" => d \in there'
    BY <1>1, <1>3 DEF CopiesInv, CopiesKept, Whole
  <2>6. \A d \in Zammad \cap there' : conn'[d] # "none"
    BY <1>1, <1>3, <1>14 DEF CopiesInv, CopiesKept, Whole
  <2> QED BY <2>2, <2>3, <2>4, <2>5, <2>6 DEF Whole
<1>20. ASSUME ~exposed
       PROVE  Owed'
  <2>1. ASSUME NEW j \in there'
        PROVE  FlagOwed(j)' /\ FreshOwed(j)'
    <3>1. CASE j = i
      BY <1>11, <1>13, <1>16, <3>1 DEF FlagOwed, FlagAgrees, FreshOwed, Fresh
    <3>2. CASE j # i
      <4>1. j \in there /\ j \in Integrations
        BY <1>3, <2>1, <3>2 DEF CopiesInv, SelectionInv, TypeOK
      <4>2. enabled'[j] = enabled[j] /\ conn'[j] = conn[j]
        BY <1>1, <1>15, <3>2, <4>1
      <4>3. Fresh(j)' => Fresh(j)
        BY <1>13, <4>1 DEF Fresh
      <4>4. s.pc # "boot"
        BY <1>3
      <4>5. Selected(j)' <=> Selected(j)
        BY <1>10, <3>2
      <4> QED BY <1>4, <1>8, <1>20, <4>1, <4>2, <4>3, <4>4, <4>5, OthersOwe
    <3> QED BY <3>1, <3>2
  <2>2. ASSUME NEW d \in Connections
        PROVE  ConnOwed(d)' /\ JobOwed(d)' /\ NoneOwed(d)'
    <3>1. CASE d = i
      <4>1. Creating(sess[r], d)'
        BY <1>4, <1>5, <1>14, <2>2, <3>1 DEF Creating
      <4>2. conn[d] = "none"
        BY <1>14, <2>2, <3>1 DEF CopiesInv, CopiesKept, Whole
      <4>3. d \notin job'
        BY <1>1, <1>20, <2>2, <4>2 DEF CopiesInv, CopiesKept, Owed, NoneOwed
      <4> QED BY <4>1, <4>3 DEF ConnOwed, OwesConn, JobOwed, OwesJob, NoneOwed
    <3>2. CASE d # i
      <4>1. (d \in there' => d \in there) /\ (Selected(d)' <=> Selected(d))
        BY <1>3, <1>10, <3>2
      <4> QED BY <1>1, <1>4, <1>8, <1>20, <2>2, <4>1, OthersOwe
    <3> QED BY <3>1, <3>2
  <2> QED BY <2>1, <2>2 DEF Owed
<1> QED BY <1>1, <1>18, <1>19, <1>20 DEF CopiesKept

LEMMA DeleteCommitsAgrees ==
  ASSUME CopiesInv, NEW r \in Requests, DeleteCommits(r)
  PROVE  CopiesKept'
<1> DEFINE s == sess[r]
<1>0. PICK i \in Zammad : i = s.of /\ s.pc = "delete"
  BY DEF DeleteCommits, CopiesInv, CopiesKept, Formed
<1>1. /\ there' = there \ {i}
      /\ enabled' = [enabled EXCEPT ![i] = FALSE]
      /\ rows' = {p \in rows : p[1] # i}
      /\ active' = {p \in active : p[1] # i}
      /\ conn' = [conn EXCEPT ![i] = "none"]
      /\ exposed' = (exposed \/ i \in job)
      /\ job' = job
      /\ Goes(r, Idle)
  BY <1>0 DEF DeleteCommits, Outdated, Ends, Rest
<1>2. sess'[r] = Idle /\ \A q \in Requests : q # r => sess'[q] = sess[q]
  BY <1>1, Moving
<1>3. /\ \A j : ~OwesFlag(s, j) /\ ~OwesConn(s, j) /\ ~Creating(s, j) /\ ~Introduces(s, j)
      /\ \A j : OwesJob(s, j) => j = i
  BY <1>0 DEF OwesFlag, OwesConn, OwesJob, Saves, Creating, Enabling, Introduces, Booting
<1>4. /\ i \in Connections /\ i \in Integrations /\ i \notin ServiceNow
      /\ Zammad \subseteq Connections /\ ServiceNow \subseteq Connections
  BY <1>0, ConnectionsTyped, SelectionAssumption DEF Connections
<1>5. /\ conn'[i] = "none" /\ \A j : j \in Connections /\ j # i => conn'[j] = conn[j]
      /\ \A j \in Integrations : j # i => enabled'[j] = enabled[j]
  BY <1>1, <1>4 DEF CopiesInv, SelectionInv, TypeOK
<1>6. \A j : j # i => (Selected(j)' <=> Selected(j))
  BY <1>1 DEF Selected, Among
<1>7. ~Selected(i)'
  BY <1>1 DEF Selected, Among
<1>8. \A j : j # i => (Kept(j)' <=> Kept(j))
  BY <1>1 DEF Kept, Own
<1>9. Formed(sess[r])'
  BY <1>2 DEF Formed, Idle, Booting
<1>10. \A q \in Requests : Formed(sess[q])'
  <2>1. \A j \in there : j \notin Zammad => j \in there'
    BY <1>0, <1>1
  <2>2. \A j \in there \cap there' : Kept(j) => Kept(j)'
    BY <1>1, <1>8
  <2>3. \A d \in ServiceNow : conn[d] # "none" => conn'[d] # "none"
    BY <1>4, <1>5
  <2> QED BY <1>1, <1>2, <1>9, <2>1, <2>2, <2>3, AllFormed
<1>11. Whole'
  <2>2. \A j \in there' : Kept(j)' \/ Own(j) \cap rows' = {}
    BY <1>1, <1>8 DEF CopiesInv, CopiesKept, Whole
  <2>3. \A p \in rows' : p[1] \in there'
    BY <1>1 DEF CopiesInv, CopiesKept, Whole
  <2>4. \A j \in there' \cap ServiceNow : Kept(j)'
    BY <1>1, <1>8 DEF CopiesInv, CopiesKept, Whole
  <2>5. \A d \in Connections : conn'[d] # "none" => d \in there'
    BY <1>1, <1>5 DEF CopiesInv, CopiesKept, Whole
  <2>6. \A d \in Zammad \cap there' : conn'[d] # "none"
    BY <1>1, <1>4, <1>5 DEF CopiesInv, CopiesKept, Whole
  <2> QED BY <2>2, <2>3, <2>4, <2>5, <2>6 DEF Whole
<1>12. ASSUME ~exposed'
       PROVE  Owed'
  <2>0. ~exposed /\ i \notin job
    BY <1>1, <1>12
  <2>1. ASSUME NEW j \in there'
        PROVE  FlagOwed(j)' /\ FreshOwed(j)'
    <3>1. j \in there /\ j # i /\ j \in Integrations
      BY <1>1, <2>1 DEF CopiesInv, SelectionInv, TypeOK
    <3>2. enabled'[j] = enabled[j] /\ conn'[j] = conn[j] /\ (Selected(j)' <=> Selected(j))
      BY <1>1, <1>5, <1>6, <3>1 DEF CopiesInv, SelectionInv, TypeOK
    <3>3. (Fresh(j)' => Fresh(j)) /\ s.pc # "boot"
      BY <1>0, <1>8, <3>1 DEF Fresh
    <3> QED BY <1>2, <1>3, <2>0, <3>1, <3>2, <3>3, OthersOwe
  <2>2. ASSUME NEW d \in Connections
        PROVE  ConnOwed(d)' /\ JobOwed(d)' /\ NoneOwed(d)'
    <3>1. CASE d = i
      <4>1. d \notin there' /\ d \notin job' /\ conn'[d] = "none" /\ ~Selected(d)'
        BY <1>1, <1>5, <1>7, <2>0, <3>1
      <4> QED BY <4>1 DEF ConnOwed, ConnAgrees, JobOwed, JobAgrees, NoneOwed
    <3>2. CASE d # i
      <4>1. /\ conn'[d] = conn[d] /\ (Selected(d)' <=> Selected(d)) /\ (d \in there' => d \in there)
            /\ ~OwesJob(s, d)
        BY <1>1, <1>3, <1>5, <1>6, <2>2, <3>2
      <4> QED BY <1>1, <1>2, <1>3, <2>0, <2>2, <4>1, OthersOwe
    <3> QED BY <3>1, <3>2
  <2> QED BY <2>1, <2>2 DEF Owed
<1> QED BY <1>10, <1>11, <1>12 DEF CopiesKept

LEMMA RestartAgrees ==
  ASSUME CopiesInv, Restart
  PROVE  CopiesKept'
<1>1. UNCHANGED <<there, enabled, rows, active, conn>> /\ job' = {c \in Connections : Scheduled(c)}
  BY DEF Restart
<1>2. \A q \in Requests : sess'[q] = Idle
  BY DEF Restart
<1>3. exposed' = (exposed \/ \E q \in Requests :
                    /\ sess[q].changed
                    /\ \/ sess[q].op \in {"read", "save", "create"}
                       \/ sess[q].pc \in {"load", "write"})
  BY DEF Restart, Outdated
<1>4. ASSUME NEW q \in Requests
      PROVE  Formed(sess[q])'
  <2>1. sess'[q] = Idle
    BY <1>2, <1>4
  <2> QED BY <2>1 DEF Formed, Idle, Booting
<1>5. Whole'
  BY <1>1 DEF CopiesInv, CopiesKept, Whole, Kept
<1>6. \A i : (Selected(i)' <=> Selected(i)) /\ (Fresh(i)' <=> Fresh(i))
  BY <1>1 DEF Selected, Among, Fresh, Kept
<1>7. ASSUME ~exposed'
      PROVE  Owed'
  <2>0. Owed
    BY <1>3, <1>7 DEF CopiesInv, CopiesKept
  <2>1. \A q \in Requests : \A i :
          ~OwesFlag(sess[q], i) /\ ~OwesConn(sess[q], i) /\ ~Creating(sess[q], i)
          /\ ~Introduces(sess[q], i)
    BY <1>3, <1>7 DEF OwesFlag, OwesConn, Saves, Creating, Enabling, Introduces
  <2>2. ASSUME NEW i \in there'
        PROVE  FlagOwed(i)' /\ FreshOwed(i)'
    <3>1. FlagAgrees(i) /\ ~Fresh(i)
      BY <1>1, <2>0, <2>1, <2>2 DEF Owed, FlagOwed, FreshOwed
    <3> QED BY <1>1, <1>6, <3>1 DEF FlagOwed, FlagAgrees, FreshOwed
  <2>3. ASSUME NEW c \in Connections
        PROVE  ConnOwed(c)' /\ JobOwed(c)' /\ NoneOwed(c)'
    <3>1. ConnAgrees(c) /\ (conn[c] = "none" => c \notin there)
      BY <2>0, <2>1, <2>3 DEF Owed, ConnOwed, NoneOwed
    <3>2. c \in job' <=> Selected(c)
      BY <1>1, <2>3, <3>1 DEF Scheduled, ConnAgrees
    <3>3. conn[c] = "none" => c \notin job'
      BY <1>1 DEF Scheduled
    <3> QED BY <1>1, <1>6, <3>1, <3>2, <3>3
            DEF ConnOwed, ConnAgrees, JobOwed, JobAgrees, NoneOwed
  <2> QED BY <2>2, <2>3 DEF Owed
<1> QED BY <1>4, <1>5, <1>7 DEF CopiesKept

(* What Follow writes: the connection follows, unless it has none, or its   *)
(* save has loaded it as it is to be.                                       *)
LEMMA FollowIs ==
  ASSUME NEW s, NEW T, NEW val, NEW c \in Connections, conn' = Follow(s, T, val),
         conn \in [Connections -> {"none", "on", "off"}]
  PROVE  /\ conn'[c] = "none" <=> conn[c] = "none"
         /\ c \notin T => conn'[c] = conn[c]
         /\ s.op = "save" /\ s.of = c /\ s.on = val[c] => conn'[c] = conn[c]
         /\ c \in T /\ ~(s.op = "save" /\ s.of = c /\ s.on = val[c])
              => conn[c] = "none" \/ conn'[c] = OnOff(val[c])
BY DEF Follow, OnOff

LEMMA LinkWritesAgrees ==
  ASSUME CopiesInv, NEW r \in Requests, LinkWrites(r)
  PROVE  CopiesKept'
<1> DEFINE s == sess[r]
           val == [i \in Integrations |-> s.sel]
           t == [Idle EXCEPT !.pc = "reconcile", !.op = "save", !.of = s.of, !.todo = {s.of},
                             !.changed = TRUE]
<1>0. s \in Session /\ Formed(s) /\ s.pc = "link" /\ s.op = "save"
  BY DEF LinkWrites, CopiesInv, CopiesKept, SelectionInv, TypeOK, Formed
<1>1. UNCHANGED <<there, rows, active, job>>
  BY DEF LinkWrites, Rest
<1>2. CASE s.of \notin there
  <2>1. Breaks(r) /\ UNCHANGED <<enabled, conn>>
    BY <1>2 DEF LinkWrites
  <2> QED BY <1>1, <2>1, BreaksKept
<1>3. CASE s.of \in there
  <2>1. /\ enabled' = Set({i \in {s.of} : s.seen[i] # s.sel}, val)
        /\ conn' = Follow(s, {s.of}, val)
        /\ exposed' = (exposed \/ s.sel # Selected(s.of))
        /\ Goes(r, t)
    BY <1>3 DEF LinkWrites, Outdated
  <2>2. sess'[r] = t /\ \A q \in Requests : q # r => sess'[q] = sess[q]
    <3> HIDE DEF t
    <3> QED BY <2>1, Moving
  <2>3. /\ t.pc = "reconcile" /\ t.op = "save" /\ t.of = s.of /\ t.todo = {s.of} /\ t.changed
        /\ t.next = "idle"
    BY DEF Idle
  <2> HIDE DEF t
  <2>4. PICK c \in Connections : c = s.of
    BY <1>0 DEF Formed, Connections
  <2>5. /\ c \in Zammad \/ (c \in ServiceNow \cap there /\ conn[c] # "none")
        /\ Kept(c) /\ c \in there /\ c \in Integrations
    BY <1>0, <1>3, <2>4, ConnectionsTyped DEF Formed
  <2>6. conn[c] # "none"
    BY <2>5 DEF CopiesInv, CopiesKept, Whole
  <2>7. s.sel \in BOOLEAN /\ s.on \in BOOLEAN /\ val[c] = s.sel
    BY <1>0, <2>5 DEF Session
  <2>8. /\ \A d \in Connections : conn'[d] = "none" <=> conn[d] = "none"
        /\ \A d \in Connections : d # c => conn'[d] = conn[d]
        /\ s.on = s.sel => conn'[c] = conn[c]
        /\ s.on # s.sel => conn'[c] = OnOff(s.sel)
    <3> HIDE DEF s, val
    <3>1. conn \in [Connections -> {"none", "on", "off"}]
      BY DEF CopiesInv, SelectionInv, TypeOK
    <3>2. conn' = Follow(s, {c}, val)
      BY <2>1, <2>4
    <3>3. ASSUME NEW d \in Connections
          PROVE  /\ conn'[d] = "none" <=> conn[d] = "none"
                 /\ d # c => conn'[d] = conn[d]
                 /\ d = c /\ s.on = val[c] => conn'[d] = conn[d]
                 /\ d = c /\ s.on # val[c] => conn[d] = "none" \/ conn'[d] = OnOff(val[c])
      BY <1>0, <2>4, <3>1, <3>2, <3>3, FollowIs
    <3> QED BY <2>6, <2>7, <3>3
  <2>9. /\ \A i \in Integrations : i # c => enabled'[i] = enabled[i]
        /\ enabled'[c] = IF s.seen[c] # s.sel THEN s.sel ELSE enabled[c]
    BY <2>1, <2>4, <2>5, <2>7 DEF Set
  <2> HIDE DEF val
  <2>10. Formed(sess[r])'
    BY <1>1, <2>2, <2>3, <2>4, <2>5, <2>6, <2>8 DEF Formed, Booting
  <2>11. Whole' /\ \A q \in Requests : Formed(sess[q])'
    BY <1>1, <2>2, <2>8, <2>10, ShapeStays
  <2>12. \A i : (Selected(i)' <=> Selected(i)) /\ (Fresh(i)' <=> Fresh(i))
    BY <1>1 DEF Selected, Among, Fresh, Kept
  <2>13. /\ \A i : ~OwesFlag(s, i) /\ ~Introduces(s, i) /\ ~Creating(s, i)
         /\ \A i : OwesConn(s, i) => i = c /\ (s.on <=> conn[c] = "on")
         /\ \A i : OwesJob(s, i) => i = c
    BY <1>0, <2>4 DEF OwesFlag, Introduces, Creating, Enabling, OwesConn, OwesJob, Saves, Booting
  <2>14. ASSUME ~exposed'
         PROVE  Owed'
    <3>0. ~exposed /\ (s.sel <=> Selected(c))
      BY <2>1, <2>4, <2>7, <2>14
    <3>1. ASSUME NEW i \in there'
          PROVE  FlagOwed(i)' /\ FreshOwed(i)'
      <4>0. i \in there /\ i \in Integrations
        BY <1>1, <3>1 DEF CopiesInv, SelectionInv, TypeOK
      <4>1. CASE i = c
        <5>1. ~Fresh(i)'
          BY <2>5, <2>12, <4>1 DEF Fresh
        <5>2. CASE s.seen[c] # s.sel
          BY <2>7, <2>9, <2>12, <3>0, <4>1, <5>1, <5>2
             DEF FlagOwed, FlagAgrees, FreshOwed
        <5>3. CASE s.seen[c] = s.sel
          BY <2>2, <2>9, <2>12, <2>13, <3>0, <4>0, <4>1, <5>1, <5>3, OthersOwe DEF FreshOwed
        <5> QED BY <5>2, <5>3
      <4>2. CASE i # c
        <5>1. i \in Zammad => conn'[i] = conn[i]
          BY <2>8, <4>2 DEF Connections
        <5> QED BY <1>0, <2>2, <2>9, <2>12, <2>13, <3>0, <4>0, <4>2, <5>1, OthersOwe
      <4> QED BY <4>1, <4>2
    <3>2. ASSUME NEW d \in Connections
          PROVE  ConnOwed(d)' /\ JobOwed(d)' /\ NoneOwed(d)'
      <4>1. NoneOwed(d)'
        BY <1>1, <2>2, <2>8, <2>12, <2>13, <3>0, <3>2, OthersOwe
      <4>2. CASE d # c
        BY <1>1, <2>2, <2>8, <2>12, <2>13, <3>0, <3>2, <4>1, <4>2, OthersOwe
      <4>3. CASE d = c
        <5>1. JobOwed(d)'
          BY <2>2, <2>3, <2>4, <4>3 DEF JobOwed, OwesJob
        <5>2. CASE s.on # s.sel
          BY <2>7, <2>8, <2>12, <3>0, <4>1, <4>3, <5>1, <5>2 DEF ConnOwed, ConnAgrees, OnOff
        <5>3. CASE s.on = s.sel /\ OwesConn(s, c)
          <6>1. conn'[c] = "on" <=> Selected(c)'
            BY <2>8, <2>12, <2>13, <3>0, <5>3
          <6> QED BY <4>1, <4>3, <5>1, <6>1 DEF ConnOwed, ConnAgrees
        <5>4. CASE s.on = s.sel /\ ~OwesConn(s, c)
          BY <2>2, <2>8, <2>12, <3>0, <3>2, <4>1, <4>3, <5>1, <5>4, OthersOwe
        <5> QED BY <5>2, <5>3, <5>4
      <4> QED BY <4>2, <4>3
    <3> QED BY <3>1, <3>2 DEF Owed
  <2> QED BY <2>11, <2>14 DEF CopiesKept
<1> QED BY <1>2, <1>3

LEMMA LinksAgrees ==
  ASSUME CopiesInv, NEW r \in Requests, Links(r)
  PROVE  CopiesKept'
<1> DEFINE s == sess[r]
           t == [Idle EXCEPT !.pc = "reconcile", !.op = "save", !.of = s.of, !.todo = {s.of},
                             !.changed = TRUE]
<1>0. s \in Session /\ Formed(s) /\ s.pc = "linking" /\ s.op = "create"
  BY DEF Links, CopiesInv, CopiesKept, SelectionInv, TypeOK
<1>1. /\ UNCHANGED <<there, rows, active, job, exposed>>
      /\ conn' = [conn EXCEPT ![s.of] = OnOff(Selected(s.of))]
      /\ enabled' = [enabled EXCEPT ![s.of] = Column(@, s.seen[s.of], Selected(s.of))]
      /\ Goes(r, t)
  BY DEF Links, Rest
<1>2. sess'[r] = t /\ \A q \in Requests : q # r => sess'[q] = sess[q]
  <2> HIDE DEF t
  <2> QED BY <1>1, Moving
<1>3. /\ t.pc = "reconcile" /\ t.op = "save" /\ t.of = s.of /\ t.todo = {s.of} /\ t.changed
      /\ t.next = "idle"
  BY DEF Idle
<1> HIDE DEF t
<1>4. PICK c \in ServiceNow \cap there : c = s.of
  BY <1>0 DEF Formed
<1>5. /\ c \in Connections /\ c \in Integrations /\ Kept(c) /\ c \notin Zammad
      /\ Zammad \subseteq Connections /\ ServiceNow \subseteq Connections
  BY ConnectionsTyped, SelectionAssumption
     DEF Connections, CopiesInv, CopiesKept, Whole
<1>6. /\ conn'[c] = OnOff(Selected(c)) /\ conn'[c] # "none"
      /\ \A i : i # c => conn'[i] = conn[i]
  <2>1. conn \in [Connections -> {"none", "on", "off"}]
    BY DEF CopiesInv, SelectionInv, TypeOK
  <2>2. conn'[c] = OnOff(Selected(c)) /\ \A i \in Connections : i # c => conn'[i] = conn[i]
    BY <1>1, <1>4, <1>5, <2>1
  <2>3. \A i : i # c => conn'[i] = conn[i]
    BY <1>1, <1>4, <2>1, <2>2
  <2> QED BY <2>2, <2>3 DEF OnOff
<1>7. /\ \A i \in Integrations : i # c => enabled'[i] = enabled[i]
      /\ enabled'[c] = Column(enabled[c], s.seen[c], Selected(c))
  BY <1>1, <1>4, <1>5 DEF CopiesInv, SelectionInv, TypeOK
<1>8. Formed(sess[r])'
  BY <1>1, <1>2, <1>3, <1>4, <1>6 DEF Formed, Booting
<1>9. \A i : (Selected(i)' <=> Selected(i)) /\ (Fresh(i)' <=> Fresh(i)) /\ (Kept(i)' <=> Kept(i))
  BY <1>1 DEF Selected, Among, Fresh, Kept
<1>10. \A q \in Requests : Formed(sess[q])'
  BY <1>1, <1>2, <1>6, <1>8, <1>9, AllFormed
<1>11. Whole'
  <2>1. \A d \in Connections : conn'[d] # "none" => d \in there'
    BY <1>1, <1>4, <1>6 DEF CopiesInv, CopiesKept, Whole
  <2>2. \A d \in Zammad \cap there' : conn'[d] # "none"
    BY <1>1, <1>5, <1>6 DEF CopiesInv, CopiesKept, Whole
  <2> QED BY <1>1, <1>9, <2>1, <2>2 DEF CopiesInv, CopiesKept, Whole
<1>12. /\ \A i : ~OwesFlag(s, i) /\ ~Introduces(s, i)
       /\ \A i : Creating(s, i) \/ OwesConn(s, i) \/ OwesJob(s, i) => i = c
  BY <1>0, <1>4 DEF OwesFlag, Introduces, Creating, Enabling, OwesConn, OwesJob, Saves, Booting
<1>13. ASSUME ~exposed
       PROVE  Owed'
  <2>1. ASSUME NEW i \in there'
        PROVE  FlagOwed(i)' /\ FreshOwed(i)'
    <3>0. i \in there /\ i \in Integrations
      BY <1>1, <2>1 DEF CopiesInv, SelectionInv, TypeOK
    <3>1. CASE i = c
      <4>1. ~Fresh(i)'
        BY <1>5, <1>9, <3>1 DEF Fresh
      <4>2. CASE Selected(c) # s.seen[c]
        BY <1>7, <1>9, <3>1, <4>1, <4>2 DEF FlagOwed, FlagAgrees, FreshOwed, Column
      <4>3. CASE Selected(c) = s.seen[c]
        <5>1. enabled'[c] = enabled[c]
          BY <1>7, <4>3 DEF Column
        <5> QED BY <1>2, <1>9, <1>12, <1>13, <3>0, <3>1, <4>1, <5>1, OthersOwe DEF FreshOwed
      <4> QED BY <4>2, <4>3
    <3>2. CASE i # c
      BY <1>0, <1>2, <1>6, <1>7, <1>9, <1>12, <1>13, <3>0, <3>2, OthersOwe
    <3> QED BY <3>1, <3>2
  <2>2. ASSUME NEW d \in Connections
        PROVE  ConnOwed(d)' /\ JobOwed(d)' /\ NoneOwed(d)'
    <3>1. CASE d # c
      BY <1>1, <1>2, <1>6, <1>9, <1>12, <1>13, <2>2, <3>1, OthersOwe
    <3>2. CASE d = c
      <4>1. JobOwed(d)'
        BY <1>2, <1>3, <1>4, <3>2 DEF JobOwed, OwesJob
      <4>2. ConnOwed(d)' /\ NoneOwed(d)'
        BY <1>6, <1>9, <3>2 DEF ConnOwed, ConnAgrees, NoneOwed, OnOff
      <4> QED BY <4>1, <4>2
    <3> QED BY <3>1, <3>2
  <2> QED BY <2>1, <2>2 DEF Owed
<1> QED BY <1>1, <1>10, <1>11, <1>13 DEF CopiesKept

(* After a change the jobs of all connections will be reconciled.           *)
LEMMA SettlingOwes ==
  ASSUME NEW r \in Requests, NEW s, sess'[r] = Settling(s), s.op # "save"
  PROVE  Formed(sess[r])' /\ \A c : JobOwed(c)'
<1>1. /\ sess'[r].pc = "boot" /\ sess'[r].op = s.op /\ sess'[r].of = s.of
      /\ sess'[r].next = "reconcile" /\ sess'[r].changed
  BY DEF Settling, Idle
<1>2. Formed(sess[r])'
  BY <1>1 DEF Formed, Booting
<1>3. \A c : OwesJob(sess[r], c)'
  BY <1>1 DEF OwesJob, Booting
<1> QED BY <1>2, <1>3 DEF JobOwed

LEMMA DisableWritesAgrees ==
  ASSUME CopiesInv, NEW r \in Requests, DisableWrites(r)
  PROVE  CopiesKept'
<1> DEFINE s == sess[r]
           val == [i \in Integrations |-> FALSE]
<1>0. s \in Session /\ Formed(s) /\ s.pc = "off" /\ s.op = "disable"
  BY DEF DisableWrites, CopiesInv, CopiesKept, SelectionInv, TypeOK, Formed
<1>1. UNCHANGED <<there, rows, job>>
  BY DEF DisableWrites, Rest
<1>2. CASE s.of \notin there
  <2>1. Breaks(r) /\ UNCHANGED <<enabled, active, conn>>
    BY <1>2 DEF DisableWrites
  <2> QED BY <1>1, <2>1, BreaksKept
<1>3. CASE s.of \in there
  <2>1. PICK c \in there : c = s.of
    BY <1>3
  <2>2. /\ active' = {p \in active : p[1] # c}
        /\ enabled' = Set({i \in {c} : s.seen[i]}, val)
        /\ conn' = Follow(s, {c}, val)
        /\ exposed' = (exposed \/ s.seen[c] # enabled[c])
        /\ Goes(r, Settling(s))
    BY <1>3, <2>1 DEF DisableWrites, Outdated
  <2>3. sess'[r] = Settling(s) /\ \A q \in Requests : q # r => sess'[q] = sess[q]
    BY <2>2, Moving
  <2>4. Formed(sess[r])' /\ \A d : JobOwed(d)'
    <3> HIDE DEF s
    <3>1. s.op # "save"
      BY <1>0
    <3> QED BY <2>3, <3>1, SettlingOwes DEF s
  <2>5. c \in Integrations /\ val[c] = FALSE
    BY <2>1 DEF CopiesInv, SelectionInv, TypeOK
  <2>6. /\ \A d \in Connections : conn'[d] = "none" <=> conn[d] = "none"
        /\ \A d \in Connections : d # c => conn'[d] = conn[d]
        /\ c \in Connections => conn[c] = "none" \/ conn'[c] = "off"
    <3> HIDE DEF s, val
    <3>1. conn \in [Connections -> {"none", "on", "off"}]
      BY DEF CopiesInv, SelectionInv, TypeOK
    <3> QED BY <1>0, <2>2, <2>5, <3>1, FollowIs DEF OnOff
  <2>8. /\ \A i \in Integrations : i # c => enabled'[i] = enabled[i]
        /\ ~exposed' => enabled'[c] = FALSE
    <3>1. enabled' = [i \in Integrations |-> IF i = c /\ s.seen[c] THEN val[i] ELSE enabled[i]]
      BY <2>2 DEF Set
    <3>2. s.seen[c] \in BOOLEAN /\ enabled[c] \in BOOLEAN
      BY <1>0, <2>5 DEF Session, CopiesInv, SelectionInv, TypeOK
    <3>3. ~exposed' => s.seen[c] = enabled[c]
      BY <2>2
    <3> HIDE DEF val
    <3> QED BY <2>5, <3>1, <3>2, <3>3
  <2>9. \A i : /\ i # c => (Selected(i)' <=> Selected(i))
               /\ Fresh(i)' <=> Fresh(i)
    BY <1>1, <2>2 DEF Selected, Among, Fresh, Kept
  <2>10. ~Selected(c)'
    BY <2>2 DEF Selected, Among
  <2> HIDE DEF val
  <2>11. Whole' /\ \A q \in Requests : Formed(sess[q])'
    BY <1>1, <2>3, <2>4, <2>6, ShapeStays
  <2>12. \A i : ~OwesFlag(s, i) /\ ~Introduces(s, i) /\ ~Creating(s, i) /\ ~OwesConn(s, i)
    BY <1>0 DEF OwesFlag, Introduces, Creating, Enabling, OwesConn, Saves, Booting
  <2>13. ASSUME ~exposed'
         PROVE  Owed'
    <3>0. ~exposed
      BY <2>2, <2>13
    <3>1. ASSUME NEW i \in there'
          PROVE  FlagOwed(i)' /\ FreshOwed(i)'
      <4>0. i \in there /\ i \in Integrations
        BY <1>1, <3>1 DEF CopiesInv, SelectionInv, TypeOK
      <4>1. CASE i = c
        <5>1. FlagOwed(i)'
          BY <2>8, <2>10, <2>13, <4>1 DEF FlagOwed, FlagAgrees
        <5>2. ASSUME Fresh(i)'
              PROVE  \E q \in Requests : Introduces(sess[q], i)'
          <6>1. PICK q \in Requests : Introduces(sess[q], i)
            BY <2>9, <3>0, <4>0, <5>2 DEF CopiesInv, CopiesKept, Owed, FreshOwed
          <6>2. sess'[q] = sess[q]
            BY <2>3, <2>12, <6>1
          <6> QED BY <6>1, <6>2 DEF Introduces
        <5>3. i \in Zammad => (enabled'[i] <=> conn'[i] = "on")
          <6>1. i \in Zammad => i \in Connections /\ conn[i] # "none"
            BY <4>0 DEF Connections, CopiesInv, CopiesKept, Whole
          <6> QED BY <2>6, <2>8, <2>13, <4>1, <6>1
        <5> QED BY <5>1, <5>2, <5>3 DEF FreshOwed
      <4>2. CASE i # c
        <5>1. i \in Zammad => conn'[i] = conn[i]
          BY <2>6, <4>2 DEF Connections
        <5> QED BY <1>0, <2>3, <2>8, <2>9, <2>12, <3>0, <4>0, <4>2, <5>1, OthersOwe
      <4> QED BY <4>1, <4>2
    <3>2. ASSUME NEW d \in Connections
          PROVE  ConnOwed(d)' /\ NoneOwed(d)'
      <4>1. NoneOwed(d)'
        <5>1. NoneOwed(d)
          BY <3>0, <3>2 DEF CopiesInv, CopiesKept, Owed
        <5> QED BY <1>1, <2>3, <2>6, <2>12, <3>2, <5>1, NoneStays
      <4>2. CASE d # c
        BY <2>3, <2>6, <2>9, <2>12, <3>0, <3>2, <4>1, <4>2, OthersOwe
      <4>3. CASE d = c
        BY <2>6, <2>10, <3>2, <4>1, <4>3 DEF ConnOwed, ConnAgrees
      <4> QED BY <4>2, <4>3
    <3> QED BY <2>4, <3>1, <3>2 DEF Owed
  <2> QED BY <2>11, <2>13 DEF CopiesKept
<1> QED BY <1>2, <1>3

LEMMA SelectWritesAgrees ==
  ASSUME CopiesInv, NEW r \in Requests, SelectWrites(r)
  PROVE  CopiesKept'
<1> DEFINE s == sess[r]
           previous == IF s.current \in there \ {s.of} /\ ~Among(Chosen(s), s.current)
                         THEN {s.current} ELSE {}
           val == [i \in Integrations |-> i = s.of]
<1>0. s \in Session /\ Formed(s) /\ s.pc = "write" /\ Prepared(s)
  BY DEF SelectWrites, CopiesInv, CopiesKept, SelectionInv, TypeOK
<1>1. UNCHANGED <<there, rows, job>>
  BY DEF SelectWrites, Rest
<1>2. CASE ~(<<s.of, s.stream>> \in rows /\ Unique(Chosen(s)))
  <2>1. Breaks(r) /\ UNCHANGED <<enabled, active, conn>>
    BY <1>2 DEF SelectWrites
  <2> QED BY <1>1, <2>1, BreaksKept
<1>3. CASE <<s.of, s.stream>> \in rows /\ Unique(Chosen(s))
  <2>1. /\ active' = Chosen(s)
        /\ enabled' = Set({i \in previous \cup {s.of} : ~s.seen[i]}, val)
        /\ conn' = Follow(s, previous \cup {s.of}, val)
        /\ exposed' = (exposed \/ s.on # (<<s.of, s.stream>> \in active)
                               \/ s.seen[s.of] # enabled[s.of])
        /\ Goes(r, Settling(s))
    BY <1>3 DEF SelectWrites, Outdated
  <2>2. sess'[r] = Settling(s) /\ \A q \in Requests : q # r => sess'[q] = sess[q]
    BY <2>1, Moving
  <2>3. /\ s.op \in {"select", "enable"} /\ <<s.of, s.stream>> \in Sources
        /\ \A i \in Integrations : i # s.of => ~s.seen[i]
        /\ s.current # None => /\ <<s.current, s.stream>> \in Sources
                               /\ s.current \in there => Kept(s.current)
        /\ s.on => s.current = s.of
    BY <1>0 DEF Formed, Prepared
  <2>4. PICK c \in Integrations, k \in Integrations \cup {None}, st \in Streams :
          c = s.of /\ k = s.current /\ st = s.stream
    BY <1>0, <2>3 DEF Session, Sources
  <2>5. /\ st \in Offers[c] /\ (k # None => st \in Offers[k])
        /\ <<c, st>> \in rows /\ c \in there /\ Kept(c)
    <3>1. st \in Offers[c] /\ (k # None => st \in Offers[k])
      BY <2>3, <2>4 DEF Sources
    <3>2. <<c, st>> \in rows /\ c \in there
      BY <1>3, <2>4 DEF CopiesInv, CopiesKept, Whole
    <3>3. <<c, st>> \in Own(c)
      BY <3>1 DEF Own
    <3> QED BY <3>1, <3>2, <3>3 DEF CopiesInv, CopiesKept, Whole
  <2>6. s.op # "save"
    BY <2>3
  <2>7. Formed(sess[r])' /\ \A d : JobOwed(d)'
    <3> HIDE DEF s
    <3> QED BY <2>2, <2>6, SettlingOwes DEF s
  <2>8. active' = (active \ (IF k \in {None, c} THEN {} ELSE {p \in active : p[2] = st}))
                    \cup (IF s.on THEN {} ELSE {<<c, st>>})
    BY <2>1, <2>4 DEF Chosen
  <2>9. active \subseteq Sources /\ Unique(active)
    BY DEF CopiesInv, SelectionInv, TypeOK
  <2>10. ASSUME NEW i \in Integrations, i # c, i # k
         PROVE  Selected(i)' <=> Selected(i)
    <3>1. Selected(i)' => Selected(i)
      BY <2>8, <2>10 DEF Selected, Among
    <3>2. ASSUME NEW u \in Streams, <<i, u>> \in active
          PROVE  <<i, u>> \in active'
      <4>1. CASE k \in {None, c}
        BY <2>8, <3>2, <4>1
      <4>2. CASE k \notin {None, c}
        <5>1. u \in Offers[i]
          BY <2>9, <3>2 DEF Sources
        <5>2. u # st
          BY <2>4, <2>5, <2>10, <4>2, <5>1, TwoSources
        <5> QED BY <2>8, <3>2, <5>2
      <4> QED BY <4>1, <4>2
    <3> QED BY <3>1, <3>2 DEF Selected, Among
  <2>11. previous = IF k \in there \ {c} /\ ~Selected(k)' THEN {k} ELSE {}
    BY <2>1, <2>4 DEF Selected
  <2>12. ASSUME k \in Integrations, k # c, Selected(k)'
         PROVE  Selected(k)
    BY <2>8, <2>12 DEF Selected, Among
  <2>13. ASSUME NEW i \in there, i # c, i \notin previous
         PROVE  Selected(i)' <=> Selected(i)
    <3>1. i \in Integrations
      BY DEF CopiesInv, SelectionInv, TypeOK
    <3>2. CASE i = k
      BY <2>11, <2>12, <2>13, <3>1, <3>2
    <3> QED BY <2>10, <2>13, <3>1, <3>2
  <2>14. previous \subseteq {k} /\ previous \subseteq there /\ c \notin previous
         /\ \A i \in previous : ~Selected(i)'
    BY <2>11
  <2>15. val[c] = TRUE /\ \A i \in Integrations : i # c => val[i] = FALSE
    BY <2>4
  <2>16. ~exposed' => Selected(c)'
    <3>1. CASE s.on
      <4>1. ~exposed' => <<c, st>> \in active
        BY <2>1, <2>4, <3>1
      <4>2. k = c
        BY <2>3, <2>4, <3>1
      <4> QED BY <2>8, <4>1, <4>2 DEF Selected, Among
    <3>2. CASE ~s.on
      BY <2>8, <3>2 DEF Selected, Among
    <3> QED BY <3>1, <3>2
  <2>17. there \subseteq Integrations
    BY DEF CopiesInv, SelectionInv, TypeOK
  <2> HIDE DEF val, previous
  <2>18. /\ \A i \in Integrations : i \notin previous \cup {c} => enabled'[i] = enabled[i]
         /\ \A i \in previous : enabled'[i] = FALSE
         /\ ~exposed' => enabled'[c] = TRUE
    <3>1. enabled' = [i \in Integrations |-> IF i \in previous \cup {c} /\ ~s.seen[i]
                                               THEN val[i] ELSE enabled[i]]
      BY <2>1, <2>4 DEF Set
    <3>2. s.seen[c] \in BOOLEAN /\ enabled[c] \in BOOLEAN
      BY <1>0, <2>4 DEF Session, CopiesInv, SelectionInv, TypeOK
    <3>3. ~exposed' => s.seen[c] = enabled[c]
      BY <2>1, <2>4
    <3>4. \A i \in previous : i \in Integrations /\ i # c /\ ~s.seen[i]
      BY <2>3, <2>4, <2>14, <2>17
    <3> QED BY <2>4, <2>15, <3>1, <3>2, <3>3, <3>4
  <2>19. /\ \A d \in Connections : conn'[d] = "none" <=> conn[d] = "none"
         /\ \A d \in Connections : d \notin previous \cup {c} => conn'[d] = conn[d]
         /\ \A d \in Connections : d \in previous => conn'[d] # "on"
         /\ c \in Connections => conn[c] = "none" \/ conn'[c] = "on"
    <3>1. conn \in [Connections -> {"none", "on", "off"}]
      BY DEF CopiesInv, SelectionInv, TypeOK
    <3>2. conn' = Follow(s, previous \cup {c}, val)
      BY <2>1, <2>4
    <3>3. ASSUME NEW d \in Connections
          PROVE  /\ conn'[d] = "none" <=> conn[d] = "none"
                 /\ d \notin previous \cup {c} => conn'[d] = conn[d]
                 /\ d \in previous \cup {c} => conn[d] = "none" \/ conn'[d] = OnOff(val[d])
      <4> DEFINE T == previous \cup {c}
      <4>1. conn' = Follow(s, T, val)
        BY <3>2
      <4> HIDE DEF s, T
      <4>2. /\ conn'[d] = "none" <=> conn[d] = "none"
            /\ d \notin T => conn'[d] = conn[d]
            /\ d \in T => conn[d] = "none" \/ conn'[d] = OnOff(val[d])
        BY <2>6, <3>1, <3>3, <4>1, FollowIs
      <4> QED BY <4>2 DEF T
    <3>4. \A d \in previous : val[d] = FALSE
      BY <2>14, <2>15, <2>17
    <3> QED BY <2>15, <3>3, <3>4 DEF OnOff
  <2>20. \A i : Fresh(i)' <=> Fresh(i)
    BY <1>1 DEF Fresh, Kept
  <2>21. \A i \in previous \cup {c} : ~Fresh(i)'
    <3>1. ~Fresh(c) /\ \A i \in previous : ~Fresh(i)
      <4>1. k \in there => Kept(k)
        <5>1. k \in there => k # None
          BY <2>17, SelectionAssumption
        <5> QED BY <2>3, <2>4, <5>1
      <4> QED BY <2>5, <2>14, <4>1 DEF Fresh
    <3> QED BY <2>20, <3>1
  <2>22. Whole' /\ \A q \in Requests : Formed(sess[q])'
    BY <1>1, <2>2, <2>7, <2>19, ShapeStays
  <2>23. /\ \A i : ~OwesFlag(s, i) /\ ~Introduces(s, i) /\ ~Creating(s, i)
         /\ \A i : OwesConn(s, i) => i = c
    BY <1>0, <2>3, <2>4
       DEF OwesFlag, Introduces, Creating, Enabling, OwesConn, Saves, Booting
  <2>24. ASSUME ~exposed'
         PROVE  Owed'
    <3>0. ~exposed
      BY <2>1, <2>24
    <3>1. ASSUME NEW i \in there'
          PROVE  FlagOwed(i)' /\ FreshOwed(i)'
      <4>0. i \in there /\ i \in Integrations
        BY <1>1, <2>17, <3>1
      <4>1. CASE i \in previous \cup {c}
        BY <2>14, <2>16, <2>18, <2>21, <2>24, <4>1 DEF FlagOwed, FlagAgrees, FreshOwed
      <4>2. CASE i \notin previous \cup {c}
        <5>1. i \in Zammad => conn'[i] = conn[i]
          BY <2>19, <4>2 DEF Connections
        <5>2. Selected(i)' <=> Selected(i)
          BY <2>13, <4>0, <4>2
        <5> QED BY <1>0, <2>2, <2>18, <2>20, <2>23, <3>0, <4>0, <4>2, <5>1, <5>2, OthersOwe
      <4> QED BY <4>1, <4>2
    <3>2. ASSUME NEW d \in Connections
          PROVE  NoneOwed(d)'
      <4>1. NoneOwed(d)
        BY <3>0, <3>2 DEF CopiesInv, CopiesKept, Owed
      <4> QED BY <1>1, <2>2, <2>19, <2>23, <3>2, <4>1, NoneStays
    <3>3. ASSUME NEW d \in Connections
          PROVE  ConnOwed(d)'
      <4>1. CASE d \in previous
        BY <2>14, <2>19, <3>3, <4>1 DEF ConnOwed, ConnAgrees
      <4>2. CASE d = c
        <5>1. CASE conn'[d] = "on"
          BY <2>16, <2>24, <4>2, <5>1 DEF ConnOwed, ConnAgrees
        <5>2. CASE conn'[d] = "none"
          <6>1. PICK q \in Requests : Creating(sess[q], d)'
            BY <1>1, <2>5, <3>2, <3>3, <4>2, <5>2 DEF NoneOwed
          <6> QED BY <6>1 DEF ConnOwed, OwesConn
        <5> QED BY <2>19, <3>3, <4>2, <5>1, <5>2
      <4>3. CASE d \notin previous \cup {c}
        <5>1. Selected(d)' <=> Selected(d)
          <6>1. CASE d \in there
            BY <2>13, <4>3, <6>1
          <6>2. CASE d \notin there
            <7>1. active \subseteq rows /\ active' \subseteq rows
              BY <2>5, <2>8 DEF CopiesInv, SelectionInv, TypeOK
            <7>2. ~Selected(d) /\ ~Selected(d)'
              BY <6>2, <7>1 DEF Selected, Among, CopiesInv, CopiesKept, Whole
            <7> QED BY <7>2
          <6> QED BY <6>1, <6>2
        <5> QED BY <2>2, <2>19, <2>23, <3>0, <3>3, <4>3, <5>1, OthersOwe
      <4> QED BY <4>1, <4>2, <4>3
    <3> QED BY <2>7, <3>1, <3>2, <3>3 DEF Owed
  <2> QED BY <2>22, <2>24 DEF CopiesKept
<1> QED BY <1>2, <1>3

(* Bootstrap corrects the integrations in T to val.                         *)
LEMMA Correcting ==
  ASSUME CopiesInv, NEW r \in Requests, Booting(sess[r]), NEW s \in Session,
         s.op = sess[r].op, s.of = sess[r].of, s.stream = sess[r].stream, s.next = sess[r].next,
         s.on = sess[r].on,
         NEW T \in SUBSET there, NEW val \in [Integrations -> BOOLEAN],
         Enable(s, T, val), Goes(r, Corrected(s, T, val)), there' = there, job' = job,
         \A i \in there : sess[r].op = "save" /\ i = sess[r].of => Kept(i)'
  PROVE  /\ \A q \in Requests : q # r => sess'[q] = sess[q]
         /\ Formed(sess[r])'
         /\ sess[r].next = "load" => /\ sess'[r].pc = "load" /\ sess'[r].changed
                                     /\ sess'[r].op = sess[r].op /\ sess'[r].of = sess[r].of
         /\ \A i \in Integrations : enabled'[i] = IF i \in T THEN val[i] ELSE enabled[i]
         /\ \A c \in Connections :
              /\ conn'[c] = "none" <=> conn[c] = "none"
              /\ c \notin T => conn'[c] = conn[c]
              /\ c \in T /\ ~(sess[r].op = "save" /\ sess[r].of = c)
                   => conn[c] = "none" \/ conn'[c] = OnOff(val[c])
              /\ Saves(sess[r], c) => Saves(sess[r], c)'
              /\ OwesConn(sess[r], c) /\ c \notin T => OwesConn(sess[r], c)'
         /\ ~exposed => \A c \in Connections :
              /\ NoneOwed(c)'
              /\ Selected(c)' <=> Selected(c) =>
                   /\ JobOwed(c)'
                   /\ (\A i \in T : val[i] <=> Selected(i)') => ConnOwed(c)'
<1> DEFINE o == sess[r]
           seen == [i \in Integrations |-> IF i \in T THEN val[i] ELSE s.seen[i]]
           on == IF s.op = "save" /\ s.of \in T THEN val[s.of] ELSE s.on
           u == [s EXCEPT !.changed = TRUE, !.seen = seen, !.on = on]
<1>0. /\ Formed(o) /\ T \subseteq Integrations
      /\ conn \in [Connections -> {"none", "on", "off"}]
  BY DEF CopiesInv, CopiesKept, SelectionInv, TypeOK
<1>1. seen \in [Integrations -> BOOLEAN] /\ on \in BOOLEAN
  BY <1>0 DEF Session
<1>2. /\ u \in Session /\ u.op = s.op /\ u.of = s.of /\ u.stream = s.stream /\ u.next = s.next
      /\ u.changed = TRUE /\ u.on = on
  <2> HIDE DEF seen, on
  <2> QED BY <1>1 DEF Session
<1>3. Corrected(s, T, val) = Passed(u)
  BY DEF Corrected
<1>4. sess' = [sess EXCEPT ![r] = Passed(u)] /\ sess'[r] = Passed(u)
      /\ \A q \in Requests : q # r => sess'[q] = sess[q]
  <2> HIDE DEF u
  <2> QED BY <1>3, Moving DEF Goes
<1> HIDE DEF u
<1>5. \A i \in Integrations : enabled'[i] = IF i \in T THEN val[i] ELSE enabled[i]
  BY DEF Enable, Set
<1>6. ASSUME NEW c \in Connections
      PROVE  /\ conn'[c] = "none" <=> conn[c] = "none"
             /\ c \notin T => conn'[c] = conn[c]
             /\ s.op = "save" /\ s.of = c /\ s.on = val[c] => conn'[c] = conn[c]
             /\ c \in T /\ ~(s.op = "save" /\ s.of = c /\ s.on = val[c])
                  => conn[c] = "none" \/ conn'[c] = OnOff(val[c])
  BY <1>0, <1>6, FollowIs DEF Enable
<1> HIDE DEF o
<1>7. /\ Formed(sess[r])'
      /\ \A c \in Connections : Saves(o, c) => Saves(sess[r], c)'
      /\ o.op = "save" => sess'[r].on = u.on
      /\ ~exposed => \A c \in Connections :
              /\ Selected(c)' <=> Selected(c) => JobOwed(c)'
              /\ NoneOwed(c)'
  <2>1. /\ u.op = sess[r].op /\ u.of = sess[r].of /\ u.stream = sess[r].stream
        /\ u.next = sess[r].next /\ (sess[r].changed => u.changed)
    BY <1>2
  <2>2. \A c \in Connections : conn'[c] = "none" <=> conn[c] = "none"
    BY <1>6
  <2> QED BY <1>2, <1>4, <2>1, <2>2, Passing DEF o
<1>8. sess[r].next = "load" => /\ sess'[r].pc = "load" /\ sess'[r].changed
                               /\ sess'[r].op = sess[r].op /\ sess'[r].of = sess[r].of
  BY <1>2, <1>4, PassedIs
<1>9. \A c : OwesConn(o, c) => Saves(o, c) /\ (o.on <=> conn[c] = "on")
  BY DEF OwesConn, Creating, Enabling, Booting, o
<1>10. ASSUME NEW c \in Connections, OwesConn(o, c), c \notin T
       PROVE  OwesConn(sess[r], c)'
  <2>1. Saves(o, c) /\ (o.on <=> conn[c] = "on") /\ o.op = "save" /\ o.of = c
    BY <1>9, <1>10 DEF Saves
  <2>2. u.on = o.on
    BY <1>2, <1>10, <2>1 DEF o
  <2> QED BY <1>6, <1>7, <1>10, <2>1, <2>2 DEF OwesConn
<1>11. ASSUME ~exposed, NEW c \in Connections, Selected(c)' <=> Selected(c),
              \A i \in T : val[i] <=> Selected(i)'
       PROVE  ConnOwed(c)'
  <2>1. CASE ~OwesConn(o, c) /\ conn'[c] = conn[c]
    BY <1>4, <1>11, <2>1, OthersOwe DEF o
  <2>2. CASE OwesConn(o, c) /\ c \notin T
    BY <1>10, <1>11, <2>2 DEF ConnOwed
  <2>3. CASE OwesConn(o, c) /\ c \in T
    <3>1. /\ o.op = "save" /\ o.of = c /\ (o.on <=> conn[c] = "on")
          /\ conn[c] # "none"
      <4>1. o.op = "save" /\ o.of = c /\ (o.on <=> conn[c] = "on")
        BY <1>9, <2>3 DEF Saves
      <4>2. c \in Zammad => conn[c] # "none"
        BY <2>3 DEF CopiesInv, CopiesKept, Whole
      <4> QED BY <1>0, <4>1, <4>2 DEF Formed
    <3>2. CASE s.on = val[c]
      <4>1. conn'[c] = conn[c]
        BY <1>6, <1>11, <3>1, <3>2 DEF o
      <4> QED BY <1>11, <2>3, <3>1, <3>2, <4>1 DEF ConnOwed, ConnAgrees, o
    <3>3. CASE s.on # val[c]
      <4>1. conn'[c] = OnOff(val[c])
        BY <1>6, <1>11, <2>3, <3>1, <3>3
      <4> QED BY <1>11, <2>3, <4>1 DEF ConnOwed, ConnAgrees, OnOff
    <3> QED BY <3>2, <3>3
  <2>4. CASE ~OwesConn(o, c) /\ conn'[c] # conn[c]
    <3>1. c \in T /\ conn'[c] = OnOff(val[c])
      BY <1>6, <1>11, <2>4
    <3> QED BY <1>11, <3>1 DEF ConnOwed, ConnAgrees, OnOff
  <2> QED BY <2>1, <2>2, <2>3, <2>4
<1>12. ASSUME NEW c \in Connections, c \in T, ~(sess[r].op = "save" /\ sess[r].of = c)
       PROVE  conn[c] = "none" \/ conn'[c] = OnOff(val[c])
  BY <1>6, <1>12
<1> QED BY <1>4, <1>5, <1>6, <1>7, <1>8, <1>10, <1>11, <1>12 DEF o

LEMMA FreshUnselected ==
  ASSUME CopiesInv, NEW i, Fresh(i)
  PROVE  ~Selected(i)
<1> SUFFICES ASSUME NEW st \in Streams, <<i, st>> \in active
             PROVE  FALSE
  BY DEF Selected, Among
<1>1. <<i, st>> \in rows /\ <<i, st>> \in Sources
  BY DEF CopiesInv, SelectionInv, TypeOK
<1>2. <<i, st>> \in Own(i)
  BY <1>1 DEF Own, Sources
<1>3. Own(i) \cap rows = {}
  BY DEF Fresh, CopiesInv, CopiesKept, Whole
<1> QED BY <1>1, <1>2, <1>3

LEMMA BootFixesAgrees ==
  ASSUME CopiesInv, NEW r \in Requests, BootFixes(r)
  PROVE  CopiesKept'
<1> DEFINE s == sess[r]
           val == [i \in Integrations |-> IF i = s.fix THEN s.sel ELSE Selected(i)]
           T == {s.fix} \cup {i \in s.todo : Differs(s, i)}
<1>0. s \in Session /\ Formed(s) /\ s.pc = "fix"
  BY DEF BootFixes, CopiesInv, CopiesKept, SelectionInv, TypeOK
<1>1. UNCHANGED <<there, rows, active, job>>
  BY DEF BootFixes, Rest
<1>2. CASE ~(T \subseteq there)
  <2>1. Breaks(r) /\ UNCHANGED <<enabled, conn>>
    BY <1>2 DEF BootFixes
  <2> QED BY <1>1, <2>1, BreaksKept
<1>3. CASE T \subseteq there
  <2>1. /\ Enable(s, T, val) /\ Goes(r, Corrected(s, T, val))
        /\ exposed' = (exposed \/ s.sel # Selected(s.fix))
    BY <1>3 DEF BootFixes, Outdated
  <2>2. val \in [Integrations -> BOOLEAN]
    BY <1>0 DEF Selected, Among, Session
  <2>3. \A j : /\ Selected(j)' <=> Selected(j)
               /\ Kept(j)' <=> Kept(j)
               /\ Fresh(j)' <=> Fresh(j)
    BY <1>1 DEF Selected, Among, Kept, Fresh
  <2>4. \A j \in there : s.op = "save" /\ j = s.of => Kept(j) /\ Kept(j)'
    BY <1>0, <2>3 DEF Formed
  <2>5. \A i \in T : i \in Integrations /\ val[i] = IF i = s.fix THEN s.sel ELSE Selected(i)
    BY <1>3 DEF CopiesInv, SelectionInv, TypeOK
  <2>6. ~exposed' => ~exposed /\ \A i \in T : val[i] <=> Selected(i)'
    BY <2>1, <2>3, <2>5
  <2>7. \A i \in s.todo : i \notin T => s.seen[i] = Selected(i)
    BY DEF Differs
  <2>8. s.fix \in T
    OBVIOUS
  <2> HIDE DEF T, val, s
  <2>9. Booting(s)
    BY <1>0 DEF Booting
  <2>10. /\ \A q \in Requests : q # r => sess'[q] = sess[q]
         /\ Formed(sess[r])'
         /\ \A i \in Integrations : enabled'[i] = IF i \in T THEN val[i] ELSE enabled[i]
         /\ \A c \in Connections :
              /\ conn'[c] = "none" <=> conn[c] = "none"
              /\ c \notin T => conn'[c] = conn[c]
              /\ c \in T /\ ~(s.op = "save" /\ s.of = c)
                   => conn[c] = "none" \/ conn'[c] = OnOff(val[c])
         /\ ~exposed' => \A c \in Connections : NoneOwed(c)' /\ JobOwed(c)' /\ ConnOwed(c)'
    <3>1. T \in SUBSET there
      BY <1>3
    <3>2. there' = there /\ job' = job
      BY <1>1
    <3>3. \A i \in there : sess[r].op = "save" /\ i = sess[r].of => Kept(i)'
      BY <2>4 DEF s
    <3>4. Booting(sess[r]) /\ sess[r] \in Session
      BY <1>0, <2>9 DEF s
    <3>5. Enable(sess[r], T, val) /\ Goes(r, Corrected(sess[r], T, val))
      BY <2>1 DEF s
    <3>6. /\ \A q \in Requests : q # r => sess'[q] = sess[q]
          /\ Formed(sess[r])'
          /\ sess[r].next = "load" => /\ sess'[r].pc = "load" /\ sess'[r].changed
                                      /\ sess'[r].op = sess[r].op /\ sess'[r].of = sess[r].of
          /\ \A i \in Integrations : enabled'[i] = IF i \in T THEN val[i] ELSE enabled[i]
          /\ \A c \in Connections :
               /\ conn'[c] = "none" <=> conn[c] = "none"
               /\ c \notin T => conn'[c] = conn[c]
               /\ c \in T /\ ~(sess[r].op = "save" /\ sess[r].of = c)
                    => conn[c] = "none" \/ conn'[c] = OnOff(val[c])
               /\ Saves(sess[r], c) => Saves(sess[r], c)'
               /\ OwesConn(sess[r], c) /\ c \notin T => OwesConn(sess[r], c)'
          /\ ~exposed => \A c \in Connections :
               /\ NoneOwed(c)'
               /\ Selected(c)' <=> Selected(c) =>
                    /\ JobOwed(c)'
                    /\ (\A i \in T : val[i] <=> Selected(i)') => ConnOwed(c)'
      <4>1. PICK o \in Session : o = sess[r]
        BY <3>4
      <4>2. /\ o.op = sess[r].op /\ o.of = sess[r].of /\ o.stream = sess[r].stream
            /\ o.next = sess[r].next /\ o.on = sess[r].on
        BY <4>1
      <4>3. Enable(o, T, val) /\ Goes(r, Corrected(o, T, val))
        BY <3>5, <4>1
      <4> QED BY <2>2, <3>1, <3>2, <3>3, <3>4, <4>2, <4>3, Correcting
    <3> QED BY <2>3, <2>6, <3>6 DEF s
  <2>11. Whole' /\ \A q \in Requests : Formed(sess[q])'
    BY <1>1, <2>10, ShapeStays
  <2>12. /\ \A i : OwesFlag(s, i) =>
              s.fix = i \/ (i \in s.todo /\ s.seen[i] = enabled[i])
         /\ \A i : OwesConn(s, i) => s.op = "save" /\ s.of = i
         /\ \A i : ~Introduces(s, i)
    BY <1>0 DEF OwesFlag, OwesConn, Introduces, Saves, Creating, Enabling
  <2>13. ASSUME ~exposed'
         PROVE  Owed'
    <3>1. ASSUME NEW i \in there'
          PROVE  FlagOwed(i)' /\ FreshOwed(i)'
      <4>0. i \in there /\ i \in Integrations /\ (i \in Zammad => i \in Connections)
        BY <1>1, <3>1 DEF CopiesInv, SelectionInv, TypeOK, Connections
      <4>1. CASE i \in T
        <5>1. FlagOwed(i)'
          BY <2>6, <2>10, <2>13, <4>0, <4>1 DEF FlagOwed, FlagAgrees
        <5>2. ASSUME Fresh(i)'
              PROVE  /\ \E q \in Requests : Introduces(sess[q], i)'
                     /\ i \in Zammad => (enabled'[i] <=> conn'[i] = "on")
          <6>0. Fresh(i) /\ ~Selected(i)
            BY <2>3, <5>2, FreshUnselected
          <6>1. PICK q \in Requests : Introduces(sess[q], i)
            BY <2>6, <2>13, <4>0, <6>0 DEF CopiesInv, CopiesKept, Owed, FreshOwed
          <6>2. sess'[q] = sess[q]
            BY <2>10, <2>12, <6>1 DEF s
          <6>3. Introduces(sess[q], i)'
            BY <6>1, <6>2 DEF Introduces
          <6>4. val[i] = FALSE /\ enabled'[i] = FALSE
            BY <2>2, <2>3, <2>6, <2>10, <2>13, <4>0, <4>1, <6>0
          <6>5. ~(s.op = "save" /\ s.of = i)
            BY <2>4, <4>0, <6>0 DEF Fresh
          <6>6. i \in Zammad => conn'[i] = "off"
            <7>1. i \in Zammad => conn[i] # "none"
              BY <4>0 DEF CopiesInv, CopiesKept, Whole
            <7> QED BY <2>10, <4>0, <4>1, <6>4, <6>5, <7>1 DEF OnOff
          <6> QED BY <6>3, <6>4, <6>6
        <5> QED BY <5>1, <5>2 DEF FreshOwed
      <4>2. CASE i \notin T
        <5>1. FlagOwed(i)'
          <6>1. CASE ~OwesFlag(s, i)
            BY <2>3, <2>6, <2>10, <2>13, <4>0, <4>2, <6>1, OthersOwe DEF s
          <6>2. CASE OwesFlag(s, i)
            <7>1. enabled'[i] = Selected(i)
              BY <2>7, <2>8, <2>10, <2>12, <4>0, <4>2, <6>2
            <7> QED BY <2>3, <7>1 DEF FlagOwed, FlagAgrees
          <6> QED BY <6>1, <6>2
        <5>2. ASSUME Fresh(i)'
              PROVE  FreshOwed(i)'
          <6>1. ~OwesConn(s, i)
            BY <2>3, <2>4, <2>12, <4>0, <5>2 DEF Fresh
          <6>2. i \in Zammad => conn'[i] = conn[i]
            BY <2>10, <4>0, <4>2
          <6>3. s.pc # "boot" /\ enabled'[i] = enabled[i]
            BY <1>0, <2>10, <4>0, <4>2
          <6> QED BY <2>3, <2>6, <2>10, <2>13, <4>0, <6>1, <6>2, <6>3, OthersOwe DEF s
        <5> QED BY <5>1, <5>2 DEF FreshOwed
      <4> QED BY <4>1, <4>2
    <3> QED BY <2>10, <2>13, <3>1 DEF Owed
  <2> QED BY <2>11, <2>13 DEF CopiesKept
<1> QED BY <1>2, <1>3

(* Bootstrap may insert rows and select what is enabled; what it changes is *)
(* new, and the request that added the integration still owes its copies.   *)
LEMMA BootInsertsAgrees ==
  ASSUME CopiesInv, NEW r \in Requests, BootInserts(r)
  PROVE  CopiesKept'
<1> DEFINE o == sess[r]
<1>0. /\ o \in Session /\ Formed(o) /\ o.pc = "boot" /\ Booting(o)
      /\ enabled \in [Integrations -> BOOLEAN] /\ there \subseteq Integrations
  BY DEF BootInserts, Booting, CopiesInv, CopiesKept, SelectionInv, TypeOK
<1>1. PICK s \in Session : /\ s = [sess[r] EXCEPT !.seen = Found(sess[r])]
                           /\ s.op = o.op /\ s.of = o.of /\ s.stream = o.stream
                           /\ s.next = o.next /\ s.on = o.on
                           /\ s.seen = Found(sess[r])
  <2>1. Found(sess[r]) \in [Integrations -> BOOLEAN]
    BY <1>0 DEF Found, Session
  <2> DEFINE f == Found(sess[r])
             u == [sess[r] EXCEPT !.seen = f]
  <2>2. /\ u \in Session /\ u.op = o.op /\ u.of = o.of /\ u.stream = o.stream
        /\ u.next = o.next /\ u.on = o.on /\ u.seen = f
    <3> HIDE DEF f
    <3> QED BY <1>0, <2>1 DEF Session, f
  <2>3. u = [sess[r] EXCEPT !.seen = Found(sess[r])]
    OBVIOUS
  <2> HIDE DEF u
  <2> QED BY <2>2, <2>3
<1>2. PICK N \in SUBSET Missing :
        /\ Backfill(N, s.seen)
        /\ active' = active \cup N
        /\ Enable(s, {i \in there : s.seen[i] # [j \in Integrations |-> Among(active \cup N, j)][i]},
                  [i \in Integrations |-> Among(active \cup N, i)])
        /\ Goes(r, Corrected(s,
             {i \in there : s.seen[i] # [j \in Integrations |-> Among(active \cup N, j)][i]},
             [i \in Integrations |-> Among(active \cup N, i)]))
  BY <1>1 DEF BootInserts
<1>3. PICK val \in [Integrations -> BOOLEAN] :
        val = [i \in Integrations |-> Among(active \cup N, i)]
  BY DEF Among
<1>4. PICK T \in SUBSET there : T = {i \in there : s.seen[i] # val[i]}
  OBVIOUS
<1>5. Enable(s, T, val) /\ Goes(r, Corrected(s, T, val))
  BY <1>2, <1>3, <1>4
<1>6. rows' = rows \cup Missing /\ UNCHANGED <<there, job, exposed>>
  BY DEF BootInserts
<1>7. /\ \A i \in there : Kept(i)'
      /\ \A i : Kept(i) => Kept(i)'
      /\ \A p \in rows' : p[1] \in there
  <2>1. ASSUME NEW i \in there
        PROVE  Own(i) \subseteq Sources
    BY <1>0, SelectionAssumption DEF Own, Sources
  <2>2. \A i \in there : Own(i) \subseteq rows'
    BY <1>6, <2>1 DEF Missing, Own
  <2> QED BY <1>6, <2>2 DEF Kept, Missing, CopiesInv, CopiesKept, Whole
<1>8. \A i \in Integrations : val[i] <=> Selected(i)'
  BY <1>2, <1>3 DEF Selected
<1>9. ASSUME NEW i \in Integrations, ~(Selected(i)' <=> Selected(i))
      PROVE  Fresh(i) /\ s.seen[i] /\ val[i] /\ ~Selected(i) /\ Selected(i)'
  <2>1. Selected(i)' /\ ~Selected(i)
    BY <1>2, <1>9 DEF Selected, Among
  <2>2. PICK st \in Streams : <<i, st>> \in N
    BY <1>2, <2>1 DEF Selected, Among
  <2>3. <<i, st>> \in Missing /\ s.seen[i]
    BY <1>2, <2>2 DEF Backfill
  <2>4. i \in there /\ <<i, st>> \in Own(i) /\ <<i, st>> \notin rows
    BY <2>3 DEF Missing, Own, Sources
  <2> QED BY <1>8, <2>1, <2>3, <2>4 DEF Fresh, Kept
<1>10. Booting(sess[r]) /\ \A i \in there : sess[r].op = "save" /\ i = sess[r].of => Kept(i)'
  BY <1>0, <1>7
<1>11. /\ \A q \in Requests : q # r => sess'[q] = sess[q]
       /\ Formed(sess[r])'
       /\ sess[r].next = "load" => /\ sess'[r].pc = "load" /\ sess'[r].changed
                                   /\ sess'[r].op = sess[r].op /\ sess'[r].of = sess[r].of
       /\ \A i \in Integrations : enabled'[i] = IF i \in T THEN val[i] ELSE enabled[i]
       /\ \A c \in Connections :
            /\ conn'[c] = "none" <=> conn[c] = "none"
            /\ c \notin T => conn'[c] = conn[c]
            /\ c \in T /\ ~(sess[r].op = "save" /\ sess[r].of = c)
                 => conn[c] = "none" \/ conn'[c] = OnOff(val[c])
            /\ Saves(sess[r], c) => Saves(sess[r], c)'
            /\ OwesConn(sess[r], c) /\ c \notin T => OwesConn(sess[r], c)'
       /\ ~exposed => \A c \in Connections :
            /\ NoneOwed(c)'
            /\ Selected(c)' <=> Selected(c) =>
                 /\ JobOwed(c)'
                 /\ (\A i \in T : val[i] <=> Selected(i)') => ConnOwed(c)'
  <2>1. there' = there /\ job' = job
    BY <1>6
  <2>2. /\ s.op = sess[r].op /\ s.of = sess[r].of /\ s.stream = sess[r].stream
        /\ s.next = sess[r].next /\ s.on = sess[r].on
    BY <1>1
  <2> QED BY <1>5, <1>10, <2>1, <2>2, Correcting
<1> HIDE DEF o
<1>12. Whole'
  <2>1. Connections = Zammad \cup ServiceNow
    BY DEF Connections
  <2> QED BY <1>6, <1>7, <1>11, <2>1 DEF CopiesInv, CopiesKept, Whole
<1>13. \A q \in Requests : Formed(sess[q])'
  <2>1. \A c \in ServiceNow : conn[c] # "none" => conn'[c] # "none"
    BY <1>11 DEF Connections
  <2> QED BY <1>6, <1>7, <1>11, <2>1, AllFormed
<1>14. ASSUME ~exposed
       PROVE  Owed'
  <2>0. Owed
    BY <1>14 DEF CopiesInv, CopiesKept
  <2>1. ASSUME NEW i \in Integrations, Selected(i)', ~Selected(i)
        PROVE  /\ i \notin T /\ i \notin ServiceNow
               /\ \E q \in Requests : Introduces(sess[q], i)
    <3>1. Fresh(i) /\ s.seen[i] /\ val[i] /\ i \in there
      BY <1>9, <2>1 DEF Fresh
    <3>2. i \notin T
      BY <1>1, <1>4, <3>1 DEF Session
    <3>3. i \notin ServiceNow
      BY <3>1 DEF Fresh, CopiesInv, CopiesKept, Whole
    <3>4. PICK q \in Requests : Introduces(sess[q], i)
      BY <2>0, <3>1 DEF Owed, FreshOwed
    <3> QED BY <3>2, <3>3, <3>4
  <2>2. ASSUME NEW i \in there'
        PROVE  FlagOwed(i)' /\ FreshOwed(i)'
    <3>0. i \in there /\ i \in Integrations /\ ~Fresh(i)'
      BY <1>0, <1>6, <1>7, <2>2 DEF Fresh
    <3>1. CASE i \in T
      <4>1. FlagAgrees(i)'
        BY <1>8, <1>11, <3>0, <3>1 DEF FlagAgrees
      <4> QED BY <3>0, <4>1 DEF FlagOwed, FreshOwed
    <3>2. CASE i \notin T /\ ~Holds(sess[r], i)
      <4>1. s.seen[i] = enabled[i] /\ s.seen[i] = val[i] /\ enabled'[i] = enabled[i]
        BY <1>1, <1>4, <1>11, <3>0, <3>2 DEF Found
      <4>2. FlagAgrees(i)'
        BY <1>8, <3>0, <4>1 DEF FlagAgrees
      <4> QED BY <3>0, <4>2 DEF FlagOwed, FreshOwed
    <3>3. CASE i \notin T /\ Holds(sess[r], i)
      <4>1. ~sess[r].changed
        BY <1>0, <3>3 DEF Formed, Holds, o
      <4>2. /\ \A j : ~OwesFlag(sess[r], j) /\ ~OwesConn(sess[r], j) /\ ~OwesJob(sess[r], j)
            /\ \A j : ~Creating(sess[r], j) /\ ~Introduces(sess[r], j)
        BY <4>1, OwesNothing
      <4>3. enabled'[i] = enabled[i]
        BY <1>11, <3>0, <3>3
      <4>4. CASE Selected(i)' <=> Selected(i)
        BY <1>11, <1>14, <3>0, <4>2, <4>3, <4>4, OthersOwe DEF FreshOwed
      <4>5. CASE ~(Selected(i)' <=> Selected(i))
        <5>0. Selected(i)' /\ ~Selected(i)
          BY <1>9, <3>0, <4>5
        <5>1. PICK q \in Requests : Introduces(sess[q], i)
          BY <2>1, <3>0, <5>0
        <5>3. sess'[q] = sess[q]
          BY <1>11, <4>2, <5>1
        <5>2. OwesFlag(sess[q], i)'
          BY <5>1, <5>3 DEF OwesFlag, Introduces
        <5> QED BY <3>0, <5>2 DEF FlagOwed, FreshOwed
      <4> QED BY <4>4, <4>5
    <3> QED BY <3>1, <3>2, <3>3
  <2>3. ASSUME NEW c \in Connections
        PROVE  ConnOwed(c)' /\ JobOwed(c)' /\ NoneOwed(c)'
    <3>0. c \in Integrations /\ (c \in Zammad \/ c \in ServiceNow)
      BY ConnectionsTyped DEF Connections
    <3>1. NoneOwed(c)'
      BY <1>11, <1>14
    <3>2. CASE Selected(c)' <=> Selected(c)
      <4>1. \A i \in T : val[i] <=> Selected(i)'
        BY <1>0, <1>8
      <4> QED BY <1>11, <1>14, <3>1, <3>2, <4>1
    <3>3. CASE ~(Selected(c)' <=> Selected(c))
      <4>1. /\ Fresh(c) /\ s.seen[c] /\ val[c] /\ ~Selected(c) /\ Selected(c)'
            /\ c \notin T /\ c \in Zammad /\ c \in there /\ conn'[c] = conn[c]
        <5>1. Fresh(c) /\ s.seen[c] /\ val[c] /\ ~Selected(c) /\ Selected(c)'
          BY <1>9, <3>0, <3>3
        <5> QED BY <1>11, <2>1, <3>0, <5>1 DEF Fresh
      <4>2. JobOwed(c)'
        <5>1. PICK q \in Requests : Introduces(sess[q], c)
          BY <2>1, <3>0, <4>1
        <5>2. Saves(sess[q], c)
          BY <4>1, <5>1 DEF Introduces, Saves, Booting
        <5>3. Saves(sess[q], c)'
          <6>1. CASE q = r
            BY <1>11, <5>2, <6>1
          <6>2. CASE q # r
            <7>1. sess'[q] = sess[q]
              BY <1>11, <6>2
            <7> QED BY <5>2, <7>1 DEF Saves, Booting
          <6> QED BY <6>1, <6>2
        <5> QED BY <5>3 DEF JobOwed, OwesJob
      <4>3. CASE ~Holds(sess[r], c)
        <5>1. enabled[c]
          BY <1>1, <3>0, <4>1, <4>3 DEF Found
        <5>2. CASE conn[c] = "on"
          BY <4>1, <4>2, <3>1, <5>2 DEF ConnOwed, ConnAgrees
        <5>3. CASE conn[c] # "on"
          <6>1. PICK q \in Requests : OwesConn(sess[q], c)
            BY <2>0, <4>1, <5>1, <5>3 DEF Owed, FreshOwed
          <6>2. OwesConn(sess[q], c)'
            <7>1. CASE q = r
              BY <1>11, <4>1, <6>1, <7>1
            <7>2. CASE q # r
              <8>1. sess'[q] = sess[q]
                BY <1>11, <7>2
              <8> QED BY <4>1, <6>1, <8>1 DEF OwesConn, Saves, Creating, Enabling, Booting
            <7> QED BY <7>1, <7>2
          <6> QED BY <3>1, <4>2, <6>2 DEF ConnOwed
        <5> QED BY <5>2, <5>3
      <4>4. CASE Holds(sess[r], c)
        <5>1. Enabling(sess[r], c)'
          BY <1>11, <4>1, <4>4 DEF Holds, Enabling
        <5> QED BY <3>1, <4>2, <5>1 DEF ConnOwed, OwesConn
      <4> QED BY <4>3, <4>4
    <3> QED BY <3>2, <3>3
  <2> QED BY <2>2, <2>3 DEF Owed
<1> QED BY <1>6, <1>12, <1>13, <1>14 DEF CopiesKept

(* A connector at rest owes nothing, and every step pays or leaves a debt.  *)
LEMMA InitCopies == Init => CopiesInv
<1> SUFFICES ASSUME Init
             PROVE  CopiesInv
  OBVIOUS
<1>1. SelectionInv
  BY InitSelection
<1>2. /\ rows = {p \in Sources : p[1] \in there} /\ active \subseteq rows
      /\ there \subseteq Integrations /\ sess = [r \in Requests |-> Idle]
      /\ conn = [c \in Connections |-> IF c \in there THEN OnOff(Selected(c)) ELSE "none"]
      /\ enabled = [i \in Integrations |-> Selected(i)]
      /\ job = {c \in Connections : Selected(c)}
  BY DEF Init
<1>3. \A i \in there : Kept(i)
  <2>1. \A i \in there : Own(i) \subseteq Sources
    BY <1>2, SelectionAssumption DEF Own, Sources
  <2> QED BY <1>2, <2>1 DEF Kept, Own
<1>4. \A c : Selected(c) => c \in there
  BY <1>2 DEF Selected, Among
<1>5. Connections = Zammad \cup ServiceNow /\ Connections \subseteq Integrations
  BY ConnectionsTyped DEF Connections
<1>6. \A c \in Connections : /\ conn[c] = "on" <=> Selected(c)
                             /\ conn[c] = "none" <=> c \notin there
  BY <1>2, <1>4 DEF OnOff
<1>7. Whole
  BY <1>2, <1>3, <1>5, <1>6 DEF Whole
<1>8. \A r \in Requests : Formed(sess[r])
  BY <1>2 DEF Formed, Idle, Booting
<1>9. Owed
  <2>1. ASSUME NEW i \in there
        PROVE  FlagOwed(i) /\ FreshOwed(i)
    BY <1>2, <1>3 DEF FlagOwed, FlagAgrees, FreshOwed, Fresh
  <2>2. ASSUME NEW c \in Connections
        PROVE  ConnOwed(c) /\ JobOwed(c) /\ NoneOwed(c)
    BY <1>2, <1>4, <1>6 DEF ConnOwed, ConnAgrees, JobOwed, JobAgrees, NoneOwed
  <2> QED BY <2>1, <2>2 DEF Owed
<1> QED BY <1>1, <1>7, <1>8, <1>9 DEF CopiesInv, CopiesKept

LEMMA NextCopies == CopiesInv /\ [Next]_vars => CopiesInv'
<1> SUFFICES ASSUME CopiesInv, [Next]_vars
             PROVE  CopiesInv'
  OBVIOUS
<1> SUFFICES CopiesKept'
  BY NextSelection DEF CopiesInv
<1>2. ASSUME NEW r \in Requests, Proceeds(r)
      PROVE  CopiesKept'
  BY <1>2, BootLoadsAgrees, BootInsertsAgrees, BootChecksAgrees, BootFixesAgrees,
     SelectLoadsAgrees, SelectWritesAgrees, DisableWritesAgrees, LinkReadsAgrees,
     LinkWritesAgrees, LinksAgrees, DeleteCommitsAgrees, ReconcilesAgrees,
     ReconcileStopsAgrees DEF Proceeds, Boots
<1>3. ASSUME NEW r \in Requests, Starts(r)
      PROVE  CopiesKept'
  BY <1>3, AdoptsAgrees, SelectBeginsAgrees, SetEnabledBeginsAgrees, ZammadSavesAgrees,
     ServiceNowSavesAgrees, CreatesAgrees, DeleteBeginsAgrees DEF Starts
<1>4. ASSUME NEW r \in Requests, Reads(r) \/ Fails(r)
      PROVE  CopiesKept'
  BY <1>4, ReadsAgrees, FailsAgrees
<1>5. CASE Restart
  BY <1>5, RestartAgrees
<1>6. CASE UNCHANGED vars
  <2>1. /\ UNCHANGED <<there, enabled, rows, active, conn, job, sess, exposed>>
    BY <1>6 DEF vars
  <2>2. Whole' /\ (\A r \in Requests : Formed(sess[r])') /\ (~exposed => Owed')
    BY <2>1 DEF CopiesInv, CopiesKept, Whole, Kept, Formed, Booting, Owed, FlagOwed, FreshOwed,
        ConnOwed, JobOwed, NoneOwed, FlagAgrees, ConnAgrees, JobAgrees, OwesFlag, OwesConn,
        OwesJob, Saves, Creating, Enabling, Introduces, Fresh, Selected, Among
  <2> QED BY <2>1, <2>2 DEF CopiesKept
<1> QED BY <1>2, <1>3, <1>4, <1>5, <1>6 DEF Next

(* docs/streams.md:8-13, the activation rows are authoritative: whenever no *)
(* request is in progress, "enabled", the connections and the jobs are what *)
(* the selection says.  Every disagreement is owed by a request that has    *)
(* changed something and is not at its end; idle requests owe nothing.      *)
THEOREM CopiesAlwaysAgree == Spec => []CopiesAgree
<1>1. CopiesInv => CopiesAgree
  <2> SUFFICES ASSUME CopiesInv, ~exposed, \A r \in Requests : sess[r].pc = "idle"
               PROVE  /\ \A i \in there : enabled[i] = Selected(i)
                      /\ \A c \in Connections : (conn[c] = "on") = Selected(c)
                                                /\ (c \in job) = Selected(c)
    BY DEF CopiesAgree
  <2>1. \A r \in Requests : ~sess[r].changed
    BY IdleIs
  <2>2. \A r \in Requests : \A i :
          ~OwesFlag(sess[r], i) /\ ~OwesConn(sess[r], i) /\ ~OwesJob(sess[r], i)
    BY <2>1, OwesNothing
  <2>3. ASSUME NEW i \in there
        PROVE  enabled[i] = Selected(i)
    <3>1. enabled[i] <=> Selected(i)
      BY <2>2 DEF CopiesInv, CopiesKept, Owed, FlagOwed, FlagAgrees
    <3>2. enabled[i] \in BOOLEAN /\ Selected(i) \in BOOLEAN
      BY DEF CopiesInv, SelectionInv, TypeOK, Selected, Among
    <3> QED BY <3>1, <3>2
  <2>4. ASSUME NEW c \in Connections
        PROVE  (conn[c] = "on") = Selected(c) /\ (c \in job) = Selected(c)
    <3>1. (conn[c] = "on" <=> Selected(c)) /\ (c \in job <=> Selected(c))
      BY <2>2 DEF CopiesInv, CopiesKept, Owed, ConnOwed, ConnAgrees, JobOwed, JobAgrees
    <3>2. Selected(c) \in BOOLEAN
      BY DEF Selected, Among
    <3> QED BY <3>1, <3>2
  <2> QED BY <2>3, <2>4
<1> QED BY <1>1, InitCopies, NextCopies, PTL DEF Spec

=============================================================================
