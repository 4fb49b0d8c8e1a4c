-------------------------- MODULE EmergencyStopProofs --------------------------
(***************************************************************************)
(* Proofs of the safety properties of EmergencyStop, for any number of     *)
(* processes, writers, records and failures.                               *)
(***************************************************************************)
EXTENDS EmergencyStop, TLAPS

(* A manager record under which an evaluation may be let through.           *)
Lets(g) == \/ g.pc = "free" /\ g.fresh /\ g.status = "ok" /\ ~g.on
           \/ g.pc = "apply" /\ g.got.status = "ok" /\ ~g.got.on

(* What is known of the record of a write: a stop or clear that was         *)
(* reported had a process, and the record found is there.                   *)
WriterGood(w) ==
    /\ Reported(w) => writer[w].at \in Process
    /\ writer[w].pc \in {"idle", "look"} => writer[w].row = Nobody
    /\ writer[w].pc = "write" /\ writer[w].row # Nobody
         => writer[w].row \in There

(* A clear knows what it expects, and has compared it when it writes.       *)
ClearGood(c) ==
    /\ writer[c].pc \in {"look", "write"}
         => writer[c].expected \in Writer /\ There # {}
    /\ writer[c].pc = "write"
         => /\ writer[c].row \in Row
            /\ c \notin crossed => rows[writer[c].row].op = writer[c].expected

WritersGood == \A w \in Writer : WriterGood(w)
ClearsGood == \A c \in Clearer : ClearGood(c)

(* A stop that stands left a record that is on.                             *)
OnWhileStanding == standing # {} => \E r \in There : rows[r].on

IInv == /\ TypeOK
        /\ WritersGood
        /\ ClearsGood
        /\ OnWhileStanding
        /\ StopHolds
        /\ StopIsSeen

-----------------------------------------------------------------------------
LEMMA ClearIsNoOther ==
    /\ Clearer \subseteq Writer
    /\ Nobody \notin Writer /\ Nobody \notin Row /\ Nobody \notin Process
    /\ \A w \in Watch : w \notin Clearer
BY KindsDiffer, NobodyIsNew DEF Writer

LEMMA FreeManager ==
    ASSUME NEW on \in BOOLEAN, NEW fresh \in BOOLEAN,
           NEW status \in {"none", "ok", "bad"}, NEW h,
           h = [pc |-> "free", got |-> Nothing, on |-> on, status |-> status,
                fresh |-> fresh]
    PROVE  /\ h \in Manager
           /\ h.pc = "free" /\ h.status = status
           /\ h.on = on /\ h.fresh = fresh
<1>1. Nothing \in ReadResult
  BY DEF Nothing, ReadResult
<1>2. h \in Manager
  BY <1>1 DEF Manager
<1> QED BY <1>2

LEMMA UpdatedIs ==
    ASSUME NEW g \in Manager
    PROVE  /\ Updated(g) \in Manager
           /\ Updated(g).pc = "free" /\ Updated(g).status = g.got.status
           /\ Updated(g).fresh => g.fresh \/ g.got.status = "ok"
           /\ Allows(Updated(g)) <=> g.got.status = "ok" /\ ~g.got.on
<1>0. /\ g.got.status \in {"none", "ok", "bad"} /\ g.got.on \in BOOLEAN
      /\ g.on \in BOOLEAN /\ g.fresh \in BOOLEAN
  BY DEF Manager, ReadResult
<1>1. CASE g.got.status = "ok"
  <2>1. PICK on \in BOOLEAN, yes \in BOOLEAN : on = g.got.on /\ yes = TRUE
    BY <1>0
  <2>2. Updated(g) = [g EXCEPT !.pc = "free", !.got = Nothing,
                               !.status = g.got.status, !.on = g.got.on,
                               !.fresh = TRUE]
    BY <1>1 DEF Manager, Updated
  <2>3. Updated(g) = [pc |-> "free", got |-> Nothing, on |-> on,
                      status |-> g.got.status, fresh |-> yes]
    BY <2>1, <2>2, <1>1 DEF Manager
  <2>4. /\ Updated(g) \in Manager /\ Updated(g).pc = "free"
        /\ Updated(g).status = g.got.status /\ Updated(g).on = on
    BY <2>3, <1>0, FreeManager
  <2> QED BY <1>1, <2>1, <2>4, Zenon DEF Allows
<1>2. CASE g.got.status # "ok"
  <2>1. PICK on \in BOOLEAN, old \in BOOLEAN : on = g.on /\ old = g.fresh
    BY <1>0
  <2>2. Updated(g) = [g EXCEPT !.pc = "free", !.got = Nothing,
                               !.status = g.got.status]
    BY <1>2 DEF Updated
  <2>3. Updated(g) = [pc |-> "free", got |-> Nothing, on |-> on,
                      status |-> g.got.status, fresh |-> old]
    BY <2>1, <2>2 DEF Manager
  <2>4. /\ Updated(g) \in Manager /\ Updated(g).pc = "free"
        /\ Updated(g).status = g.got.status /\ Updated(g).fresh = old
    BY <2>3, <1>0, FreeManager
  <2> QED BY <1>2, <2>1, <2>4, Zenon DEF Allows
<1> QED BY <1>1, <1>2

LEMMA AllowingLets ==
    ASSUME NEW m \in Process, mgr[m] \in Manager
    PROVE  Allowing(m) <=> Lets(mgr[m])
BY UpdatedIs, Zenon DEF Allowing, Lets, Allows

LEMMA AllowingLetsNext ==
    ASSUME NEW m \in Process, mgr'[m] \in Manager
    PROVE  Allowing(m)' <=> Lets(mgr'[m])
BY UpdatedIs, Zenon DEF Allowing, Lets, Allows

-----------------------------------------------------------------------------
(* A step of the manager of one process, which lets through only what was   *)
(* let through before, or what the store allows.                            *)
LEMMA ManagerKeeps ==
    ASSUME IInv, NEW m \in Process, NEW g \in Manager,
           mgr' = [mgr EXCEPT ![m] = g],
           g.fresh => g.status = "ok" /\ g.pc = "free",
           Lets(g) => Lets(mgr[m]) \/ (~Off /\ standing = {}),
           faults' \in 0 .. MaxFaults,
           behind' \subseteq Process,
           behind' = behind \/ (behind' = behind \ {m} /\ ~Lets(g)),
           UNCHANGED <<rows, writer, over, stopped, standing, crossed>>
    PROVE  IInv'
<1>1. TypeOK'
  BY DEF IInv, TypeOK, InFlight
<1>2. WritersGood' /\ ClearsGood' /\ OnWhileStanding'
  <2>1. There' = There
    BY DEF There
  <2> QED BY <2>1 DEF IInv, WritersGood, WriterGood, Reported, ClearsGood,
                      ClearGood, OnWhileStanding
<1>3. \A p \in Process : mgr[p] \in Manager /\ mgr'[p] \in Manager
  BY <1>1 DEF IInv, TypeOK
<1>4. ASSUME NEW p \in Process, Allowing(p)'
      PROVE  Allowing(p) \/ (p = m /\ ~Off /\ standing = {})
  <2>1. Lets(mgr'[p])
    BY <1>3, <1>4, AllowingLetsNext
  <2>2. mgr'[p] = IF p = m THEN g ELSE mgr[p]
    BY DEF IInv, TypeOK
  <2> QED BY <1>3, <2>1, <2>2, AllowingLets
<1>5. StopHolds'
  <2> SUFFICES ASSUME NEW w \in standing, Reported(w)
               PROVE  ~Allowing(writer[w].at)'
    BY DEF StopHolds, Reported
  <2>1. w \in Writer
    BY DEF IInv, TypeOK
  <2>2. PICK p : p = writer[w].at /\ p \in Process
    BY <2>1 DEF IInv, WritersGood, WriterGood
  <2>3. ~Allowing(p)
    BY <2>2 DEF IInv, StopHolds
  <2>4. ~Allowing(p)'
    BY <1>4, <2>2, <2>3
  <2>5. writer'[w].at = p
    BY <2>2
  <2> QED BY <2>4, <2>5 DEF Allowing
<1>6. StopIsSeen'
  <2>1. Off' = Off
    BY DEF Off, There
  <2>2. ASSUME Off, NEW p \in Process, Allowing(p)'
        PROVE  p \in behind'
    <3>1. Allowing(p) /\ p \in behind
      BY <1>4, <2>2 DEF IInv, StopIsSeen
    <3>2. CASE p = m /\ ~Lets(g)
      <4>1. mgr'[p] = g
        BY <3>2 DEF IInv, TypeOK
      <4> QED BY <1>3, <2>2, <3>2, <4>1, AllowingLetsNext
    <3>3. CASE ~(p = m /\ ~Lets(g))
      BY <3>1, <3>3
    <3> QED BY <3>2, <3>3
  <2> QED BY <2>1, <2>2 DEF StopIsSeen
<1> QED BY <1>1, <1>2, <1>5, <1>6 DEF IInv
(* A step of a write that leaves the store and the managers alone.  What    *)
(* becomes of its record is given.                                          *)
LEMMA WriterKeeps ==
    ASSUME IInv, NEW w \in Writer, NEW t \in Writing,
           writer' = [writer EXCEPT ![w] = t],
           t.pc \notin {"idle", "done"} => t.at \in Process,
           t.pc # "done" \/ t.result # "verified",
           t.pc = "write" /\ t.row # Nobody => t.row \in There,
           t.pc \in {"idle", "look"} => t.row = Nobody,
           w \in Clearer /\ t.pc \in {"look", "write"}
             => t.expected \in Writer /\ There # {},
           w \in Clearer /\ t.pc = "write"
             => t.row \in Row /\ rows[t.row].op = t.expected,
           stopped' \subseteq Process,
           faults' \in 0 .. MaxFaults,
           UNCHANGED <<rows, mgr, over, standing, crossed, behind>>
    PROVE  IInv'
<1>0. /\ \A v \in Writer : writer'[v] = IF v = w THEN t ELSE writer[v]
      /\ There' = There /\ Off' = Off
      /\ \A p : Allowing(p)' = Allowing(p)
  BY DEF IInv, TypeOK, There, Off, Allowing
<1>1. TypeOK'
  BY <1>0 DEF IInv, TypeOK, InFlight
<1>2. WritersGood'
  <2> SUFFICES ASSUME NEW v \in Writer PROVE WriterGood(v)'
    BY DEF WritersGood
  <2>1. CASE v = w
    BY <1>0, <2>1 DEF WriterGood, Reported
  <2>2. CASE v # w
    BY <1>0, <2>2 DEF IInv, WritersGood, WriterGood, Reported
  <2> QED BY <2>1, <2>2
<1>3. ClearsGood'
  <2> SUFFICES ASSUME NEW c \in Clearer PROVE ClearGood(c)'
    BY DEF ClearsGood
  <2>1. CASE c = w
    BY <1>0, <2>1 DEF ClearGood
  <2>2. CASE c # w
    BY <1>0, <2>2, ClearIsNoOther DEF IInv, ClearsGood, ClearGood
  <2> QED BY <2>1, <2>2
<1>4. OnWhileStanding' /\ StopIsSeen'
  BY <1>0 DEF IInv, OnWhileStanding, StopIsSeen
<1>5. StopHolds'
  <2> SUFFICES ASSUME NEW v \in standing, Reported(v)', NEW p,
                      p = writer'[v].at
               PROVE  ~Allowing(p)'
    BY DEF StopHolds, Allowing
  <2>1. v \in Writer /\ v # w
    BY <1>0 DEF IInv, TypeOK, Reported
  <2>2. writer'[v] = writer[v] /\ Reported(v)
    BY <1>0, <2>1 DEF Reported
  <2>3. ~Allowing(p)
    BY <2>2 DEF IInv, StopHolds
  <2> QED BY <1>0, <2>3
<1> QED BY <1>1, <1>2, <1>3, <1>4, <1>5 DEF IInv

(* A write reaches the store.  Its own record ends up past it.              *)
LEMMA StoreKeeps ==
    ASSUME IInv, NEW w \in Writer, NEW r \in Row, NEW t \in Writing,
           writer[w].pc = "write", Written(w, r),
           writer' = [writer EXCEPT ![w] = t],
           t.pc \in {"verify", "mark"}, t.at \in Process,
           faults' \in 0 .. MaxFaults,
           UNCHANGED <<mgr, over, stopped>>
    PROVE  IInv'
<1>1. \A v \in Writer : writer'[v] = IF v = w THEN t ELSE writer[v]
  BY DEF IInv, TypeOK
<1>2. PICK on \in BOOLEAN : on = (w \notin Clearer)
  OBVIOUS
<1>3. PICK n \in RowRecord : n = [there |-> TRUE, on |-> on, op |-> w]
  <2>1. [there |-> TRUE, on |-> on, op |-> w] \in RowRecord
    BY <1>2 DEF RowRecord
  <2> QED BY <2>1
<1>4. rows' = [rows EXCEPT ![r] = n]
  BY <1>2, <1>3 DEF Written
<1>5. rows' \in [Row -> RowRecord] /\ rows'[r] = n
  BY <1>3, <1>4 DEF IInv, TypeOK
<1>6. There' = There \cup {r} /\ r \in There'
  <2>1. n.there
    BY <1>3
  <2> QED BY <1>4, <1>5, <2>1 DEF There, IInv, TypeOK
<1>7. \A p : Allowing(p)' = Allowing(p)
  BY DEF Allowing
<1>8. TypeOK'
  <2>1. standing' \subseteq Writer \ Clearer /\ crossed' \subseteq Clearer
        /\ behind' \subseteq Process
    BY DEF Written, IInv, TypeOK
  <2> QED BY <1>1, <1>5, <2>1 DEF IInv, TypeOK, InFlight
<1>9. WritersGood'
  BY <1>1, <1>6 DEF IInv, WritersGood, WriterGood, Reported
<1>10. ClearsGood'
  <2> SUFFICES ASSUME NEW c \in Clearer PROVE ClearGood(c)'
    BY DEF ClearsGood
  <2>1. CASE c = w
    BY <1>1, <2>1 DEF ClearGood
  <2>2. CASE c # w
    <3>1. writer'[c] = writer[c]
      BY <1>1, <2>2, ClearIsNoOther
    <3>2. writer[c].pc = "write" => c \in crossed'
      BY <2>2 DEF Written
    <3> QED BY <1>6, <3>1, <3>2 DEF IInv, ClearsGood, ClearGood
  <2> QED BY <2>1, <2>2
<1>11. OnWhileStanding'
  <2>1. CASE w \in Clearer
    BY <2>1 DEF Written, OnWhileStanding
  <2>2. CASE w \notin Clearer
    <3>1. n.on
      BY <1>2, <1>3, <2>2
    <3> QED BY <1>5, <1>6, <3>1 DEF OnWhileStanding
  <2> QED BY <2>1, <2>2
<1>12. StopHolds'
  <2> SUFFICES ASSUME NEW v \in standing', Reported(v)', NEW p,
                      p = writer'[v].at
               PROVE  ~Allowing(p)'
    BY DEF StopHolds, Allowing
  <2>1. v \in Writer /\ v # w
    BY <1>1, <1>8 DEF TypeOK, Reported
  <2>2. v \in standing /\ writer'[v] = writer[v] /\ Reported(v)
    BY <1>1, <2>1 DEF Reported, Written
  <2>3. ~Allowing(p)
    BY <2>2 DEF IInv, StopHolds
  <2> QED BY <1>7, <2>3
<1>13. StopIsSeen'
  BY <1>7 DEF StopIsSeen, Written
<1> QED BY <1>8, <1>9, <1>10, <1>11, <1>12, <1>13 DEF IInv

-----------------------------------------------------------------------------
LEMMA InitInductive == Init => IInv
<1> SUFFICES ASSUME Init PROVE IInv
  OBVIOUS
<1>1. /\ Cold \in Manager /\ Idle \in Writing /\ Cold.pc = "free"
      /\ Idle.pc = "idle"
  BY DEF Cold, Manager, Nothing, ReadResult, Idle, Writing
<1>2. ~Cold.fresh
  BY DEF Cold
<1>3. rows \in [Row -> RowRecord]
  <2>1. NoRow \in RowRecord
    BY DEF NoRow, RowRecord
  <2>2. ASSUME NEW b \in BOOLEAN
        PROVE  [NoRow EXCEPT !.there = b] \in RowRecord
    BY DEF NoRow, RowRecord
  <2> QED BY <2>1, <2>2 DEF Init
<1>4. TypeOK
  BY <1>1, <1>2, <1>3, FaultsAreNumbers DEF Init, TypeOK, InFlight
<1>5. WritersGood /\ ClearsGood /\ OnWhileStanding /\ StopHolds
  <2>1. Idle.row = Nobody
    BY DEF Idle
  <2> QED BY <1>1, <2>1, ClearIsNoOther DEF Init, WritersGood, WriterGood, ClearsGood,
     ClearGood, OnWhileStanding, StopHolds, Reported
<1>6. StopIsSeen
  <2> SUFFICES ASSUME NEW m \in Process PROVE ~Allowing(m)
    BY DEF StopIsSeen
  <2>1. mgr[m] = Cold
    BY DEF Init
  <2> QED BY <1>1, <1>2, <2>1 DEF Allowing
<1> QED BY <1>4, <1>5, <1>6 DEF IInv

LEMMA AgeKeeps == ASSUME IInv, NEW m \in Process, Age(m) PROVE IInv'
<1>1. PICK g \in Manager : g = [mgr[m] EXCEPT !.fresh = FALSE]
  BY DEF IInv, TypeOK, Manager
<1>2. mgr[m].pc = "free" /\ mgr[m] \in Manager
  BY DEF Age, IInv, TypeOK
<1>3. g.pc = "free"
  BY <1>1, <1>2 DEF Manager
<1>4. ~g.fresh
  BY <1>1, <1>2 DEF Manager
<1>5. ~Lets(g)
  BY <1>3, <1>4 DEF Lets
<1>6. mgr' = [mgr EXCEPT ![m] = g]
  BY <1>1 DEF Age
<1> QED BY <1>4, <1>5, <1>6, ManagerKeeps DEF Age, IInv, TypeOK

LEMMA RefreshKeeps == ASSUME IInv, NEW m \in Process, Refresh(m) PROVE IInv'
<1>1. PICK got \in ReadResult :
         /\ mgr' = [mgr EXCEPT ![m].pc = "apply", ![m].got = got]
         /\ got.status = "ok" /\ ~got.on => ~Off /\ standing = {}
  <2>1. Bad \in ReadResult /\ Bad.status # "ok"
    BY DEF Bad, ReadResult
  <2>2. ASSUME NEW r \in Row
        PROVE  /\ Parsed(r) \in ReadResult
               /\ Parsed(r).status = "ok" /\ ~Parsed(r).on
                    => ~Off /\ standing = {}
    <3>1. CASE There = {r}
      <4>1. PICK on \in BOOLEAN : on = rows[r].on
        BY DEF IInv, TypeOK, RowRecord
      <4>2. PICK got \in ReadResult : got = [status |-> "ok", on |-> on]
        BY DEF ReadResult
      <4>3. got.on = on
        BY <4>2
      <4>4. Parsed(r) = got
        BY <3>1, <4>1, <4>2 DEF Parsed
      <4>5. ~rows[r].on => ~Off /\ standing = {}
        BY <3>1 DEF Off, IInv, OnWhileStanding
      <4> QED BY <4>1, <4>3, <4>4, <4>5, Zenon
    <3>2. CASE There # {r}
      BY <2>1, <3>2 DEF Parsed
    <3> QED BY <3>1, <3>2
  <2> QED BY <2>1, <2>2 DEF Refresh
<1>2. mgr[m] \in Manager /\ ~mgr[m].fresh
  BY DEF Refresh, IInv, TypeOK
<1>3. PICK g \in Manager :
         g = [mgr[m] EXCEPT !.pc = "apply", !.got = got]
  BY <1>2 DEF Manager
<1>4. g.pc = "apply" /\ g.got = got /\ g.fresh = mgr[m].fresh
  BY <1>2, <1>3 DEF Manager
<1>5. mgr' = [mgr EXCEPT ![m] = g]
  BY <1>1, <1>3 DEF IInv, TypeOK
<1>6. Lets(g) => ~Off /\ standing = {}
  BY <1>1, <1>4 DEF Lets
<1>7. faults' \in 0 .. MaxFaults
  BY FaultsAreNumbers DEF Refresh, Fault, IInv, TypeOK
<1>8. behind' \subseteq Process /\ behind' = behind
  BY DEF Refresh, IInv, TypeOK
<1>9. ~g.fresh
  BY <1>2, <1>4
<1> QED BY <1>5, <1>6, <1>7, <1>8, <1>9, ManagerKeeps DEF Refresh

LEMMA ApplyKeeps == ASSUME IInv, NEW m \in Process, Apply(m) PROVE IInv'
<1>1. PICK g : g = Updated(mgr[m])
  OBVIOUS
<1>2. mgr[m] \in Manager /\ mgr[m].pc = "apply" /\ ~mgr[m].fresh
  BY DEF Apply, IInv, TypeOK
<1>3. /\ g \in Manager /\ g.pc = "free" /\ g.status = mgr[m].got.status
      /\ g.fresh => mgr[m].fresh \/ mgr[m].got.status = "ok"
      /\ Allows(g) <=> mgr[m].got.status = "ok" /\ ~mgr[m].got.on
  BY <1>1, <1>2, UpdatedIs
<1>4. Lets(g) => Lets(mgr[m])
  BY <1>2, <1>3 DEF Lets, Allows
<1>5. mgr' = [mgr EXCEPT ![m] = g]
  BY <1>1 DEF Apply
<1>6. g.fresh => g.status = "ok" /\ g.pc = "free"
  BY <1>2, <1>3
<1>7. /\ faults' \in 0 .. MaxFaults
      /\ behind' \subseteq Process /\ behind' = behind
      /\ UNCHANGED <<rows, writer, over, stopped, standing, crossed>>
  BY DEF Apply, IInv, TypeOK
<1> QED BY <1>3, <1>4, <1>5, <1>6, <1>7, ManagerKeeps

LEMMA CalledKeeps ==
    ASSUME IInv, NEW w \in Writer, NEW m \in Process,
           NEW expected \in Writer \cup {Nobody}, Called(w, m, expected),
           w \in Clearer => expected \in Writer /\ There # {},
           stopped' \subseteq Process
    PROVE  IInv'
<1>1. writer[w] \in Writing /\ writer[w].row = Nobody
  BY DEF Called, IInv, TypeOK, WritersGood, WriterGood
<1>2. PICK t \in Writing :
         t = [writer[w] EXCEPT !.pc = "look", !.at = m, !.expected = expected]
  BY <1>1 DEF Writing
<1>3. t.pc = "look" /\ t.at = m /\ t.expected = expected /\ t.row = Nobody
  BY <1>1, <1>2 DEF Writing
<1>4. writer' = [writer EXCEPT ![w] = t]
  BY <1>2 DEF Called, IInv, TypeOK
<1>5. faults' \in 0 .. MaxFaults
  BY DEF Called, IInv, TypeOK
<1> QED BY <1>3, <1>4, <1>5, WriterKeeps DEF Called

LEMMA StopKeeps ==
    ASSUME IInv, NEW w \in Stopper, NEW m \in Process, Stop(w, m) PROVE IInv'
BY CalledKeeps, KindsDiffer DEF Stop, Writer, IInv, TypeOK

LEMMA ClearKeeps ==
    ASSUME IInv, NEW w \in Clearer, NEW m \in Process, Clear(w, m) PROVE IInv'
<1>1. PICK r \in Row : There = {r} /\ rows[r].op # Nobody
                        /\ Called(w, m, rows[r].op)
  BY DEF Clear
<1>2. rows[r].op \in Writer
  BY <1>1 DEF IInv, TypeOK, RowRecord
<1>3. stopped' \subseteq Process
  BY DEF Clear, IInv, TypeOK
<1> QED BY <1>1, <1>2, <1>3, CalledKeeps, ClearIsNoOther

LEMMA CheckKeeps ==
    ASSUME IInv, NEW w \in Watch, NEW m \in Process, Check(w, m) PROVE IInv'
<1>1. stopped' \subseteq Process
  BY DEF Check, IInv, TypeOK
<1> QED BY <1>1, CalledKeeps, ClearIsNoOther DEF Check, Writer

(* A write that has come to its end, before the cache is marked.            *)
LEMMA EndedIs ==
    ASSUME IInv, NEW w \in Writer, NEW result \in {"verified", "refused"},
           InFlight(w)
    PROVE  \E t \in Writing : /\ Ended(w, result) = [writer EXCEPT ![w] = t]
                              /\ t.pc = "mark" /\ t.at \in Process
<1>1. writer[w] \in Writing /\ writer[w].at \in Process
  BY DEF IInv, TypeOK
<1>2. PICK t \in Writing :
         t = [writer[w] EXCEPT !.pc = "mark", !.result = result,
                               !.row = Nobody, !.expected = Nobody]
  BY <1>1 DEF Writing
<1>3. t.pc = "mark" /\ t.at = writer[w].at
  BY <1>1, <1>2 DEF Writing
<1>4. Ended(w, result) = [writer EXCEPT ![w] = t]
  BY <1>2 DEF Ended, IInv, TypeOK
<1> QED BY <1>1, <1>3, <1>4

LEMMA EndKeeps ==
    ASSUME IInv, NEW w \in Writer, NEW result \in {"verified", "refused"},
           InFlight(w), writer' = Ended(w, result), faults' \in 0 .. MaxFaults,
           UNCHANGED <<rows, mgr, over, stopped, standing, crossed, behind>>
    PROVE  IInv'
<1>1. PICK t \in Writing : /\ writer' = [writer EXCEPT ![w] = t]
                           /\ t.pc = "mark" /\ t.at \in Process
  BY EndedIs
<1>2. stopped' \subseteq Process
  BY DEF IInv, TypeOK
<1> QED BY <1>1, <1>2, WriterKeeps

LEMMA FaultIs == ASSUME IInv, Fault \/ UNCHANGED faults
                 PROVE  faults' \in 0 .. MaxFaults
BY FaultsAreNumbers DEF Fault, IInv, TypeOK

LEMMA LookKeeps == ASSUME IInv, NEW w \in Writer, Look(w) PROVE IInv'
<1>1. writer[w].pc = "look" /\ InFlight(w) /\ writer[w] \in Writing
      /\ writer[w].at \in Process
  BY DEF Look, InFlight, IInv, TypeOK
<1>2. faults' \in 0 .. MaxFaults
  BY FaultIs DEF Look
<1>3. stopped' \subseteq Process
  BY DEF Look, IInv, TypeOK
<1>4. CASE There = {} /\ writer' = [writer EXCEPT ![w].pc = "write"]
  <2>1. PICK t \in Writing : t = [writer[w] EXCEPT !.pc = "write"]
    BY <1>1 DEF Writing
  <2>2. t.pc = "write" /\ t.at = writer[w].at /\ t.row = writer[w].row
        /\ t.expected = writer[w].expected
    BY <1>1, <2>1 DEF Writing
  <2>3. writer' = [writer EXCEPT ![w] = t]
    BY <1>4, <2>1 DEF IInv, TypeOK
  <2>4. w \notin Clearer
    BY <1>1, <1>4 DEF IInv, ClearsGood, ClearGood
  <2>5. t.row = Nobody
    BY <1>1, <2>2 DEF IInv, WritersGood, WriterGood
  <2> QED BY <1>1, <1>2, <1>3, <2>2, <2>3, <2>4, <2>5, WriterKeeps DEF Look
<1>5. CASE writer' = Ended(w, "refused")
  BY <1>1, <1>2, <1>5, EndKeeps DEF Look
<1>6. ASSUME NEW r \in There,
             writer[w].expected \in {Nobody, rows[r].op},
             writer' = [writer EXCEPT ![w].pc = "write", ![w].row = r]
      PROVE  IInv'
  <2>1. r \in Row
    BY DEF There
  <2>2. PICK t \in Writing : t = [writer[w] EXCEPT !.pc = "write", !.row = r]
    BY <1>1, <2>1 DEF Writing
  <2>3. t.pc = "write" /\ t.at = writer[w].at /\ t.row = r
        /\ t.expected = writer[w].expected
    BY <1>1, <2>2 DEF Writing
  <2>4. writer' = [writer EXCEPT ![w] = t]
    BY <1>6, <2>2 DEF IInv, TypeOK
  <2>5. w \in Clearer
          => t.expected \in Writer /\ rows[t.row].op = t.expected
    BY <1>1, <1>6, <2>3, ClearIsNoOther DEF IInv, ClearsGood, ClearGood
  <2> QED BY <1>1, <1>2, <1>3, <2>1, <2>3, <2>4, <2>5, WriterKeeps DEF Look
<1> QED BY <1>4, <1>5, <1>6 DEF Look

LEMMA WriteKeeps == ASSUME IInv, NEW w \in Writer, Write(w) PROVE IInv'
<1>1. /\ writer[w].pc = "write" /\ InFlight(w) /\ writer[w] \in Writing
      /\ writer[w].at \in Process
  BY DEF Write, InFlight, IInv, TypeOK
<1>2. faults' \in 0 .. MaxFaults
  BY FaultIs DEF Write
<1>3. ASSUME NEW r \in Row, Written(w, r),
             writer' = [writer EXCEPT ![w].pc = "verify", ![w].row = Nobody]
      PROVE  IInv'
  <2>1. PICK t \in Writing :
           t = [writer[w] EXCEPT !.pc = "verify", !.row = Nobody]
    BY <1>1 DEF Writing
  <2>2. t.pc = "verify" /\ t.at = writer[w].at
    BY <1>1, <2>1 DEF Writing
  <2>3. writer' = [writer EXCEPT ![w] = t]
    BY <1>3, <2>1 DEF IInv, TypeOK
  <2> QED BY <1>1, <1>2, <1>3, <2>2, <2>3, StoreKeeps DEF Write
<1>4. ASSUME NEW r \in Row, Written(w, r), writer' = Ended(w, "refused")
      PROVE  IInv'
  <2>1. PICK t \in Writing : /\ writer' = [writer EXCEPT ![w] = t]
                             /\ t.pc = "mark" /\ t.at \in Process
    BY <1>1, <1>4, EndedIs
  <2> QED BY <1>1, <1>2, <1>4, <2>1, StoreKeeps DEF Write
<1>5. CASE /\ writer' = Ended(w, "refused")
           /\ UNCHANGED <<rows, standing, crossed, behind>>
  BY <1>1, <1>2, <1>5, EndKeeps DEF Write
<1> QED BY <1>3, <1>4, <1>5 DEF Write

LEMMA VerifyKeeps == ASSUME IInv, NEW w \in Writer, Verify(w) PROVE IInv'
<1>1. InFlight(w)
  BY DEF Verify, InFlight
<1>2. PICK result \in {"verified", "refused"} : writer' = Ended(w, result)
  BY DEF Verify
<1>3. faults' \in 0 .. MaxFaults
  BY FaultIs DEF Verify
<1> QED BY <1>1, <1>2, <1>3, EndKeeps DEF Verify

(* Marking the cache stale changes a manager and a write at once; first the *)
(* manager, with the write not yet done.                                    *)
LEMMA MarkKeeps == ASSUME IInv, NEW w \in Writer, Mark(w) PROVE IInv'
<1>1. PICK m \in Process : m = writer[w].at
  BY DEF Mark, IInv, TypeOK, InFlight
<1>2. /\ writer[w].pc = "mark" /\ writer[w] \in Writing
      /\ mgr[m].pc = "free" /\ mgr[m] \in Manager
  BY <1>1 DEF Mark, MarkStale, IInv, TypeOK
<1>3. PICK g \in Manager : g = [mgr[m] EXCEPT !.fresh = FALSE]
  BY <1>2 DEF Manager
<1>4. g.pc = "free"
  BY <1>2, <1>3 DEF Manager
<1>5. ~g.fresh
  BY <1>2, <1>3 DEF Manager
<1>6. ~Lets(g)
  BY <1>4, <1>5 DEF Lets
<1>7. mgr' = [mgr EXCEPT ![m] = g]
  BY <1>1, <1>3 DEF Mark, MarkStale
<1>8. PICK t \in Writing :
         /\ writer' = [writer EXCEPT ![w] = t]
         /\ t.pc \in {"done", "undo"}
         /\ t.pc = "undo" \/ t.result = "verified" => t.at = m
  <2>1. Over \in Writing /\ Over.result # "verified" /\ Over.pc = "done"
    BY DEF Idle, Over, Writing
  <2>2. PICK d \in Writing : d = [writer[w] EXCEPT !.pc = "done"]
    BY <1>2 DEF Writing
  <2>3. PICK u \in Writing : u = [writer[w] EXCEPT !.pc = "undo"]
    BY <1>2 DEF Writing
  <2>4. d.pc = "done" /\ d.at = m /\ u.pc = "undo" /\ u.at = m
    BY <1>1, <1>2, <2>2, <2>3 DEF Writing
  <2>5. \/ writer' = [writer EXCEPT ![w] = d]
        \/ writer' = [writer EXCEPT ![w] = u]
        \/ writer' = [writer EXCEPT ![w] = Over]
    BY <2>2, <2>3 DEF Mark
  <2> QED BY <2>1, <2>4, <2>5
<1>9. \A v \in Writer : writer'[v] = IF v = w THEN t ELSE writer[v]
  BY <1>8 DEF IInv, TypeOK
<1>10. \A p \in Process : mgr'[p] = IF p = m THEN g ELSE mgr[p]
  BY <1>7 DEF IInv, TypeOK
<1>11. TypeOK'
  BY <1>5, <1>7, <1>8, <1>9, <1>10 DEF Mark, IInv, TypeOK, InFlight
<1>12. \A p \in Process : Allowing(p)' => Allowing(p) /\ p # m
  <2> SUFFICES ASSUME NEW p \in Process, Allowing(p)'
               PROVE  Allowing(p) /\ p # m
    OBVIOUS
  <2>1. mgr[p] \in Manager /\ mgr'[p] \in Manager
    BY <1>11 DEF IInv, TypeOK
  <2> QED BY <1>6, <1>10, <2>1, AllowingLets, AllowingLetsNext
<1>13. There' = There /\ Off' = Off
  BY DEF Mark, There, Off
<1>14. WritersGood' /\ ClearsGood'
  <2>1. WritersGood'
    BY <1>8, <1>9, <1>13 DEF IInv, WritersGood, WriterGood, Reported
  <2>2. ClearsGood'
    BY <1>8, <1>9, <1>13, ClearIsNoOther DEF Mark, IInv, ClearsGood, ClearGood
  <2> QED BY <2>1, <2>2
<1>15. OnWhileStanding' /\ StopIsSeen'
  BY <1>12, <1>13 DEF Mark, IInv, OnWhileStanding, StopIsSeen
<1>16. StopHolds'
  <2> SUFFICES ASSUME NEW v \in standing, Reported(v)', NEW p,
                      p = writer'[v].at
               PROVE  ~Allowing(p)'
    BY DEF StopHolds, Allowing, Mark
  <2>1. v \in Writer
    BY DEF IInv, TypeOK
  <2>2. CASE v = w
    BY <1>8, <1>9, <1>12, <2>1, <2>2 DEF Reported
  <2>3. CASE v # w
    <3>1. writer'[v] = writer[v] /\ Reported(v)
      BY <1>9, <2>1, <2>3 DEF Reported
    <3>2. p \in Process /\ ~Allowing(p)
      BY <2>1, <3>1 DEF IInv, StopHolds, WritersGood, WriterGood
    <3> QED BY <1>12, <3>2
  <2> QED BY <2>2, <2>3
<1> QED BY <1>11, <1>14, <1>15, <1>16 DEF IInv

LEMMA UndoKeeps == ASSUME IInv, NEW w \in Writer, Undo(w) PROVE IInv'
<1>1. /\ Idle \in Writing /\ Idle.pc = "idle" /\ Idle.row = Nobody
      /\ writer' = [writer EXCEPT ![w] = Idle]
      /\ UNCHANGED <<rows, mgr, over, faults, standing, crossed, behind>>
  BY DEF Idle, Writing, Undo
<1>2. faults' \in 0 .. MaxFaults /\ stopped' \subseteq Process
  BY <1>1 DEF Undo, IInv, TypeOK
<1> QED BY <1>1, <1>2, WriterKeeps

LEMMA CostKeeps ==
    ASSUME IInv, NEW m \in Process, Exceed(m) \/ Midnight(m)
    PROVE  IInv'
<1>1. UNCHANGED <<rows, mgr, writer, faults, standing, crossed, behind>>
  BY DEF Exceed, Midnight
<1>2. over' \subseteq Process /\ stopped' \subseteq Process
  BY DEF Exceed, Midnight, IInv, TypeOK
<1>3. There' = There /\ Off' = Off /\ \A p : Allowing(p)' = Allowing(p)
  BY <1>1 DEF There, Off, Allowing
<1>4. TypeOK' /\ WritersGood' /\ ClearsGood'
  BY <1>1, <1>2, <1>3 DEF IInv, TypeOK, InFlight, WritersGood, WriterGood,
     Reported, ClearsGood, ClearGood
<1>5. OnWhileStanding' /\ StopIsSeen'
  BY <1>1, <1>3 DEF IInv, OnWhileStanding, StopIsSeen
<1>6. StopHolds'
  BY <1>1 DEF IInv, StopHolds, Reported, Allowing
<1> QED BY <1>4, <1>5, <1>6 DEF IInv

LEMMA RestartKeeps == ASSUME IInv, NEW m \in Process, Restart(m) PROVE IInv'
<1>1. /\ Cold \in Manager /\ Cold.pc = "free"
      /\ Idle \in Writing /\ Idle.pc = "idle" /\ Idle.row = Nobody
      /\ Over \in Writing /\ Over.pc = "done" /\ Over.result # "verified"
  BY DEF Cold, Manager, Nothing, ReadResult, Idle, Over, Writing
<1>2. ~Cold.fresh
  BY DEF Cold
<1>3. \A p \in Process : mgr'[p] = IF p = m THEN Cold ELSE mgr[p]
  BY DEF Restart, IInv, TypeOK
<1>4. \A v \in Writer :
         writer'[v] = writer[v] \/ writer'[v] = Idle \/ writer'[v] = Over
  BY DEF Restart
<1>5. writer' \in [Writer -> Writing]
  BY <1>1 DEF Restart, IInv, TypeOK
<1>6. TypeOK'
  <2>1. mgr' \in [Process -> Manager]
    BY <1>1 DEF Restart, IInv, TypeOK
  <2>2. faults' \in 0 .. MaxFaults
    BY FaultIs DEF Restart
  <2>3. UNCHANGED <<rows, standing, crossed>> /\ over' \subseteq Process
        /\ stopped' \subseteq Process /\ behind' \subseteq Process
    BY DEF Restart, IInv, TypeOK
  <2>4. \A v \in Writer : InFlight(v)' => writer'[v].at \in Process
    BY <1>1, <1>4 DEF IInv, TypeOK, InFlight
  <2>5. \A p \in Process : mgr'[p].fresh
                              => mgr'[p].status = "ok" /\ mgr'[p].pc = "free"
    BY <1>2, <1>3 DEF IInv, TypeOK
  <2> QED BY <1>5, <2>1, <2>2, <2>3, <2>4, <2>5 DEF IInv, TypeOK
<1>7. \A p \in Process : Allowing(p)' => Allowing(p) /\ p # m
  <2> SUFFICES ASSUME NEW p \in Process, Allowing(p)'
               PROVE  Allowing(p) /\ p # m
    OBVIOUS
  <2>1. mgr[p] \in Manager /\ mgr'[p] \in Manager
    BY <1>6 DEF IInv, TypeOK
  <2>2. ~Lets(Cold)
    BY <1>1, <1>2 DEF Lets
  <2> QED BY <1>3, <2>1, <2>2, AllowingLets, AllowingLetsNext
<1>8. There' = There /\ Off' = Off
  BY DEF Restart, There, Off
<1>9. WritersGood'
  BY <1>1, <1>4, <1>8 DEF IInv, WritersGood, WriterGood, Reported
<1>10. ClearsGood'
  BY <1>1, <1>4, <1>8, ClearIsNoOther
     DEF Restart, IInv, ClearsGood, ClearGood
<1>11. OnWhileStanding' /\ StopIsSeen'
  BY <1>7, <1>8 DEF Restart, IInv, OnWhileStanding, StopIsSeen
<1>12. StopHolds'
  <2> SUFFICES ASSUME NEW v \in standing, Reported(v)', NEW p,
                      p = writer'[v].at
               PROVE  ~Allowing(p)'
    BY DEF StopHolds, Allowing, Restart
  <2>1. v \in Writer
    BY DEF IInv, TypeOK
  <2>2. writer'[v] = writer[v] /\ Reported(v)
    BY <1>1, <1>4, <2>1 DEF Reported
  <2>3. p \in Process /\ ~Allowing(p)
    BY <2>1, <2>2 DEF IInv, StopHolds, WritersGood, WriterGood
  <2> QED BY <1>7, <2>3
<1> QED BY <1>6, <1>9, <1>10, <1>11, <1>12 DEF IInv

LEMMA StutterKeeps == ASSUME IInv, UNCHANGED vars PROVE IInv'
<1>1. UNCHANGED <<rows, mgr, writer, over, stopped, faults, standing, crossed,
                  behind>>
  BY DEF vars
<1>2. There' = There /\ Off' = Off /\ \A p : Allowing(p)' = Allowing(p)
  BY <1>1 DEF There, Off, Allowing
<1>3. TypeOK' /\ WritersGood' /\ ClearsGood'
  BY <1>1, <1>2 DEF IInv, TypeOK, InFlight, WritersGood, WriterGood, Reported,
     ClearsGood, ClearGood
<1>4. OnWhileStanding' /\ StopIsSeen'
  BY <1>1, <1>2 DEF IInv, OnWhileStanding, StopIsSeen
<1>5. StopHolds'
  BY <1>1 DEF IInv, StopHolds, Reported, Allowing
<1> QED BY <1>3, <1>4, <1>5 DEF IInv

LEMMA NextKeeps == ASSUME IInv, [Next]_vars PROVE IInv'
<1>1. CASE UNCHANGED vars
  BY <1>1, StutterKeeps
<1>2. ASSUME NEW m \in Process,
             \/ Age(m) \/ ManagerStep(m) \/ Exceed(m) \/ Midnight(m)
             \/ Restart(m) \/ \E w \in Watch : Check(w, m)
      PROVE  IInv'
  BY <1>2, AgeKeeps, RefreshKeeps, ApplyKeeps, CostKeeps, RestartKeeps,
     CheckKeeps DEF ManagerStep
<1>3. ASSUME NEW m \in Serving,
             \/ \E w \in Stopper : Stop(w, m)
             \/ \E w \in Clearer : Clear(w, m)
      PROVE  IInv'
  <2>1. m \in Process
    BY RolesAreProcesses
  <2> QED BY <1>3, <2>1, StopKeeps, ClearKeeps
<1>4. ASSUME NEW w \in Writer, WriterStep(w)
      PROVE  IInv'
  BY <1>4, LookKeeps, WriteKeeps, VerifyKeeps, MarkKeeps, UndoKeeps
     DEF WriterStep
<1> QED BY <1>1, <1>2, <1>3, <1>4 DEF Next

(* The inductive invariant: a clear has compared what it writes over, a     *)
(* stop that stands left a record that is on, and what a refresh under way  *)
(* is about to keep lets nobody through who should not be.                  *)
THEOREM Inductive == Spec => []IInv
BY InitInductive, NextKeeps, PTL DEF Spec

(* Records, managers and writes keep their shape, and a cache is fresh only *)
(* after a good read.                                                       *)
THEOREM TypeCorrect == Spec => []TypeOK
<1>1. IInv => TypeOK
  BY DEF IInv
<1> QED BY <1>1, Inductive, PTL

(* Once a process has reported a stop, it lets nobody through until a clear *)
(* is written.                                                              *)
THEOREM StopStays == Spec => []StopHolds
<1>1. IInv => StopHolds
  BY DEF IInv
<1> QED BY <1>1, Inductive, PTL

(* While the store says stop, or contradicts itself, only an answer cached  *)
(* before the last write lets anybody through.                              *)
THEOREM StopSpreads == Spec => []StopIsSeen
<1>1. IInv => StopIsSeen
  BY DEF IInv
<1> QED BY <1>1, Inductive, PTL

(* A clear that no other write overtook writes over what it was shown.      *)
THEOREM ClearKnows == Spec => ClearIsInformed
<1>1. ASSUME IInv, [Next]_vars, NEW c \in Clearer, NEW r \in Row,
             rows'[r].op = c, rows[r].op # c, c \notin crossed
      PROVE  rows[r].op = writer[c].expected
  <2>1. PICK w \in Writer, q \in Row : Write(w) /\ Written(w, q)
    <3>1. rows' # rows
      BY <1>1
    <3>2. PICK w \in Writer : Write(w)
      BY <1>1, <3>1 DEF Next, vars, Age, ManagerStep, Refresh, Apply, Exceed,
         Midnight, Restart, Check, Called, Stop, Clear, WriterStep, Look,
         Verify, Mark, Undo
    <3> QED BY <3>1, <3>2 DEF Write
  <2>2. rows'[r] = IF r = q THEN [there |-> TRUE, on |-> w \notin Clearer,
                                  op |-> w] ELSE rows[r]
    BY <1>1, <2>1 DEF Written, IInv, TypeOK
  <2>3. q = r /\ w = c
    BY <1>1, <2>2
  <2>4. writer[c].pc = "write" /\ writer[c].row \in Row
        /\ rows[writer[c].row].op = writer[c].expected
    BY <1>1, <2>1, <2>3 DEF Write, IInv, ClearsGood, ClearGood
  <2>5. q = writer[c].row
    BY <2>1, <2>3, <2>4, ClearIsNoOther DEF Written
  <2> QED BY <2>3, <2>4, <2>5
<1>2. IInv /\ [Next]_vars
        => [\A c \in Clearer, r \in Row :
              rows'[r].op = c /\ rows[r].op # c /\ c \notin crossed
                => rows[r].op = writer[c].expected]_vars
  BY <1>1
<1> QED BY <1>2, Inductive, PTL DEF Spec, ClearIsInformed
=============================================================================
