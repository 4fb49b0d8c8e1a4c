----------------------------- MODULE EmergencyStop -----------------------------
(***************************************************************************)
(* One emergency-stop flag: its durable record in Airtable                 *)
(* (adapters/airtable_emergency_stop_store.py), the cache of it that each  *)
(* process keeps (EmergencyStopManager, core/emergency_stop.py), the       *)
(* owner's stop and clear (tma_api.py) and the cost watchdog               *)
(* (cost_monitor.py).                                                      *)
(*                                                                         *)
(* A writer is one call of EmergencyStopManager.write(); its operation id  *)
(* is the writer itself.  Every call of Airtable is a step.  The record    *)
(* may be missing at first, and nothing in Airtable keeps it single.       *)
(***************************************************************************)
EXTENDS Naturals

CONSTANTS Process,   \* instances of the bot
          Stopper,   \* the owner's stops
          Clearer,   \* the owner's clears
          Watch,     \* stops by the cost watchdog
          Serving,   \* the instances that the mini app reaches
          Spending,  \* the instances that talk to the language model
          Row,       \* records of the table, used one after the other
          Nobody,
          MaxFaults  \* how many things may go wrong

Writer == Stopper \cup Clearer \cup Watch

ASSUME KindsDiffer == /\ Stopper \cap Clearer = {}
                      /\ Watch \cap (Stopper \cup Clearer) = {}
ASSUME NobodyIsNew == Nobody \notin Process \cup Writer \cup Row
ASSUME RolesAreProcesses == Serving \cup Spending \subseteq Process
ASSUME FaultsAreNumbers == MaxFaults \in Nat

VARIABLES rows,     \* the records of the flag
          mgr,      \* the manager of each process
          writer,   \* where each write stands
          over,     \* the processes whose daily cost is over the limit
          stopped,  \* _daily_stopped of each process
          faults,   \* what went wrong so far
          standing, \* the stops written since the last clear was
          crossed,  \* the clears that another write overtook
          behind    \* the processes that act on what was before that write

vars == <<rows, mgr, writer, over, stopped, faults, standing, crossed, behind>>

-----------------------------------------------------------------------------
RowRecord == [there : BOOLEAN, on : BOOLEAN, op : Writer \cup {Nobody}]

NoRow == [there |-> FALSE, on |-> FALSE, op |-> Nobody]

(* What a read of the whole table says; "bad" is unavailable or invalid.    *)
ReadResult == [status : {"none", "ok", "bad"}, on : BOOLEAN]

Nothing == [status |-> "none", on |-> FALSE]

Bad == [status |-> "bad", on |-> FALSE]

(* pc: "free", or a refresh holds the lock and is about to use what it got. *)
Manager == [pc : {"free", "apply"},
            got : ReadResult,
            on : BOOLEAN,                    \* the cached value
            status : {"none", "ok", "bad"},  \* of the last read
            fresh : BOOLEAN]         \* hydrated less than ttl_seconds ago

Cold == [pc |-> "free", got |-> Nothing, on |-> FALSE, status |-> "none",
         fresh |-> FALSE]

Writing == [pc : {"idle", "look", "write", "verify", "mark", "undo", "done"},
            at : Process \cup {Nobody},
            expected : Writer \cup {Nobody},  \* expected_operation_id
            row : Row \cup {Nobody},          \* the record it found
            result : {"none", "verified", "refused"}]

Idle == [pc |-> "idle", at |-> Nobody, expected |-> Nobody, row |-> Nobody,
         result |-> "none"]

Over == [Idle EXCEPT !.pc = "done"]

There == {r \in Row : rows[r].there}

First == CHOOSE r \in Row : TRUE
Unused == CHOOSE r \in Row : r \notin There

(* The record was made by hand, unchecked, or is missing.                   *)
Init == /\ \/ rows = [r \in Row |-> NoRow]
           \/ rows = [r \in Row |-> [NoRow EXCEPT !.there = (r = First)]]
        /\ mgr = [m \in Process |-> Cold]
        /\ writer = [w \in Writer |-> Idle]
        /\ over = {}
        /\ stopped = {}
        /\ faults = 0
        /\ standing = {}
        /\ crossed = {}
        /\ behind = {}

Fault == faults < MaxFaults /\ faults' = faults + 1

-----------------------------------------------------------------------------
(* Evaluations.                                                             *)

(* Seven seconds pass.                                                      *)
Age(m) ==
    /\ mgr[m].fresh
    /\ mgr' = [mgr EXCEPT ![m].fresh = FALSE]
    /\ behind' = behind \ {m}
    /\ UNCHANGED <<rows, writer, over, stopped, faults, standing, crossed>>

(* A missing or a duplicate record makes the whole set invalid.             *)
Parsed(r) == IF There = {r} THEN [status |-> "ok", on |-> rows[r].on]
                            ELSE Bad

(* Whoever finds the cache stale takes the lock, reads, and keeps it.       *)
Refresh(m) ==
    /\ mgr[m].pc = "free" /\ ~mgr[m].fresh
    /\ \/ /\ \E r \in Row :
                /\ There # {} => r \in There
                /\ mgr' = [mgr EXCEPT ![m].pc = "apply", ![m].got = Parsed(r)]
          /\ UNCHANGED faults
       \/ /\ Fault
          /\ mgr' = [mgr EXCEPT ![m].pc = "apply", ![m].got = Bad]
    /\ UNCHANGED <<rows, writer, over, stopped, standing, crossed, behind>>

(* Faulty variant of Updated: a failed read counts as a hydration.          *)
UpdatedAnyway(g) == [g EXCEPT !.pc = "free", !.got = Nothing,
                              !.status = g.got.status, !.on = g.got.on,
                              !.fresh = TRUE]

(* Faulty variant of Updated: a failed read leaves the last good answer.    *)
UpdatedFallback(g) ==
    IF g.got.status = "ok"
      THEN [g EXCEPT !.pc = "free", !.got = Nothing, !.on = g.got.on,
                     !.status = "ok", !.fresh = TRUE]
      ELSE [g EXCEPT !.pc = "free", !.got = Nothing]

(* Only a good answer replaces the cache.                                   *)
Updated(g) ==
    LET now == [g EXCEPT !.pc = "free", !.got = Nothing,
                         !.status = g.got.status]
    IN  IF g.got.status = "ok"
          THEN [now EXCEPT !.on = g.got.on, !.fresh = TRUE] ELSE now

Apply(m) ==
    /\ mgr[m].pc = "apply"
    /\ mgr' = [mgr EXCEPT ![m] = Updated(mgr[m])]
    /\ UNCHANGED <<rows, writer, over, stopped, faults, standing, crossed,
                   behind>>

(* _evaluate_locked: without a good last read, blocked.                     *)
Allows(g) == g.status = "ok" /\ ~g.on

(* Some evaluation in the process may now be answered "not blocked".        *)
Allowing(m) == \/ mgr[m].pc = "free" /\ mgr[m].fresh /\ Allows(mgr[m])
               \/ mgr[m].pc = "apply" /\ Allows(Updated(mgr[m]))

-----------------------------------------------------------------------------
(* Writes.                                                                  *)
Called(w, m, expected) ==
    /\ writer[w].pc = "idle"
    /\ writer' = [writer EXCEPT ![w].pc = "look", ![w].at = m,
                                ![w].expected = expected]
    /\ UNCHANGED <<rows, mgr, over, faults, standing, crossed, behind>>

Stop(w, m) == Called(w, m, Nobody) /\ UNCHANGED stopped

(* The owner sends the operation id that the health page shows, and takes   *)
(* any time to do it.                                                       *)
Clear(w, m) == /\ \E r \in Row : /\ There = {r}
                                  /\ rows[r].op # Nobody
                                  /\ Called(w, m, rows[r].op)
               /\ UNCHANGED stopped

InFlight(w) == writer[w].pc \notin {"idle", "done"}

(* The automation guard before each job fails closed with the store.        *)
Guarded(m) == mgr[m].pc = "free" /\ mgr[m].fresh

(* The hourly check, in the one scheduler thread of the process.            *)
Check(w, m) ==
    /\ Guarded(m)
    /\ m \in over /\ m \notin stopped
    /\ \A v \in Watch : InFlight(v) => writer[v].at # m
    /\ stopped' = stopped \cup {m}
    /\ Called(w, m, Nobody)

Ended(w, result) == [writer EXCEPT ![w].pc = "mark", ![w].result = result,
                                   ![w].row = Nobody, ![w].expected = Nobody]

(* Faulty variant of Look: the operation id is not compared.                *)
LookUnchecked(w) ==
    /\ writer[w].pc = "look"
    /\ writer' \in {[writer EXCEPT ![w].pc = "write", ![w].row = r] :
                      r \in IF There = {} THEN {Nobody} ELSE There}
    /\ UNCHANGED <<rows, mgr, over, stopped, faults, standing, crossed, behind>>

(* at_get_by_field returns one of the records, if there is any; a clear     *)
(* compares its operation id.                                               *)
Look(w) ==
    /\ writer[w].pc = "look"
    /\ \/ /\ There = {}
          /\ writer' = [writer EXCEPT ![w].pc = "write"]
          /\ UNCHANGED faults
       \/ /\ \E r \in There :
                writer' = IF writer[w].expected \notin {Nobody, rows[r].op}
                            THEN Ended(w, "refused")
                            ELSE [writer EXCEPT ![w].pc = "write",
                                                ![w].row = r]
          /\ UNCHANGED faults
       \/ /\ Fault
          /\ writer' = Ended(w, "refused")
    /\ UNCHANGED <<rows, mgr, over, stopped, standing, crossed, behind>>

(* The PATCH of the record found, or the POST of a new one.                 *)
Written(w, r) ==
    /\ IF writer[w].row = Nobody THEN There # Row /\ r = Unused
                                  ELSE r = writer[w].row
    /\ rows' = [rows EXCEPT ![r] = [there |-> TRUE, on |-> w \notin Clearer,
                                    op |-> w]]
    /\ standing' = IF w \in Clearer THEN {} ELSE standing \cup {w}
    /\ crossed' = {c \in Clearer : c # w /\ writer[c].pc = "write"}
    /\ behind' = {m \in Process : Allowing(m)}

Write(w) ==
    /\ writer[w].pc = "write"
    /\ \/ /\ \E r \in Row : Written(w, r)
          /\ writer' = [writer EXCEPT ![w].pc = "verify", ![w].row = Nobody]
          /\ UNCHANGED faults
       \/ /\ Fault
          /\ \/ \E r \in Row : Written(w, r)
             \/ UNCHANGED <<rows, standing, crossed, behind>>
          /\ writer' = Ended(w, "refused")
    /\ UNCHANGED <<mgr, over, stopped>>

(* The readback.                                                            *)
Verify(w) ==
    /\ writer[w].pc = "verify"
    /\ \/ /\ \E r \in There :
                writer' = Ended(w, IF /\ rows[r].on = (w \notin Clearer)
                                      /\ rows[r].op = w
                                     THEN "verified" ELSE "refused")
          /\ UNCHANGED faults
       \/ /\ Fault
          /\ writer' = Ended(w, "refused")
    /\ UNCHANGED <<rows, mgr, over, stopped, standing, crossed, behind>>

(* Faulty variant of Mark: it does not wait for a refresh under way.        *)
MarkAtOnce(w) ==
    /\ writer[w].pc = "mark"
    /\ mgr' = [mgr EXCEPT ![writer[w].at].fresh = FALSE]
    /\ writer' = [writer EXCEPT ![w].pc = "done"]
    /\ UNCHANGED <<rows, over, stopped, faults, standing, crossed, behind>>

(* Under the lock the cache is marked stale, whatever became of the write.  *)
MarkStale(m) ==
    /\ mgr[m].pc = "free"
    /\ mgr' = [mgr EXCEPT ![m].fresh = FALSE]

(* The write returns; a watchdog whose stop was not confirmed goes on.      *)
Mark(w) ==
    /\ writer[w].pc = "mark"
    /\ MarkStale(writer[w].at)
    /\ writer' = [writer EXCEPT ![w] =
                     IF writer[w].result = "verified"
                       THEN [writer[w] EXCEPT !.pc = "done"]
                     ELSE IF w \in Watch
                       THEN [writer[w] EXCEPT !.pc = "undo"]
                     ELSE Over]
    /\ UNCHANGED <<rows, over, stopped, faults, standing, crossed, behind>>

(* Faulty variant of Undo: a stop that failed is remembered as made.        *)
UndoNothing(w) ==
    /\ writer[w].pc = "undo"
    /\ writer' = [writer EXCEPT ![w] = Idle]
    /\ UNCHANGED <<rows, mgr, over, stopped, faults, standing, crossed, behind>>

(* The watchdog forgets the stop that was not confirmed.                    *)
Undo(w) ==
    /\ writer[w].pc = "undo"
    /\ stopped' = stopped \ {writer[w].at}
    /\ writer' = [writer EXCEPT ![w] = Idle]
    /\ UNCHANGED <<rows, mgr, over, faults, standing, crossed, behind>>

-----------------------------------------------------------------------------
(* record_call(): the day's cost passes the limit, or a new day begins.     *)
Exceed(m) ==
    /\ m \in Spending
    /\ over' = over \cup {m}
    /\ UNCHANGED <<rows, mgr, writer, stopped, faults, standing, crossed,
                   behind>>

Midnight(m) ==
    /\ m \in Spending
    /\ over' = over \ {m}
    /\ stopped' = stopped \ {m}
    /\ UNCHANGED <<rows, mgr, writer, faults, standing, crossed, behind>>

(* An instance is restarted in the middle of anything.                      *)
Restart(m) ==
    /\ Fault
    /\ mgr' = [mgr EXCEPT ![m] = Cold]
    /\ writer' = [w \in Writer |->
                    IF InFlight(w) /\ writer[w].at = m
                      THEN IF w \in Watch THEN Idle ELSE Over
                      ELSE writer[w]]
    /\ over' = over \ {m}
    /\ stopped' = stopped \ {m}
    /\ behind' = behind \ {m}
    /\ UNCHANGED <<rows, standing, crossed>>

ManagerStep(m) == Refresh(m) \/ Apply(m)
WriterStep(w) == Look(w) \/ Write(w) \/ Verify(w) \/ Mark(w) \/ Undo(w)

Next == \/ \E m \in Process : \/ Age(m) \/ ManagerStep(m)
                              \/ Exceed(m) \/ Midnight(m) \/ Restart(m)
                              \/ \E w \in Watch : Check(w, m)
        \/ \E m \in Serving : \/ \E w \in Stopper : Stop(w, m)
                              \/ \E w \in Clearer : Clear(w, m)
        \/ \E w \in Writer : WriterStep(w)

(* The hourly job evaluates its guard, which reads the flags if they are    *)
(* stale, and then gets to its check; its calls return and it gets the lock *)
(* some time.                                                               *)
Fairness == /\ \A m \in Spending : /\ WF_vars(ManagerStep(m))
                                   /\ SF_vars(\E w \in Watch : Check(w, m))
            /\ \A w \in Watch : SF_vars(WriterStep(w))

Spec == Init /\ [][Next]_vars /\ Fairness

-----------------------------------------------------------------------------
(* Shapes; a write under way has a process, and the cache is fresh only     *)
(* after a good read.                                                       *)
TypeOK == /\ rows \in [Row -> RowRecord]
          /\ mgr \in [Process -> Manager]
          /\ writer \in [Writer -> Writing]
          /\ over \subseteq Process /\ stopped \subseteq Process
          /\ faults \in 0 .. MaxFaults
          /\ standing \subseteq Writer \ Clearer /\ crossed \subseteq Clearer
          /\ behind \subseteq Process
          /\ \A w \in Writer : InFlight(w) => writer[w].at \in Process
          /\ \A m \in Process : mgr[m].fresh
                => mgr[m].status = "ok" /\ mgr[m].pc = "free"

(* Once a stop was reported as done, no evaluation in the process that      *)
(* reported it is answered "not blocked" until a clear is written, whatever *)
(* refresh was under way and whichever read fails (EmergencyStopManager     *)
(* .write and ._evaluate_locked).                                           *)
Reported(w) == writer[w].pc = "done" /\ writer[w].result = "verified"

StopHolds ==
    \A w \in standing : Reported(w) => ~Allowing(writer[w].at)

(* The flag is on in the store, or its records contradict each other.       *)
Off == \E r \in There : rows[r].on \/ There # {r}

(* While the flag is on in the store, or has two records, whoever is still  *)
(* let through was let through before the last write, by a cache that has   *)
(* not yet grown old: a stop reaches every process within ttl_seconds, and  *)
(* so does a duplicate record (_maybe_refresh_locked, _parse_records).      *)
StopIsSeen == Off => \A m \in Process : Allowing(m) => m \in behind

(* A clear overwrites only the state its owner was shown, unless another    *)
(* write fell between its check and its PATCH (expected_operation_id).      *)
ClearIsInformed ==
    [][\A c \in Clearer, r \in Row :
          rows'[r].op = c /\ rows[r].op # c /\ c \notin crossed
            => rows[r].op = writer[c].expected]_vars

(* The watchdog remembers a stop only if it was confirmed, and tries again  *)
(* until one is, unless the day ends or the store fails closed              *)
(* (_trigger_daily_stop).  The calls of the model are bounded.              *)
Capped(m) == m \in stopped /\ \E w \in Watch : Reported(w) /\ writer[w].at = m

WatchdogStops ==
    \A m \in Spending :
       m \in over ~> \/ m \notin over \/ Capped(m)
                     \/ \A w \in Watch : writer[w].pc # "idle"
                     \/ \A r \in Row : There # {r}
=============================================================================
