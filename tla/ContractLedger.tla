--------------------------- MODULE ContractLedger ---------------------------
(***************************************************************************)
(* The life of the ActionContracts of one identity: ExecutionLedger and    *)
(* ActionGateway (core/action_gateway.py) over ActionContractRepository    *)
(* (core/action_contract_repository.py), which keeps them in Airtable.     *)
(*                                                                         *)
(* The process answers from its cache.  update_status is the read of the   *)
(* cache, a lookup and check of the durable record, a PATCH that Airtable  *)
(* applies whatever the record holds by then, a read-back, and the new     *)
(* cache entry; after a conflict the cached status and version are         *)
(* refreshed and the transition is tried once more.  Without persistence   *)
(* it is one assignment.  Each is a step, as is every provider run, and    *)
(* the handlers of other events run in between.  (The coordination row     *)
(* that some handlers take first is TurnState's; the Mini App and the      *)
(* deterministic resolver come here without it.)                           *)
(***************************************************************************)
EXTENDS Naturals, FiniteSets

CONSTANTS Contract,    \* ActionContract ids of this identity
          Event,       \* inbound events
          None,        \* a value outside both
          Kinds,       \* the kinds of event that arrive
          Persistent,  \* FEATURE_ACTION_CONTRACT_PERSISTENCE is on
          Claims,      \* FEATURE_ATOMIC_CLAIMS is on
          Faults       \* what may go wrong

Kind == {"approve", "reject", "confirm", "cancel", "ingress", "fallback"}

ASSUME NoneIsFresh == None \notin Contract \cup Event
ASSUME KindsAreKinds == Kinds \subseteq Kind \ {"fallback"}
ASSUME FlagsAreBoolean == Persistent \in BOOLEAN /\ Claims \in BOOLEAN
ASSUME FaultsAreFaults ==
    /\ Faults \subseteq {"lookup", "reply", "claim", "restart"}
    /\ "restart" \in Faults => Persistent

VARIABLES ram,  \* contract -> the cached entry
          air,  \* contract -> the durable record
          op,   \* event -> where its handler stands
          ran   \* the provider runs

vars == <<ram, air, op, ran>>

-----------------------------------------------------------------------------
Status == {"absent", "pending", "approved", "rejected", "superseded",
           "completed", "failed"}

(* ALLOWED_CONTRACT_TRANSITIONS; "failed" stands for outcome_unknown too.   *)
Allowed(s) == CASE s = "pending" -> Status \ {"absent", "pending"}
                [] s = "approved" -> {"completed", "failed"}
                [] OTHER -> {}

Entry == [status : Status,
          version : Nat,
          interrupted : BOOLEAN,  \* context interrupted or integrity unknown
          reconfirm : BOOLEAN]    \* reconfirmation_required

Absent == [status |-> "absent", version |-> 0, interrupted |-> FALSE,
           reconfirm |-> FALSE]

Proposed == [Absent EXCEPT !.status = "pending", !.version = 1]

Intent == {"approve", "reject", "ask", "interrupt", "supersede",
           "complete", "fail"}

StatusAfter(i) == CASE i = "approve" -> "approved"
                    [] i = "reject" -> "rejected"
                    [] i = "supersede" -> "superseded"
                    [] i = "complete" -> "completed"
                    [] i = "fail" -> "failed"
                    [] OTHER -> "pending"

(* These carry field updates, so they are never a no-op.                    *)
Updating == {"approve", "ask", "interrupt"}

Written(e, i, v) == [status |-> StatusAfter(i), version |-> v,
                     interrupted |-> e.interrupted \/ i = "interrupt",
                     reconfirm |-> e.reconfirm \/ i = "ask"]

Phase == {"idle", "find", "hydrate", "look", "recover", "route", "next",
          "enter", "capture", "get", "patch", "verify", "cache", "refresh",
          "heal", "dispatch", "answer", "done"}

Reply == {"none", "error", "nothing", "listed", "asked", "not_saved"}
           \cup Status

Handler == [pc : Phase,
            kind : Kind,
            on : Contract \cup {None},
            intent : Intent \cup {"none"},
            todo : SUBSET (Contract \X Intent),
            exp : Status,                   \* the expected durable status
            ver : Nat,                      \* and version
            got : [Contract -> Entry],      \* what it last looked up
            again : BOOLEAN,                \* the one retry is under way
            marked : SUBSET Contract,       \* interrupted when it arrived
            told : Reply]

Nothing == [c \in Contract |-> Absent]

Fresh == [pc |-> "idle", kind |-> "fallback", on |-> None, intent |-> "none",
          todo |-> {}, exp |-> "absent", ver |-> 0, got |-> Nothing,
          again |-> FALSE, marked |-> {}, told |-> "none"]

Known(c) == ram[c].status # "absent"

Live == {c \in Contract : ram[c].status = "pending"}

Only(c, e) == [Nothing EXCEPT ![c] = e]

(* _cache_contract, for every record that was looked up.                    *)
Cached(got) == [c \in Contract |-> IF got[c].status = "absent" THEN ram[c]
                                                               ELSE got[c]]

Told(r, t) == [r EXCEPT !.pc = "done", !.told = t, !.todo = {}, !.ver = 0,
                        !.exp = "absent", !.again = FALSE, !.got = Nothing]

(* approve() holds the lock of its contract until its outcome is recorded.  *)
Holds(p, c) == /\ op[p].on = c
               /\ op[p].intent \in {"approve", "complete", "fail"}
               /\ op[p].pc \in {"capture", "get", "patch", "verify", "cache",
                                "refresh", "heal", "dispatch"}

(* Faulty variant of LockFree: approve() takes no lock.                     *)
LockIgnored(o, c) == o \in Event /\ c \in Contract

LockFree(o, c) == \A p \in Event \ {o} : ~Holds(p, c)

(* The handlers of the loops go on, or are done.                            *)
Looped(r, t) == IF r.todo = {} THEN Told(r, t)
                ELSE [r EXCEPT !.pc = "next", !.again = FALSE]

(* After update_status returned.                                            *)
Saved(r) ==
    CASE r.intent = "approve" -> [r EXCEPT !.pc = "dispatch", !.again = FALSE]
      [] r.intent = "ask" -> Told(r, "asked")
      [] r.kind = "cancel" -> Looped(r, "rejected")
      [] r.intent \in {"interrupt", "supersede"} -> Looped(r, "none")
      [] OTHER -> [r EXCEPT !.pc = "answer"]

(* After update_status raised.  The ingress gate tries its independent      *)
(* fallback once.                                                           *)
Raised(r) ==
    CASE r.kind = "ingress" ->
             [Fresh EXCEPT !.pc = "route", !.kind = "fallback"]
      [] r.kind = "fallback" -> Told(r, "none")
      [] r.kind = "cancel" \/ r.intent = "ask" -> Told(r, "not_saved")
      [] OTHER -> [r EXCEPT !.pc = "answer"]

(* A conflict is retried once, with the refreshed version.                  *)
Conflicted(r) == IF r.again THEN Raised(r) ELSE [r EXCEPT !.pc = "refresh"]

-----------------------------------------------------------------------------
Init == /\ ram = Nothing
        /\ air = Nothing
        /\ op = [o \in Event |-> Fresh]
        /\ ran = {}

(* A proposal is persisted before it is cached.                             *)
Propose(c) ==
    /\ ~Known(c) /\ air[c].status = "absent"
    /\ ram' = [ram EXCEPT ![c] = Proposed]
    /\ air' = IF Persistent THEN [air EXCEPT ![c] = Proposed] ELSE air
    /\ UNCHANGED <<op, ran>>

(* What is on record.                                                       *)
Now == IF Persistent THEN air ELSE ram

(* The contracts whose interruption is on record, its own handler over.     *)
Interrupted ==
    {c \in Contract :
       /\ Now[c].interrupted /\ ~Now[c].reconfirm
       /\ \A p \in Event : \/ op[p].kind \notin {"ingress", "fallback"}
                           \/ op[p].pc \in {"idle", "done"}}

(* A button names its contract; a word or another message does not.         *)
Arrive(o, k, c) ==
    /\ op[o].pc = "idle"
    /\ k \in Kinds
    /\ IF k \in {"approve", "reject"}
         THEN c \in Contract /\ Now[c].status # "absent"
         ELSE c = None
    /\ op' = [op EXCEPT ![o] = [@ EXCEPT
                !.kind = k, !.on = c,
                !.pc = IF c = None THEN "look" ELSE "find",
                !.intent = IF c = None THEN "none" ELSE k,
                !.marked = IF k = "confirm" THEN Interrupted ELSE {}]]
    /\ UNCHANGED <<ram, air, ran>>

-----------------------------------------------------------------------------
(* find_by_id and the first look at the status.                             *)
Find(o) ==
    LET c == op[o].on
    IN  /\ op[o].pc = "find"
        /\ \/ /\ Known(c)
              /\ op' = [op EXCEPT ![o] =
                           IF c \in Live THEN [@ EXCEPT !.pc = "enter"]
                                         ELSE Told(@, ram[c].status)]
           \/ /\ ~Known(c)
              /\ op' = [op EXCEPT ![o].pc = "hydrate",
                                  ![o].got = Only(c, air[c])]
           \/ /\ ~Known(c) /\ "lookup" \in Faults
              /\ op' = [op EXCEPT ![o] = Told(@, "error")]
        /\ UNCHANGED <<ram, air, ran>>

(* Faulty variant of Hydrate: the record is used but not cached.            *)
HydrateUncached(o) ==
    LET e == op[o].got[op[o].on]
    IN  /\ op[o].pc = "hydrate"
        /\ op' = [op EXCEPT ![o] = IF e.status = "pending"
                                     THEN [@ EXCEPT !.pc = "enter"]
                                     ELSE Told(@, e.status)]
        /\ UNCHANGED <<ram, air, ran>>

Hydrate(o) ==
    LET e == op[o].got[op[o].on]
    IN  /\ op[o].pc = "hydrate"
        /\ ram' = Cached(op[o].got)
        /\ op' = [op EXCEPT ![o] = IF e.status = "pending"
                                     THEN [@ EXCEPT !.pc = "enter"]
                                     ELSE Told(@, e.status)]
        /\ UNCHANGED <<air, ran>>

(* find_live_by_user asks the durable store only when nothing is cached.    *)
Cold == Persistent /\ \A c \in Contract : ~Known(c)

Pending(m) == [c \in Contract |-> IF m[c].status = "pending" THEN m[c]
                                                             ELSE Absent]

(* A turn lists the live contracts once and routes by that list.            *)
Look(o) ==
    /\ op[o].pc = "look"
    /\ \/ /\ ~Cold
          /\ op' = [op EXCEPT ![o].pc = "route", ![o].got = Pending(ram)]
       \/ /\ Cold
          /\ op' = [op EXCEPT ![o].pc = "recover", ![o].got = Pending(air)]
       \/ /\ Cold /\ "lookup" \in Faults
          /\ op' = [op EXCEPT ![o] = Told(@, "error")]
    /\ UNCHANGED <<ram, air, ran>>

Recover(o) ==
    /\ op[o].pc = "recover"
    /\ ram' = Cached(op[o].got)
    /\ op' = [op EXCEPT ![o].pc = "route",
                        ![o].got = Pending(Cached(op[o].got))]
    /\ UNCHANGED <<air, ran>>

Listed(o) == {c \in Contract : op[o].got[c].status = "pending"}

(* The cache replaces an entry when it is persisted, so the list keeps the  *)
(* older one, while the contract last shown is looked up again; without     *)
(* persistence the entry itself is changed.                                 *)
Shown(o, c) == {e \in {op[o].got[c], ram[c]} :
                  IF Persistent THEN e.status = "pending" ELSE e = ram[c]}

(* Faulty variant of RouteConfirm: the interruption is not looked at.       *)
RouteConfirmAtOnce(o) ==
    \/ /\ Listed(o) = {}
       /\ op' = [op EXCEPT ![o] = Told(@, "nothing")]
    \/ \E c \in Listed(o) :
          op' = [op EXCEPT ![o].pc = "find", ![o].on = c,
                           ![o].intent = "approve", ![o].got = Nothing]

(* route_confirmation_word: the contract last shown if it is still live, or *)
(* the only live one.  A contract whose context was interrupted is shown    *)
(* again first.                                                             *)
RouteConfirm(o) ==
    \/ /\ Listed(o) = {}
       /\ op' = [op EXCEPT ![o] = Told(@, "nothing")]
    \/ /\ Cardinality(Listed(o)) > 1
       /\ op' = [op EXCEPT ![o] = Told(@, "listed")]
    \/ \E c \in Listed(o) : \E e \in Shown(o, c) :
          LET ask == e.interrupted /\ ~e.reconfirm
          IN  op' = [op EXCEPT ![o].pc = IF ask THEN "capture" ELSE "find",
                               ![o].on = c,
                               ![o].intent = IF ask THEN "ask" ELSE "approve",
                               ![o].got = Nothing]

(* route_cancellation_word rejects them all, one after another, or lists    *)
(* them when the resolver called it.                                        *)
RouteCancel(o) ==
    \/ /\ Listed(o) = {}
       /\ op' = [op EXCEPT ![o] = Told(@, "nothing")]
    \/ /\ Cardinality(Listed(o)) > 1
       /\ op' = [op EXCEPT ![o] = Told(@, "listed")]
    \/ /\ Listed(o) # {}
       /\ op' = [op EXCEPT ![o].pc = "next",
                           ![o].todo = Listed(o) \X {"reject"},
                           ![o].got = Nothing]

(* mark_context_interrupted, and its fallback that skips nothing, list the  *)
(* pending contracts themselves.                                            *)
RouteIngress(o) ==
    LET marks == {<<c, IF ram[c].reconfirm THEN "supersede" ELSE "interrupt">> :
                    c \in {d \in Live : \/ op[o].kind = "fallback"
                                        \/ ram[d].reconfirm
                                        \/ ~ram[d].interrupted}}
    IN  op' = [op EXCEPT ![o] = Looped([@ EXCEPT !.todo = marks,
                                                 !.got = Nothing], "none")]

Route(o) ==
    /\ op[o].pc = "route"
    /\ CASE op[o].kind = "confirm" -> RouteConfirm(o)
         [] op[o].kind = "cancel" -> RouteCancel(o)
         [] OTHER -> RouteIngress(o)
    /\ UNCHANGED <<ram, air, ran>>

NextItem(o) ==
    /\ op[o].pc = "next"
    /\ \E item \in op[o].todo :
          op' = [op EXCEPT ![o].on = item[1], ![o].intent = item[2],
                           ![o].todo = @ \ {item},
                           ![o].pc = IF item[2] = "reject" THEN "enter"
                                                           ELSE "capture"]
    /\ UNCHANGED <<ram, air, ran>>

(* approve(), under its lock, and reject() look at the status again; the    *)
(* approver may lack the authority.                                         *)
Enter(o) ==
    LET c == op[o].on
    IN  /\ op[o].pc = "enter"
        /\ op[o].intent = "approve" => LockFree(o, c)
        /\ \/ /\ c \in Live
              /\ op' = [op EXCEPT ![o].pc = "capture"]
           \/ /\ c \notin Live \/ op[o].intent = "approve"
              /\ op' = [op EXCEPT ![o] =
                           IF op[o].kind = "cancel" THEN Told(@, ram[c].status)
                                             ELSE [@ EXCEPT !.pc = "answer"]]
        /\ UNCHANGED <<ram, air, ran>>

-----------------------------------------------------------------------------
(* update_status.                                                           *)
Capture(o) ==
    LET c == op[o].on
    IN  /\ op[o].pc = "capture"
        /\ IF Persistent
             THEN /\ ram' = ram
                  /\ op' = [op EXCEPT ![o].pc = "get",
                                      ![o].exp = ram[c].status,
                                      ![o].ver = ram[c].version]
             ELSE /\ ram' = [ram EXCEPT ![c] =
                               Written(ram[c], op[o].intent, ram[c].version)]
                  /\ op' = [op EXCEPT ![o] = Saved(@)]
        /\ UNCHANGED <<air, ran>>

Expected(o) == /\ air[op[o].on].status = op[o].exp
               /\ air[op[o].on].version = op[o].ver

Valid(o) == \/ StatusAfter(op[o].intent) = op[o].exp
            \/ StatusAfter(op[o].intent) \in Allowed(op[o].exp)

NoOp(o) == /\ StatusAfter(op[o].intent) = op[o].exp
           /\ op[o].intent \notin Updating

Get(o) ==
    /\ op[o].pc = "get"
    /\ \/ /\ Expected(o) /\ Valid(o)
          /\ op' = [op EXCEPT ![o] =
                IF NoOp(o) THEN [@ EXCEPT !.pc = "cache",
                                          !.got = Only(op[o].on, air[op[o].on])]
                ELSE [@ EXCEPT !.pc = "patch"]]
       \/ /\ ~(Expected(o) /\ Valid(o))
          /\ op' = [op EXCEPT ![o] = Conflicted(@)]
       \/ /\ "lookup" \in Faults
          /\ op' = [op EXCEPT ![o] = Raised(@)]
    /\ UNCHANGED <<ram, air, ran>>

Patch(o) ==
    LET c == op[o].on
        written == [air EXCEPT ![c] = Written(air[c], op[o].intent,
                                              op[o].ver + 1)]
    IN  /\ op[o].pc = "patch"
        /\ \/ /\ air' = written
              /\ op' = [op EXCEPT ![o].pc = "verify"]
           \/ /\ "reply" \in Faults
              /\ air' \in {air, written}
              /\ op' = [op EXCEPT ![o] = Raised(@)]
        /\ UNCHANGED <<ram, ran>>

Verify(o) ==
    LET e == air[op[o].on]
        verified == /\ e.status = StatusAfter(op[o].intent)
                    /\ e.version = op[o].ver + 1
    IN  /\ op[o].pc = "verify"
        /\ \/ /\ verified
              /\ op' = [op EXCEPT ![o].pc = "cache",
                                  ![o].got = Only(op[o].on, e)]
           \/ /\ ~verified
              /\ op' = [op EXCEPT ![o] = Conflicted(@)]
           \/ /\ "lookup" \in Faults
              /\ op' = [op EXCEPT ![o] = Raised(@)]
        /\ UNCHANGED <<ram, air, ran>>

Cache(o) ==
    /\ op[o].pc = "cache"
    /\ ram' = Cached(op[o].got)
    /\ op' = [op EXCEPT ![o] = Saved(@)]
    /\ UNCHANGED <<air, ran>>

(* _refresh_stale_contract_cache: status and version only.                  *)
Refresh(o) ==
    /\ op[o].pc = "refresh"
    /\ \/ op' = [op EXCEPT ![o].pc = "heal",
                           ![o].got = Only(op[o].on, air[op[o].on])]
       \/ /\ "lookup" \in Faults
          /\ op' = [op EXCEPT ![o] = Raised(@)]
    /\ UNCHANGED <<ram, air, ran>>

(* Faulty variant of Heal: the retry uses the version it already had.       *)
HealKeepsVersion(o) ==
    LET c == op[o].on
    IN  /\ op[o].pc = "heal"
        /\ ram' = [ram EXCEPT ![c].status = op[o].got[c].status,
                              ![c].version = op[o].got[c].version]
        /\ op' = [op EXCEPT ![o].pc = "get", ![o].again = TRUE]
        /\ UNCHANGED <<air, ran>>

Heal(o) ==
    LET c == op[o].on
    IN  /\ op[o].pc = "heal"
        /\ ram' = [ram EXCEPT ![c].status = op[o].got[c].status,
                              ![c].version = op[o].got[c].version]
        /\ op' = [op EXCEPT ![o].pc = "get", ![o].again = TRUE,
                            ![o].ver = op[o].got[c].version]
        /\ UNCHANGED <<air, ran>>

-----------------------------------------------------------------------------
(* Faulty variant of Outcome: a run that failed is recorded as completed.   *)
OutcomeAlwaysComplete(s) == IF s = "fail" THEN "complete" ELSE s

(* The status recorded for a provider run.                                  *)
Outcome(s) == s

(* _execute_contract: with claims on, a contract that was claimed is not    *)
(* run again and its status is left alone.                                  *)
Dispatch(o) ==
    /\ op[o].pc = "dispatch"
    /\ \/ /\ Claims => \A x \in ran : x.on # op[o].on
          /\ \E s \in {"complete", "fail"} :
                /\ ran' = ran \cup {[by |-> o, on |-> op[o].on, result |-> s]}
                /\ op' = [op EXCEPT ![o].pc = "capture",
                                    ![o].intent = Outcome(s)]
       \/ /\ Claims
          /\ "claim" \in Faults \/ \E x \in ran : x.on = op[o].on
          /\ ran' = ran
          /\ op' = [op EXCEPT ![o].pc = "answer"]
    /\ UNCHANGED <<ram, air>>

(* The reply is built from the contract as it is cached by now.             *)
Answer(o) ==
    /\ op[o].pc = "answer"
    /\ op' = [op EXCEPT ![o] = Told(@, ram[op[o].on].status)]
    /\ UNCHANGED <<ram, air, ran>>

(* The process dies with its cache and every handler in it.                 *)
Restart ==
    /\ "restart" \in Faults
    /\ \E c \in Contract : Known(c)
    /\ ram' = Nothing
    /\ op' = [o \in Event |-> IF op[o].pc \in {"idle", "done"} THEN op[o]
                              ELSE Told(op[o], "error")]
    /\ UNCHANGED <<air, ran>>

Step(o) == \/ Find(o) \/ Hydrate(o) \/ Look(o) \/ Recover(o) \/ Route(o)
           \/ NextItem(o) \/ Enter(o) \/ Capture(o) \/ Get(o) \/ Patch(o)
           \/ Verify(o) \/ Cache(o) \/ Refresh(o) \/ Heal(o) \/ Dispatch(o)
           \/ Answer(o)

Next == \/ \E c \in Contract : Propose(c)
        \/ \E o \in Event, k \in Kinds, c \in Contract \cup {None} :
              Arrive(o, k, c)
        \/ \E o \in Event : Step(o)
        \/ Restart

Spec == Init /\ [][Next]_vars

-----------------------------------------------------------------------------
(* Shapes; only known contracts are cached, and a handler at work on a      *)
(* contract has it in its cache.                                            *)
TypeOK ==
    /\ ram \in [Contract -> Entry] /\ air \in [Contract -> Entry]
    /\ op \in [Event -> Handler]
    /\ ran \subseteq [by : Event, on : Contract, result : {"complete", "fail"}]
    /\ \A c \in Contract : Persistent /\ Known(c) => air[c].status # "absent"
    /\ \A o \in Event :
          op[o].pc \in {"enter", "capture", "get", "patch", "verify", "cache",
                        "refresh", "heal", "dispatch", "answer"}
            => op[o].on \in Contract /\ Known(op[o].on)

(* No contract is run twice (ActionGateway.approve).                        *)
RunsOnce == \A x, y \in ran : x.on = y.on => x = y

(* Whoever is told that the action was performed, by its own handler or     *)
(* later, is told so of an action the provider completed.                   *)
SuccessWasRun ==
    \A o \in Event :
       op[o].told = "completed"
         => \E x \in ran : x.on = op[o].on /\ x.result = "complete"

(* The retry of update_status fails only when the durable record moved      *)
(* after the refresh, or its status is not the one the caller relied on: a  *)
(* version that drifted, as after a lost reply, is not enough.              *)
RetryHeals ==
    [][\A o \in Event :
         LET c == op[o].on
         IN  /\ op[o].pc = "get" /\ op[o].again
             /\ op'[o].pc \notin {"get", "patch", "cache"}
             => \/ air[c] # op[o].got[c]
                \/ air[c].status # op[o].exp
                \/ ~Valid(o)]_vars

Rejecting == \E p \in Event : /\ op[p].kind \in {"reject", "cancel"}
                              /\ op[p].pc # "idle"

(* A confirm word runs a contract whose context was interrupted before the  *)
(* word arrived only when the question whether it still should is on the    *)
(* contract's record (_apply_ingress_context_gate: never "as though context *)
(* integrity were known when it isn't").  A rejection voids that: the entry *)
(* it verified may be cached after the interruption was, and the refresh    *)
(* after a conflict makes that entry pending again, but not interrupted.    *)
ConfirmKnowsContext ==
    \A x \in ran :
       op[x.by].kind = "confirm" /\ x.on \in op[x.by].marked
         => Now[x.on].reconfirm \/ Rejecting
=============================================================================
