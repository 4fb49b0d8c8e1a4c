----------------------------- MODULE TurnState -----------------------------
(***************************************************************************)
(* TC8, the coordination row of one identity: core/turn_state_repository.py *)
(* (table durable_turn_state) and the handlers of app.py that take the row *)
(* before they resolve an ActionContract and close it afterwards.          *)
(*                                                                         *)
(* An operation is one inbound event: an approve or reject button, a       *)
(* confirm or cancel word, or an unrelated message, which only passes the  *)
(* ingress gate.  Every committed SQL statement is a step.  A durable      *)
(* contract transition has three: the read that finds the contract         *)
(* pending, the PATCH, which Airtable applies whatever the record holds by *)
(* then, and the read-back.  Operations of other threads run in between.   *)
(***************************************************************************)
EXTENDS Naturals, FiniteSets

CONSTANTS Contract,   \* ActionContract ids of this identity
          Operation,  \* inbound events; also the operation_id of their claim
          None,       \* a value outside both
          Kinds,      \* the kinds of event that arrive
          Resolver,   \* FEATURE_DETERMINISTIC_APPROVAL_COST_CUTS is on
          Faults      \* the turn store may fail and the process may restart

Kind == {"approve", "reject", "confirm", "cancel", "ingress", "fallback"}

ASSUME NoneIsFresh == None \notin Contract \cup Operation
ASSUME KindsAreKinds == Kinds \subseteq Kind \ {"fallback"}
ASSUME FlagsAreBoolean == Resolver \in BOOLEAN /\ Faults \in BOOLEAN

VARIABLES row,   \* the row of durable_turn_state
          life,  \* contract -> its lifecycle as the durable store holds it
          op     \* operation -> where its handler stands

vars == <<row, life, op>>

-----------------------------------------------------------------------------
RowState == {"absent", "active", "claimed", "released", "terminal"}

Status == {"unborn", "pending", "approved", "executed", "failed",
           "rejected", "superseded"}

Intent == {"approve", "reject", "ask", "interrupt", "supersede"}

Phase == {"idle", "begin", "reopen", "claim", "route", "read", "write",
          "verify", "execute", "finish", "done", "refused"}

RowRecord == [state : RowState, contract : Contract \cup {None},
              owner : Operation \cup {None}, version : Nat]

NoRow == [state |-> "absent", contract |-> None, owner |-> None,
          version |-> 0]

Life == [status : Status,
         resolved : BOOLEAN,     \* some time its status was terminal
         interrupted : BOOLEAN,  \* context interrupted or of unknown integrity
         reconfirm : BOOLEAN]    \* reconfirmation_required

Unborn == [status |-> "unborn", resolved |-> FALSE, interrupted |-> FALSE,
           reconfirm |-> FALSE]

OperationState ==
    [pc : Phase,
     kind : Kind,
     contract : Contract \cup {None},      \* what it claims the row for
     guarded : BOOLEAN,                    \* it goes through the row
     seen : Nat,                           \* the row version it last read
     todo : SUBSET (Contract \X Intent),
     on : Contract \cup {None},            \* the transition under way
     intent : Intent \cup {"none"},
     again : BOOLEAN,                      \* the one retry is used
     did : SUBSET (Contract \X {"approve", "reject"})]

Fresh == [pc |-> "idle", kind |-> "fallback", contract |-> None,
          guarded |-> FALSE, seen |-> 0, todo |-> {}, on |-> None,
          intent |-> "none", again |-> FALSE, did |-> {}]

Live == {c \in Contract : life[c].status = "pending"}

InFlight(o) == op[o].pc \notin {"idle", "done", "refused"}

OwnsRow(o) == row.state = "claimed" /\ row.owner = o

(* Faulty variant of Closed: the approve lock of the contract is kept.      *)
ClosedKeepsLock(r) == [r EXCEPT !.pc = IF r.guarded THEN "finish" ELSE "done",
                                !.todo = {}, !.again = FALSE]

(* What is left of a handler's record when its lifecycle call is over.      *)
Closed(r) == [r EXCEPT !.pc = IF r.guarded THEN "finish" ELSE "done",
                       !.todo = {}, !.on = None, !.intent = "none",
                       !.again = FALSE]

(* A failed transition ends the lifecycle call; the ingress gate then tries *)
(* its independent fallback once.                                           *)
Stopped(r) == IF r.kind = "ingress"
                THEN [Closed(r) EXCEPT !.kind = "fallback", !.pc = "route"]
                ELSE Closed(r)

Advanced(r) ==
    LET left == r.todo \ {<<r.on, r.intent>>}
    IN  IF left = {} THEN Closed(r)
        ELSE [r EXCEPT !.pc = "read", !.todo = left, !.on = None,
                       !.intent = "none", !.again = FALSE]

Refused(r) == [Closed(r) EXCEPT !.pc = "refused"]

StatusAfter(i) == CASE i = "approve" -> "approved"
                    [] i = "reject" -> "rejected"
                    [] i = "supersede" -> "superseded"
                    [] OTHER -> "pending"

TerminalStatus == {"approved", "executed", "rejected", "failed"}

(* The PATCH carries the status and only the fields it changes.             *)
Patched(l, i) == [l EXCEPT !.status = StatusAfter(i),
                           !.resolved = @ \/ StatusAfter(i) \in TerminalStatus,
                           !.interrupted = @ \/ i = "interrupt",
                           !.reconfirm = @ \/ i = "ask"]

-----------------------------------------------------------------------------
Init == /\ row = NoRow
        /\ life = [c \in Contract |-> Unborn]
        /\ op = [o \in Operation |-> Fresh]

(* A proposal persists a new pending contract of the identity.              *)
Propose(c) ==
    /\ life[c].status = "unborn"
    /\ life' = [life EXCEPT ![c].status = "pending"]
    /\ UNCHANGED <<row, op>>

(* A button names its contract and always takes the row; the approve button *)
(* looks at the status first, the reject button does not.                   *)
Press(o, k, c) ==
    /\ op[o].pc = "idle"
    /\ k \in Kinds \cap {"approve", "reject"}
    /\ IF k = "approve" THEN c \in Live ELSE life[c].status # "unborn"
    /\ op' = [op EXCEPT ![o].pc = "begin", ![o].kind = k, ![o].contract = c,
                        ![o].guarded = TRUE]
    /\ UNCHANGED <<row, life>>

(* A confirm or cancel word takes the row only when exactly one contract is *)
(* live.  The deterministic resolver answers before that code and never     *)
(* takes the row: it routes the snapshot of live contracts of this turn.    *)
Say(o, k) ==
    /\ op[o].pc = "idle"
    /\ k \in Kinds \cap {"confirm", "cancel"}
    /\ \E c \in Contract \cup {None} :
          /\ IF Cardinality(Live) = 1 THEN Live = {c} ELSE c = None
          /\ op' = [op EXCEPT
                      ![o].pc = IF c # None /\ ~Resolver THEN "begin"
                                                         ELSE "route",
                      ![o].kind = k, ![o].contract = c,
                      ![o].guarded = c # None /\ ~Resolver]
    /\ UNCHANGED <<row, life>>

(* Any other message reaches mark_context_interrupted.                      *)
Interrupt(o) ==
    /\ op[o].pc = "idle"
    /\ "ingress" \in Kinds
    /\ op' = [op EXCEPT ![o].pc = "route", ![o].kind = "ingress"]
    /\ UNCHANGED <<row, life>>

-----------------------------------------------------------------------------
(* begin_or_get: insert the row, reuse it for the same contract, or read it *)
(* and try to reopen it.                                                    *)
Begin(o) ==
    /\ op[o].pc = "begin"
    /\ IF row.state = "absent"
         THEN /\ row' = [state |-> "active", contract |-> op[o].contract,
                         owner |-> None, version |-> 1]
              /\ op' = [op EXCEPT ![o].pc = "claim", ![o].seen = 1]
         ELSE /\ row' = row
              /\ op' = [op EXCEPT ![o] =
                   IF row.contract = @.contract
                     THEN [@ EXCEPT !.pc = "claim", !.seen = row.version]
                   ELSE IF row.state \in {"released", "terminal"}
                     THEN [@ EXCEPT !.pc = "reopen", !.seen = row.version]
                   ELSE Refused(@)]
    /\ UNCHANGED life

(* Faulty variant of Reopen: the version is not part of the condition.      *)
ReopenAnyVersion(o) ==
    /\ op[o].pc = "reopen"
    /\ row' = [state |-> "active", contract |-> op[o].contract,
               owner |-> None, version |-> row.version + 1]
    /\ op' = [op EXCEPT ![o].pc = "claim", ![o].seen = row.version + 1]
    /\ UNCHANGED life

Reopen(o) ==
    /\ op[o].pc = "reopen"
    /\ IF /\ row.version = op[o].seen
          /\ row.state \in {"released", "terminal"}
         THEN /\ row' = [state |-> "active", contract |-> op[o].contract,
                         owner |-> None, version |-> row.version + 1]
              /\ op' = [op EXCEPT ![o].pc = "claim",
                                  ![o].seen = row.version + 1]
         ELSE /\ row' = row
              /\ op' = [op EXCEPT ![o] = Refused(@)]
    /\ UNCHANGED life

(* Faulty variant of Claimed: the operation is not recorded.                *)
ClaimedWithoutOwner(o) == [row EXCEPT !.state = "claimed", !.version = @ + 1]

Claimed(o) == [row EXCEPT !.state = "claimed", !.owner = o, !.version = @ + 1]

(* Faulty variant of Claimable: the row need not be active.                 *)
ClaimableAnyState(o) == row.version = op[o].seen

Claimable(o) == row.version = op[o].seen /\ row.state = "active"

Claim(o) ==
    /\ op[o].pc = "claim"
    /\ IF Claimable(o)
         THEN /\ row' = Claimed(o)
              /\ op' = [op EXCEPT ![o].pc = "route",
                                  ![o].seen = row.version + 1]
         ELSE /\ row' = row
              /\ op' = [op EXCEPT ![o] = Refused(@)]
    /\ UNCHANGED life

(* The store fails before or after it commits and the handler refuses       *)
(* either way; a committed claim is then left with nobody to close it.  (A  *)
(* committed begin or reopen followed by a failing claim is the same state  *)
(* as one that fails after its commit.)                                     *)
StoreError(o) ==
    /\ Faults
    /\ op[o].pc \in {"begin", "reopen", "claim"}
    /\ op' = [op EXCEPT ![o] = Refused(@)]
    /\ \/ row' = row
       \/ op[o].pc = "claim" /\ Claimable(o) /\ row' = Claimed(o)
    /\ UNCHANGED life

-----------------------------------------------------------------------------
(* route_confirmation_word goes to the contract last shown, if it is still  *)
(* pending, else to the only live one; with several it lists them.  The     *)
(* resolver uses no bookmark.  A contract whose context was interrupted is  *)
(* shown again before it can be approved.                                   *)
ConfirmPlans(o) ==
    LET targets == IF Resolver THEN {op[o].contract} \ {None} ELSE Live
        intent(c) == IF life[c].interrupted /\ ~life[c].reconfirm
                       THEN "ask" ELSE "approve"
    IN  {{<<c, intent(c)>>} : c \in targets}
          \cup IF Cardinality(targets) = 1 THEN {} ELSE {{}}

(* route_cancellation_word rejects every live contract, one after another;  *)
(* the resolver refuses to choose among several.                            *)
CancelPlan(o) ==
    {<<c, "reject">> : c \in IF Resolver THEN {op[o].contract} \ {None}
                                        ELSE Live}

(* mark_context_interrupted and, after its failure, the fallback            *)
(* mark_context_integrity_unknown, which does not skip marked contracts.    *)
InterruptPlan(o) ==
    {<<c, IF life[c].reconfirm THEN "supersede" ELSE "interrupt">> :
        c \in {d \in Live : \/ op[o].kind = "fallback"
                            \/ life[d].reconfirm
                            \/ ~life[d].interrupted}}

Plans(o) ==
    CASE op[o].kind \in {"approve", "reject"} ->
             {{<<op[o].contract, op[o].kind>>}}
      [] op[o].kind = "confirm" -> ConfirmPlans(o)
      [] op[o].kind = "cancel" -> {CancelPlan(o)}
      [] OTHER -> {InterruptPlan(o)}

(* The handler decides what to do from the contracts as they are now, which *)
(* need not be as they were when it took the row.                           *)
Route(o) ==
    /\ op[o].pc = "route"
    /\ \E plan \in Plans(o) :
          op' = [op EXCEPT ![o] = IF plan = {} THEN Closed(@)
                                  ELSE [@ EXCEPT !.pc = "read",
                                                 !.todo = plan]]
    /\ UNCHANGED <<row, life>>

(* approve() holds the lock of its contract from its check to its outcome.  *)
ApproveLockFree(o, c) ==
    \A p \in Operation \ {o} :
       ~(op[p].on = c /\ op[p].intent = "approve")

(* The next transition finds its contract pending, or the call stops there: *)
(* a check fails, the approver lacks authority or the store is down.        *)
Read(o) ==
    /\ op[o].pc = "read"
    /\ \E item \in op[o].todo :
          LET c == item[1]
          IN  /\ op[o].on \in {None, c}
              /\ item[2] = "approve" => ApproveLockFree(o, c)
              /\ \/ /\ c \in Live
                    /\ op' = [op EXCEPT ![o].pc = "write", ![o].on = c,
                                        ![o].intent = item[2]]
                 \/ /\ c \notin Live \/ item[2] = "approve" \/ Faults
                    /\ op' = [op EXCEPT ![o] = Stopped(@)]
    /\ UNCHANGED <<row, life>>

(* The PATCH is unconditional; it may get lost, and so may its reply.       *)
Write(o) ==
    /\ op[o].pc = "write"
    /\ LET written == [life EXCEPT ![op[o].on] = Patched(@, op[o].intent)]
       IN  \/ /\ life' = written
             /\ op' = [op EXCEPT ![o].pc = "verify"]
          \/ /\ Faults
             /\ life' \in {life, written}
             /\ op' = [op EXCEPT ![o] = Stopped(@)]
    /\ UNCHANGED row

(* The read-back.  A mismatch is retried once from the read when the        *)
(* contract is still pending.                                               *)
Verify(o) ==
    /\ op[o].pc = "verify"
    /\ LET c == op[o].on
           i == op[o].intent
           matches == life[c].status = StatusAfter(i)
           retries == c \in Live /\ ~op[o].again
       IN  \/ /\ matches /\ i = "approve"
             /\ op' = [op EXCEPT ![o].pc = "execute",
                                 ![o].did = @ \cup {<<c, i>>}]
          \/ /\ matches /\ i = "reject"
             /\ op' = [op EXCEPT ![o] =
                          Advanced([op[o] EXCEPT !.did =
                                      op[o].did \cup {<<c, i>>}])]
          \/ /\ matches /\ i \notin {"approve", "reject"}
             /\ op' = [op EXCEPT ![o] = Advanced(@)]
          \/ /\ ~matches /\ retries
             /\ op' = [op EXCEPT ![o].pc = "read", ![o].again = TRUE]
          \/ /\ ~matches /\ ~retries
             /\ op' = [op EXCEPT ![o] = Stopped(@)]
    /\ UNCHANGED <<row, life>>

(* The approved contract is dispatched; its outcome is recorded if the      *)
(* durable status still admits it and the store answers.                    *)
Execute(o) ==
    /\ op[o].pc = "execute"
    /\ \/ /\ life[op[o].on].status \in {"pending", "approved"}
          /\ \E s \in {"executed", "failed"} :
                life' = [life EXCEPT ![op[o].on].status = s]
       \/ UNCHANGED life
    /\ op' = [op EXCEPT ![o] = Closed(@)]
    /\ UNCHANGED row

(* Faulty variant of Finish: only a terminal contract gives the row back.   *)
FinishOnlyTerminal(o) ==
    /\ op[o].pc = "finish"
    /\ row' = IF life[op[o].contract].status \in TerminalStatus /\ OwnsRow(o)
                THEN [row EXCEPT !.state = "terminal", !.version = @ + 1]
                ELSE row
    /\ op' = [op EXCEPT ![o].pc = "done"]
    /\ UNCHANGED life

(* Faulty variant of Finish: the owner of the row is not checked and the    *)
(* row always becomes terminal.                                             *)
FinishAlwaysTerminal(o) ==
    /\ op[o].pc = "finish"
    /\ row' = [row EXCEPT !.state = "terminal", !.version = @ + 1]
    /\ op' = [op EXCEPT ![o].pc = "done"]
    /\ UNCHANGED life

(* The row is closed by the status that the cache has of its contract: it   *)
(* need not have heard of a resolution yet, nor of a late write that undid  *)
(* one.  An error of the store is only logged.                              *)
Finish(o) ==
    /\ op[o].pc = "finish"
    /\ \/ \E heard \in {FALSE, life[op[o].contract].resolved} :
             row' = IF OwnsRow(o) /\ row.version = op[o].seen
                      THEN [row EXCEPT
                              !.state = IF heard THEN "terminal"
                                                 ELSE "released",
                              !.version = @ + 1]
                      ELSE row
       \/ Faults /\ row' = row
    /\ op' = [op EXCEPT ![o].pc = "done"]
    /\ UNCHANGED life

(* The process dies with every handler in it; the stores remain.            *)
Restart ==
    /\ Faults
    /\ \E o \in Operation : InFlight(o)
    /\ op' = [o \in Operation |->
                IF InFlight(o) THEN Refused(op[o]) ELSE op[o]]
    /\ UNCHANGED <<row, life>>

Step(o) == \/ Begin(o) \/ Reopen(o) \/ Claim(o) \/ StoreError(o) \/ Route(o)
           \/ Read(o) \/ Write(o) \/ Verify(o) \/ Execute(o) \/ Finish(o)

Arrive(o) == \/ \E k \in {"approve", "reject"}, c \in Contract : Press(o, k, c)
             \/ \E k \in {"confirm", "cancel"} : Say(o, k)
             \/ Interrupt(o)

Next == \/ \E c \in Contract : Propose(c)
        \/ \E o \in Operation : Arrive(o) \/ Step(o)
        \/ Restart

Spec == Init /\ [][Next]_vars

(* Every handler runs on a thread of its own and its store calls end.       *)
FairSpec == Spec /\ \A o \in Operation : WF_vars(Step(o))

-----------------------------------------------------------------------------
(* Shapes; the owner and contract columns agree with the state.             *)
TypeOK == /\ row \in RowRecord
          /\ life \in [Contract -> Life]
          /\ op \in [Operation -> OperationState]
          /\ (row.state = "absent") = (row.version = 0)
          /\ row.state # "absent" => row.contract # None
          /\ row.state = "claimed" => row.owner # None

(* While a guarded handler is in its lifecycle call it owns the row, at the *)
(* version it will close it with, so at most one guarded handler of the     *)
(* identity is ever in a lifecycle call (_tc8_claim_contract to             *)
(* _tc8_finish_contract).                                                   *)
Guarding == {"route", "read", "write", "verify", "execute", "finish"}

OwnerKeepsRow ==
    \A o \in Operation :
       op[o].guarded /\ op[o].pc \in Guarding
          => /\ OwnsRow(o)
             /\ row.version = op[o].seen
             /\ row.contract = op[o].contract

(* Only buttons and words have come in so far; a message of another kind    *)
(* writes the contracts without the row and can make one pending again.     *)
ResolutionsOnly ==
    \A o \in Operation :
       op[o].pc # "idle" => op[o].kind \notin {"ingress", "fallback"}

NoSecondResolver ==
    \A o, p \in Operation : \A c \in Contract, k \in {"approve", "reject"} :
       /\ o # p
       /\ op[o].guarded /\ op[p].guarded
       /\ <<c, "approve">> \in op[o].did
       => <<c, k>> \notin op[p].did

(* Until a message of another kind arrives, no contract is approved by one  *)
(* guarded handler and resolved by another, whatever restarts, lost replies *)
(* and reopenings come in between (_tc8_claim_contract to approve).         *)
GuardedOnce == ResolutionsOnly => NoSecondResolver

ClosedWhenResolved ==
    row.state = "terminal" => life[row.contract].status \in TerminalStatus

(* Until a message of another kind arrives, a row is closed as terminal     *)
(* only for a contract that was resolved: the coordination state never      *)
(* claims more than the lifecycle authority (_tc8_finish_contract).         *)
TerminalMeansResolved == ResolutionsOnly => ClosedWhenResolved

(* Each change of the row adds one to its version and follows the protocol: *)
(* a claim only from active, a close only by the owner for the same         *)
(* contract, a reopening only for another contract.                         *)
RowLifecycle ==
    [][row' # row =>
         /\ row'.version = row.version + 1
         /\ \/ /\ row.state = "absent" /\ row'.state = "active"
            \/ /\ row.state = "active" /\ row'.state = "claimed"
               /\ row'.contract = row.contract
            \/ /\ row.state = "claimed"
               /\ row'.state \in {"released", "terminal"}
               /\ row'.contract = row.contract /\ row'.owner = row.owner
               /\ op[row.owner].pc = "finish"
            \/ /\ row.state \in {"released", "terminal"}
               /\ row'.state = "active" /\ row'.contract # row.contract]_vars

(* Without faults every claim of the row ends, and every event is answered. *)
OwnershipIsTemporary ==
    \A o \in Operation : OwnsRow(o) ~> ~OwnsRow(o)

EveryEventIsAnswered ==
    \A o \in Operation : InFlight(o) ~> op[o].pc \in {"done", "refused"}

-----------------------------------------------------------------------------
(* The reconfirmation protocol (BUG_AUDIT_LOG.md, RECONFIRM_REQUIRED): the  *)
(* second confirm word approves.  So when no other handler is at work and   *)
(* nothing fails, a confirm word for a contract that was shown again is not *)
(* refused the row.                                                         *)
SecondConfirmCounts ==
    [][\A o \in Operation :
         /\ op[o].pc = "claim" /\ op'[o].pc = "refused"
         /\ op[o].kind = "confirm"
         /\ life[op[o].contract].status = "pending"
         /\ life[op[o].contract].reconfirm
         => \E p \in Operation \ {o} : InFlight(p)]_vars
=============================================================================
