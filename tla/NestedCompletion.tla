--------------------------- MODULE NestedCompletion ---------------------------
(***************************************************************************)
(* The completion of a deal in one chat (commercial_completion.py and      *)
(* commercial_completion_routing.py): the deal's questions are kept in the *)
(* chat's session (session_store.py); a counterparty that does not exist   *)
(* yet is created first, by a nested completion with an approval of its    *)
(* own, and the deal waits for it in the session.  When the approval is    *)
(* resolved, app.py looks the deal up again, puts the new record into it   *)
(* and proposes it.                                                        *)
(*                                                                         *)
(* A Create is one proposal of a nested contact or organization; it is the *)
(* nonce of that proposal, the contract that carries the nonce in its      *)
(* ContinuationRef and the record that its execution makes.  A Deal is one *)
(* completion that the user began.  A Thread is a thread of the server and *)
(* holds one message or button at a time; what it read of the session is   *)
(* used after other threads ran.                                           *)
(***************************************************************************)
EXTENDS Naturals

CONSTANTS Deal, Create, Thread, Nothing, MaxRestarts

ASSUME NothingIsNew == Nothing \notin Deal \cup Create
ASSUME RestartsAreNumbers == MaxRestarts \in Nat

VARIABLES slot,     \* commercial_completion of the session, in memory
          row,      \* the same in the Sessions table
          begun,    \* the completions begun so far
          status,   \* of the contract of each Create
          origin,   \* the completion that each Create was proposed from
          thread,   \* what each thread is about to do
          folded,   \* how often the record of a Create went into a deal
          fired,    \* how often the approval of a Create was continued
          restarts

vars == <<slot, row, begun, status, origin, thread, folded, fired, restarts>>

-----------------------------------------------------------------------------
(* The deal asks for its counterparty; it asks whether to create it; the    *)
(* nested frame asks for what is missing; the nested frame is complete and  *)
(* carries the nonce of its proposal.                                       *)
Session == [stage : {"none", "asking", "offer", "child", "parked"},
            deal : Deal \cup {Nothing},
            nonce : Create \cup {Nothing}]

NoSession == [stage |-> "none", deal |-> Nothing, nonce |-> Nothing]

Of(d, stage) == [stage |-> stage, deal |-> d, nonce |-> Nothing]

Parked(d, n) == [stage |-> "parked", deal |-> d, nonce |-> n]

(* "put": about to write next into the session.  "press", "say", "refuse":  *)
(* an approving button, an approving word, a rejecting button; "run": it is *)
(* executing; "look", "tidy": about to continue an approval, a rejection;   *)
(* "fold": about to propose the deal it found.                              *)
Doing == [at : {"idle", "put", "press", "say", "refuse", "run", "look",
                "tidy", "fold"},
          next : Session,
          nonce : Create \cup {Nothing},
          record : BOOLEAN]  \* verified evidence of the new record

Idle == [at |-> "idle", next |-> NoSession, nonce |-> Nothing,
         record |-> FALSE]

Putting(s) == [at |-> "put", next |-> s, nonce |-> Nothing, record |-> FALSE]

Handling(at, n, record) == [at |-> at, next |-> NoSession, nonce |-> n,
                            record |-> record]

Folding(s, n) == [at |-> "fold", next |-> s, nonce |-> n, record |-> TRUE]

Init == /\ slot = NoSession
        /\ row = NoSession
        /\ begun = {}
        /\ status = [n \in Create |-> "none"]
        /\ origin = [n \in Create |-> Nothing]
        /\ thread = [t \in Thread |-> Idle]
        /\ folded = [n \in Create |-> [d \in Deal |-> 0]]
        /\ fired = [n \in Create |-> 0]
        /\ restarts = 0

Free(t) == thread[t].at = "idle"

Does(t, doing) == thread' = [thread EXCEPT ![t] = doing]

(* The memory is written at once; the table may keep what it had: a write   *)
(* that failed is only logged, and two of them may land in either order.    *)
Store(s) == slot' = s /\ row' \in {s, row}

-----------------------------------------------------------------------------
(* Messages.                                                                *)

(* A fresh request for a deal closes what is open and begins another one;   *)
(* /dealfromlead replaces what is open only when it stores its own.         *)
Begin(t, d) ==
    /\ Free(t) /\ d \notin begun
    /\ begun' = begun \cup {d}
    /\ \/ UNCHANGED <<slot, row>>
       \/ slot # NoSession /\ Store(NoSession)
    /\ Does(t, Putting(Of(d, "asking")))
    /\ UNCHANGED <<status, origin, folded, fired, restarts>>

(* A cancel word, or a fresh command of another kind.                       *)
Drop(t) ==
    /\ Free(t) /\ slot # NoSession
    /\ Store(NoSession)
    /\ UNCHANGED <<begun, status, origin, thread, folded, fired, restarts>>

(* What a message leaves of session s: a question is asked again; the       *)
(* counterparty is found and the deal itself is proposed, or it is not and  *)
(* its creation is offered; the offer is declined or accepted.  A parked    *)
(* session has no question left, and any message closes it.                 *)
Answered(s) ==
    CASE s.stage = "asking" -> {s, NoSession, Of(s.deal, "offer")}
      [] s.stage = "offer" -> {s, Of(s.deal, "asking"), Of(s.deal, "child")}
      [] s.stage = "child" -> {s}
      [] OTHER -> {NoSession}

Answer(t) ==
    /\ Free(t) /\ slot # NoSession
    /\ \E s \in Answered(slot) : Does(t, Putting(s))
    /\ UNCHANGED <<slot, row, begun, status, origin, folded, fired, restarts>>

(* Faulty variant of Propose: the frame is parked without its nonce.        *)
ProposeUnmarked(t, n) ==
    /\ Free(t) /\ slot.stage \in {"offer", "child"}
    /\ status[n] = "none"
    /\ status' \in {[status EXCEPT ![n] = "pending"],
                    [status EXCEPT ![n] = "refused"]}
    /\ origin' = [origin EXCEPT ![n] = slot.deal]
    /\ Does(t, Putting(Parked(slot.deal, Nothing)))
    /\ UNCHANGED <<slot, row, begun, folded, fired, restarts>>

(* The nested frame is complete: an organization as soon as its creation is *)
(* accepted, a contact when its phone is given.  It gets a nonce and is     *)
(* proposed, which may be refused; the session is kept afterwards, either   *)
(* way.                                                                     *)
Propose(t, n) ==
    /\ Free(t) /\ slot.stage \in {"offer", "child"}
    /\ status[n] = "none"
    /\ status' \in {[status EXCEPT ![n] = "pending"],
                    [status EXCEPT ![n] = "refused"]}
    /\ origin' = [origin EXCEPT ![n] = slot.deal]
    /\ Does(t, Putting(Parked(slot.deal, n)))
    /\ UNCHANGED <<slot, row, begun, folded, fired, restarts>>

Put(t) ==
    /\ thread[t].at = "put"
    /\ Store(thread[t].next)
    /\ Does(t, Idle)
    /\ UNCHANGED <<begun, status, origin, folded, fired, restarts>>

-----------------------------------------------------------------------------
(* Approvals and rejections.                                                *)

(* A button takes the coordination row, so one of them is handled at a time; *)
(* with the deterministic resolver on, a word does not.  Each saw the        *)
(* contract pending before it goes on.                                       *)
Press(t, n, at) ==
    /\ Free(t) /\ status[n] = "pending"
    /\ at \in {"press", "say", "refuse"}
    /\ at # "say" => \A u \in Thread : thread[u].at \notin {"press", "refuse"}
    /\ Does(t, Handling(at, n, FALSE))
    /\ UNCHANGED <<slot, row, begun, status, origin, folded, fired, restarts>>

(* Faulty variant of Approve: the status is not read again.                 *)
ApproveAgain(t) ==
    LET n == thread[t].nonce
    IN  /\ thread[t].at \in {"press", "say"}
        /\ status' = [status EXCEPT ![n] = "executing"]
        /\ Does(t, Handling("run", n, FALSE))
        /\ UNCHANGED <<slot, row, begun, origin, folded, fired, restarts>>

(* The contract is executed by whoever finds it pending under its lock; who *)
(* finds it resolved gets a result without evidence and goes on as well.    *)
(* Or the approver is turned away.                                          *)
Approve(t) ==
    LET n == thread[t].nonce
    IN  /\ thread[t].at \in {"press", "say"}
        /\ \/ /\ status[n] = "pending"
              /\ status' = [status EXCEPT ![n] = "executing"]
              /\ Does(t, Handling("run", n, FALSE))
           \/ /\ status[n] # "pending"
              /\ Does(t, Handling("look", n, FALSE))
              /\ UNCHANGED status
           \/ /\ status[n] = "pending"
              /\ Does(t, Idle)
              /\ UNCHANGED status
        /\ UNCHANGED <<slot, row, begun, origin, folded, fired, restarts>>

(* The record is made, with or without verified evidence of it; or it is    *)
(* not, or nobody knows.                                                    *)
Execute(t) ==
    LET n == thread[t].nonce
    IN  /\ thread[t].at = "run"
        /\ \/ /\ status' = [status EXCEPT ![n] = "completed"]
              /\ \E record \in BOOLEAN : Does(t, Handling("look", n, record))
           \/ /\ status' = [status EXCEPT ![n] = "failed"]
              /\ Does(t, Handling("look", n, FALSE))
        /\ UNCHANGED <<slot, row, begun, origin, folded, fired, restarts>>

Reject(t) ==
    LET n == thread[t].nonce
    IN  /\ thread[t].at = "refuse"
        /\ \/ /\ status[n] \in {"pending", "rejected"}
              /\ status' = [status EXCEPT ![n] = "rejected"]
              /\ Does(t, Handling("tidy", n, FALSE))
           \/ /\ status[n] # "rejected"
              /\ Does(t, Idle)
              /\ UNCHANGED status
        /\ UNCHANGED <<slot, row, begun, origin, folded, fired, restarts>>

(* A cancel word, an old button or a sibling's approval rejects it, and     *)
(* nothing looks at the session.                                            *)
RejectQuietly(n) ==
    /\ status[n] = "pending"
    /\ status' = [status EXCEPT ![n] = "rejected"]
    /\ UNCHANGED <<slot, row, begun, origin, thread, folded, fired, restarts>>

(* Faulty variant of Correlated: any complete nested frame will do.         *)
CorrelatedByShape(n) == slot.stage = "parked" /\ n \in Create

(* The session holds the very frame that the contract was proposed from.    *)
Correlated(n) == slot.stage = "parked" /\ slot.nonce = n

(* With a record the parent is resumed, and without one the nested frame is *)
(* taken off it; another session is left alone.                             *)
Continued(t, record) ==
    LET n == thread[t].nonce
    IN  \/ /\ Correlated(n) /\ record
           /\ Does(t, Folding(slot, n))
        \/ /\ Correlated(n) /\ ~record
           /\ Does(t, Putting(Of(slot.deal, "asking")))
        \/ /\ ~Correlated(n)
           /\ Does(t, Idle)

Look(t) ==
    LET n == thread[t].nonce
    IN  /\ thread[t].at = "look"
        /\ \/ /\ status[n] = "completed"
              /\ fired' = [fired EXCEPT ![n] = @ + 1]
              /\ Continued(t, thread[t].record)
           \/ /\ status[n] # "completed"
              /\ Does(t, Idle)
              /\ UNCHANGED fired
        /\ UNCHANGED <<slot, row, begun, status, origin, folded, restarts>>

Tidy(t) ==
    /\ thread[t].at = "tidy"
    /\ Continued(t, FALSE)
    /\ UNCHANGED <<slot, row, begun, status, origin, folded, fired, restarts>>

(* The deal now has its counterparty, the last thing it asks for, and is    *)
(* proposed, unless its payload is refused; then the session is closed.     *)
Fold(t) ==
    LET n == thread[t].nonce
        d == thread[t].next.deal
    IN  /\ thread[t].at = "fold"
        /\ folded' \in {folded, [folded EXCEPT ![n][d] = @ + 1]}
        /\ Does(t, Putting(NoSession))
        /\ UNCHANGED <<slot, row, begun, status, origin, fired, restarts>>

(* The threads are gone, and the session is read back from the table.       *)
Restart ==
    /\ restarts < MaxRestarts
    /\ restarts' = restarts + 1
    /\ thread' = [t \in Thread |-> Idle]
    /\ slot' = row
    /\ UNCHANGED <<row, begun, status, origin, folded, fired>>

Next == \/ \E t \in Thread : \/ Drop(t) \/ Answer(t) \/ Put(t)
                             \/ Approve(t) \/ Execute(t) \/ Reject(t)
                             \/ Look(t) \/ Tidy(t) \/ Fold(t)
                             \/ \E d \in Deal : Begin(t, d)
                             \/ \E n \in Create : Propose(t, n)
                             \/ \E n \in Create, at \in {"press", "say", "refuse"} :
                                  Press(t, n, at)
        \/ \E n \in Create : RejectQuietly(n)
        \/ Restart

Spec == Init /\ [][Next]_vars

-----------------------------------------------------------------------------
(* Shapes; a session has a nonce exactly when its nested frame is complete. *)
SessionOK(s) == /\ s \in Session
                /\ s.stage = "none" <=> s.deal = Nothing
                /\ s.stage = "parked" <=> s.nonce # Nothing

TypeOK ==
    /\ SessionOK(slot)
    /\ SessionOK(row)
    /\ begun \subseteq Deal
    /\ status \in [Create -> {"none", "refused", "pending", "executing",
                              "completed", "failed", "rejected"}]
    /\ origin \in [Create -> Deal \cup {Nothing}]
    /\ thread \in [Thread -> Doing]
    /\ \A t \in Thread : SessionOK(thread[t].next)
    /\ folded \in [Create -> [Deal -> Nat]]
    /\ fired \in [Create -> Nat]
    /\ restarts \in 0 .. MaxRestarts

(* A record is put only into the deal whose completion proposed its         *)
(* creation, and only after that creation was approved and performed,       *)
(* whatever took the session's place meanwhile (resume_nested and the nonce *)
(* of ContinuationRef).                                                     *)
RightDeal ==
    \A n \in Create, d \in Deal :
      folded[n][d] > 0 => origin[n] = d /\ status[n] = "completed"

(* One approval makes one proposal of the deal that waited for it, although *)
(* two buttons or words for the same contract may both be continued.        *)
FoldedOnce == \A n \in Create, d \in Deal : folded[n][d] <= 1

(* What _apply_diamond_post_approval_continuation says of itself: it cannot *)
(* fire twice for the same successful approval.                             *)
FiresOnce == \A n \in Create : fired[n] <= 1
=============================================================================
