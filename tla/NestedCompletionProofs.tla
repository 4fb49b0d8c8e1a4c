------------------------ MODULE NestedCompletionProofs ------------------------
(* The shapes of NestedCompletion, and that a record goes once, and only    *)
(* into the deal that waited for it, for any number of threads, deals,      *)
(* nested creations and restarts.                                           *)
EXTENDS NestedCompletion, TLAPS

Statuses == {"none", "refused", "pending", "executing", "completed", "failed",
             "rejected"}

(* The nonce in a session is of a proposal made from the session's deal.    *)
Marked(s) == s.nonce # Nothing => /\ s.nonce \in Create
                                  /\ origin[s.nonce] = s.deal
                                  /\ status[s.nonce] # "none"

(* A thread that may still put the record of n into a deal.                 *)
Owns(h, n) == /\ h.nonce = n
              /\ \/ h.at = "run"
                 \/ h.at \in {"look", "fold"} /\ h.record

Reached(h) == IF h.at = "run" THEN "executing" ELSE "completed"

Unfolded(n) == \A d \in Deal : folded[n][d] = 0

(* What a thread holds on its own.                                          *)
Carries(h) == /\ SessionOK(h.next)
              /\ h.at \notin {"idle", "put"} => h.nonce \in Create
              /\ h.at = "fold" => h.record /\ h.next.nonce = h.nonce

Owned == \A t \in Thread, n \in Create :
           Owns(thread[t], n) => status[n] = Reached(thread[t]) /\ Unfolded(n)

OneOwner == \A t, u \in Thread, n \in Create :
              Owns(thread[t], n) /\ Owns(thread[u], n) => t = u

(* The inductive invariant: whoever may still fold a record is the only one *)
(* and nobody folded it before, and every nonce in a session, in a table or *)
(* in a thread's hands belongs to the deal that is kept with it.            *)
IInv == /\ TypeOK
        /\ Marked(slot)
        /\ Marked(row)
        /\ \A t \in Thread : Marked(thread[t].next)
        /\ \A t \in Thread : Carries(thread[t])
        /\ Owned
        /\ OneOwner
        /\ RightDeal
        /\ FoldedOnce

-----------------------------------------------------------------------------
LEMMA NoSessionOK == NoSession \in Session /\ SessionOK(NoSession) /\ Marked(NoSession)
  BY NothingIsNew DEF NoSession, Session, SessionOK, Marked

LEMMA IdleOK == /\ Idle \in Doing /\ Carries(Idle) /\ Marked(Idle.next)
                /\ \A n \in Create : ~Owns(Idle, n)
  BY NoSessionOK DEF Idle, Doing, Carries, Owns

LEMMA PuttingOK ==
  ASSUME NEW s \in Session, SessionOK(s)
  PROVE  /\ Putting(s) \in Doing /\ Carries(Putting(s)) /\ Putting(s).next = s
         /\ \A n \in Create : ~Owns(Putting(s), n)
  BY DEF Putting, Doing, Carries, Owns

LEMMA HandlingOK ==
  ASSUME NEW n \in Create, NEW record \in BOOLEAN,
         NEW at \in {"press", "say", "refuse", "run", "look", "tidy"}
  PROVE  /\ Handling(at, n, record) \in Doing /\ Carries(Handling(at, n, record))
         /\ Handling(at, n, record).next = NoSession
         /\ Handling(at, n, record).at = at
         /\ \A m \in Create : Owns(Handling(at, n, record), m) =>
              m = n /\ (at = "run" \/ (at = "look" /\ record))
  BY NoSessionOK DEF Handling, Doing, Carries, Owns

LEMMA HandlingNothing ==
  ASSUME NEW n \in Create,
         NEW at \in {"press", "say", "refuse", "run", "look", "tidy"}
  PROVE  /\ Handling(at, n, FALSE) \in Doing /\ Carries(Handling(at, n, FALSE))
         /\ Handling(at, n, FALSE).next = NoSession
         /\ Handling(at, n, FALSE).at = at
         /\ \A m \in Create : Owns(Handling(at, n, FALSE), m) => m = n /\ at = "run"
  BY NoSessionOK DEF Handling, Doing, Carries, Owns

LEMMA FoldingOK ==
  ASSUME NEW s \in Session, SessionOK(s), NEW n \in Create, s.nonce = n
  PROVE  /\ Folding(s, n) \in Doing /\ Carries(Folding(s, n))
         /\ Folding(s, n).next = s /\ Folding(s, n).at = "fold"
         /\ \A m \in Create : Owns(Folding(s, n), m) => m = n
  BY DEF Folding, Doing, Carries, Owns

LEMMA OfOK ==
  ASSUME NEW d \in Deal, NEW stage \in {"asking", "offer", "child"}
  PROVE  Of(d, stage) \in Session /\ SessionOK(Of(d, stage)) /\ Marked(Of(d, stage))
  BY NothingIsNew DEF Of, Session, SessionOK, Marked

(* A session that is not empty has a deal.                                  *)
LEMMA HasDeal ==
  ASSUME NEW s, SessionOK(s), s.stage # "none"
  PROVE  s.deal \in Deal
  BY DEF SessionOK, Session

LEMMA Initially == Init => IInv
<1> SUFFICES ASSUME Init PROVE IInv
  OBVIOUS
<1>1. TypeOK
  BY NoSessionOK, IdleOK, RestartsAreNumbers
  DEF Init, TypeOK, Carries
<1>2. Marked(slot) /\ Marked(row)
  BY NoSessionOK DEF Init
<1>3. \A t \in Thread : Marked(thread[t].next) /\ Carries(thread[t])
  BY IdleOK DEF Init
<1>4. Owned /\ OneOwner
  BY IdleOK DEF Init, Owned, OneOwner
<1>5. RightDeal /\ FoldedOnce
  BY DEF Init, RightDeal, FoldedOnce
<1> QED
  BY <1>1, <1>2, <1>3, <1>4, <1>5 DEF IInv

-----------------------------------------------------------------------------
(* One thread goes on, no record is folded and no proposal is made.         *)
LEMMA Step ==
  ASSUME IInv, NEW t \in Thread, NEW h \in Doing,
         thread' = [thread EXCEPT ![t] = h],
         Carries(h), Marked(h.next),
         UNCHANGED <<origin, folded>>,
         SessionOK(slot'), SessionOK(row'), Marked(slot'), Marked(row'),
         begun' \subseteq Deal, fired' \in [Create -> Nat], restarts' = restarts,
         status' \in [Create -> Statuses],
         \A n \in Create : status[n] # "none" => status'[n] # "none",
         \A n \in Create : status[n] = "completed" => status'[n] = "completed",
         \A n \in Create, u \in Thread \ {t} :
           Owns(thread[u], n) => status'[n] = status[n],
         \A n \in Create : Owns(h, n) =>
           /\ status'[n] = Reached(h)
           /\ Unfolded(n)
           /\ \A u \in Thread \ {t} : ~Owns(thread[u], n)
  PROVE  IInv'
<1>0. TypeOK /\ thread \in [Thread -> Doing]
  BY DEF IInv, TypeOK
<1>1. \A u \in Thread : thread'[u] = IF u = t THEN h ELSE thread[u]
  BY <1>0
<1>2. \A s : Marked(s) => Marked(s)'
  BY DEF Marked
<1>3. \A u \in Thread : Carries(thread'[u]) /\ Marked(thread'[u].next)
  BY <1>1 DEF IInv
<1>4. TypeOK'
  BY <1>0, <1>1, <1>3 DEF TypeOK, Carries, Statuses
<1>5. Marked(slot)' /\ Marked(row)'
  BY DEF Marked
<1>6. \A u \in Thread : Marked(thread[u].next)'
  BY <1>3 DEF Marked
<1>7. \A u \in Thread : Carries(thread[u])'
  BY <1>3 DEF Carries, SessionOK
<1>8. Owned'
  <2> SUFFICES ASSUME NEW u \in Thread, NEW n \in Create, Owns(thread'[u], n)
               PROVE  status'[n] = Reached(thread'[u]) /\ Unfolded(n)
    BY DEF Owned, Owns, Reached, Unfolded
  <2>1. CASE u = t
    BY <2>1, <1>1
  <2>2. CASE u # t
    BY <2>2, <1>1 DEF IInv, Owned
  <2> QED
    BY <2>1, <2>2
<1>9. OneOwner'
  <2> SUFFICES ASSUME NEW u \in Thread, NEW v \in Thread, NEW n \in Create,
                      Owns(thread'[u], n), Owns(thread'[v], n)
               PROVE  u = v
    BY DEF OneOwner, Owns
  <2> QED
    BY <1>1 DEF IInv, OneOwner
<1>10. RightDeal'
  BY DEF IInv, RightDeal
<1>11. FoldedOnce'
  BY DEF IInv, FoldedOnce
<1> QED
  BY <1>4, <1>5, <1>6, <1>7, <1>8, <1>9, <1>10, <1>11 DEF IInv

(* The same when no contract changes its status.                            *)
LEMMA StepQuiet ==
  ASSUME IInv, NEW t \in Thread, NEW h \in Doing,
         thread' = [thread EXCEPT ![t] = h],
         Carries(h), Marked(h.next),
         UNCHANGED <<origin, folded, status>>,
         SessionOK(slot'), SessionOK(row'), Marked(slot'), Marked(row'),
         begun' \subseteq Deal, fired' \in [Create -> Nat], restarts' = restarts,
         \A n \in Create : Owns(h, n) =>
           /\ status[n] = Reached(h)
           /\ Unfolded(n)
           /\ \A u \in Thread \ {t} : ~Owns(thread[u], n)
  PROVE  IInv'
<1>1. status \in [Create -> Statuses]
  BY DEF IInv, TypeOK, Statuses
<1> QED
  BY <1>1, Step, Zenon

LEMMA StoreOK ==
  ASSUME IInv, NEW s \in Session, SessionOK(s), Marked(s), Store(s)
  PROVE  SessionOK(slot') /\ SessionOK(row') /\ Marked(slot') /\ Marked(row')
<1>1. slot' = s /\ (row' = s \/ row' = row)
  BY DEF Store
<1> QED
  BY <1>1 DEF IInv, TypeOK

(* What an unchanged session gives.                                         *)
LEMMA KeptOK ==
  ASSUME IInv, slot' = slot, row' = row
  PROVE  SessionOK(slot') /\ SessionOK(row') /\ Marked(slot') /\ Marked(row')
  BY DEF IInv, TypeOK

-----------------------------------------------------------------------------
LEMMA ContinuedOK ==
  ASSUME IInv, NEW t \in Thread, NEW record \in BOOLEAN,
         thread[t].nonce \in Create, Continued(t, record),
         UNCHANGED <<slot, row, begun, status, origin, folded, restarts>>,
         fired' \in [Create -> Nat],
         record => Owns(thread[t], thread[t].nonce) /\ thread[t].at = "look"
  PROVE  IInv'
<1> DEFINE n == thread[t].nonce
<1>0. TypeOK /\ SessionOK(slot) /\ Marked(slot) /\ slot \in Session /\ n \in Create
  BY DEF IInv, TypeOK, SessionOK
<1>1. begun' \subseteq Deal /\ restarts' = restarts
  BY <1>0 DEF TypeOK
<1>2. SessionOK(slot') /\ SessionOK(row') /\ Marked(slot') /\ Marked(row')
  BY KeptOK
<1>3. CASE Correlated(n) /\ record /\ Does(t, Folding(slot, n))
  <2>1. /\ Folding(slot, n) \in Doing /\ Carries(Folding(slot, n))
        /\ Folding(slot, n).next = slot /\ Folding(slot, n).at = "fold"
        /\ \A m \in Create : Owns(Folding(slot, n), m) => m = n
    BY <1>0, <1>3, FoldingOK DEF Correlated
  <2>2. status[n] = "completed" /\ Unfolded(n)
    BY <1>0, <1>3 DEF IInv, Owned, Reached
  <2>3. \A u \in Thread \ {t} : ~Owns(thread[u], n)
    BY <1>0, <1>3 DEF IInv, OneOwner
  <2>4. \A m \in Create : Owns(Folding(slot, n), m) =>
          /\ status[m] = Reached(Folding(slot, n))
          /\ Unfolded(m)
          /\ \A u \in Thread \ {t} : ~Owns(thread[u], m)
    BY <2>1, <2>2, <2>3 DEF Reached
  <2> QED
    BY <1>0, <1>1, <1>2, <1>3, <2>1, <2>4, StepQuiet DEF Does
<1>4. CASE Correlated(n) /\ Does(t, Putting(Of(slot.deal, "asking")))
  <2>1. slot.deal \in Deal
    BY <1>0, <1>4, HasDeal DEF Correlated
  <2> DEFINE s == Of(slot.deal, "asking")
  <2>2. s \in Session /\ SessionOK(s) /\ Marked(s)
    BY <2>1, OfOK
  <2>3. /\ Putting(s) \in Doing /\ Carries(Putting(s)) /\ Putting(s).next = s
        /\ \A m \in Create : ~Owns(Putting(s), m)
    BY <2>2, PuttingOK
  <2> QED
    BY <1>1, <1>2, <1>4, <2>2, <2>3, StepQuiet DEF Does
<1>5. CASE Does(t, Idle)
  BY <1>1, <1>2, <1>5, IdleOK, StepQuiet DEF Does
<1> QED
  BY <1>3, <1>4, <1>5 DEF Continued

LEMMA BeginKeeps == ASSUME IInv, NEW t \in Thread, NEW d \in Deal, Begin(t, d)
                    PROVE  IInv'
<1>1. begun' \subseteq Deal /\ restarts' = restarts /\ fired' \in [Create -> Nat]
  BY DEF IInv, TypeOK, Begin
<1>2. SessionOK(slot') /\ SessionOK(row') /\ Marked(slot') /\ Marked(row')
  BY KeptOK, NoSessionOK, StoreOK DEF Begin
<1>3. Of(d, "asking") \in Session /\ SessionOK(Of(d, "asking")) /\ Marked(Of(d, "asking"))
  BY OfOK
<1> QED
  BY <1>1, <1>2, <1>3, PuttingOK, StepQuiet DEF Begin, Does

LEMMA DropKeeps == ASSUME IInv, NEW t \in Thread, Drop(t) PROVE IInv'
<1>1. begun' \subseteq Deal /\ restarts' = restarts /\ fired' \in [Create -> Nat]
  BY DEF IInv, TypeOK, Drop
<1>2. SessionOK(slot') /\ SessionOK(row') /\ Marked(slot') /\ Marked(row')
  BY NoSessionOK, StoreOK DEF Drop
<1>3. thread[t] \in Doing /\ Carries(thread[t]) /\ Marked(thread[t].next)
      /\ thread' = [thread EXCEPT ![t] = thread[t]]
  BY DEF IInv, TypeOK, Drop
<1>4. \A n \in Create : ~Owns(thread[t], n)
  BY DEF Drop, Free, Owns
<1> QED
  BY <1>1, <1>2, <1>3, <1>4, StepQuiet DEF Drop

LEMMA AnswerKeeps == ASSUME IInv, NEW t \in Thread, Answer(t) PROVE IInv'
<1>1. begun' \subseteq Deal /\ restarts' = restarts /\ fired' \in [Create -> Nat]
  BY DEF IInv, TypeOK, Answer
<1>2. SessionOK(slot') /\ SessionOK(row') /\ Marked(slot') /\ Marked(row')
  BY KeptOK DEF Answer
<1>3. PICK s \in Answered(slot) : Does(t, Putting(s))
  BY DEF Answer
<1>4. slot \in Session /\ SessionOK(slot) /\ Marked(slot)
  BY DEF IInv, TypeOK, SessionOK
<1>5. slot.stage # "none" => slot.deal \in Deal
  BY <1>4, HasDeal
<1>6. s \in Session /\ SessionOK(s) /\ Marked(s)
  BY <1>3, <1>4, <1>5, OfOK, NoSessionOK DEF Answered
<1> QED
  BY <1>1, <1>2, <1>3, <1>6, PuttingOK, StepQuiet DEF Answer, Does

LEMMA PutKeeps == ASSUME IInv, NEW t \in Thread, Put(t) PROVE IInv'
<1>1. begun' \subseteq Deal /\ restarts' = restarts /\ fired' \in [Create -> Nat]
  BY DEF IInv, TypeOK, Put
<1>2. thread[t].next \in Session /\ SessionOK(thread[t].next) /\ Marked(thread[t].next)
  BY DEF IInv, TypeOK, SessionOK
<1>3. SessionOK(slot') /\ SessionOK(row') /\ Marked(slot') /\ Marked(row')
  BY <1>2, StoreOK DEF Put
<1> QED
  BY <1>1, <1>3, IdleOK, StepQuiet DEF Put, Does

LEMMA PressKeeps == ASSUME IInv, NEW t \in Thread, NEW n \in Create,
                           NEW at \in {"press", "say", "refuse"}, Press(t, n, at)
                    PROVE  IInv'
<1>1. begun' \subseteq Deal /\ restarts' = restarts /\ fired' \in [Create -> Nat]
  BY DEF IInv, TypeOK, Press
<1>2. SessionOK(slot') /\ SessionOK(row') /\ Marked(slot') /\ Marked(row')
  BY KeptOK DEF Press
<1>3. /\ Handling(at, n, FALSE) \in Doing /\ Carries(Handling(at, n, FALSE))
      /\ Handling(at, n, FALSE).next = NoSession
      /\ \A m \in Create : ~Owns(Handling(at, n, FALSE), m)
  BY HandlingNothing
<1> QED
  BY <1>1, <1>2, <1>3, NoSessionOK, StepQuiet DEF Press, Does

-----------------------------------------------------------------------------
LEMMA ApproveKeeps == ASSUME IInv, NEW t \in Thread, Approve(t) PROVE IInv'
<1> DEFINE n == thread[t].nonce
<1>0. TypeOK /\ n \in Create /\ status \in [Create -> Statuses]
  BY DEF IInv, TypeOK, Approve, Carries, Statuses
<1>1. begun' \subseteq Deal /\ restarts' = restarts /\ fired' \in [Create -> Nat]
  BY <1>0 DEF TypeOK, Approve
<1>2. SessionOK(slot') /\ SessionOK(row') /\ Marked(slot') /\ Marked(row')
  BY KeptOK DEF Approve
<1>3. UNCHANGED <<origin, folded>>
  BY DEF Approve
<1>4. CASE /\ status[n] = "pending"
           /\ status' = [status EXCEPT ![n] = "executing"]
           /\ Does(t, Handling("run", n, FALSE))
  <2>1. PICK h \in Doing : h = Handling("run", n, FALSE)
    BY <1>0, HandlingNothing
  <2>2. /\ Carries(h) /\ Marked(h.next) /\ h.at = "run"
        /\ \A m \in Create : Owns(h, m) => m = n
    <3> DEFINE g == Handling("run", n, FALSE)
    <3>1. /\ Carries(g) /\ g.next = NoSession /\ g.at = "run"
          /\ \A m \in Create : Owns(g, m) => m = n
      BY <1>0, HandlingNothing
    <3> QED BY <2>1, <3>1, NoSessionOK
  <2>3. Unfolded(n) /\ \A u \in Thread : ~Owns(thread[u], n)
    <3>1. \A u \in Thread : ~Owns(thread[u], n)
      BY <1>0, <1>4 DEF IInv, Owned, Reached
    <3>2. ASSUME NEW d \in Deal PROVE folded[n][d] = 0
      <4>1. ~(folded[n][d] > 0)
        BY <1>0, <1>4 DEF IInv, RightDeal
      <4>2. folded[n][d] \in Nat
        BY <1>0 DEF TypeOK
      <4> QED BY <4>1, <4>2
    <3> QED BY <3>1, <3>2 DEF Unfolded
  <2>4. /\ status' \in [Create -> Statuses]
        /\ status'[n] = "executing"
        /\ \A m \in Create : m # n => status'[m] = status[m]
    BY <1>0, <1>4 DEF Statuses
  <2> HIDE DEF n
  <2>5. /\ \A m \in Create : status[m] # "none" => status'[m] # "none"
        /\ \A m \in Create : status[m] = "completed" => status'[m] = "completed"
        /\ \A m \in Create, u \in Thread \ {t} : Owns(thread[u], m) => status'[m] = status[m]
    BY <1>4, <2>3, <2>4
  <2>6. \A m \in Create : Owns(h, m) =>
          /\ status'[m] = Reached(h)
          /\ Unfolded(m)
          /\ \A u \in Thread \ {t} : ~Owns(thread[u], m)
    BY <2>2, <2>3, <2>4 DEF Reached
  <2>7. thread' = [thread EXCEPT ![t] = h]
    BY <1>4, <2>1 DEF Does
  <2> QED
    BY <1>1, <1>2, <1>3, <2>2, <2>4, <2>5, <2>6, <2>7, Step
<1>5. CASE Does(t, Handling("look", n, FALSE)) /\ UNCHANGED status
  <2>1. /\ Handling("look", n, FALSE) \in Doing /\ Carries(Handling("look", n, FALSE))
        /\ Handling("look", n, FALSE).next = NoSession
        /\ \A m \in Create : ~Owns(Handling("look", n, FALSE), m)
    BY <1>0, HandlingNothing
  <2> QED
    BY <1>1, <1>2, <1>3, <1>5, <2>1, NoSessionOK, StepQuiet DEF Does
<1>6. CASE Does(t, Idle) /\ UNCHANGED status
  BY <1>1, <1>2, <1>3, <1>6, IdleOK, StepQuiet DEF Does
<1> QED
  BY <1>4, <1>5, <1>6 DEF Approve

LEMMA ExecuteKeeps == ASSUME IInv, NEW t \in Thread, Execute(t) PROVE IInv'
<1> DEFINE n == thread[t].nonce
<1>0. TypeOK /\ n \in Create /\ status \in [Create -> Statuses]
  BY DEF IInv, TypeOK, Execute, Carries, Statuses
<1>1. begun' \subseteq Deal /\ restarts' = restarts /\ fired' \in [Create -> Nat]
  BY <1>0 DEF TypeOK, Execute
<1>2. SessionOK(slot') /\ SessionOK(row') /\ Marked(slot') /\ Marked(row')
  BY KeptOK DEF Execute
<1>3. UNCHANGED <<origin, folded>>
  BY DEF Execute
<1>4. Owns(thread[t], n) /\ status[n] = "executing" /\ Unfolded(n)
  BY <1>0 DEF Owns, Execute, IInv, Owned, Reached
<1>5. \A u \in Thread \ {t} : ~Owns(thread[u], n)
  BY <1>0, <1>4 DEF IInv, OneOwner
<1>6. PICK record \in BOOLEAN, after \in {"completed", "failed"} :
        /\ status' = [status EXCEPT ![n] = after]
        /\ record => after = "completed"
        /\ Does(t, Handling("look", n, record))
  BY DEF Execute
<1>7. PICK h \in Doing : h = Handling("look", n, record)
  BY <1>0, HandlingOK
<1>8. /\ Carries(h) /\ Marked(h.next) /\ h.at = "look"
      /\ \A m \in Create : Owns(h, m) => m = n /\ record
  BY <1>0, <1>7, HandlingOK, NoSessionOK
<1>9. /\ status' \in [Create -> Statuses]
      /\ status'[n] = after
      /\ \A m \in Create : m # n => status'[m] = status[m]
  BY <1>0, <1>6 DEF Statuses
<1>10. thread' = [thread EXCEPT ![t] = h]
  BY <1>6, <1>7 DEF Does
<1>11. record => after = "completed"
  BY <1>6
<1> HIDE DEF n
<1>12. /\ \A m \in Create : status[m] # "none" => status'[m] # "none"
       /\ \A m \in Create : status[m] = "completed" => status'[m] = "completed"
       /\ \A m \in Create, u \in Thread \ {t} : Owns(thread[u], m) => status'[m] = status[m]
  BY <1>4, <1>5, <1>9
<1>13. \A m \in Create : Owns(h, m) =>
         /\ status'[m] = Reached(h)
         /\ Unfolded(m)
         /\ \A u \in Thread \ {t} : ~Owns(thread[u], m)
  BY <1>4, <1>5, <1>8, <1>9, <1>11 DEF Reached
<1> QED
  BY <1>1, <1>2, <1>3, <1>8, <1>9, <1>10, <1>12, <1>13, Step

LEMMA RejectKeeps == ASSUME IInv, NEW t \in Thread, Reject(t) PROVE IInv'
<1> DEFINE n == thread[t].nonce
<1>0. TypeOK /\ n \in Create /\ status \in [Create -> Statuses]
  BY DEF IInv, TypeOK, Reject, Carries, Statuses
<1>1. begun' \subseteq Deal /\ restarts' = restarts /\ fired' \in [Create -> Nat]
  BY <1>0 DEF TypeOK, Reject
<1>2. SessionOK(slot') /\ SessionOK(row') /\ Marked(slot') /\ Marked(row')
  BY KeptOK DEF Reject
<1>3. UNCHANGED <<origin, folded>>
  BY DEF Reject
<1>4. CASE /\ status[n] \in {"pending", "rejected"}
           /\ status' = [status EXCEPT ![n] = "rejected"]
           /\ Does(t, Handling("tidy", n, FALSE))
  <2>1. PICK h \in Doing : h = Handling("tidy", n, FALSE)
    BY <1>0, HandlingNothing
  <2>2. /\ Carries(h) /\ Marked(h.next)
        /\ \A m \in Create : ~Owns(h, m)
    BY <1>0, <2>1, HandlingNothing, NoSessionOK
  <2>3. \A u \in Thread : ~Owns(thread[u], n)
    BY <1>0, <1>4 DEF IInv, Owned, Reached
  <2>4. /\ status' \in [Create -> Statuses]
        /\ status'[n] = "rejected"
        /\ \A m \in Create : m # n => status'[m] = status[m]
    BY <1>0, <1>4 DEF Statuses
  <2>5. thread' = [thread EXCEPT ![t] = h]
    BY <1>4, <2>1 DEF Does
  <2> HIDE DEF n
  <2>6. /\ \A m \in Create : status[m] # "none" => status'[m] # "none"
        /\ \A m \in Create : status[m] = "completed" => status'[m] = "completed"
        /\ \A m \in Create, u \in Thread \ {t} : Owns(thread[u], m) => status'[m] = status[m]
    BY <1>4, <2>3, <2>4
  <2> QED
    BY <1>1, <1>2, <1>3, <2>2, <2>4, <2>5, <2>6, Step
<1>5. CASE Does(t, Idle) /\ UNCHANGED status
  BY <1>1, <1>2, <1>3, <1>5, IdleOK, StepQuiet DEF Does
<1> QED
  BY <1>4, <1>5 DEF Reject

LEMMA LookKeeps == ASSUME IInv, NEW t \in Thread, Look(t) PROVE IInv'
<1> DEFINE n == thread[t].nonce
<1>0. TypeOK /\ n \in Create
  BY DEF IInv, TypeOK, Look, Carries
<1>1. fired' \in [Create -> Nat]
  BY <1>0 DEF TypeOK, Look
<1>2. CASE status[n] = "completed" /\ Continued(t, thread[t].record)
  <2>1. PICK record \in BOOLEAN : record = thread[t].record
    BY <1>0 DEF TypeOK, Doing
  <2>2. record => Owns(thread[t], n) /\ thread[t].at = "look"
    BY <2>1 DEF Owns, Look
  <2>3. Continued(t, record)
    BY <1>2, <2>1
  <2> QED
    BY <1>0, <1>1, <2>2, <2>3, ContinuedOK DEF Look
<1>3. CASE Does(t, Idle) /\ UNCHANGED fired
  <2>1. begun' \subseteq Deal /\ restarts' = restarts
    BY <1>0 DEF TypeOK, Look
  <2>2. SessionOK(slot') /\ SessionOK(row') /\ Marked(slot') /\ Marked(row')
    BY KeptOK DEF Look
  <2> QED
    BY <1>1, <1>3, <2>1, <2>2, IdleOK, StepQuiet DEF Does, Look
<1> QED
  BY <1>2, <1>3 DEF Look

LEMMA TidyKeeps == ASSUME IInv, NEW t \in Thread, Tidy(t) PROVE IInv'
<1>1. thread[t].nonce \in Create /\ fired' \in [Create -> Nat]
  BY DEF IInv, TypeOK, Tidy, Carries
<1>2. PICK record \in BOOLEAN : record = FALSE
  OBVIOUS
<1>3. Continued(t, record)
  BY <1>2 DEF Tidy
<1> QED
  BY <1>1, <1>2, <1>3, ContinuedOK DEF Tidy

(* A proposal gets a nonce that no session, no thread and no deal has seen. *)
LEMMA ProposeKeeps == ASSUME IInv, NEW t \in Thread, NEW n \in Create, Propose(t, n)
                      PROVE  IInv'
<1> DEFINE s == Parked(slot.deal, n)
<1>0. TypeOK /\ thread \in [Thread -> Doing] /\ SessionOK(slot)
      /\ slot.deal \in Deal /\ status[n] = "none"
  BY HasDeal DEF IInv, TypeOK, Propose
<1>1. s \in Session /\ SessionOK(s) /\ s.nonce = n /\ s.deal = slot.deal
  BY <1>0, NothingIsNew DEF Parked, Session, SessionOK
<1>2. PICK h \in Doing : h = Putting(s)
  BY <1>1, PuttingOK
<1>3. Carries(h) /\ h.next = s /\ \A m \in Create : ~Owns(h, m)
  BY <1>1, <1>2, PuttingOK
<1>4. thread' = [thread EXCEPT ![t] = h]
  BY <1>2 DEF Propose, Does
<1>5. \A u \in Thread : thread'[u] = IF u = t THEN h ELSE thread[u]
  BY <1>0, <1>4
<1>6. /\ origin' \in [Create -> Deal \cup {Nothing}]
      /\ origin'[n] = slot.deal
      /\ \A m \in Create : m # n => origin'[m] = origin[m]
  BY <1>0 DEF Propose, TypeOK
<1>7. /\ status' \in [Create -> Statuses]
      /\ status'[n] \in {"pending", "refused"}
      /\ \A m \in Create : m # n => status'[m] = status[m]
  BY <1>0 DEF Propose, TypeOK, Statuses
<1>8. slot' = slot /\ row' = row /\ folded' = folded /\ fired' = fired
      /\ begun' = begun /\ restarts' = restarts
  BY DEF Propose
<1> HIDE DEF s
<1>9. \A x : Marked(x) => Marked(x)'
  BY <1>0, <1>6, <1>7 DEF Marked
<1>10. Marked(h.next)'
  BY <1>1, <1>3, <1>6, <1>7 DEF Marked
<1>11. TypeOK'
  BY <1>0, <1>3, <1>5, <1>6, <1>7, <1>8, <1>4 DEF TypeOK, Carries, Statuses
<1>12. Marked(slot)' /\ Marked(row)'
  BY <1>8, <1>9 DEF IInv, Marked
<1>13. \A u \in Thread : Marked(thread[u].next)' /\ Carries(thread[u])'
  <2> SUFFICES ASSUME NEW u \in Thread
               PROVE  Marked(thread[u].next)' /\ Carries(thread[u])'
    OBVIOUS
  <2>1. CASE u = t
    BY <1>3, <1>5, <1>10, <2>1 DEF Marked, Carries, SessionOK
  <2>2. CASE u # t
    BY <1>5, <1>9, <2>2 DEF IInv, Marked, Carries, SessionOK
  <2> QED
    BY <2>1, <2>2
<1>14. \A u \in Thread : ~Owns(thread[u], n)
  BY <1>0 DEF IInv, Owned, Reached
<1>15. \A u \in Thread, m \in Create : Owns(thread'[u], m) =>
         u # t /\ m # n /\ thread'[u] = thread[u] /\ Owns(thread[u], m)
  BY <1>3, <1>5, <1>14
<1>16. Owned'
  <2> SUFFICES ASSUME NEW u \in Thread, NEW m \in Create, Owns(thread'[u], m)
               PROVE  status'[m] = Reached(thread'[u]) /\ Unfolded(m)
    BY <1>8 DEF Owned, Owns, Reached, Unfolded
  <2> QED
    BY <1>7, <1>15 DEF IInv, Owned
<1>17. OneOwner'
  <2> SUFFICES ASSUME NEW u \in Thread, NEW v \in Thread, NEW m \in Create,
                      Owns(thread'[u], m), Owns(thread'[v], m)
               PROVE  u = v
    BY DEF OneOwner, Owns
  <2> QED
    BY <1>15 DEF IInv, OneOwner
<1>18. RightDeal' /\ FoldedOnce'
  BY <1>0, <1>6, <1>7, <1>8 DEF IInv, RightDeal, FoldedOnce, TypeOK
<1> QED
  BY <1>11, <1>12, <1>13, <1>16, <1>17, <1>18 DEF IInv

(* The one owner of the record of n folds it, and no longer owns it.        *)
LEMMA FoldKeeps == ASSUME IInv, NEW t \in Thread, Fold(t) PROVE IInv'
<1> DEFINE n == thread[t].nonce
           d == thread[t].next.deal
<1>0. TypeOK /\ thread \in [Thread -> Doing] /\ n \in Create /\ Carries(thread[t])
      /\ Marked(thread[t].next)
  BY DEF IInv, TypeOK, Fold, Carries
<1>1. thread[t].record /\ thread[t].next.nonce = n /\ n # Nothing
  BY <1>0, NothingIsNew DEF Fold, Carries
<1>2. d \in Deal /\ origin[n] = d
  BY <1>0, <1>1 DEF Carries, SessionOK, Session, Marked
<1>3. Owns(thread[t], n)
  BY <1>1 DEF Owns, Fold
<1>4. status[n] = "completed" /\ Unfolded(n)
  BY <1>0, <1>3 DEF IInv, Owned, Reached, Fold
<1>5. \A u \in Thread : u # t => ~Owns(thread[u], n)
  BY <1>0, <1>3 DEF IInv, OneOwner
<1>6. PICK h \in Doing : h = Putting(NoSession)
  BY NoSessionOK, PuttingOK
<1>7. Carries(h) /\ h.next = NoSession /\ \A m \in Create : ~Owns(h, m)
  BY <1>6, NoSessionOK, PuttingOK
<1>8. thread' = [thread EXCEPT ![t] = h]
  BY <1>6 DEF Fold, Does
<1>9. \A u \in Thread : thread'[u] = IF u = t THEN h ELSE thread[u]
  BY <1>0, <1>8
<1>10. slot' = slot /\ row' = row /\ status' = status /\ origin' = origin
       /\ fired' = fired /\ begun' = begun /\ restarts' = restarts
  BY DEF Fold
<1>11. folded' = folded \/ folded' = [folded EXCEPT ![n][d] = @ + 1]
  BY DEF Fold
<1> HIDE DEF n, d
<1>12. /\ folded' \in [Create -> [Deal -> Nat]]
       /\ folded'[n][d] <= 1
       /\ \A m \in Create, e \in Deal : <<m, e>> # <<n, d>> => folded'[m][e] = folded[m][e]
  BY <1>0, <1>2, <1>4, <1>11 DEF TypeOK, Unfolded
<1>13. \A x : Marked(x) => Marked(x)'
  BY <1>10 DEF Marked
<1>14. TypeOK'
  BY <1>0, <1>7, <1>8, <1>9, <1>10, <1>12 DEF TypeOK, Carries
<1>15. Marked(slot)' /\ Marked(row)'
  BY <1>10 DEF IInv, Marked
<1>16. \A u \in Thread : Marked(thread[u].next)' /\ Carries(thread[u])'
  <2> SUFFICES ASSUME NEW u \in Thread
               PROVE  Marked(thread[u].next)' /\ Carries(thread[u])'
    OBVIOUS
  <2>1. CASE u = t
    BY <1>7, <1>9, <1>10, <2>1, NoSessionOK DEF Marked, Carries, SessionOK
  <2>2. CASE u # t
    BY <1>9, <1>10, <2>2 DEF IInv, Marked, Carries, SessionOK
  <2> QED
    BY <2>1, <2>2
<1>17. \A u \in Thread, m \in Create : Owns(thread'[u], m) =>
         u # t /\ m # n /\ thread'[u] = thread[u] /\ Owns(thread[u], m)
  BY <1>5, <1>7, <1>9
<1>18. Owned'
  <2> SUFFICES ASSUME NEW u \in Thread, NEW m \in Create, Owns(thread'[u], m)
               PROVE  status'[m] = Reached(thread'[u]) /\ \A e \in Deal : folded'[m][e] = 0
    BY DEF Owned, Owns, Reached, Unfolded
  <2> QED
    BY <1>10, <1>12, <1>17 DEF IInv, Owned, Unfolded
<1>19. OneOwner'
  <2> SUFFICES ASSUME NEW u \in Thread, NEW v \in Thread, NEW m \in Create,
                      Owns(thread'[u], m), Owns(thread'[v], m)
               PROVE  u = v
    BY DEF OneOwner, Owns
  <2> QED
    BY <1>17 DEF IInv, OneOwner
<1>20. RightDeal'
  BY <1>2, <1>4, <1>10, <1>12 DEF IInv, RightDeal
<1>21. FoldedOnce'
  BY <1>12 DEF IInv, FoldedOnce
<1> QED
  BY <1>14, <1>15, <1>16, <1>18, <1>19, <1>20, <1>21 DEF IInv

LEMMA RejectQuietlyKeeps == ASSUME IInv, NEW n \in Create, RejectQuietly(n)
                            PROVE  IInv'
<1>0. TypeOK
  BY DEF IInv
<1>1. /\ status' \in [Create -> Statuses]
      /\ status[n] = "pending" /\ status'[n] = "rejected"
      /\ \A m \in Create : m # n => status'[m] = status[m]
  BY <1>0 DEF RejectQuietly, TypeOK, Statuses
<1>2. UNCHANGED <<slot, row, begun, origin, thread, folded, fired, restarts>>
  BY DEF RejectQuietly
<1>3. \A u \in Thread : ~Owns(thread[u], n)
  BY <1>1 DEF IInv, Owned, Reached
<1>4. TypeOK'
  BY <1>0, <1>1, <1>2 DEF TypeOK, SessionOK, Statuses
<1>5. Marked(slot)' /\ Marked(row)' /\ \A u \in Thread : Marked(thread[u].next)'
  BY <1>1, <1>2 DEF IInv, Marked
<1>6. \A u \in Thread : Carries(thread[u])'
  BY <1>2 DEF IInv, Carries, SessionOK
<1>7. Owned'
  <2> SUFFICES ASSUME NEW u \in Thread, NEW m \in Create, Owns(thread[u], m)
               PROVE  status'[m] = Reached(thread[u]) /\ Unfolded(m)
    BY <1>2 DEF Owned, Owns, Reached, Unfolded
  <2> QED
    BY <1>1, <1>3 DEF IInv, Owned
<1>8. OneOwner' /\ FoldedOnce'
  BY <1>2 DEF IInv, OneOwner, Owns, FoldedOnce
<1>9. RightDeal'
  BY <1>1, <1>2 DEF IInv, RightDeal
<1> QED
  BY <1>4, <1>5, <1>6, <1>7, <1>8, <1>9 DEF IInv

LEMMA RestartKeeps == ASSUME IInv, Restart PROVE IInv'
<1>0. TypeOK
  BY DEF IInv
<1>1. UNCHANGED <<row, begun, status, origin, folded, fired>> /\ slot' = row
      /\ restarts' \in 0 .. MaxRestarts
  BY <1>0, RestartsAreNumbers DEF Restart, TypeOK
<1>2. thread' \in [Thread -> Doing] /\ \A u \in Thread : thread'[u] = Idle
  BY IdleOK DEF Restart
<1>3. TypeOK'
  BY <1>0, <1>1, <1>2, IdleOK DEF TypeOK, SessionOK, Carries
<1>4. Marked(slot)' /\ Marked(row)'
  BY <1>1 DEF IInv, Marked
<1>5. \A u \in Thread : Marked(thread[u].next)' /\ Carries(thread[u])'
  BY <1>2, IdleOK, NoSessionOK DEF Marked, Carries, SessionOK, Idle, NoSession
<1>6. Owned' /\ OneOwner'
  BY <1>2, IdleOK DEF Owned, OneOwner, Owns
<1>7. RightDeal' /\ FoldedOnce'
  BY <1>1 DEF IInv, RightDeal, FoldedOnce
<1> QED
  BY <1>3, <1>4, <1>5, <1>6, <1>7 DEF IInv

LEMMA StutterKeeps == ASSUME IInv, UNCHANGED vars PROVE IInv'
  BY DEF IInv, vars, TypeOK, SessionOK, Marked, Carries, Owned, OneOwner, Owns,
         Reached, Unfolded, RightDeal, FoldedOnce

-----------------------------------------------------------------------------
LEMMA StepKeeps == IInv /\ [Next]_vars => IInv'
<1> SUFFICES ASSUME IInv, [Next]_vars PROVE IInv'
  OBVIOUS
<1>1. CASE UNCHANGED vars
  BY <1>1, StutterKeeps
<1>2. CASE Restart
  BY <1>2, RestartKeeps
<1>3. ASSUME NEW n \in Create, RejectQuietly(n) PROVE IInv'
  BY <1>3, RejectQuietlyKeeps
<1>4. ASSUME NEW t \in Thread,
             Drop(t) \/ Answer(t) \/ Put(t) \/ \E d \in Deal : Begin(t, d)
      PROVE  IInv'
  BY <1>4, DropKeeps, AnswerKeeps, PutKeeps, BeginKeeps
<1>5. ASSUME NEW t \in Thread,
             \/ \E n \in Create : Propose(t, n)
             \/ \E n \in Create, at \in {"press", "say", "refuse"} : Press(t, n, at)
      PROVE  IInv'
  BY <1>5, ProposeKeeps, PressKeeps
<1>6. ASSUME NEW t \in Thread,
             \/ Approve(t) \/ Execute(t) \/ Reject(t) \/ Look(t) \/ Tidy(t) \/ Fold(t)
      PROVE  IInv'
  BY <1>6, ApproveKeeps, ExecuteKeeps, RejectKeeps, LookKeeps, TidyKeeps, FoldKeeps
<1> QED
  BY <1>1, <1>2, <1>3, <1>4, <1>5, <1>6 DEF Next

(* Every reachable state satisfies the inductive invariant.                 *)
THEOREM Inductive == Spec => []IInv
<1>1. Init => IInv
  BY Initially
<1>2. IInv /\ [Next]_vars => IInv'
  BY StepKeeps
<1> QED
  BY <1>1, <1>2, PTL DEF Spec

(* Sessions, threads and contracts keep their shape.                        *)
THEOREM TypeCorrect == Spec => []TypeOK
<1>1. IInv => TypeOK
  BY DEF IInv
<1> QED
  BY <1>1, Inductive, PTL

(* A record goes only into the deal whose completion proposed its creation, *)
(* once the creation was performed, whatever the threads do in between.     *)
THEOREM RecordGoesHome == Spec => []RightDeal
<1>1. IInv => RightDeal
  BY DEF IInv
<1> QED
  BY <1>1, Inductive, PTL

(* It goes there at most once, although an approval may be continued twice. *)
THEOREM RecordGoesOnce == Spec => []FoldedOnce
<1>1. IInv => FoldedOnce
  BY DEF IInv
<1> QED
  BY <1>1, Inductive, PTL
=============================================================================
