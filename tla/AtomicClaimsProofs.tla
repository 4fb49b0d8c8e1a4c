------------------------- MODULE AtomicClaimsProofs -------------------------
(***************************************************************************)
(* Proofs about the claim table for any number of contracts, keys and      *)
(* attempts.  The inductive invariant ties the two halves of the state     *)
(* together: a row names the attempt that inserted it, an attempt that     *)
(* acquired still finds its row, and only parked rows share a key.         *)
(***************************************************************************)
EXTENDS AtomicClaimsRefinement, TLAPS

(* An attempt past "idle" knows its contract and key; only an attempt that  *)
(* acquired dispatches, writes or has an outcome.                           *)
AttemptShape ==
    \A a \in Attempt :
       /\ att[a].pc # "idle" => att[a].contract \in Contract /\ att[a].key \in Key
       /\ att[a].pc = "idle" => att[a] = Fresh
       /\ att[a].pc \in {"insert", "classify", "supersede"} => att[a].result = "none"
       /\ att[a].pc = "supersede" => att[a].recovers \in Contract
       /\ att[a].pc \in {"dispatch", "settle"} => Acquired(a)
       /\ att[a].applied => Acquired(a)
       /\ att[a].outcome # "none" => Acquired(a)
       /\ att[a].pc = "dispatch" => att[a].outcome = "none"
       /\ att[a].pc = "settle" => att[a].outcome \in Outcome

(* A row belongs to the attempt that inserted it.                           *)
RowOwned ==
    \A c \in Contract :
       HasRow(c) =>
          /\ claims[c].by \in Attempt
          /\ Acquired(claims[c].by)
          /\ att[claims[c].by].contract = c
          /\ claims[c].status # "superseded" => claims[c].key = att[claims[c].by].key
          /\ claims[c].key = None <=> claims[c].status = "superseded"

(* A terminal row carries its owner's outcome; only failures are parked.    *)
RowOutcome ==
    \A c \in Contract :
       /\ claims[c].status \in Outcome => att[claims[c].by].outcome = claims[c].status
       /\ claims[c].status \in Outcome => att[claims[c].by].pc = "done"
       /\ claims[c].status = "superseded" => /\ att[claims[c].by].outcome = "failed"
                                             /\ att[claims[c].by].pc = "done"

(* An attempt that acquired still finds the row it inserted, and finds it   *)
(* executing as long as it has not settled.                                 *)
OwnerHasRow ==
    \A a \in Attempt :
       Acquired(a) =>
          /\ HasRow(att[a].contract)
          /\ claims[att[a].contract].by = a
          /\ att[a].pc \in {"dispatch", "settle"} =>
                claims[att[a].contract].status = "executing"

KeyUnique ==
    \A c, d \in Contract :
       /\ HasRow(c) /\ HasRow(d)
       /\ claims[c].key = claims[d].key
       /\ claims[c].key # None
       => c = d

(* What the recovery proof established stays true until it is used.         *)
RecoveryStaysProven ==
    \A a \in Attempt :
       LET r == att[a].recovers IN
       r # None =>
          /\ r # att[a].contract
          /\ HasRow(r)
          /\ att[claims[r].by].pc = "done"
          /\ ~att[claims[r].by].applied

ParkedNeverWrote ==
    \A c \in Contract :
       claims[c].status = "superseded" => ~att[claims[c].by].applied

IInv == /\ TypeOK
        /\ AttemptShape
        /\ RowOwned
        /\ RowOutcome
        /\ OwnerHasRow
        /\ KeyUnique
        /\ RecoveryStaysProven
        /\ ParkedNeverWrote
-----------------------------------------------------------------------------
LEMMA InitIInv == Init => IInv
<1>1. SUFFICES ASSUME Init PROVE IInv
  OBVIOUS
<1> USE NoneIsFresh DEF Init, NoRow, Fresh, HasRow, Acquired
<1>2. TypeOK
  BY <1>1 DEF TypeOK, AttemptState, Phase
<1>3. AttemptShape
  BY <1>1 DEF AttemptShape, Outcome
<1>4. RowOwned
  BY <1>1 DEF RowOwned
<1>5. RowOutcome
  BY <1>1 DEF RowOutcome, Outcome
<1>6. OwnerHasRow
  BY <1>1 DEF OwnerHasRow
<1>7. KeyUnique
  BY <1>1 DEF KeyUnique
<1>8. RecoveryStaysProven
  BY <1>1 DEF RecoveryStaysProven
<1>9. ParkedNeverWrote
  BY <1>1 DEF ParkedNeverWrote
<1> QED
  BY <1>2, <1>3, <1>4, <1>5, <1>6, <1>7, <1>8, <1>9 DEF IInv

LEMMA AttemptTyped ==
  ASSUME IInv, NEW b \in Attempt
  PROVE  /\ att[b].recovers \in Contract \cup {None}
         /\ Acquired(b) => att[b].contract \in Contract /\ att[b].key \in Key
  BY DEF IInv, TypeOK, AttemptState, AttemptShape, Acquired, Fresh

(* What AttemptShape asks of one call.                                      *)
ShapeOK(x) ==
    /\ x.pc # "idle" => x.contract \in Contract /\ x.key \in Key
    /\ x.pc = "idle" => x = Fresh
    /\ x.pc \in {"insert", "classify", "supersede"} => x.result = "none"
    /\ x.pc = "supersede" => x.recovers \in Contract
    /\ x.pc \in {"dispatch", "settle"} => x.result = "acquired"
    /\ x.applied => x.result = "acquired"
    /\ x.outcome # "none" => x.result = "acquired"
    /\ x.pc = "dispatch" => x.outcome = "none"
    /\ x.pc = "settle" => x.outcome \in Outcome

LEMMA ShapeOf ==
  ASSUME IInv, NEW b \in Attempt
  PROVE  att[b] \in AttemptState /\ ShapeOK(att[b])
  BY DEF IInv, TypeOK, AttemptShape, ShapeOK, Acquired

(* The result of a step that moves one call and leaves the others.          *)
OneCallMoves(a) ==
    /\ att' \in [Attempt -> AttemptState]
    /\ \A b \in Attempt \ {a} : att'[b] = att[b]

(* The owner of a closed row is done, so a call that still moves owns no    *)
(* closed row.                                                              *)
LEMMA OwnersOfClosedRowsAreDone ==
  ASSUME IInv, NEW c \in Contract,
         claims[c].status \in Outcome \cup {"superseded"}
  PROVE  /\ HasRow(c)
         /\ claims[c].by \in Attempt
         /\ att[claims[c].by].pc = "done"
<1>1. HasRow(c)
  BY DEF HasRow, Outcome
<1> QED
  BY <1>1 DEF IInv, RowOwned, RowOutcome

(* A step of one call that leaves the table alone keeps the invariant, if   *)
(* the call was not done, keeps its shape and its right, and names only a   *)
(* recovery that is proven.                                                 *)
LEMMA QuietIInv ==
  ASSUME IInv, NEW a \in Attempt, OneCallMoves(a), claims' = claims,
         ShapeOK(att'[a]),
         att[a].pc # "done",
         att'[a].result = "acquired" <=> Acquired(a),
         Acquired(a) =>
            /\ att'[a].contract = att[a].contract
            /\ att'[a].key = att[a].key
            /\ att'[a].pc \in {"dispatch", "settle"}
                  => att[a].pc \in {"dispatch", "settle"},
         att'[a].recovers # None =>
            /\ att'[a].recovers \in Contract
            /\ att'[a].recovers # att'[a].contract
            /\ HasRow(att'[a].recovers)
            /\ att[claims[att'[a].recovers].by].pc = "done"
            /\ ~att[claims[att'[a].recovers].by].applied
  PROVE  IInv'
<1>1. \A b \in Attempt \ {a} : att'[b] = att[b]
  BY DEF OneCallMoves
<1>2. TypeOK'
  BY DEF OneCallMoves, IInv, TypeOK
<1>3. AttemptShape'
  <2> SUFFICES ASSUME NEW b \in Attempt PROVE ShapeOK(att'[b])
    BY DEF AttemptShape, ShapeOK, Acquired
  <2> QED
    BY <1>1, ShapeOf
<1>4. RowOwned'
  <2> SUFFICES ASSUME NEW c \in Contract, HasRow(c)
               PROVE  /\ claims[c].by \in Attempt
                      /\ att'[claims[c].by].result = "acquired"
                      /\ att'[claims[c].by].contract = c
                      /\ claims[c].status # "superseded"
                            => claims[c].key = att'[claims[c].by].key
                      /\ claims[c].key = None <=> claims[c].status = "superseded"
    BY DEF RowOwned, HasRow, Acquired
  <2>1. /\ claims[c].by \in Attempt
        /\ Acquired(claims[c].by)
        /\ att[claims[c].by].contract = c
        /\ claims[c].status # "superseded"
              => claims[c].key = att[claims[c].by].key
        /\ claims[c].key = None <=> claims[c].status = "superseded"
    BY DEF IInv, RowOwned
  <2> QED
    BY <1>1, <2>1 DEF Acquired
<1>5. RowOutcome'
  <2> SUFFICES ASSUME NEW c \in Contract
               PROVE  /\ claims[c].status \in Outcome =>
                            /\ att'[claims[c].by].outcome = claims[c].status
                            /\ att'[claims[c].by].pc = "done"
                      /\ claims[c].status = "superseded" =>
                            /\ att'[claims[c].by].outcome = "failed"
                            /\ att'[claims[c].by].pc = "done"
    BY DEF RowOutcome
  <2>1. claims[c].status \in Outcome \cup {"superseded"}
           => att'[claims[c].by] = att[claims[c].by]
    BY <1>1, OwnersOfClosedRowsAreDone
  <2> QED
    BY <2>1 DEF IInv, RowOutcome
<1>6. OwnerHasRow'
  <2> SUFFICES ASSUME NEW b \in Attempt, att'[b].result = "acquired"
               PROVE  LET c == att'[b].contract IN
                      /\ HasRow(c)
                      /\ claims[c].by = b
                      /\ att'[b].pc \in {"dispatch", "settle"}
                            => claims[c].status = "executing"
    BY DEF OwnerHasRow, HasRow, Acquired
  <2>1. /\ Acquired(b)
        /\ att'[b].contract = att[b].contract
        /\ att'[b].pc \in {"dispatch", "settle"}
              => att[b].pc \in {"dispatch", "settle"}
    BY <1>1 DEF Acquired
  <2> QED
    BY <2>1 DEF IInv, OwnerHasRow
<1>7. KeyUnique'
  BY DEF IInv, KeyUnique, HasRow
<1>8. RecoveryStaysProven'
  <2> SUFFICES ASSUME NEW b \in Attempt, att'[b].recovers # None
               PROVE  LET r == att'[b].recovers IN
                      /\ r # att'[b].contract
                      /\ HasRow(r)
                      /\ att'[claims[r].by].pc = "done"
                      /\ ~att'[claims[r].by].applied
    BY DEF RecoveryStaysProven, HasRow
  <2> DEFINE r == att'[b].recovers
  <2>1. /\ r \in Contract
        /\ r # att'[b].contract
        /\ HasRow(r)
        /\ att[claims[r].by].pc = "done"
        /\ ~att[claims[r].by].applied
    <3>1. CASE b = a
      BY <3>1
    <3>2. CASE b # a
      BY <1>1, <3>2, AttemptTyped DEF IInv, RecoveryStaysProven
    <3> QED
      BY <3>1, <3>2
  <2>2. claims[r].by \in Attempt
    BY <2>1 DEF IInv, RowOwned
  <2> QED
    BY <1>1, <2>1, <2>2
<1>9. ParkedNeverWrote'
  <2> SUFFICES ASSUME NEW c \in Contract, claims[c].status = "superseded"
               PROVE  ~att'[claims[c].by].applied
    BY DEF ParkedNeverWrote
  <2>1. att'[claims[c].by] = att[claims[c].by]
    BY <1>1, OwnersOfClosedRowsAreDone
  <2> QED
    BY <2>1 DEF IInv, ParkedNeverWrote
<1> QED
  BY <1>2, <1>3, <1>4, <1>5, <1>6, <1>7, <1>8, <1>9 DEF IInv

(* A call past "idle" that keeps what it was asked and whether it acquired. *)
LEMMA OngoingIInv ==
  ASSUME IInv, NEW a \in Attempt, OneCallMoves(a), claims' = claims,
         att[a].pc \notin {"idle", "done"},
         ShapeOK(att'[a]),
         att'[a].contract = att[a].contract,
         att'[a].key = att[a].key,
         att'[a].recovers = att[a].recovers,
         att'[a].result = "acquired" <=> Acquired(a),
         att'[a].pc \in {"dispatch", "settle"}
            => att[a].pc \in {"dispatch", "settle"}
  PROVE  IInv'
<1>1. att[a].recovers # None =>
         /\ att[a].recovers \in Contract
         /\ att[a].recovers # att[a].contract
         /\ HasRow(att[a].recovers)
         /\ att[claims[att[a].recovers].by].pc = "done"
         /\ ~att[claims[att[a].recovers].by].applied
  BY AttemptTyped DEF IInv, RecoveryStaysProven
<1> QED
  BY <1>1, QuietIInv

(* A refused call is done without the right to dispatch.                    *)
LEMMA RefuseIInv ==
  ASSUME IInv, NEW a \in Attempt, NEW why \in Refusal, Refuse(a, why),
         att[a].pc \in {"insert", "classify", "supersede"},
         claims' = claims
  PROVE  IInv'
<1>1. /\ att \in [Attempt -> AttemptState]
      /\ att[a] \in AttemptState /\ ShapeOK(att[a])
  BY ShapeOf DEF IInv, TypeOK
<1>2. /\ att[a].result = "none"
      /\ att[a].outcome = "none" /\ ~att[a].applied
      /\ att[a].contract \in Contract /\ att[a].key \in Key
  BY <1>1 DEF ShapeOK, AttemptState
<1>3. [att[a] EXCEPT !.pc = "done", !.result = why] \in AttemptState
  BY <1>1 DEF AttemptState, Phase
<1>4. /\ OneCallMoves(a)
      /\ att'[a] = [att[a] EXCEPT !.pc = "done", !.result = why]
  BY <1>1, <1>3 DEF Refuse, OneCallMoves
<1>5. /\ att'[a].pc = "done" /\ att'[a].result = why
      /\ att'[a].outcome = "none" /\ ~att'[a].applied
      /\ att'[a].contract = att[a].contract /\ att'[a].key = att[a].key
      /\ att'[a].recovers = att[a].recovers
  BY <1>1, <1>2, <1>4 DEF AttemptState
<1>6. ShapeOK(att'[a])
  BY <1>2, <1>5 DEF ShapeOK
<1>7. why # "acquired" /\ ~Acquired(a)
  BY <1>2 DEF Refusal, Acquired
<1> QED
  BY <1>4, <1>5, <1>6, <1>7, OngoingIInv

LEMMA BeginIInv ==
  ASSUME IInv,
         NEW a \in Attempt, NEW c \in Contract, NEW k \in Key,
         NEW r \in Contract \cup {None}, Begin(a, c, k, r)
  PROVE  IInv'
<1> DEFINE new == [Fresh EXCEPT !.pc = "insert", !.contract = c, !.key = k,
                                !.recovers = r]
<1>1. /\ new \in AttemptState
      /\ new.pc = "insert" /\ new.contract = c /\ new.key = k
      /\ new.recovers = r /\ new.result = "none" /\ new.outcome = "none"
      /\ ~new.applied
  BY DEF Fresh, AttemptState, Phase
<1>2. att' = [att EXCEPT ![a] = new] /\ claims' = claims
  BY DEF Begin
<1>3. att[a].pc = "idle" /\ (r # None => r # c /\ RecoveryProven(r, k))
  BY DEF Begin
<1> HIDE DEF new
<1>4. OneCallMoves(a) /\ att'[a] = new
  BY <1>1, <1>2 DEF IInv, TypeOK, OneCallMoves
<1>5. ~Acquired(a)
  BY <1>3 DEF IInv, AttemptShape, Fresh, Acquired
<1>6. ShapeOK(att'[a])
  BY <1>1, <1>4 DEF ShapeOK
<1>7. ASSUME r # None
      PROVE  /\ r \in Contract /\ r # c
             /\ HasRow(r)
             /\ att[claims[r].by].pc = "done"
             /\ ~att[claims[r].by].applied
  <2>1. PICK b \in Attempt : att[b].contract = r
    BY <1>3, <1>7 DEF RecoveryProven
  <2>2. att[b].outcome = "failed"
    BY <1>3, <1>7, <2>1 DEF RecoveryProven
  <2>3. Acquired(b)
    BY <2>2 DEF IInv, AttemptShape
  <2>4. HasRow(r) /\ claims[r].by = b
    BY <2>1, <2>3 DEF IInv, OwnerHasRow
  <2> QED
    BY <1>3, <1>7, <2>1, <2>4 DEF RecoveryProven
<1> QED
  BY <1>1, <1>2, <1>3, <1>4, <1>5, <1>6, <1>7, QuietIInv

LEMMA UnavailableIInv ==
  ASSUME IInv,
         NEW a \in Attempt, Unavailable(a)
  PROVE  IInv'
  BY RefuseIInv DEF Unavailable, Refusal

LEMMA DatabaseErrorIInv ==
  ASSUME IInv,
         NEW a \in Attempt, DatabaseError(a)
  PROVE  IInv'
  BY RefuseIInv DEF DatabaseError, Refusal

(* What a step that only changes the phase of a call does to it.            *)
LEMMA PhaseMoves ==
  ASSUME IInv, NEW a \in Attempt, NEW p \in Phase,
         att' = [att EXCEPT ![a].pc = p]
  PROVE  /\ OneCallMoves(a)
         /\ att'[a].pc = p /\ att'[a].result = att[a].result
         /\ att'[a].contract = att[a].contract /\ att'[a].key = att[a].key
         /\ att'[a].recovers = att[a].recovers
         /\ att'[a].outcome = att[a].outcome
         /\ att'[a].applied = att[a].applied
<1>1. att \in [Attempt -> AttemptState] /\ att[a] \in AttemptState
  BY DEF IInv, TypeOK
<1>2. [att[a] EXCEPT !.pc = p] \in AttemptState
  BY <1>1 DEF AttemptState
<1>3. att' = [att EXCEPT ![a] = [att[a] EXCEPT !.pc = p]]
  BY <1>1
<1>4. OneCallMoves(a) /\ att'[a] = [att[a] EXCEPT !.pc = p]
  BY <1>1, <1>2, <1>3 DEF OneCallMoves
<1> QED
  BY <1>1, <1>4 DEF AttemptState

(* A call that goes from one query of its transaction to the next.          *)
LEMMA QueryIInv ==
  ASSUME IInv, NEW a \in Attempt, NEW p \in {"classify", "supersede"},
         att[a].pc \in {"insert", "classify"},
         p = "supersede" => att[a].recovers \in Contract,
         att' = [att EXCEPT ![a].pc = p], claims' = claims
  PROVE  IInv'
<1>1. p \in Phase
  BY DEF Phase
<1>2. ShapeOK(att[a])
  BY ShapeOf
<1>3. /\ OneCallMoves(a)
      /\ att'[a].pc = p /\ att'[a].result = att[a].result
      /\ att'[a].contract = att[a].contract /\ att'[a].key = att[a].key
      /\ att'[a].recovers = att[a].recovers
      /\ att'[a].outcome = att[a].outcome
      /\ att'[a].applied = att[a].applied
  BY <1>1, PhaseMoves
<1>4. ShapeOK(att'[a])
  BY <1>2, <1>3 DEF ShapeOK
<1> QED
  BY <1>3, <1>4, OngoingIInv DEF Acquired

(* A step that gives the right to dispatch: the attempt without a row of    *)
(* its contract gets a new one under a key that nobody holds any more.      *)
LEMMA AcquiredMoves ==
  ASSUME IInv, NEW a \in Attempt,
         att[a].pc \in {"insert", "supersede"},
         att' = [att EXCEPT ![a].pc = "dispatch", ![a].result = "acquired"]
  PROVE  /\ OneCallMoves(a)
         /\ ShapeOK(att'[a])
         /\ att'[a].pc = "dispatch" /\ att'[a].result = "acquired"
         /\ att'[a].contract = att[a].contract /\ att'[a].key = att[a].key
         /\ att'[a].recovers = att[a].recovers
         /\ att'[a].outcome = "none" /\ ~att'[a].applied
         /\ ~Acquired(a)
         /\ att[a].contract \in Contract /\ att[a].key \in Key
<1> DEFINE new == [att[a] EXCEPT !.pc = "dispatch", !.result = "acquired"]
<1>1. /\ att \in [Attempt -> AttemptState]
      /\ att[a] \in AttemptState /\ ShapeOK(att[a])
  BY ShapeOf DEF IInv, TypeOK
<1>2. /\ att[a].result = "none"
      /\ att[a].outcome = "none" /\ ~att[a].applied
      /\ att[a].contract \in Contract /\ att[a].key \in Key
  BY <1>1 DEF ShapeOK, AttemptState
<1>3. new \in AttemptState
  BY <1>1 DEF AttemptState, Phase
<1>4. att'[a] = new /\ OneCallMoves(a)
  BY <1>1, <1>3 DEF OneCallMoves
<1>5. /\ att'[a].pc = "dispatch" /\ att'[a].result = "acquired"
      /\ att'[a].contract = att[a].contract /\ att'[a].key = att[a].key
      /\ att'[a].recovers = att[a].recovers
      /\ att'[a].outcome = "none" /\ ~att'[a].applied
  BY <1>1, <1>2, <1>4 DEF AttemptState
<1>6. ShapeOK(att'[a])
  BY <1>2, <1>5 DEF ShapeOK
<1> QED
  BY <1>2, <1>4, <1>5, <1>6 DEF Acquired

LEMMA InsertIInv ==
  ASSUME IInv,
         NEW a \in Attempt, Insert(a)
  PROVE  IInv'
<1> DEFINE c == att[a].contract
<1>0. att[a].pc = "insert"
  BY DEF Insert
<1>1. CASE /\ Conflicts(c, att[a].key)
           /\ att' = [att EXCEPT ![a].pc = "classify"]
           /\ UNCHANGED claims
  BY <1>0, <1>1, QueryIInv
<1>2. CASE /\ ~Conflicts(c, att[a].key)
           /\ claims' = [claims EXCEPT ![c] = NewRow(a)]
           /\ att' = [att EXCEPT ![a].pc = "dispatch",
                                 ![a].result = "acquired"]
  <2>1. /\ OneCallMoves(a)
        /\ ShapeOK(att'[a])
        /\ att'[a].pc = "dispatch" /\ att'[a].result = "acquired"
        /\ att'[a].contract = c /\ att'[a].key = att[a].key
        /\ att'[a].recovers = att[a].recovers
        /\ att'[a].outcome = "none" /\ ~att'[a].applied
        /\ ~Acquired(a)
        /\ c \in Contract /\ att[a].key \in Key
    BY <1>0, <1>2, AcquiredMoves
  <2>2. /\ ~HasRow(c)
        /\ \A d \in Contract : HasRow(d) => claims[d].key # att[a].key
    BY <1>2 DEF Conflicts, HoldersOf
  <2>3. NewRow(a) \in Row /\ NewRow(a).by = a /\ NewRow(a).key = att[a].key
        /\ NewRow(a).status = "executing"
    BY <2>1 DEF NewRow, Row
  <2>4. /\ claims' \in [Contract -> Row \cup {NoRow}]
        /\ claims'[c] = NewRow(a)
        /\ \A d \in Contract \ {c} : claims'[d] = claims[d]
    BY <1>2, <2>1, <2>3 DEF IInv, TypeOK
  <2>5. /\ \A d \in Contract \ {c} : claims'[d].status # "absent" => HasRow(d)
        /\ \A d \in Contract : HasRow(d) => d # c
    BY <2>2, <2>4 DEF HasRow
  <2>6. \A d \in Contract : HasRow(d) => claims[d].by \in Attempt \ {a}
    BY <2>1 DEF IInv, RowOwned
  <2>7. \A b \in Attempt \ {a} : att'[b] = att[b]
    BY <2>1 DEF OneCallMoves
  <2> HIDE DEF c
  <2>8. TypeOK'
    BY <2>1, <2>4 DEF OneCallMoves, TypeOK
  <2>9. AttemptShape'
    <3> SUFFICES ASSUME NEW b \in Attempt PROVE ShapeOK(att'[b])
      BY DEF AttemptShape, ShapeOK, Acquired
    <3> QED
      BY <2>1, <2>7, ShapeOf
  <2>10. RowOwned'
    BY NoneIsFresh, <2>1, <2>3, <2>4, <2>5, <2>6, <2>7
       DEF IInv, RowOwned, HasRow, Acquired
  <2>11. RowOutcome'
    <3> SUFFICES ASSUME NEW d \in Contract,
                        claims'[d].status \in Outcome \cup {"superseded"}
                 PROVE  /\ claims'[d].status \in Outcome =>
                             att'[claims'[d].by].outcome = claims'[d].status
                        /\ claims'[d].status = "superseded" =>
                             att'[claims'[d].by].outcome = "failed"
                        /\ att'[claims'[d].by].pc = "done"
      BY DEF RowOutcome
    <3>1. d # c
      BY <2>3, <2>4 DEF Outcome
    <3>2. claims'[d] = claims[d] /\ att'[claims[d].by] = att[claims[d].by]
      BY <2>4, <2>6, <2>7, <3>1, OwnersOfClosedRowsAreDone
    <3> QED
      BY <3>2 DEF IInv, RowOutcome
  <2>12. OwnerHasRow'
    <3> SUFFICES ASSUME NEW b \in Attempt, att'[b].result = "acquired"
                 PROVE  LET d == att'[b].contract IN
                        /\ claims'[d].status # "absent"
                        /\ claims'[d].by = b
                        /\ att'[b].pc \in {"dispatch", "settle"}
                              => claims'[d].status = "executing"
      BY DEF OwnerHasRow, HasRow, Acquired
    <3>1. CASE b = a
      BY <2>1, <2>3, <2>4, <3>1
    <3>2. CASE b # a
      <4>1. Acquired(b) /\ att'[b] = att[b]
        BY <2>7, <3>2 DEF Acquired
      <4>2. /\ att[b].contract \in Contract
            /\ HasRow(att[b].contract)
            /\ claims[att[b].contract].by = b
            /\ att[b].pc \in {"dispatch", "settle"}
                  => claims[att[b].contract].status = "executing"
        BY <4>1, AttemptTyped DEF IInv, OwnerHasRow
      <4> QED
        BY <2>4, <2>5, <4>1, <4>2 DEF HasRow
    <3> QED
      BY <3>1, <3>2
  <2>13. KeyUnique'
    BY <2>2, <2>3, <2>4, <2>5 DEF IInv, KeyUnique, HasRow
  <2>14. RecoveryStaysProven'
    <3> SUFFICES ASSUME NEW b \in Attempt, att'[b].recovers # None
                 PROVE  LET q == att'[b].recovers IN
                        /\ q # att'[b].contract
                        /\ claims'[q].status # "absent"
                        /\ att'[claims'[q].by].pc = "done"
                        /\ ~att'[claims'[q].by].applied
      BY DEF RecoveryStaysProven, HasRow
    <3> DEFINE q == att[b].recovers
    <3>1. att'[b].recovers = q /\ att'[b].contract = att[b].contract
      BY <2>1, <2>7 DEF c
    <3>2. /\ q \in Contract
          /\ q # att[b].contract
          /\ HasRow(q)
          /\ att[claims[q].by].pc = "done"
          /\ ~att[claims[q].by].applied
      BY <3>1, AttemptTyped DEF IInv, RecoveryStaysProven
    <3>3. claims'[q] = claims[q] /\ att'[claims[q].by] = att[claims[q].by]
      BY <2>4, <2>5, <2>6, <2>7, <3>2
    <3> QED
      BY <3>1, <3>2, <3>3 DEF HasRow
  <2>15. ParkedNeverWrote'
    <3> SUFFICES ASSUME NEW d \in Contract, claims'[d].status = "superseded"
                 PROVE  ~att'[claims'[d].by].applied
      BY DEF ParkedNeverWrote
    <3>1. d # c
      BY <2>3, <2>4
    <3>2. claims'[d] = claims[d] /\ att'[claims[d].by] = att[claims[d].by]
      BY <2>4, <2>6, <2>7, <3>1, OwnersOfClosedRowsAreDone
    <3> QED
      BY <3>2 DEF IInv, ParkedNeverWrote
  <2> QED
    BY <2>8, <2>9, <2>10, <2>11, <2>12, <2>13, <2>14, <2>15 DEF IInv
<1> QED
  BY <1>1, <1>2 DEF Insert

LEMMA ClassifyIInv ==
  ASSUME IInv,
         NEW a \in Attempt, Classify(a)
  PROVE  IInv'
<1>0. att[a].pc = "classify" /\ claims' = claims
  BY DEF Classify
<1>1. CASE MayRecover(a) /\ att' = [att EXCEPT ![a].pc = "supersede"]
  <2>1. att[a].recovers \in Contract
    BY <1>1 DEF MayRecover, HoldersOf
  <2> QED
    BY <1>0, <1>1, <2>1, QueryIInv
<1>2. CASE Refuse(a, ConflictKind(att[a].contract, att[a].key))
  <2>1. ConflictKind(att[a].contract, att[a].key) \in Refusal
    BY DEF ConflictKind, Refusal
  <2> QED
    BY <1>0, <1>2, <2>1, RefuseIInv
<1> QED
  BY <1>1, <1>2 DEF Classify

LEMMA SupersedeIInv ==
  ASSUME IInv,
         NEW a \in Attempt, Supersede(a)
  PROVE  IInv'
<1> DEFINE c == att[a].contract
           r == att[a].recovers
<1>1. CASE /\ UNCHANGED claims
           /\ \E why \in Refusal : Refuse(a, why)
  <2>1. PICK why \in Refusal : Refuse(a, why)
    BY <1>1
  <2>2. att[a].pc = "supersede"
    BY DEF Supersede
  <2> QED
    BY <1>1, <2>1, <2>2, RefuseIInv
<1>2. CASE /\ claims[r].status = "failed"
           /\ claims[r].key = att[a].key
           /\ ~HasRow(c)
           /\ claims' = [claims EXCEPT ![r] = ParkedRow(r, c),
                                       ![c] = NewRow(a)]
           /\ att' = [att EXCEPT ![a].pc = "dispatch",
                                 ![a].result = "acquired"]
  <2>0. att[a].pc = "supersede"
    BY DEF Supersede
  <2>1. /\ OneCallMoves(a)
        /\ ShapeOK(att'[a])
        /\ att'[a].pc = "dispatch" /\ att'[a].result = "acquired"
        /\ att'[a].contract = c /\ att'[a].key = att[a].key
        /\ att'[a].recovers = r
        /\ att'[a].outcome = "none" /\ ~att'[a].applied
        /\ ~Acquired(a)
        /\ c \in Contract /\ att[a].key \in Key
    BY <1>2, <2>0, AcquiredMoves
  <2>2. /\ r \in Contract
        /\ r # c
        /\ HasRow(r) /\ ~HasRow(c)
        /\ claims[r].status = "failed"
        /\ claims[r].key = att[a].key
        /\ ~att[claims[r].by].applied
    <3>1. r \in Contract
      BY <2>0 DEF IInv, AttemptShape
    <3> QED
      BY <1>2, <2>1, <3>1, NoneIsFresh DEF IInv, RecoveryStaysProven
  <2>3. /\ claims[r] \in Row
        /\ claims[r].by \in Attempt \ {a}
        /\ Acquired(claims[r].by)
        /\ att[claims[r].by].contract = r
        /\ att[claims[r].by].key = att[a].key
        /\ att[claims[r].by].outcome = "failed"
        /\ att[claims[r].by].pc = "done"
    <3>1. /\ claims[r].by \in Attempt
          /\ Acquired(claims[r].by)
          /\ att[claims[r].by].contract = r
          /\ att[claims[r].by].key = att[a].key
      BY <2>2 DEF IInv, RowOwned
    <3>2. /\ att[claims[r].by].outcome = "failed"
          /\ att[claims[r].by].pc = "done"
      BY <2>2 DEF IInv, RowOutcome, Outcome
    <3>3. claims[r] \in Row
      BY <2>2 DEF IInv, TypeOK, HasRow, NoRow
    <3> QED
      BY <2>0, <3>1, <3>2, <3>3
  <2>4. /\ ParkedRow(r, c) \in Row
        /\ ParkedRow(r, c).by = claims[r].by
        /\ ParkedRow(r, c).key = None
        /\ ParkedRow(r, c).status = "superseded"
        /\ NewRow(a) \in Row
        /\ NewRow(a).by = a
        /\ NewRow(a).key = att[a].key
        /\ NewRow(a).status = "executing"
    BY <2>1, <2>3 DEF ParkedRow, NewRow, Row
  <2>5. /\ claims' \in [Contract -> Row \cup {NoRow}]
        /\ claims'[r] = ParkedRow(r, c)
        /\ claims'[c] = NewRow(a)
        /\ \A d \in Contract \ {r, c} : claims'[d] = claims[d]
    BY <1>2, <2>1, <2>2, <2>4 DEF IInv, TypeOK
  <2>6. \A b \in Attempt \ {a} : att'[b] = att[b]
    BY <2>1 DEF OneCallMoves
  <2>7. \A d \in Contract : HasRow(d) =>
           /\ d # c
           /\ claims[d].by \in Attempt \ {a}
           /\ claims'[d].by = claims[d].by
           /\ att'[claims[d].by] = att[claims[d].by]
           /\ claims'[d].status # "absent"
    <3> SUFFICES ASSUME NEW d \in Contract, HasRow(d)
                 PROVE  /\ d # c
                        /\ claims[d].by \in Attempt \ {a}
                        /\ claims'[d].by = claims[d].by
                        /\ att'[claims[d].by] = att[claims[d].by]
                        /\ claims'[d].status # "absent"
      OBVIOUS
    <3>1. d # c
      BY <2>2
    <3>2. claims[d].by \in Attempt \ {a}
      BY <2>1 DEF IInv, RowOwned
    <3>3. claims'[d].by = claims[d].by /\ claims'[d].status # "absent"
      BY <2>4, <2>5, <3>1 DEF HasRow
    <3> QED
      BY <2>6, <3>1, <3>2, <3>3
  <2>8. \A d \in Contract : claims'[d].status # "absent" => d = c \/ HasRow(d)
    BY <2>2, <2>5 DEF HasRow
  <2> HIDE DEF c, r
  <2>9. TypeOK'
    BY <2>1, <2>5 DEF OneCallMoves, TypeOK
  <2>10. AttemptShape'
    <3> SUFFICES ASSUME NEW b \in Attempt PROVE ShapeOK(att'[b])
      BY DEF AttemptShape, ShapeOK, Acquired
    <3> QED
      BY <2>1, <2>6, ShapeOf
  <2>11. RowOwned'
    <3> SUFFICES ASSUME NEW d \in Contract, claims'[d].status # "absent"
                 PROVE  /\ claims'[d].by \in Attempt
                        /\ att'[claims'[d].by].result = "acquired"
                        /\ att'[claims'[d].by].contract = d
                        /\ claims'[d].status # "superseded"
                              => claims'[d].key = att'[claims'[d].by].key
                        /\ claims'[d].key = None
                              <=> claims'[d].status = "superseded"
      BY DEF RowOwned, HasRow, Acquired
    <3>1. CASE d = c
      BY NoneIsFresh, <2>1, <2>4, <2>5, <3>1
    <3>2. CASE d = r
      BY <2>2, <2>3, <2>4, <2>5, <2>6, <3>2 DEF Acquired
    <3>3. CASE d \notin {c, r}
      <4>1. HasRow(d) /\ claims'[d] = claims[d]
        BY <2>5, <2>8, <3>3
      <4>2. att'[claims[d].by] = att[claims[d].by]
        BY <2>7, <4>1
      <4> QED
        BY <4>1, <4>2 DEF IInv, RowOwned, Acquired
    <3> QED
      BY <3>1, <3>2, <3>3
  <2>12. RowOutcome'
    <3> SUFFICES ASSUME NEW d \in Contract,
                        claims'[d].status \in Outcome \cup {"superseded"}
                 PROVE  /\ claims'[d].status \in Outcome =>
                             att'[claims'[d].by].outcome = claims'[d].status
                        /\ claims'[d].status = "superseded" =>
                             att'[claims'[d].by].outcome = "failed"
                        /\ att'[claims'[d].by].pc = "done"
      BY DEF RowOutcome
    <3>1. d # c
      BY <2>4, <2>5 DEF Outcome
    <3>2. CASE d = r
      BY <2>3, <2>4, <2>5, <2>6, <3>2 DEF Outcome
    <3>3. CASE d # r
      <4>1. claims'[d] = claims[d] /\ att'[claims[d].by] = att[claims[d].by]
        BY <2>5, <2>7, <3>1, <3>3, OwnersOfClosedRowsAreDone
      <4> QED
        BY <4>1 DEF IInv, RowOutcome
    <3> QED
      BY <3>2, <3>3
  <2>13. OwnerHasRow'
    <3> SUFFICES ASSUME NEW b \in Attempt, att'[b].result = "acquired"
                 PROVE  LET d == att'[b].contract IN
                        /\ claims'[d].status # "absent"
                        /\ claims'[d].by = b
                        /\ att'[b].pc \in {"dispatch", "settle"}
                              => claims'[d].status = "executing"
      BY DEF OwnerHasRow, HasRow, Acquired
    <3>1. CASE b = a
      BY <2>1, <2>4, <2>5, <3>1
    <3>2. CASE b # a
      <4>1. Acquired(b) /\ att'[b] = att[b]
        BY <2>6, <3>2 DEF Acquired
      <4>2. /\ att[b].contract \in Contract
            /\ HasRow(att[b].contract)
            /\ claims[att[b].contract].by = b
            /\ att[b].pc \in {"dispatch", "settle"}
                  => claims[att[b].contract].status = "executing"
        BY <4>1, AttemptTyped DEF IInv, OwnerHasRow
      <4>3. CASE att[b].contract = r
        BY <2>2, <2>3, <2>7, <4>1, <4>2, <4>3
      <4>4. CASE att[b].contract # r
        BY <2>5, <2>7, <4>1, <4>2, <4>4
      <4> QED
        BY <4>3, <4>4
    <3> QED
      BY <3>1, <3>2
  <2>14. KeyUnique'
    <3> SUFFICES ASSUME NEW d \in Contract, NEW e \in Contract,
                        claims'[d].status # "absent",
                        claims'[e].status # "absent",
                        claims'[d].key = claims'[e].key,
                        claims'[d].key # None
                 PROVE  d = e
      BY DEF KeyUnique, HasRow
    <3>1. d # r /\ e # r
      BY <2>4, <2>5
    <3>2. \A x \in Contract \ {c, r} :
             claims'[x].status # "absent" => claims'[x].key # att[a].key
      <4> SUFFICES ASSUME NEW x \in Contract \ {c, r},
                          claims'[x].status # "absent",
                          claims'[x].key = att[a].key
                   PROVE  FALSE
        OBVIOUS
      <4>1. HasRow(x) /\ claims[x].key = att[a].key
        BY <2>5, <2>8
      <4> QED
        BY NoneIsFresh, <2>1, <2>2, <4>1 DEF IInv, KeyUnique
    <3>3. CASE d = c \/ e = c
      BY <2>4, <2>5, <3>1, <3>2, <3>3
    <3>4. CASE d # c /\ e # c
      BY <2>5, <2>8, <3>1, <3>4 DEF IInv, KeyUnique
    <3> QED
      BY <3>3, <3>4
  <2>15. RecoveryStaysProven'
    <3> SUFFICES ASSUME NEW b \in Attempt, att'[b].recovers # None
                 PROVE  LET q == att'[b].recovers IN
                        /\ q # att'[b].contract
                        /\ claims'[q].status # "absent"
                        /\ att'[claims'[q].by].pc = "done"
                        /\ ~att'[claims'[q].by].applied
      BY DEF RecoveryStaysProven, HasRow
    <3> DEFINE q == att[b].recovers
    <3>1. att'[b].recovers = q /\ att'[b].contract = att[b].contract
      BY <2>1, <2>6 DEF c, r
    <3>2. /\ q \in Contract
          /\ q # att[b].contract
          /\ HasRow(q)
          /\ att[claims[q].by].pc = "done"
          /\ ~att[claims[q].by].applied
      BY <3>1, AttemptTyped DEF IInv, RecoveryStaysProven
    <3> QED
      BY <2>7, <3>1, <3>2
  <2>16. ParkedNeverWrote'
    <3> SUFFICES ASSUME NEW d \in Contract, claims'[d].status = "superseded"
                 PROVE  ~att'[claims'[d].by].applied
      BY DEF ParkedNeverWrote
    <3>1. d # c
      BY <2>4, <2>5
    <3>2. CASE d = r
      BY <2>2, <2>7, <3>2
    <3>3. CASE d # r
      <4>1. claims'[d] = claims[d] /\ att'[claims[d].by] = att[claims[d].by]
        BY <2>5, <2>7, <3>1, <3>3, OwnersOfClosedRowsAreDone
      <4> QED
        BY <4>1 DEF IInv, ParkedNeverWrote
    <3> QED
      BY <3>2, <3>3
  <2> QED
    BY <2>9, <2>10, <2>11, <2>12, <2>13, <2>14, <2>15, <2>16 DEF IInv
<1> QED
  BY <1>1, <1>2 DEF Supersede, Refusal

LEMMA ProviderWritesIInv ==
  ASSUME IInv,
         NEW a \in Attempt, ProviderWrites(a)
  PROVE  IInv'
<1>1. /\ att[a].pc = "dispatch" /\ claims' = claims
      /\ att' = [att EXCEPT ![a].applied = TRUE]
  BY DEF ProviderWrites
<1>2. /\ att \in [Attempt -> AttemptState]
      /\ att[a] \in AttemptState /\ ShapeOK(att[a])
  BY ShapeOf DEF IInv, TypeOK
<1>3. [att[a] EXCEPT !.applied = TRUE] \in AttemptState
  BY <1>2 DEF AttemptState
<1>4. OneCallMoves(a) /\ att'[a] = [att[a] EXCEPT !.applied = TRUE]
  BY <1>1, <1>2, <1>3 DEF OneCallMoves
<1>5. /\ att'[a].pc = "dispatch" /\ att'[a].result = att[a].result
      /\ att'[a].contract = att[a].contract /\ att'[a].key = att[a].key
      /\ att'[a].recovers = att[a].recovers
      /\ att'[a].outcome = att[a].outcome
  BY <1>1, <1>2, <1>4 DEF AttemptState
<1>6. ShapeOK(att'[a])
  BY <1>1, <1>2, <1>5 DEF ShapeOK
<1> QED
  BY <1>1, <1>4, <1>5, <1>6, OngoingIInv DEF Acquired

LEMMA ExecutorReturnsIInv ==
  ASSUME IInv,
         NEW a \in Attempt, NEW o \in Outcome, ExecutorReturns(a, o)
  PROVE  IInv'
<1> DEFINE new == [att[a] EXCEPT !.pc = "settle", !.outcome = o]
<1>1. /\ att[a].pc = "dispatch" /\ claims' = claims
      /\ att' = [att EXCEPT ![a].pc = "settle", ![a].outcome = o]
  BY DEF ExecutorReturns
<1>2. /\ att \in [Attempt -> AttemptState]
      /\ att[a] \in AttemptState /\ ShapeOK(att[a])
  BY ShapeOf DEF IInv, TypeOK
<1>3. new \in AttemptState
  BY <1>2 DEF AttemptState, Phase
<1>4. OneCallMoves(a) /\ att'[a] = new
  BY <1>1, <1>2, <1>3 DEF OneCallMoves
<1>5. /\ att'[a].pc = "settle" /\ att'[a].result = att[a].result
      /\ att'[a].contract = att[a].contract /\ att'[a].key = att[a].key
      /\ att'[a].recovers = att[a].recovers
      /\ att'[a].outcome = o /\ att'[a].applied = att[a].applied
  BY <1>2, <1>4 DEF AttemptState
<1>6. ShapeOK(att'[a])
  BY <1>1, <1>2, <1>5 DEF ShapeOK
<1> QED
  BY <1>1, <1>4, <1>5, <1>6, OngoingIInv DEF Acquired

LEMMA SettleIInv ==
  ASSUME IInv,
         NEW a \in Attempt, Settle(a)
  PROVE  IInv'
<1> DEFINE c == att[a].contract
<1>1. /\ att[a].pc = "settle"
      /\ att' = [att EXCEPT ![a].pc = "done"]
      /\ \/ claims' = [claims EXCEPT ![c].status = att[a].outcome]
         \/ claims' = claims
  BY DEF Settle
<1>2. /\ c \in Contract
      /\ Acquired(a)
      /\ att[a].outcome \in Outcome
      /\ HasRow(c)
      /\ claims[c].by = a
      /\ claims[c].status = "executing"
      /\ claims[c] \in Row
  <2>1. att[a].outcome \in Outcome /\ Acquired(a)
    BY <1>1 DEF IInv, AttemptShape
  <2>2. c \in Contract
    BY <2>1, AttemptTyped
  <2>3. HasRow(c) /\ claims[c].by = a /\ claims[c].status = "executing"
    BY <1>1, <2>1 DEF IInv, OwnerHasRow
  <2>4. claims[c] \in Row
    BY <2>2, <2>3 DEF IInv, TypeOK, HasRow, NoRow
  <2> QED
    BY <2>1, <2>2, <2>3, <2>4
<1>3. TypeOK'
  <2>1. att' \in [Attempt -> AttemptState]
    BY <1>1, PhaseMoves DEF OneCallMoves, Phase
  <2>2. [claims[c] EXCEPT !.status = att[a].outcome] \in Row
    BY <1>2 DEF Row
  <2> QED
    BY <1>1, <1>2, <2>1, <2>2 DEF IInv, TypeOK
<1>4. /\ \A b \in Attempt \ {a} : att'[b] = att[b]
      /\ att'[a].pc = "done" /\ att'[a].result = att[a].result
      /\ att'[a].contract = c /\ att'[a].key = att[a].key
      /\ att'[a].recovers = att[a].recovers
      /\ att'[a].outcome = att[a].outcome /\ att'[a].applied = att[a].applied
  BY <1>1, PhaseMoves DEF OneCallMoves, Phase
<1>5. /\ \A d \in Contract \ {c} : claims'[d] = claims[d]
      /\ claims'[c].by = a /\ claims'[c].key = claims[c].key
      /\ claims'[c].status \in {"executing", att[a].outcome}
  BY <1>1, <1>2 DEF IInv, TypeOK, Row
<1>6. \A d \in Contract : claims'[d].status # "absent" <=> HasRow(d)
  BY <1>2, <1>5 DEF HasRow, Outcome
<1>7. \A d \in Contract :
         claims'[d].by = claims[d].by /\ claims'[d].key = claims[d].key
  BY <1>2, <1>5
<1>8. \A b \in Attempt :
         /\ att'[b].result = att[b].result
         /\ att'[b].contract = att[b].contract /\ att'[b].key = att[b].key
         /\ att'[b].recovers = att[b].recovers
         /\ att'[b].outcome = att[b].outcome
         /\ att'[b].applied = att[b].applied
  BY <1>4
<1>9. att[a].pc = "settle"
  BY <1>1
<1> HIDE DEF c
<1>10. AttemptShape'
  <2> SUFFICES ASSUME NEW b \in Attempt PROVE ShapeOK(att'[b])
    BY DEF AttemptShape, ShapeOK, Acquired
  <2>1. ShapeOK(att[b])
    BY ShapeOf
  <2>2. CASE b = a
    BY <1>4, <1>9, <2>1, <2>2 DEF ShapeOK, c
  <2>3. CASE b # a
    BY <1>4, <2>1, <2>3
  <2> QED
    BY <2>2, <2>3
<1>11. RowOwned'
  <2> SUFFICES ASSUME NEW d \in Contract, claims'[d].status # "absent"
               PROVE  /\ claims'[d].by \in Attempt
                      /\ att'[claims'[d].by].result = "acquired"
                      /\ att'[claims'[d].by].contract = d
                      /\ claims'[d].status # "superseded"
                            => claims'[d].key = att'[claims'[d].by].key
                      /\ claims'[d].key = None
                            <=> claims'[d].status = "superseded"
    BY DEF RowOwned, HasRow, Acquired
  <2>1. HasRow(d)
    BY <1>6
  <2>2. claims'[d].status = "superseded" <=> claims[d].status = "superseded"
    BY <1>2, <1>5 DEF Outcome
  <2> QED
    BY <1>7, <1>8, <2>1, <2>2 DEF IInv, RowOwned, Acquired
<1>12. RowOutcome'
  <2> SUFFICES ASSUME NEW d \in Contract,
                      claims'[d].status \in Outcome \cup {"superseded"}
               PROVE  /\ claims'[d].status \in Outcome =>
                           att'[claims'[d].by].outcome = claims'[d].status
                      /\ claims'[d].status = "superseded" =>
                           att'[claims'[d].by].outcome = "failed"
                      /\ att'[claims'[d].by].pc = "done"
    BY DEF RowOutcome
  <2>1. CASE d = c
    BY <1>2, <1>4, <1>5, <2>1 DEF Outcome
  <2>2. CASE d # c
    <3>1. claims'[d] = claims[d]
      BY <1>5, <2>2
    <3>2. claims[d].by \in Attempt /\ att[claims[d].by].pc = "done"
      BY <3>1, OwnersOfClosedRowsAreDone
    <3>3. att'[claims[d].by] = att[claims[d].by]
      BY <1>4, <1>9, <3>2
    <3> QED
      BY <3>1, <3>3 DEF IInv, RowOutcome
  <2> QED
    BY <2>1, <2>2
<1>13. OwnerHasRow'
  <2> SUFFICES ASSUME NEW b \in Attempt, att'[b].result = "acquired"
               PROVE  LET d == att'[b].contract IN
                      /\ claims'[d].status # "absent"
                      /\ claims'[d].by = b
                      /\ att'[b].pc \in {"dispatch", "settle"}
                            => claims'[d].status = "executing"
    BY DEF OwnerHasRow, HasRow, Acquired
  <2> DEFINE d == att[b].contract
  <2>1. Acquired(b) /\ att'[b].contract = d
    BY <1>8 DEF Acquired
  <2>2. d \in Contract /\ HasRow(d) /\ claims[d].by = b
    BY <2>1, AttemptTyped DEF IInv, OwnerHasRow
  <2>3. ASSUME att'[b].pc \in {"dispatch", "settle"}
        PROVE  claims'[d].status = "executing"
    <3>1. b # a
      BY <1>4, <2>3
    <3>2. d # c
      BY <1>2, <2>2, <3>1
    <3> QED
      BY <1>4, <1>5, <2>1, <2>2, <2>3, <3>1, <3>2 DEF IInv, OwnerHasRow
  <2> QED
    BY <1>6, <1>7, <2>1, <2>2, <2>3
<1>14. KeyUnique'
  BY <1>6, <1>7 DEF IInv, KeyUnique, HasRow
<1>15. RecoveryStaysProven'
  <2> SUFFICES ASSUME NEW b \in Attempt, att'[b].recovers # None
               PROVE  LET q == att'[b].recovers IN
                      /\ q # att'[b].contract
                      /\ claims'[q].status # "absent"
                      /\ att'[claims'[q].by].pc = "done"
                      /\ ~att'[claims'[q].by].applied
    BY DEF RecoveryStaysProven, HasRow
  <2> DEFINE q == att[b].recovers
  <2>1. att'[b].recovers = q /\ att'[b].contract = att[b].contract
    BY <1>8
  <2>2. /\ q \in Contract
        /\ q # att[b].contract
        /\ HasRow(q)
        /\ att[claims[q].by].pc = "done"
        /\ ~att[claims[q].by].applied
    BY <2>1, AttemptTyped DEF IInv, RecoveryStaysProven
  <2>3. claims[q].by \in Attempt
    BY <2>2 DEF IInv, RowOwned
  <2> QED
    BY <1>4, <1>6, <1>7, <1>9, <2>1, <2>2, <2>3
<1>16. ParkedNeverWrote'
  <2> SUFFICES ASSUME NEW d \in Contract, claims'[d].status = "superseded"
               PROVE  ~att'[claims'[d].by].applied
    BY DEF ParkedNeverWrote
  <2>1. claims[d].status = "superseded"
    BY <1>2, <1>5 DEF Outcome
  <2>2. claims[d].by \in Attempt
    BY <2>1, OwnersOfClosedRowsAreDone
  <2> QED
    BY <1>7, <1>8, <2>1, <2>2 DEF IInv, ParkedNeverWrote
<1> QED
  BY <1>3, <1>10, <1>11, <1>12, <1>13, <1>14, <1>15, <1>16 DEF IInv

LEMMA CrashIInv ==
  ASSUME IInv,
         NEW a \in Attempt, Crash(a)
  PROVE  IInv'
<1>1. /\ att[a].pc \notin {"idle", "done", "crashed"} /\ claims' = claims
      /\ att' = [att EXCEPT ![a].pc = "crashed"]
      /\ "crashed" \in Phase
  BY DEF Crash, Phase
<1>2. ShapeOK(att[a])
  BY ShapeOf
<1>3. /\ OneCallMoves(a)
      /\ att'[a].pc = "crashed" /\ att'[a].result = att[a].result
      /\ att'[a].contract = att[a].contract /\ att'[a].key = att[a].key
      /\ att'[a].recovers = att[a].recovers
      /\ att'[a].outcome = att[a].outcome
      /\ att'[a].applied = att[a].applied
  BY <1>1, PhaseMoves
<1>4. ShapeOK(att'[a])
  BY <1>1, <1>2, <1>3 DEF ShapeOK
<1> QED
  BY <1>1, <1>3, <1>4, OngoingIInv DEF Acquired

LEMMA NextIInv == IInv /\ [Next]_vars => IInv'
<1> SUFFICES ASSUME IInv, [Next]_vars PROVE IInv'
  OBVIOUS
<1>1. CASE UNCHANGED vars
  <2> USE <1>1 DEF vars, IInv
  <2>1. TypeOK' /\ AttemptShape'
    BY DEF TypeOK, AttemptShape, Acquired
  <2>2. RowOwned' /\ RowOutcome'
    BY DEF RowOwned, RowOutcome, HasRow, Acquired
  <2>3. OwnerHasRow' /\ KeyUnique'
    BY DEF OwnerHasRow, KeyUnique, HasRow, Acquired
  <2>4. RecoveryStaysProven' /\ ParkedNeverWrote'
    BY DEF RecoveryStaysProven, ParkedNeverWrote, HasRow
  <2> QED
    BY <2>1, <2>2, <2>3, <2>4
<1>2. CASE Next
  <2>1. PICK a \in Attempt :
           \/ \E c \in Contract, k \in Key, r \in Contract \cup {None} :
                 Begin(a, c, k, r)
           \/ Unavailable(a)
           \/ DatabaseError(a)
           \/ Insert(a)
           \/ Classify(a)
           \/ Supersede(a)
           \/ ProviderWrites(a)
           \/ \E o \in Outcome : ExecutorReturns(a, o)
           \/ Settle(a)
           \/ Crash(a)
    BY <1>2 DEF Next
  <2> QED
    BY <2>1, BeginIInv, UnavailableIInv, DatabaseErrorIInv, InsertIInv,
       ClassifyIInv, SupersedeIInv, ProviderWritesIInv, ExecutorReturnsIInv,
       SettleIInv, CrashIInv
<1> QED
  BY <1>1, <1>2

(* The inductive invariant holds of every reachable state of the table and  *)
(* its callers.                                                             *)
THEOREM Inductive == Spec => []IInv
<1>1. Init => IInv
  BY InitIInv
<1>2. IInv /\ [Next]_vars => IInv'
  BY NextIInv
<1> QED
  BY <1>1, <1>2, PTL DEF Spec

(* Rows and attempts keep the shape the code gives them.                    *)
THEOREM TypeCorrect == Spec => []TypeOK
<1>1. IInv => TypeOK
  BY DEF IInv
<1> QED
  BY <1>1, Inductive, PTL

LEMMA OneAcquisitionPerContract ==
  ASSUME IInv, NEW a \in Attempt, NEW b \in Attempt, a # b,
         Acquired(a), Acquired(b)
  PROVE  att[a].contract # att[b].contract
  BY DEF IInv, OwnerHasRow

(* A contract is dispatched by at most one attempt, ever: the guarantee     *)
(* execute_with_atomic_claim gives _execute_contract.                       *)
THEOREM DispatchOnce == Spec => []DispatchedOnce
<1>1. IInv => DispatchedOnce
  BY OneAcquisitionPerContract DEF DispatchedOnce
<1> QED
  BY <1>1, Inductive, PTL

LEMMA ExecutingOwnersDiffer ==
  ASSUME IInv, NEW a \in Attempt, NEW b \in Attempt, a # b,
         Owning(a), Acquired(b),
         claims[att[b].contract].status # "superseded"
  PROVE  att[a].key # att[b].key
<1> DEFINE c == att[a].contract
           d == att[b].contract
<1>1. /\ c \in Contract /\ HasRow(c) /\ claims[c].by = a
      /\ claims[c].status = "executing"
      /\ d \in Contract /\ HasRow(d) /\ claims[d].by = b
  BY AttemptTyped DEF IInv, OwnerHasRow, Owning
<1>2. /\ claims[c].key = att[a].key /\ claims[c].key # None
      /\ claims[d].key = att[b].key
  BY <1>1 DEF IInv, RowOwned
<1>3. c # d
  BY <1>1
<1> QED
  BY <1>1, <1>2, <1>3 DEF IInv, KeyUnique

(* Two attempts never execute under one idempotency key at the same time,   *)
(* a recovery that moves the key included.                                  *)
THEOREM OneOwner == Spec => []OneOwnerPerKey
<1>1. IInv => OneOwnerPerKey
  <2> SUFFICES ASSUME IInv, NEW a \in Attempt, NEW b \in Attempt, a # b,
                      Owning(a), Owning(b)
               PROVE  att[a].key # att[b].key
    BY DEF OneOwnerPerKey
  <2>1. Acquired(b) /\ claims[att[b].contract].status = "executing"
    BY DEF Owning, IInv, OwnerHasRow
  <2> QED
    BY <2>1, ExecutingOwnersDiffer
<1> QED
  BY <1>1, Inductive, PTL

LEMMA SharedKeyIsParked ==
  ASSUME IInv, NEW a \in Attempt, NEW b \in Attempt, a # b,
         Acquired(a), Acquired(b), att[a].key = att[b].key
  PROVE  \E x \in {a, b} : /\ att[x].outcome = "failed"
                           /\ claims[att[x].contract].status = "superseded"
                           /\ ~att[x].applied
<1> DEFINE c == att[a].contract
           d == att[b].contract
<1>1. /\ c \in Contract /\ HasRow(c) /\ claims[c].by = a
      /\ d \in Contract /\ HasRow(d) /\ claims[d].by = b
      /\ c # d
  BY AttemptTyped DEF IInv, OwnerHasRow
<1>2. claims[c].status = "superseded" \/ claims[d].status = "superseded"
  BY <1>1 DEF IInv, RowOwned, KeyUnique
<1> QED
  BY <1>1, <1>2 DEF IInv, RowOutcome, ParkedNeverWrote

(* A completed, unknown, running or crashed execution is never retried:     *)
(* when a key was dispatched twice, one of the two was recorded as failed   *)
(* and its row parked by a recovery.                                        *)
THEOREM RetryAfterFailure == Spec => []RetryOnlyAfterFailure
<1>1. IInv => RetryOnlyAfterFailure
  BY SharedKeyIsParked DEF RetryOnlyAfterFailure
<1> QED
  BY <1>1, Inductive, PTL

(* With the absence of the target row proven before a recovery is proposed, *)
(* no idempotency key makes the provider write twice.                       *)
THEOREM WriteOnce == Spec => []OneWritePerKey
<1>1. IInv => OneWritePerKey
  BY SharedKeyIsParked DEF OneWritePerKey, IInv, AttemptShape
<1> QED
  BY <1>1, Inductive, PTL

(* The claim proof of the gated tools accepts the acquiring attempt during  *)
(* its whole dispatch, and nobody else.                                     *)
THEOREM ProofIsExact == Spec => []ClaimProofIsExact
<1>1. IInv => ClaimProofIsExact
  BY DEF IInv, ClaimProofIsExact, ActiveClaim, OwnerHasRow, AttemptShape
<1> QED
  BY <1>1, Inductive, PTL

-----------------------------------------------------------------------------
LEMMA HolderIsUnique ==
  ASSUME IInv, NEW k \in Key, NEW c \in HoldersOf(k)
  PROVE  /\ HoldersOf(k) = {c}
         /\ Holder(k) = c
<1>1. HoldersOf(k) = {c}
  BY NoneIsFresh DEF IInv, KeyUnique, HoldersOf
<1> QED
  BY <1>1 DEF Holder, HoldersOf

LEMMA KeyUntouched ==
  ASSUME NEW k \in Key,
         HoldersOf(k)' = HoldersOf(k),
         \A c \in HoldersOf(k) : claims'[c].status = claims[c].status
  PROVE  Holder(k)' = Holder(k) /\ KeyState(k)' = KeyState(k)
<1>1. Holder(k)' = Holder(k)
  BY DEF Holder
<1>2. HoldersOf(k) # {} => Holder(k) \in HoldersOf(k)
  BY DEF Holder, HoldersOf
<1> QED
  BY <1>1, <1>2 DEF KeyState

(* Giving key k to contract c, which had no row, is the abstract Take.      *)
LEMMA TakesKey ==
  ASSUME IInv, IInv', NEW c \in Contract, NEW k \in Key,
         ~HasRow(c), KeyState(k) \in {"free", "failed"},
         claims'[c].key = k, claims'[c].status = "executing",
         \A d \in Contract \ {c} : HasRow(d)' <=> HasRow(d),
         \A d \in Contract \ {c} : claims[d].key # k =>
            claims'[d].key = claims[d].key /\ claims'[d].status = claims[d].status,
         \A d \in Contract \ {c} : claims[d].key = k => claims'[d].key \in {k, None}
  PROVE  Ownership!Take(c, k)
<1> DEFINE owner == [j \in Key |-> Holder(j)]
           state == [j \in Key |-> KeyState(j)]
<1>1. c \in HoldersOf(k)'
  BY DEF HoldersOf, HasRow
<1>2. HoldersOf(k)' = {c} /\ Holder(k)' = c
  <2>1. ASSUME NEW d \in HoldersOf(k)' PROVE d = c
    BY <1>1, NoneIsFresh DEF IInv, KeyUnique, HoldersOf
  <2> QED
    BY <1>1, <2>1 DEF Holder, HoldersOf
<1>3. KeyState(k)' = "owned"
  BY <1>2 DEF KeyState
<1>4. ASSUME NEW j \in Key, j # k
      PROVE  Holder(j)' = Holder(j) /\ KeyState(j)' = KeyState(j)
  <2>1. HoldersOf(j)' = HoldersOf(j)
    <3>1. ASSUME NEW d \in Contract, d # c
          PROVE  (HasRow(d)' /\ claims'[d].key = j) <=> (HasRow(d) /\ claims[d].key = j)
      BY <1>4, NoneIsFresh
    <3>2. (HasRow(c) /\ claims[c].key = j) <=> (HasRow(c)' /\ claims'[c].key = j)
      BY <1>4
    <3> QED
      BY <1>4, <3>1, <3>2 DEF HoldersOf
  <2> QED
    BY <1>4, <2>1, KeyUntouched DEF HoldersOf
<1>5. owner' = [owner EXCEPT ![k] = c]
  BY <1>2, <1>4
<1>6. state' = [state EXCEPT ![k] = "owned"]
  BY <1>3, <1>4
<1>7. {d \in Contract : HasRow(d)}' = {d \in Contract : HasRow(d)} \cup {c}
  BY <1>1 DEF HoldersOf
<1> QED
  BY <1>5, <1>6, <1>7 DEF Ownership!Take

(* Recording an outcome for the row that executes under key k is the        *)
(* abstract Close.                                                          *)
LEMMA ClosesKey ==
  ASSUME IInv, NEW c \in Contract, NEW k \in Key, NEW o \in Outcome,
         HasRow(c), claims[c].key = k, claims[c].status = "executing",
         claims' = [claims EXCEPT ![c].status = o]
  PROVE  \E s \in Ownership!States : Ownership!Close(k, s)
<1> DEFINE s == IF o = "failed" THEN "failed" ELSE "closed"
           owner == [j \in Key |-> Holder(j)]
           state == [j \in Key |-> KeyState(j)]
<1>1. /\ claims'[c].status = o /\ claims'[c].key = k
      /\ \A d \in Contract \ {c} : claims'[d] = claims[d]
      /\ o # "absent" /\ o # "executing"
  BY DEF IInv, TypeOK, Row, NoRow, HasRow, Outcome
<1>2. ASSUME NEW j \in Key
      PROVE  HoldersOf(j)' = HoldersOf(j) /\ Holder(j)' = Holder(j)
  <2>1. \A d \in Contract :
           (HasRow(d)' /\ claims'[d].key = j) <=> (HasRow(d) /\ claims[d].key = j)
    BY <1>1 DEF HasRow
  <2>2. HoldersOf(j)' = HoldersOf(j)
    BY <2>1 DEF HoldersOf
  <2> QED
    BY <2>2 DEF Holder
<1>3. Holder(k) = c /\ HoldersOf(k) = {c}
  <2>1. c \in HoldersOf(k)
    BY DEF HoldersOf
  <2> QED
    BY <2>1, HolderIsUnique
<1>4. KeyState(k) = "owned"
  BY <1>3 DEF KeyState
<1>5. KeyState(k)' = s
  BY <1>1, <1>2, <1>3 DEF KeyState
<1>6. ASSUME NEW j \in Key, j # k PROVE KeyState(j)' = KeyState(j)
  <2>1. c \notin HoldersOf(j)
    BY <1>6 DEF HoldersOf
  <2> QED
    BY <1>1, <1>2, <2>1, KeyUntouched DEF HoldersOf
<1>7. {d \in Contract : HasRow(d)}' = {d \in Contract : HasRow(d)}
  BY <1>1 DEF HasRow
<1>8. owner' = owner
  BY <1>2
<1>9. state' = [state EXCEPT ![k] = s]
  BY <1>5, <1>6
<1> QED
  BY <1>4, <1>7, <1>8, <1>9 DEF Ownership!Close, Ownership!States

(* What a step does to the table, by the only three actions that touch it.  *)
LEMMA InsertTakes ==
  ASSUME IInv, NEW a \in Attempt, Insert(a), claims' # claims
  PROVE  \E c \in Contract, k \in Key :
            /\ claims[c] = NoRow
            /\ HoldersOf(k) = {}
            /\ NewRow(a).key = k
            /\ claims' = [claims EXCEPT ![c] = NewRow(a)]
<1>1. att[a].contract \in Contract /\ att[a].key \in Key
  BY DEF Insert, IInv, AttemptShape
<1>2. ~HasRow(att[a].contract) => claims[att[a].contract] = NoRow
  BY <1>1 DEF IInv, TypeOK, HasRow, Row, Outcome
<1> QED
  BY <1>1, <1>2 DEF Insert, Conflicts, NewRow

LEMMA SupersedeTakes ==
  ASSUME IInv, NEW a \in Attempt, Supersede(a), claims' # claims
  PROVE  \E c, r \in Contract, k \in Key :
            /\ claims[c] = NoRow
            /\ r # c
            /\ claims[r].status = "failed"
            /\ claims[r].key = k
            /\ NewRow(a).key = k
            /\ claims' = [claims EXCEPT ![r] = ParkedRow(r, c),
                                        ![c] = NewRow(a)]
<1>1. /\ att[a].contract \in Contract /\ att[a].key \in Key
      /\ att[a].recovers \in Contract
  BY DEF Supersede, IInv, AttemptShape
<1>2. ~HasRow(att[a].contract) => claims[att[a].contract] = NoRow
  BY <1>1 DEF IInv, TypeOK, HasRow, Row, Outcome
<1>3. claims[att[a].recovers].status = "failed" => HasRow(att[a].recovers)
  BY DEF HasRow
<1> QED
  BY <1>1, <1>2, <1>3 DEF Supersede, NewRow

LEMMA SettleCloses ==
  ASSUME IInv, NEW a \in Attempt, Settle(a), claims' # claims
  PROVE  \E c \in Contract, k \in Key, o \in Outcome :
            /\ HasRow(c)
            /\ claims[c].key = k
            /\ claims[c].status = "executing"
            /\ claims' = [claims EXCEPT ![c].status = o]
<1>1. /\ att[a].contract \in Contract /\ att[a].key \in Key
      /\ att[a].outcome \in Outcome /\ Acquired(a)
  BY DEF Settle, IInv, AttemptShape
<1>2. /\ HasRow(att[a].contract)
      /\ claims[att[a].contract].status = "executing"
      /\ claims[att[a].contract].by = a
  BY <1>1 DEF Settle, IInv, OwnerHasRow
<1>3. claims[att[a].contract].key = att[a].key
  BY <1>1, <1>2 DEF IInv, RowOwned
<1> QED
  BY <1>1, <1>2, <1>3 DEF Settle

LEMMA TableSteps ==
  ASSUME IInv, [Next]_vars
  PROVE  \/ claims' = claims
         \/ \E a \in Attempt : claims' # claims /\ Insert(a)
         \/ \E a \in Attempt : claims' # claims /\ Supersede(a)
         \/ \E a \in Attempt : claims' # claims /\ Settle(a)
  BY DEF Next, vars, Begin, Unavailable, DatabaseError, Classify,
         ProviderWrites, ExecutorReturns, Crash

LEMMA StepImplements ==
  ASSUME IInv, IInv', [Next]_vars
  PROVE  [Ownership!OwnershipNext]_(Ownership!ownershipVars)
<1>1. CASE claims' = claims
  <2>1. ASSUME NEW j \in Key
        PROVE  Holder(j)' = Holder(j) /\ KeyState(j)' = KeyState(j)
    <3>1. HoldersOf(j)' = HoldersOf(j)
      BY <1>1 DEF HoldersOf, HasRow
    <3> QED
      BY <1>1, <3>1, KeyUntouched DEF HoldersOf
  <2>2. {d \in Contract : HasRow(d)}' = {d \in Contract : HasRow(d)}
    BY <1>1 DEF HasRow
  <2> QED
    BY <2>1, <2>2 DEF Ownership!ownershipVars
<1>2. ASSUME NEW a \in Attempt, Insert(a), claims' # claims
      PROVE  Ownership!OwnershipNext
  <2>1. PICK c \in Contract, k \in Key :
            /\ claims[c] = NoRow
            /\ HoldersOf(k) = {}
            /\ NewRow(a).key = k
            /\ claims' = [claims EXCEPT ![c] = NewRow(a)]
    BY <1>2, InsertTakes
  <2>2. /\ claims'[c].key = k /\ claims'[c].status = "executing"
        /\ \A d \in Contract \ {c} : claims'[d] = claims[d]
    BY <2>1 DEF IInv, TypeOK, NewRow
  <2>3. ~HasRow(c) /\ KeyState(k) = "free"
    BY <2>1 DEF KeyState, HasRow, NoRow
  <2>4. \A d \in Contract \ {c} : HasRow(d)' <=> HasRow(d)
    BY <2>2 DEF HasRow
  <2>5. \A d \in Contract \ {c} : claims[d].key = k => claims'[d].key \in {k, None}
    BY <2>2
  <2>6. Ownership!Take(c, k)
    BY <2>2, <2>3, <2>4, <2>5, TakesKey
  <2> QED
    BY <2>6 DEF Ownership!OwnershipNext
<1>3. ASSUME NEW a \in Attempt, Supersede(a), claims' # claims
      PROVE  Ownership!OwnershipNext
  <2>1. PICK c \in Contract, r \in Contract, k \in Key :
            /\ claims[c] = NoRow
            /\ r # c
            /\ claims[r].status = "failed"
            /\ claims[r].key = k
            /\ NewRow(a).key = k
            /\ claims' = [claims EXCEPT ![r] = ParkedRow(r, c),
                                        ![c] = NewRow(a)]
    BY <1>3, SupersedeTakes
  <2>2. /\ claims'[c].key = k /\ claims'[c].status = "executing"
        /\ claims'[r].key = None /\ claims'[r].status = "superseded"
        /\ \A d \in Contract \ {c, r} : claims'[d] = claims[d]
    BY <2>1 DEF IInv, TypeOK, NewRow, ParkedRow
  <2>3. r \in HoldersOf(k) /\ ~HasRow(c)
    BY <2>1 DEF HoldersOf, HasRow, NoRow
  <2>4. KeyState(k) = "failed"
    BY <2>1, <2>3, HolderIsUnique DEF KeyState
  <2>5. \A d \in Contract \ {c} : claims[d].key = k => claims'[d].key \in {k, None}
    BY <2>2
  <2>6. \A d \in Contract \ {c} : HasRow(d)' <=> HasRow(d)
    BY <2>1, <2>2 DEF HasRow
  <2>7. \A d \in Contract \ {c} : claims[d].key # k =>
           claims'[d].key = claims[d].key /\ claims'[d].status = claims[d].status
    BY <2>1, <2>2
  <2>8. Ownership!Take(c, k)
    BY <2>2, <2>3, <2>4, <2>5, <2>6, <2>7, TakesKey
  <2> QED
    BY <2>8 DEF Ownership!OwnershipNext
<1>4. ASSUME NEW a \in Attempt, Settle(a), claims' # claims
      PROVE  Ownership!OwnershipNext
  BY <1>4, SettleCloses, ClosesKey DEF Ownership!OwnershipNext
<1> QED
  BY <1>1, <1>2, <1>3, <1>4, TableSteps

(* The table with its racing callers implements exclusive ownership of      *)
(* idempotency keys: initially no key has an owner, and every step takes a  *)
(* key, closes one or leaves ownership alone.                               *)
THEOREM Implements == Spec => ImplementsOwnership
<1>1. Init => Ownership!OwnershipInit
  BY DEF Init, Ownership!OwnershipInit, Holder, KeyState, HoldersOf, HasRow, NoRow
<1>2. IInv /\ IInv' /\ [Next]_vars => [Ownership!OwnershipNext]_(Ownership!ownershipVars)
  BY StepImplements
<1> QED
  BY <1>1, <1>2, Inductive, PTL DEF Spec, ImplementsOwnership, Ownership!OwnershipSpec

LEMMA StepKeepsLifecycle ==
  ASSUME IInv, [Next]_vars, NEW d \in Contract
  PROVE  ClaimStep(d)
<1>1. CASE claims' = claims
  BY <1>1 DEF ClaimStep
<1>2. ASSUME NEW a \in Attempt, Insert(a), claims' # claims
      PROVE  ClaimStep(d)
  BY <1>2, InsertTakes DEF ClaimStep, NewRow, IInv, TypeOK
<1>3. ASSUME NEW a \in Attempt, Supersede(a), claims' # claims
      PROVE  ClaimStep(d)
  <2>1. PICK c \in Contract, r \in Contract, k \in Key :
            /\ claims[c] = NoRow
            /\ r # c
            /\ claims[r].status = "failed"
            /\ claims[r].key = k
            /\ NewRow(a).key = k
            /\ claims' = [claims EXCEPT ![r] = ParkedRow(r, c),
                                        ![c] = NewRow(a)]
    BY <1>3, SupersedeTakes
  <2>2. /\ claims'[c] = NewRow(a) /\ claims'[r] = ParkedRow(r, c)
        /\ \A e \in Contract \ {c, r} : claims'[e] = claims[e]
    BY <2>1 DEF IInv, TypeOK
  <2>3. CASE d = c
    BY <2>1, <2>2, <2>3 DEF ClaimStep, NewRow
  <2>4. CASE d = r
    BY <2>1, <2>2, <2>4 DEF ClaimStep, ParkedRow, NewRow, HasRow, NoRow
  <2>5. CASE d \notin {c, r}
    BY <2>2, <2>5 DEF ClaimStep
  <2> QED
    BY <2>3, <2>4, <2>5
<1>4. ASSUME NEW a \in Attempt, Settle(a), claims' # claims
      PROVE  ClaimStep(d)
  <2>1. PICK c \in Contract, k \in Key, o \in Outcome :
            /\ HasRow(c)
            /\ claims[c].key = k
            /\ claims[c].status = "executing"
            /\ claims' = [claims EXCEPT ![c].status = o]
    BY <1>4, SettleCloses
  <2>2. /\ claims'[c].status = o /\ claims'[c].key = claims[c].key
        /\ claims'[c].by = claims[c].by
        /\ \A e \in Contract \ {c} : claims'[e] = claims[e]
    BY <2>1 DEF IInv, TypeOK, Row, NoRow, HasRow
  <2> QED
    BY <2>1, <2>2 DEF ClaimStep
<1> QED
  BY <1>1, <1>2, <1>3, <1>4, TableSteps

(* Step by step: no row is deleted, no outcome turns into another one, and  *)
(* only a failed row gives its key up, to the row that parks it.            *)
THEOREM Lifecycle == Spec => ClaimLifecycle
<1>1. IInv /\ [Next]_vars => [\A c \in Contract : ClaimStep(c)]_vars
  BY StepKeepsLifecycle
<1> QED
  BY <1>1, Inductive, PTL DEF Spec, ClaimLifecycle
-----------------------------------------------------------------------------
(* A row stays, with its owner; a key that is held is held by a row.        *)
LEMMA RowsStay ==
  ASSUME IInv, [Next]_vars, NEW d \in Contract, HasRow(d)
  PROVE  claims'[d].status # "absent" /\ claims'[d].by = claims[d].by
<1>1. CASE claims' = claims
  BY <1>1 DEF HasRow
<1>2. ASSUME NEW a \in Attempt, Insert(a), claims' # claims
      PROVE  claims'[d].status # "absent" /\ claims'[d].by = claims[d].by
  BY <1>2, InsertTakes DEF NoRow, HasRow, IInv, TypeOK
<1>3. ASSUME NEW a \in Attempt, Supersede(a), claims' # claims
      PROVE  claims'[d].status # "absent" /\ claims'[d].by = claims[d].by
  BY <1>3, SupersedeTakes DEF ParkedRow, NoRow, HasRow, IInv, TypeOK
<1>4. ASSUME NEW a \in Attempt, Settle(a), claims' # claims
      PROVE  claims'[d].status # "absent" /\ claims'[d].by = claims[d].by
  <2>1. PICK c \in Contract, o \in Outcome :
            HasRow(c) /\ claims' = [claims EXCEPT ![c].status = o]
    BY <1>4, SettleCloses
  <2>2. /\ claims'[c].status = o /\ claims'[c].by = claims[c].by
        /\ \A e \in Contract \ {c} : claims'[e] = claims[e]
    BY <2>1 DEF IInv, TypeOK, Row, NoRow, HasRow
  <2> QED
    BY <2>1, <2>2 DEF HasRow, Outcome
<1> QED
  BY <1>1, <1>2, <1>3, <1>4, TableSteps

LEMMA KeysStayHeld ==
  ASSUME IInv, [Next]_vars, NEW k \in Key, HoldersOf(k) # {}
  PROVE  \E d \in Contract : claims'[d].status # "absent" /\ claims'[d].key = k
<1>1. PICK h \in Contract : HasRow(h) /\ claims[h].key = k
  BY DEF HoldersOf
<1>3. CASE claims' = claims
  BY <1>1, <1>3 DEF HasRow
<1>4. ASSUME NEW a \in Attempt, Insert(a), claims' # claims
      PROVE  claims'[h].status # "absent" /\ claims'[h].key = k
  BY <1>1, <1>4, InsertTakes DEF NoRow, HasRow, IInv, TypeOK
<1>5. ASSUME NEW a \in Attempt, Supersede(a), claims' # claims
      PROVE  \E d \in Contract : claims'[d].status # "absent" /\ claims'[d].key = k
  <2>1. PICK c \in Contract, r \in Contract, j \in Key :
            /\ claims[c] = NoRow
            /\ r # c
            /\ claims[r].key = j
            /\ NewRow(a).key = j
            /\ claims' = [claims EXCEPT ![r] = ParkedRow(r, c),
                                        ![c] = NewRow(a)]
    BY <1>5, SupersedeTakes
  <2>2. /\ claims'[c] = NewRow(a)
        /\ \A e \in Contract \ {c, r} : claims'[e] = claims[e]
    BY <2>1 DEF IInv, TypeOK
  <2>3. CASE h = r
    BY <1>1, <2>1, <2>2, <2>3 DEF NewRow, HasRow
  <2>4. CASE h # r
    <3>1. h # c
      BY <1>1, <2>1 DEF NoRow, HasRow
    <3> QED
      BY <1>1, <2>2, <2>4, <3>1 DEF HasRow
  <2> QED
    BY <2>3, <2>4
<1>6. ASSUME NEW a \in Attempt, Settle(a), claims' # claims
      PROVE  claims'[h].status # "absent" /\ claims'[h].key = k
  <2>1. PICK c \in Contract, o \in Outcome :
            HasRow(c) /\ claims' = [claims EXCEPT ![c].status = o]
    BY <1>6, SettleCloses
  <2>2. /\ claims'[c].status = o /\ claims'[c].key = claims[c].key
        /\ \A e \in Contract \ {c} : claims'[e] = claims[e]
    BY <2>1 DEF IInv, TypeOK, Row, NoRow, HasRow
  <2> QED
    BY <1>1, <2>1, <2>2 DEF HasRow, Outcome
<1> QED
  BY <1>1, <1>3, <1>4, <1>5, <1>6, TableSteps

(* Of an attempt, only what it was called with is needed below.             *)
(* Only Begin writes what a call was asked to do.                           *)
LEMMA RequestStays ==
  ASSUME TypeOK, NEW a \in Attempt, NEW b \in Attempt,
         \/ Unavailable(a) \/ DatabaseError(a) \/ Insert(a) \/ Classify(a)
         \/ Supersede(a) \/ ProviderWrites(a)
         \/ \E o \in Outcome : ExecutorReturns(a, o)
         \/ Settle(a) \/ Crash(a)
  PROVE  /\ att'[b].contract = att[b].contract
         /\ att'[b].key = att[b].key
         /\ att'[b].recovers = att[b].recovers
<1>1. att \in [Attempt -> AttemptState] /\ att[b] \in AttemptState
  BY DEF TypeOK
<1>2. CASE Unavailable(a) \/ DatabaseError(a) \/ Classify(a)
  BY <1>1, <1>2
  DEF Unavailable, DatabaseError, Classify, Refuse, AttemptState
<1>3. CASE Supersede(a)
  <2>1. \/ att' = [att EXCEPT ![a].pc = "dispatch", ![a].result = "acquired"]
        \/ \E why \in Refusal : Refuse(a, why)
    BY <1>3 DEF Supersede, Refusal
  <2>2. CASE att' = [att EXCEPT ![a].pc = "dispatch", ![a].result = "acquired"]
    BY <1>1, <2>2 DEF AttemptState
  <2>3. CASE \E why \in Refusal : Refuse(a, why)
    BY <1>1, <2>3 DEF Refuse, AttemptState
  <2> QED
    BY <2>1, <2>2, <2>3
<1>4. CASE Insert(a)
  BY <1>1, <1>4 DEF Insert, AttemptState
<1>5. CASE ProviderWrites(a)
  BY <1>1, <1>5 DEF ProviderWrites, AttemptState
<1>7. CASE Settle(a) \/ Crash(a)
  <2>1. \E p \in Phase : att' = [att EXCEPT ![a].pc = p]
    BY <1>7 DEF Settle, Crash, Phase
  <2> QED
    BY <1>1, <2>1 DEF AttemptState
<1>6. ASSUME NEW o \in Outcome, ExecutorReturns(a, o)
      PROVE  /\ att'[b].contract = att[b].contract
             /\ att'[b].key = att[b].key
             /\ att'[b].recovers = att[b].recovers
  <2>1. att' = [att EXCEPT ![a].pc = "settle", ![a].outcome = o]
    BY <1>6 DEF ExecutorReturns
  <2>2. CASE b = a
    BY <1>1, <2>1, <2>2 DEF AttemptState
  <2>3. CASE b # a
    BY <1>1, <2>1, <2>3
  <2> QED
    BY <2>2, <2>3
<1> QED
  BY <1>2, <1>3, <1>4, <1>5, <1>6, <1>7

LEMMA CallsStay ==
  ASSUME IInv, [Next]_vars, NEW b \in Attempt, att[b].pc # "idle"
  PROVE  /\ att'[b].contract = att[b].contract /\ att'[b].key = att[b].key
         /\ att'[b].recovers = att[b].recovers
<1>1. TypeOK /\ att \in [Attempt -> AttemptState]
  BY DEF IInv, TypeOK
<1>2. CASE UNCHANGED vars
  BY <1>2 DEF vars
<1>3. ASSUME NEW a \in Attempt, NEW c, NEW k, NEW r, Begin(a, c, k, r)
      PROVE  att'[b] = att[b]
  BY <1>1, <1>3 DEF Begin
<1> QED
  BY <1>1, <1>2, <1>3, RequestStays DEF Next

LEMMA ConflictsStay ==
  ASSUME IInv, ConflictStaysVisible, [Next]_vars
  PROVE  ConflictStaysVisible'
<1> SUFFICES ASSUME NEW a \in Attempt, att'[a].pc = "classify"
             PROVE  Conflicts(att[a].contract, att[a].key)'
  BY DEF ConflictStaysVisible
<1>1. CASE att[a].pc = "classify"
  <2> DEFINE c == att[a].contract
             k == att[a].key
  <2>1. c \in Contract /\ k \in Key /\ (HasRow(c) \/ HoldersOf(k) # {})
    BY <1>1 DEF IInv, AttemptShape, ConflictStaysVisible, Conflicts
  <2>2. att'[a].contract = c /\ att'[a].key = k
    BY <1>1, CallsStay
  <2>3. HasRow(c) => claims'[c].status # "absent"
    BY <2>1, RowsStay
  <2>4. HoldersOf(k) # {}
          => \E d \in Contract : claims'[d].status # "absent" /\ claims'[d].key = k
    BY <2>1, KeysStayHeld
  <2> HIDE DEF c, k
  <2> QED
    BY <2>1, <2>2, <2>3, <2>4 DEF Conflicts, HoldersOf, HasRow
<1>2. CASE att[a].pc # "classify"
  <2>0. att \in [Attempt -> AttemptState]
    BY DEF IInv, TypeOK
  <2>1. Insert(a) /\ att' = [att EXCEPT ![a].pc = "classify"]
    <3>1. att'[a] # att[a] /\ ~UNCHANGED vars
      BY <1>2 DEF vars
    <3>2. ASSUME NEW b \in Attempt, NEW c, NEW k, NEW q, Begin(b, c, k, q)
          PROVE  att'[a].pc # "classify"
      BY <1>2, <2>0, <3>2 DEF Begin, Fresh
    <3>3. ASSUME NEW b \in Attempt,
                 \/ Unavailable(b) \/ DatabaseError(b) \/ Classify(b)
                 \/ Supersede(b)
          PROVE  att'[a].pc # "classify"
      BY <1>2, <2>0, <3>3
      DEF Unavailable, DatabaseError, Classify, Supersede, Refuse, AttemptState
    <3>4. ASSUME NEW b \in Attempt,
                 \/ ProviderWrites(b) \/ Settle(b) \/ Crash(b)
                 \/ \E o \in Outcome : ExecutorReturns(b, o)
          PROVE  att'[a].pc # "classify"
      BY <1>2, <2>0, <3>4
      DEF ProviderWrites, Settle, Crash, ExecutorReturns, AttemptState
    <3>5. ASSUME NEW b \in Attempt, Insert(b)
          PROVE  b = a /\ att' = [att EXCEPT ![a].pc = "classify"]
      BY <1>2, <2>0, <3>5 DEF Insert, AttemptState
    <3> QED
      BY <3>1, <3>2, <3>3, <3>4, <3>5 DEF Next
  <2>2. /\ Conflicts(att[a].contract, att[a].key) /\ claims' = claims
        /\ att'[a].contract = att[a].contract /\ att'[a].key = att[a].key
    BY <2>1 DEF Insert, IInv, TypeOK, AttemptState
  <2> QED
    BY <2>2 DEF Conflicts, HoldersOf, HasRow
<1> QED
  BY <1>1, <1>2

(* The branch claim_contract_execution calls impossible is impossible: what *)
(* made the INSERT fail is still there for the SELECT that names it, also   *)
(* when a recovery moved the key in between.                                *)
THEOREM ConflictVisible == Spec => []ConflictStaysVisible
<1>1. Init => ConflictStaysVisible
  BY DEF Init, ConflictStaysVisible, Fresh
<1>2. IInv /\ ConflictStaysVisible /\ [Next]_vars => ConflictStaysVisible'
  BY ConflictsStay
<1> QED
  BY <1>1, <1>2, Inductive, PTL DEF Spec

-----------------------------------------------------------------------------
(* A recovery is never recovered: so the row that took a key keeps it.      *)
RecoveriesAreFirst ==
    \A a \in Attempt :
       att[a].recovers # None
         => att[claims[att[a].recovers].by].recovers = None

Lineage ==
    \A c \in Contract :
       claims[c].status = "superseded" =>
          /\ claims[c].origKey \in Key
          /\ claims[c].supersededBy \in Contract
          /\ HasRow(claims[c].supersededBy)
          /\ claims[claims[c].supersededBy].key = claims[c].origKey
          /\ att[claims[claims[c].supersededBy].by].recovers # None

LEMMA RecoveriesStayFirst ==
  ASSUME IInv, IInv', RecoveriesAreFirst, [Next]_vars
  PROVE  RecoveriesAreFirst'
<1> SUFFICES ASSUME NEW a \in Attempt, att'[a].recovers # None
             PROVE  att'[claims'[att'[a].recovers].by].recovers = None
  BY DEF RecoveriesAreFirst
<1>1. CASE att[a].pc # "idle"
  <2> DEFINE r == att[a].recovers
             b == claims[r].by
  <2>1. att'[a].recovers = r /\ r # None
    BY <1>1, CallsStay
  <2>2. r \in Contract /\ HasRow(r)
    BY <2>1, AttemptTyped DEF IInv, RecoveryStaysProven
  <2>3. b \in Attempt /\ att[b].pc # "idle"
    BY <2>2 DEF IInv, RowOwned, AttemptShape, Acquired, Fresh
  <2>4. claims'[r].by = b /\ att'[b].recovers = att[b].recovers
    BY <2>2, <2>3, RowsStay, CallsStay
  <2> QED
    BY <2>1, <2>4 DEF RecoveriesAreFirst
<1>2. CASE att[a].pc = "idle"
  <2>1. PICK c \in Contract, k \in Key, r \in Contract \cup {None} :
           Begin(a, c, k, r)
    <3>1. att[a].recovers = None
      BY <1>2 DEF IInv, AttemptShape, Fresh
    <3>2. att'[a].recovers # att[a].recovers /\ TypeOK
      BY <3>1 DEF IInv
    <3>3. PICK b \in Attempt : \E c \in Contract, k \in Key,
                                   r \in Contract \cup {None} : Begin(b, c, k, r)
      BY <3>2, RequestStays DEF Next, vars
    <3>4. b = a
      BY <3>2, <3>3 DEF Begin, TypeOK
    <3> QED
      BY <3>3, <3>4
  <2>2. /\ att'[a].recovers = r /\ claims' = claims
        /\ \A b \in Attempt \ {a} : att'[b] = att[b]
    BY <2>1 DEF Begin, IInv, TypeOK, Fresh
  <2> DEFINE b == claims[r].by
  <2>3. r \in Contract /\ r # None /\ RecoveryProven(r, k)
    BY <2>1, <2>2 DEF Begin
  <2>4. HasRow(r)
    BY <2>2, <2>3 DEF IInv, RecoveryStaysProven, HasRow
  <2>5. b \in Attempt /\ att[b].contract = r /\ Acquired(b)
    BY <2>3, <2>4 DEF IInv, RowOwned
  <2>6. b # a /\ att[b].recovers = None
    BY <1>2, <2>3, <2>5 DEF RecoveryProven, IInv, AttemptShape, Acquired, Fresh
  <2> QED
    BY <2>2, <2>5, <2>6
<1> QED
  BY <1>1, <1>2

LEMMA Parks ==
  ASSUME IInv, [Next]_vars, NEW c \in Contract,
         claims[c].status # "superseded", claims'[c].status = "superseded"
  PROVE  \E a \in Attempt : Supersede(a) /\ claims' # claims
                              /\ att[a].recovers = c
<1>1. PICK a \in Attempt : Supersede(a) /\ claims' # claims
  <2>1. claims' # claims
    OBVIOUS
  <2>2. ASSUME NEW a \in Attempt, Insert(a) PROVE FALSE
    BY <2>1, <2>2, InsertTakes DEF NewRow, IInv, TypeOK
  <2>3. ASSUME NEW a \in Attempt, Settle(a) PROVE FALSE
    <3>1. PICK e \in Contract, o \in Outcome :
            HasRow(e) /\ claims' = [claims EXCEPT ![e].status = o]
      BY <2>1, <2>3, SettleCloses
    <3> QED
      BY <3>1 DEF Outcome, IInv, TypeOK, Row, NoRow, HasRow
  <2> QED
    BY <2>1, <2>2, <2>3, TableSteps
<1> DEFINE d == att[a].contract
           r == att[a].recovers
<1>2. claims' = [claims EXCEPT ![r] = ParkedRow(r, d), ![d] = NewRow(a)]
  BY <1>1 DEF Supersede
<1>3. c # d
  BY <1>2 DEF IInv, TypeOK, NewRow
<1>4. c = r
  BY <1>2, <1>3 DEF IInv, TypeOK
<1> QED
  BY <1>1, <1>4

LEMMA LineageStays ==
  ASSUME IInv, IInv', RecoveriesAreFirst, Lineage, [Next]_vars
  PROVE  Lineage'
<1> SUFFICES ASSUME NEW c \in Contract, claims'[c].status = "superseded"
             PROVE  /\ claims'[c].origKey \in Key
                    /\ claims'[c].supersededBy \in Contract
                    /\ claims'[claims'[c].supersededBy].status # "absent"
                    /\ claims'[claims'[c].supersededBy].key = claims'[c].origKey
                    /\ att'[claims'[claims'[c].supersededBy].by].recovers # None
  BY DEF Lineage, HasRow
<1>1. CASE claims[c].status = "superseded"
  <2> DEFINE d == claims[c].supersededBy
             b == claims[d].by
  <2>1. /\ claims[c].origKey \in Key /\ d \in Contract /\ HasRow(d)
        /\ claims[d].key = claims[c].origKey /\ att[b].recovers # None
    BY <1>1 DEF Lineage
  <2>2. claims'[c] = claims[c]
    BY <1>1, StepKeepsLifecycle DEF ClaimStep, Outcome, NoRow
  <2>3. claims'[d].status # "absent" /\ claims'[d].by = b
    BY <2>1, RowsStay
  <2>4. b \in Attempt /\ att[b].pc # "idle"
    BY <2>1 DEF IInv, RowOwned, AttemptShape, Acquired, Fresh
  <2>5. att'[b].recovers # None
    BY <2>1, <2>4, CallsStay
  <2>6. claims'[d].key = claims[d].key
    <3>1. claims[d] # NoRow
      BY <2>1 DEF HasRow, NoRow
    <3>2. CASE claims[d].status = "failed" /\ claims'[d].status = "superseded"
      <4>1. \E a \in Attempt : att[a].recovers = d
        BY <2>1, <3>2, Parks
      <4>2. d # None
        BY <2>1, NoneIsFresh
      <4> QED
        BY <2>1, <4>1, <4>2 DEF RecoveriesAreFirst
    <3> QED
      BY <2>1, <3>1, <3>2, StepKeepsLifecycle DEF ClaimStep
  <2> QED
    BY <2>1, <2>2, <2>3, <2>5, <2>6
<1>2. CASE claims[c].status # "superseded"
  <2>1. PICK a \in Attempt : Supersede(a) /\ claims' # claims
                               /\ att[a].recovers = c
    BY <1>2, Parks
  <2> DEFINE d == att[a].contract
  <2>2. /\ att[a].pc = "supersede" /\ d \in Contract
        /\ att[a].key \in Key /\ c # d /\ c # None
    BY <2>1, NoneIsFresh
    DEF Supersede, IInv, AttemptShape, RecoveryStaysProven
  <2>3. /\ claims[c].key = att[a].key
        /\ claims' = [claims EXCEPT ![c] = ParkedRow(c, d), ![d] = NewRow(a)]
    BY <2>1 DEF Supersede
  <2>4. claims'[c] = ParkedRow(c, d) /\ claims'[d] = NewRow(a)
    BY <2>2, <2>3 DEF IInv, TypeOK
  <2>5. /\ claims'[c].origKey = att[a].key /\ claims'[c].supersededBy = d
        /\ claims'[d].status = "executing" /\ claims'[d].key = att[a].key
        /\ claims'[d].by = a
    BY <2>3, <2>4 DEF ParkedRow, NewRow
  <2>6. att'[a].recovers = c
    BY <2>1, <2>2, CallsStay
  <2> HIDE DEF d
  <2> QED
    BY <2>2, <2>5, <2>6
<1> QED
  BY <1>1, <1>2

(* The audit trail of a recovery stays readable: a parked row names the key *)
(* it held and a contract whose row still holds that key, for a recovery is *)
(* never recovered itself (claim_contract_execution parks the failed row;  *)
(* propose_action refuses a recovery of a recovery).                        *)
THEOREM LineageKept == Spec => []LineageComplete
<1>1. Init => RecoveriesAreFirst /\ Lineage
  BY DEF Init, RecoveriesAreFirst, Lineage, Fresh, NoRow
<1>2. IInv /\ IInv' /\ RecoveriesAreFirst /\ Lineage /\ [Next]_vars
        => RecoveriesAreFirst' /\ Lineage'
  BY RecoveriesStayFirst, LineageStays
<1>3. Lineage => LineageComplete
  BY DEF Lineage, LineageComplete
<1> QED
  BY <1>1, <1>2, <1>3, Inductive, PTL DEF Spec
=============================================================================
