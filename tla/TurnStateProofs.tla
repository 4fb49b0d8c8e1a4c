-------------------------- MODULE TurnStateProofs --------------------------
(***************************************************************************)
(* Proofs about TurnState for any contracts, any number of events and any  *)
(* interleaving, restarts and lost replies.  Wired ties the phase of each  *)
(* handler to what it holds; with TypeOK and OwnerKeepsRow it is           *)
(* inductive.  Until a message that is no button or word arrives, no write *)
(* makes a contract pending again: Calm, on top of the first invariant,    *)
(* then gives the two facts about resolutions.                             *)
(***************************************************************************)
EXTENDS TurnState, TLAPS

WellWired(r) ==
    /\ r.pc = "idle" => r = Fresh
    /\ r.pc \in {"begin", "reopen", "claim", "finish"} => r.guarded
    /\ r.kind \in {"approve", "reject"} => r.guarded
    /\ r.guarded => r.contract \in Contract
    /\ r.pc \in {"write", "verify", "execute"}
         => r.on \in Contract /\ r.intent \in Intent
    /\ r.seen <= row.version
    /\ r.pc = "reopen" /\ r.seen = row.version => row.contract # r.contract
    /\ r.pc = "claim" /\ r.seen = row.version => row.contract = r.contract

Holding(o, r) ==
    r.guarded /\ r.pc \in Guarding => /\ OwnsRow(o)
                                      /\ row.version = r.seen
                                      /\ row.contract = r.contract

Wired == \A o \in Operation : WellWired(op[o])

IInv == TypeOK /\ Wired /\ OwnerKeepsRow

-----------------------------------------------------------------------------
LEMMA ClosedTyped ==
    ASSUME NEW r \in OperationState
    PROVE  /\ Closed(r) \in OperationState
           /\ Closed(r).pc = IF r.guarded THEN "finish" ELSE "done"
           /\ Closed(r).guarded = r.guarded
           /\ Closed(r).contract = r.contract
           /\ Closed(r).seen = r.seen
           /\ Closed(r).did = r.did
           /\ Closed(r).kind = r.kind
           /\ Closed(r).todo = {}
           /\ Closed(r).on = None
           /\ Closed(r).intent = "none"
  BY DEF Closed, OperationState, Phase

LEMMA RefusedTyped ==
    ASSUME NEW r \in OperationState
    PROVE  /\ Refused(r) \in OperationState
           /\ Refused(r).pc = "refused"
           /\ Refused(r).guarded = r.guarded
           /\ Refused(r).contract = r.contract
           /\ Refused(r).seen = r.seen
           /\ Refused(r).did = r.did
           /\ Refused(r).kind = r.kind
           /\ Refused(r).todo = {}
           /\ Refused(r).on = None
           /\ Refused(r).intent = "none"
  BY ClosedTyped DEF Refused, OperationState, Phase

LEMMA StoppedTyped ==
    ASSUME NEW r \in OperationState
    PROVE  /\ Stopped(r) \in OperationState
           /\ \/ Stopped(r).pc = IF r.guarded THEN "finish" ELSE "done"
              \/ r.kind = "ingress" /\ Stopped(r).pc = "route"
           /\ Stopped(r).guarded = r.guarded
           /\ Stopped(r).contract = r.contract
           /\ Stopped(r).seen = r.seen
           /\ Stopped(r).did = r.did
           /\ Stopped(r).kind = IF r.kind = "ingress" THEN "fallback" ELSE r.kind
           /\ Stopped(r).todo = {}
           /\ Stopped(r).on = None
           /\ Stopped(r).intent = "none"
  <1>1. CASE r.kind = "ingress"
    <2>1. PICK x \in OperationState : x = Closed(r)
      BY ClosedTyped
    <2>2. PICK y : y = [x EXCEPT !.kind = "fallback", !.pc = "route"]
      OBVIOUS
    <2>3. /\ y \in OperationState /\ y.kind = "fallback" /\ y.pc = "route"
          /\ y.guarded = x.guarded /\ y.contract = x.contract
          /\ y.seen = x.seen /\ y.did = x.did /\ y.todo = x.todo
          /\ y.on = x.on /\ y.intent = x.intent
      BY <2>2 DEF OperationState, Phase, Kind
    <2>4. Stopped(r) = y
      BY <1>1, <2>1, <2>2 DEF Stopped
    <2>5. /\ x.guarded = r.guarded /\ x.contract = r.contract
          /\ x.seen = r.seen /\ x.did = r.did /\ x.todo = {}
          /\ x.on = None /\ x.intent = "none"
      BY <2>1, ClosedTyped
    <2> QED BY <1>1, <2>3, <2>4, <2>5
  <1>2. CASE r.kind # "ingress"
    BY <1>2, ClosedTyped DEF Stopped
  <1> QED BY <1>1, <1>2

LEMMA AdvancedTyped ==
    ASSUME NEW r \in OperationState
    PROVE  /\ Advanced(r) \in OperationState
           /\ Advanced(r).pc \in {"read", IF r.guarded THEN "finish" ELSE "done"}
           /\ Advanced(r).guarded = r.guarded
           /\ Advanced(r).contract = r.contract
           /\ Advanced(r).seen = r.seen
           /\ Advanced(r).did = r.did
           /\ Advanced(r).kind = r.kind
           /\ Advanced(r).todo \subseteq r.todo
           /\ Advanced(r).on = None
           /\ Advanced(r).intent = "none"
  <1>0. PICK left \in SUBSET (Contract \X Intent) :
             left = r.todo \ {<<r.on, r.intent>>}
    BY DEF OperationState
  <1>1. CASE left = {}
    <2>1. Advanced(r) = Closed(r)  BY <1>0, <1>1 DEF Advanced
    <2> QED BY <2>1, ClosedTyped
  <1>2. CASE left # {}
    <2>1. Advanced(r) = [r EXCEPT !.pc = "read", !.todo = left, !.on = None,
                                  !.intent = "none", !.again = FALSE]
      BY <1>0, <1>2 DEF Advanced
    <2>2. /\ "read" \in Phase /\ None \in Contract \cup {None}
          /\ "none" \in Intent \cup {"none"} /\ FALSE \in BOOLEAN
      BY DEF Phase
    <2>3. Advanced(r) \in OperationState
      BY <2>1, <2>2 DEF OperationState
    <2> QED BY <1>0, <2>1, <2>3 DEF OperationState
  <1> QED BY <1>1, <1>2

LEMMA PatchedTyped ==
    ASSUME NEW l \in Life, NEW i \in Intent
    PROVE  Patched(l, i) \in Life
  BY DEF Patched, Life, Intent, StatusAfter, Status

(* A step that leaves the row alone and moves one handler keeps the         *)
(* invariant when the handler's new record fits the row.                    *)
LEMMA MovesOne ==
    ASSUME IInv, row' = row, life' \in [Contract -> Life],
           NEW o \in Operation, NEW r \in OperationState,
           op' = [op EXCEPT ![o] = r], WellWired(r), Holding(o, r)
    PROVE  IInv'
  <1> USE DEF IInv
  <1>1. /\ op' \in [Operation -> OperationState]
        /\ op'[o] = r
        /\ \A p \in Operation \ {o} : op'[p] = op[p]
    BY DEF TypeOK
  <1>2. TypeOK'
    BY <1>1 DEF TypeOK
  <1>3. Wired'
    <2> SUFFICES ASSUME NEW p \in Operation PROVE WellWired(op[p])'
      BY DEF Wired
    <2>1. CASE p = o  BY <2>1, <1>1 DEF WellWired
    <2>2. CASE p # o  BY <2>2, <1>1 DEF WellWired, Wired
    <2> QED BY <2>1, <2>2
  <1>4. OwnerKeepsRow'
    <2> SUFFICES ASSUME NEW p \in Operation,
                        op'[p].guarded, op'[p].pc \in Guarding
                 PROVE  /\ OwnsRow(p)'
                        /\ row'.version = op'[p].seen
                        /\ row'.contract = op'[p].contract
      BY DEF OwnerKeepsRow, Guarding
    <2>1. CASE p = o  BY <2>1, <1>1 DEF Holding, OwnsRow
    <2>2. CASE p # o  BY <2>2, <1>1 DEF OwnerKeepsRow, OwnsRow
    <2> QED BY <2>1, <2>2
  <1> QED BY <1>2, <1>3, <1>4

(* A step that changes the row, from a state in which no other handler owns *)
(* it, and moves one handler.                                               *)
LEMMA MovesRow ==
    ASSUME IInv, life' = life,
           NEW o \in Operation, NEW r \in OperationState,
           op' = [op EXCEPT ![o] = r],
           row' \in RowRecord, row'.version = row.version + 1,
           row'.state \in RowState \ {"absent"}, row'.contract # None,
           row'.state = "claimed" => row'.owner # None,
           row.state = "claimed" => row.owner = o,
           r.pc \notin {"idle", "reopen", "write", "verify", "execute"},
           r.pc \in {"begin", "claim", "finish"} => r.guarded,
           r.kind \in {"approve", "reject"} => r.guarded,
           r.guarded => r.contract \in Contract,
           r.seen <= row'.version,
           r.pc = "claim" /\ r.seen = row'.version
             => row'.contract = r.contract,
           r.guarded /\ r.pc \in Guarding => /\ OwnsRow(o)'
                                             /\ row'.version = r.seen
                                             /\ row'.contract = r.contract
    PROVE  IInv'
  <1> USE DEF IInv
  <1>1. /\ op' \in [Operation -> OperationState]
        /\ op'[o] = r
        /\ \A p \in Operation \ {o} : op'[p] = op[p]
    BY DEF TypeOK
  <1>0. row.version \in Nat /\ row'.version \in Nat
    BY DEF TypeOK, RowRecord
  <1>2. TypeOK'
    BY <1>0, <1>1 DEF TypeOK
  <1>3. Wired'
    <2> SUFFICES ASSUME NEW p \in Operation PROVE WellWired(op[p])'
      BY DEF Wired
    <2>1. CASE p = o  BY <2>1, <1>1 DEF WellWired
    <2>2. CASE p # o
      <3>1. WellWired(op[p]) /\ op[p].seen \in Nat
        BY DEF Wired, TypeOK, OperationState
      <3> QED BY <2>2, <3>1, <1>0, <1>1 DEF WellWired
    <2> QED BY <2>1, <2>2
  <1>4. OwnerKeepsRow'
    <2> SUFFICES ASSUME NEW p \in Operation,
                        op'[p].guarded, op'[p].pc \in Guarding
                 PROVE  /\ OwnsRow(p)'
                        /\ row'.version = op'[p].seen
                        /\ row'.contract = op'[p].contract
      BY DEF OwnerKeepsRow, Guarding
    <2>1. CASE p = o  BY <2>1, <1>1
    <2>2. CASE p # o
      <3>1. OwnsRow(p)  BY <2>2, <1>1 DEF OwnerKeepsRow
      <3> QED BY <3>1, <2>2 DEF OwnsRow
    <2> QED BY <2>1, <2>2
  <1> QED BY <1>2, <1>3, <1>4

-----------------------------------------------------------------------------
(* One lemma per action.                                                    *)

LEMMA InitHolds == Init => IInv
  <1> SUFFICES ASSUME Init PROVE IInv  OBVIOUS
  <1> USE DEF Init
  <1>1. Fresh \in OperationState
    BY DEF Fresh, OperationState, Phase, Kind
  <1>2. TypeOK
    BY <1>1 DEF TypeOK, NoRow, RowRecord, RowState, Unborn, Life, Status
  <1>3. Wired
    BY DEF Wired, WellWired, Fresh, NoRow
  <1>4. OwnerKeepsRow
    BY DEF OwnerKeepsRow, Guarding, Fresh
  <1> QED BY <1>2, <1>3, <1>4 DEF IInv

LEMMA ProposeHolds ==
    ASSUME IInv, NEW c \in Contract, Propose(c)
    PROVE  IInv'
  <1> USE DEF IInv, Propose
  <1>1. life' \in [Contract -> Life]
    BY DEF TypeOK, Life, Status
  <1>2. TypeOK'
    BY <1>1 DEF TypeOK
  <1>3. Wired' /\ OwnerKeepsRow'
    BY DEF Wired, WellWired, OwnerKeepsRow, OwnsRow
  <1> QED BY <1>2, <1>3

LEMMA PressHolds ==
    ASSUME IInv, NEW o \in Operation, NEW k, NEW c \in Contract,
           Press(o, k, c)
    PROVE  IInv'
  <1> USE DEF Press
  <1>1. op[o] \in OperationState /\ op[o].pc = "idle"
    BY DEF IInv, TypeOK
  <1>2. PICK r : r = [op[o] EXCEPT !.pc = "begin", !.kind = k,
                                   !.contract = c, !.guarded = TRUE]
    OBVIOUS
  <1>3. /\ r \in OperationState /\ r.pc = "begin" /\ r.guarded
        /\ r.contract = c /\ r.seen = op[o].seen
    BY <1>1, <1>2, KindsAreKinds DEF OperationState, Phase, Kind
  <1>4. op' = [op EXCEPT ![o] = r]
    BY <1>2 DEF IInv, TypeOK
  <1>5. WellWired(r) /\ Holding(o, r)
    BY <1>3 DEF WellWired, Holding, Guarding, IInv, Wired
  <1> QED BY <1>3, <1>4, <1>5, MovesOne DEF IInv, TypeOK

LEMMA SayHolds ==
    ASSUME IInv, NEW o \in Operation, NEW k, Say(o, k)
    PROVE  IInv'
  <1>1. op[o] \in OperationState /\ op[o].pc = "idle"
    BY DEF Say, IInv, TypeOK
  <1>2. /\ k \in Kinds \cap {"confirm", "cancel"}
        /\ life' = life /\ row' = row
    BY DEF Say
  <1>3. PICK c \in Contract \cup {None} :
          op' = [op EXCEPT ![o].pc = IF c # None /\ ~Resolver THEN "begin"
                                                              ELSE "route",
                           ![o].kind = k, ![o].contract = c,
                           ![o].guarded = c # None /\ ~Resolver]
    BY DEF Say
  <1>4. PICK g \in BOOLEAN : g = (c # None /\ ~Resolver)
    OBVIOUS
  <1>5a. PICK at \in {"begin", "route"} : at = IF g THEN "begin" ELSE "route"
    OBVIOUS
  <1>5. PICK r : r = [op[o] EXCEPT !.pc = at, !.kind = k, !.contract = c,
                                   !.guarded = g]
    OBVIOUS
  <1>6. /\ r \in OperationState
        /\ r.pc = at
        /\ r.guarded = g /\ r.contract = c /\ r.seen = op[o].seen
        /\ r.kind = k /\ k \in {"confirm", "cancel"}
    BY <1>1, <1>2, <1>5, KindsAreKinds DEF OperationState, Phase, Kind
  <1>7. op' = [op EXCEPT ![o] = r]
    <2>1. op' = [op EXCEPT ![o].pc = at, ![o].kind = k, ![o].contract = c,
                           ![o].guarded = g]
      BY <1>3, <1>4, <1>5a
    <2> QED BY <1>5, <2>1
  <1>8. WellWired(r) /\ Holding(o, r)
    <2>1. op[o].seen <= row.version /\ at # "idle"
      BY DEF IInv, Wired, WellWired
    <2>2. at = "begin" => g /\ c \in Contract
      BY <1>4, <1>5a
    <2>3. at = "route" => ~g
      BY <1>5a
    <2>4. g => c \in Contract
      BY <1>4
    <2> QED BY <1>6, <2>1, <2>2, <2>3, <2>4 DEF WellWired, Holding, Guarding
  <1> QED BY <1>2, <1>6, <1>7, <1>8, MovesOne DEF IInv, TypeOK

LEMMA InterruptHolds ==
    ASSUME IInv, NEW o \in Operation, Interrupt(o)
    PROVE  IInv'
  <1> USE DEF Interrupt
  <1>1. op[o] \in OperationState /\ op[o].pc = "idle" /\ ~op[o].guarded
    BY DEF IInv, TypeOK, Wired, WellWired, Fresh
  <1>2. PICK r : r = [op[o] EXCEPT !.pc = "route", !.kind = "ingress"]
    OBVIOUS
  <1>3. /\ r \in OperationState /\ r.pc = "route" /\ ~r.guarded
        /\ r.kind = "ingress"
        /\ r.contract = op[o].contract /\ r.seen = op[o].seen
    BY <1>1, <1>2 DEF OperationState, Phase, Kind
  <1>4. op' = [op EXCEPT ![o] = r]
    BY <1>2 DEF IInv, TypeOK
  <1>5. WellWired(r) /\ Holding(o, r)
    BY <1>3 DEF WellWired, Holding, Guarding, IInv, Wired
  <1> QED BY <1>3, <1>4, <1>5, MovesOne DEF IInv, TypeOK

LEMMA RefusalHolds ==
    ASSUME IInv, NEW o \in Operation, row' = row, life' = life,
           op' = [op EXCEPT ![o] = Refused(op[o])]
    PROVE  IInv'
  <1>1. op[o] \in OperationState
    BY DEF IInv, TypeOK
  <1>2. PICK r \in OperationState : r = Refused(op[o])
    BY <1>1, RefusedTyped
  <1>3. WellWired(r) /\ Holding(o, r)
    BY <1>1, <1>2, RefusedTyped DEF WellWired, Holding, Guarding, IInv, Wired
  <1> QED BY <1>2, <1>3, MovesOne DEF IInv, TypeOK

LEMMA BeginHolds ==
    ASSUME IInv, NEW o \in Operation, Begin(o)
    PROVE  IInv'
  <1>1. /\ op[o] \in OperationState /\ op[o].pc = "begin"
        /\ op[o].guarded /\ op[o].contract \in Contract
        /\ row \in RowRecord /\ life' = life /\ life \in [Contract -> Life]
    BY DEF Begin, IInv, TypeOK, Wired, WellWired
  <1>2. CASE row.state = "absent"
    <2>1. PICK r : r = [op[o] EXCEPT !.pc = "claim", !.seen = 1]
      OBVIOUS
    <2>2. /\ r \in OperationState /\ r.pc = "claim" /\ r.guarded
          /\ r.contract = op[o].contract /\ r.seen = 1
      BY <1>1, <2>1 DEF OperationState, Phase
    <2>3. op' = [op EXCEPT ![o] = r]
      BY <1>2, <2>1 DEF Begin, IInv, TypeOK
    <2>4. /\ row' = [state |-> "active", contract |-> op[o].contract,
                     owner |-> None, version |-> 1]
          /\ row.version = 0
      BY <1>2 DEF Begin, IInv, TypeOK
    <2>5. /\ row' \in RowRecord /\ row'.version = row.version + 1
          /\ row'.state = "active" /\ row'.contract # None
      BY <1>1, <2>4, NoneIsFresh DEF RowRecord, RowState
    <2>6. /\ row.state # "claimed" /\ row'.contract = r.contract
          /\ r.seen = row'.version /\ row'.version \in Nat
          /\ r.pc \notin Guarding /\ row'.state \in RowState \ {"absent"}
      BY <1>2, <2>2, <2>4, <2>5 DEF Guarding, RowState
    <2>7. /\ r.pc \notin {"idle", "reopen", "write", "verify", "execute"}
          /\ r.guarded /\ r.contract \in Contract
          /\ r.seen <= row'.version
          /\ row'.state # "claimed"
      BY <1>1, <2>2, <2>5, <2>6
    <2> QED
      BY <1>1, <2>2, <2>3, <2>5, <2>6, <2>7, MovesRow
  <1>3. CASE row.state # "absent"
    <2>1. row' = row
      BY <1>3 DEF Begin
    <2>2. CASE row.contract = op[o].contract
      <3>1. PICK r : r = [op[o] EXCEPT !.pc = "claim", !.seen = row.version]
        OBVIOUS
      <3>2. /\ r \in OperationState /\ r.pc = "claim" /\ r.guarded
            /\ r.contract = op[o].contract /\ r.seen = row.version
        BY <1>1, <3>1 DEF OperationState, Phase, RowRecord
      <3>3. op' = [op EXCEPT ![o] = r]
        BY <1>3, <2>2, <3>1 DEF Begin, IInv, TypeOK
      <3>4. WellWired(r) /\ Holding(o, r)
        BY <1>1, <2>2, <3>2 DEF WellWired, Holding, Guarding, RowRecord
      <3> QED BY <1>1, <2>1, <3>2, <3>3, <3>4, MovesOne
    <2>3. CASE /\ row.contract # op[o].contract
               /\ row.state \in {"released", "terminal"}
      <3>1. PICK r : r = [op[o] EXCEPT !.pc = "reopen", !.seen = row.version]
        OBVIOUS
      <3>2. /\ r \in OperationState /\ r.pc = "reopen" /\ r.guarded
            /\ r.contract = op[o].contract /\ r.seen = row.version
        BY <1>1, <3>1 DEF OperationState, Phase, RowRecord
      <3>3. op' = [op EXCEPT ![o] = r]
        BY <1>3, <2>3, <3>1 DEF Begin, IInv, TypeOK
      <3>4. WellWired(r) /\ Holding(o, r)
        BY <1>1, <2>3, <3>2 DEF WellWired, Holding, Guarding, RowRecord
      <3> QED BY <1>1, <2>1, <3>2, <3>3, <3>4, MovesOne
    <2>4. CASE /\ row.contract # op[o].contract
               /\ row.state \notin {"released", "terminal"}
      <3>1. op' = [op EXCEPT ![o] = Refused(op[o])]
        BY <1>3, <2>4 DEF Begin, IInv, TypeOK
      <3> QED BY <1>1, <2>1, <3>1, RefusalHolds
    <2> QED BY <2>2, <2>3, <2>4
  <1> QED BY <1>2, <1>3

LEMMA ReopenHolds ==
    ASSUME IInv, NEW o \in Operation, Reopen(o)
    PROVE  IInv'
  <1>1. /\ op[o] \in OperationState /\ op[o].pc = "reopen"
        /\ op[o].guarded /\ op[o].contract \in Contract
        /\ row \in RowRecord /\ life' = life
        /\ row.version \in Nat /\ row.version + 1 \in Nat
    BY DEF Reopen, IInv, TypeOK, Wired, WellWired, RowRecord
  <1>2. CASE /\ row.version = op[o].seen
             /\ row.state \in {"released", "terminal"}
    <2>1. PICK r : r = [op[o] EXCEPT !.pc = "claim", !.seen = row.version + 1]
      OBVIOUS
    <2>2. /\ r \in OperationState /\ r.pc = "claim" /\ r.guarded
          /\ r.contract = op[o].contract /\ r.seen = row.version + 1
      BY <1>1, <2>1 DEF OperationState, Phase
    <2>3. op' = [op EXCEPT ![o] = r]
      BY <1>2, <2>1 DEF Reopen, IInv, TypeOK
    <2>4. row' = [state |-> "active", contract |-> op[o].contract,
                  owner |-> None, version |-> row.version + 1]
      BY <1>2 DEF Reopen
    <2>5. /\ row' \in RowRecord /\ row'.version = row.version + 1
          /\ row'.state = "active" /\ row'.contract # None
      BY <1>1, <2>4, NoneIsFresh DEF RowRecord, RowState
    <2>6. /\ row.state # "claimed" /\ row'.contract = r.contract
          /\ r.seen = row'.version /\ row'.version \in Nat
          /\ r.pc \notin Guarding /\ row'.state \in RowState \ {"absent"}
      BY <1>1, <1>2, <2>2, <2>4, <2>5 DEF Guarding, RowState
    <2>7. /\ r.pc \notin {"idle", "reopen", "write", "verify", "execute"}
          /\ r.guarded /\ r.contract \in Contract
          /\ r.seen <= row'.version
          /\ row'.state # "claimed"
      BY <1>1, <2>2, <2>5, <2>6
    <2> QED
      BY <1>1, <2>2, <2>3, <2>5, <2>6, <2>7, MovesRow
  <1>3. CASE ~(/\ row.version = op[o].seen
               /\ row.state \in {"released", "terminal"})
    <2>1. row' = row /\ op' = [op EXCEPT ![o] = Refused(op[o])]
      BY <1>3 DEF Reopen, IInv, TypeOK
    <2> QED BY <1>1, <2>1, RefusalHolds
  <1> QED BY <1>2, <1>3

LEMMA ClaimedTyped ==
    ASSUME NEW o \in Operation, row \in RowRecord
    PROVE  /\ Claimed(o) \in RowRecord
           /\ Claimed(o).state = "claimed" /\ Claimed(o).owner = o
           /\ Claimed(o).version = row.version + 1
           /\ Claimed(o).contract = row.contract
  <1>1. row.version + 1 \in Nat
    BY DEF RowRecord
  <1>2. Claimed(o) = [row EXCEPT !.state = "claimed", !.owner = o,
                                 !.version = row.version + 1]
    BY DEF Claimed, RowRecord
  <1> QED BY <1>1, <1>2 DEF RowRecord, RowState

(* Claim commits; what remains of the handler is r.                         *)
LEMMA TakesRow ==
    ASSUME IInv, NEW o \in Operation, op[o].pc = "claim",
           Claimable(o), row' = Claimed(o), life' = life,
           NEW r \in OperationState, op' = [op EXCEPT ![o] = r],
           r.guarded = op[o].guarded, r.contract = op[o].contract,
           r.kind = op[o].kind,
           \/ r.pc = "refused" /\ r.seen = op[o].seen
           \/ /\ r.pc = "route" /\ r.seen = row.version + 1
              /\ row.contract = r.contract
    PROVE  IInv'
  <1>1. /\ op[o] \in OperationState
        /\ op[o].guarded /\ op[o].contract \in Contract
        /\ row \in RowRecord /\ row.state = "active"
        /\ row.contract # None /\ row.version \in Nat
        /\ op[o].seen <= row.version /\ op[o].seen \in Nat
    BY DEF IInv, TypeOK, Wired, WellWired, Claimable, RowRecord,
           OperationState
  <1>2. /\ row' \in RowRecord
        /\ row'.state = "claimed" /\ row'.owner = o
        /\ row'.version = row.version + 1
        /\ row'.contract = row.contract
    BY <1>1, ClaimedTyped
  <1>3. r.seen <= row'.version /\ o # None
    BY <1>1, <1>2, NoneIsFresh
  <1> QED
    BY <1>1, <1>2, <1>3, MovesRow DEF Guarding, RowState, OwnsRow

LEMMA ClaimHolds ==
    ASSUME IInv, NEW o \in Operation, Claim(o)
    PROVE  IInv'
  <1>1. /\ op[o] \in OperationState /\ op[o].pc = "claim"
        /\ row.version \in Nat /\ row.version + 1 \in Nat /\ life' = life
    BY DEF Claim, IInv, TypeOK, RowRecord
  <1>2. CASE Claimable(o)
    <2>1. PICK r : r = [op[o] EXCEPT !.pc = "route", !.seen = row.version + 1]
      OBVIOUS
    <2>2. /\ r \in OperationState /\ r.pc = "route"
          /\ r.guarded = op[o].guarded
          /\ r.contract = op[o].contract /\ r.seen = row.version + 1
          /\ r.kind = op[o].kind
      BY <1>1, <2>1 DEF OperationState, Phase
    <2>3. op' = [op EXCEPT ![o] = r] /\ row' = Claimed(o)
      BY <1>2, <2>1 DEF Claim, IInv, TypeOK
    <2>4. row.contract = r.contract
      BY <1>1, <1>2, <2>2 DEF Claimable, IInv, Wired, WellWired
    <2> QED BY <1>1, <1>2, <2>2, <2>3, <2>4, TakesRow
  <1>3. CASE ~Claimable(o)
    <2>1. row' = row /\ op' = [op EXCEPT ![o] = Refused(op[o])]
      BY <1>3 DEF Claim, IInv, TypeOK
    <2> QED BY <1>1, <2>1, RefusalHolds
  <1> QED BY <1>2, <1>3

LEMMA StoreErrorHolds ==
    ASSUME IInv, NEW o \in Operation, StoreError(o)
    PROVE  IInv'
  <1>1. /\ op[o] \in OperationState /\ life' = life
        /\ op' = [op EXCEPT ![o] = Refused(op[o])]
    BY DEF StoreError, IInv, TypeOK
  <1>2. CASE row' = row
    BY <1>1, <1>2, RefusalHolds
  <1>3. CASE op[o].pc = "claim" /\ Claimable(o) /\ row' = Claimed(o)
    <2>1. PICK r \in OperationState : r = Refused(op[o])
      BY <1>1, RefusedTyped
    <2>2. /\ r.pc = "refused" /\ r.guarded = op[o].guarded
          /\ r.contract = op[o].contract /\ r.seen = op[o].seen
          /\ r.kind = op[o].kind
      BY <1>1, <2>1, RefusedTyped
    <2> QED BY <1>1, <1>3, <2>1, <2>2, TakesRow
  <1> QED BY <1>2, <1>3 DEF StoreError

(* A handler inside its lifecycle call stays there, with the same claim.    *)
LEMMA StaysInside ==
    ASSUME IInv, row' = row, life' \in [Contract -> Life],
           NEW o \in Operation, op[o].pc \in Guarding,
           NEW r \in OperationState, op' = [op EXCEPT ![o] = r],
           r.guarded = op[o].guarded, r.contract = op[o].contract,
           r.seen = op[o].seen, r.kind \in {op[o].kind, "fallback"},
           r.pc \in Guarding \cup {"done"},
           r.pc = "finish" => r.guarded,
           r.pc \in {"write", "verify", "execute"}
             => r.on \in Contract /\ r.intent \in Intent
    PROVE  IInv'
  <1>1. WellWired(r)
    BY DEF WellWired, Guarding, IInv, Wired
  <1>2. Holding(o, r)
    BY DEF Holding, IInv, OwnerKeepsRow
  <1> QED BY <1>1, <1>2, MovesOne

LEMMA PlansTyped ==
    ASSUME IInv, NEW o \in Operation, op[o].pc = "route",
           NEW plan \in Plans(o)
    PROVE  plan \in SUBSET (Contract \X Intent)
  <1>1. op[o] \in OperationState
    BY DEF IInv, TypeOK
  <1>2. CASE op[o].kind \in {"approve", "reject"}
    <2>1. plan = {<<op[o].contract, op[o].kind>>}
      BY <1>2 DEF Plans
    <2>2. op[o].contract \in Contract
      BY <1>2 DEF IInv, Wired, WellWired
    <2> QED BY <1>2, <2>1, <2>2 DEF Intent
  <1>3. CASE op[o].kind = "confirm"
    BY <1>1, <1>3 DEF Plans, ConfirmPlans, Live, Intent, OperationState
  <1>4. CASE op[o].kind = "cancel"
    BY <1>1, <1>4 DEF Plans, CancelPlan, Live, Intent, OperationState
  <1>5. CASE op[o].kind \in {"ingress", "fallback"}
    BY <1>1, <1>5 DEF Plans, InterruptPlan, Live, Intent
  <1> QED BY <1>1, <1>2, <1>3, <1>4, <1>5 DEF OperationState, Kind

LEMMA RouteHolds ==
    ASSUME IInv, NEW o \in Operation, Route(o)
    PROVE  IInv'
  <1>1. /\ op[o] \in OperationState /\ op[o].pc = "route"
        /\ row' = row /\ life' = life /\ life \in [Contract -> Life]
    BY DEF Route, IInv, TypeOK
  <1>2. PICK plan \in Plans(o) :
          op' = [op EXCEPT ![o] = IF plan = {} THEN Closed(op[o])
                                  ELSE [op[o] EXCEPT !.pc = "read",
                                                     !.todo = plan]]
    BY DEF Route, IInv, TypeOK
  <1>3. CASE plan = {}
    <2>1. PICK r \in OperationState : r = Closed(op[o])
      BY <1>1, ClosedTyped
    <2>2. op' = [op EXCEPT ![o] = r]
      BY <1>2, <1>3, <2>1
    <2> QED
      BY <1>1, <2>1, <2>2, ClosedTyped, StaysInside DEF Guarding
  <1>4. CASE plan # {}
    <2>1. plan \in SUBSET (Contract \X Intent)
      BY <1>1, <1>2, PlansTyped
    <2>2. PICK r : r = [op[o] EXCEPT !.pc = "read", !.todo = plan]
      OBVIOUS
    <2>3. /\ r \in OperationState /\ r.pc = "read"
          /\ r.guarded = op[o].guarded /\ r.contract = op[o].contract
          /\ r.seen = op[o].seen /\ r.kind = op[o].kind
      BY <1>1, <2>1, <2>2 DEF OperationState, Phase
    <2>4. op' = [op EXCEPT ![o] = r]
      BY <1>2, <1>4, <2>2
    <2> QED BY <1>1, <2>3, <2>4, StaysInside DEF Guarding
  <1> QED BY <1>3, <1>4

LEMMA StopHolds ==
    ASSUME IInv, row' = row, life' \in [Contract -> Life],
           NEW o \in Operation, op[o].pc \in Guarding,
           op' = [op EXCEPT ![o] = Stopped(op[o])]
    PROVE  IInv'
  <1>1. op[o] \in OperationState
    BY DEF IInv, TypeOK
  <1>2. PICK r \in OperationState : r = Stopped(op[o])
    BY <1>1, StoppedTyped
  <1>3. /\ r.guarded = op[o].guarded /\ r.contract = op[o].contract
        /\ r.seen = op[o].seen /\ r.kind \in {op[o].kind, "fallback"}
        /\ r.pc \in {"finish", "done", "route"}
        /\ r.pc = "finish" => r.guarded
    BY <1>1, <1>2, StoppedTyped DEF OperationState
  <1>4. r.pc \in Guarding \cup {"done"}
    BY <1>3 DEF Guarding
  <1> QED BY <1>2, <1>3, <1>4, StaysInside

LEMMA ReadHolds ==
    ASSUME IInv, NEW o \in Operation, Read(o)
    PROVE  IInv'
  <1>1. /\ op[o] \in OperationState /\ op[o].pc = "read"
        /\ op[o].pc \in Guarding
        /\ row' = row /\ life' = life /\ life \in [Contract -> Life]
    BY DEF Read, IInv, TypeOK, Guarding
  <1>2. CASE op' = [op EXCEPT ![o] = Stopped(op[o])]
    BY <1>1, <1>2, StopHolds
  <1>3. ASSUME NEW item \in op[o].todo, item[1] \in Live,
               op' = [op EXCEPT ![o].pc = "write", ![o].on = item[1],
                                ![o].intent = item[2]]
        PROVE  IInv'
    <2>1. PICK c \in Contract, i \in Intent : item[1] = c /\ item[2] = i
      BY <1>1, <1>3 DEF OperationState
    <2>2. PICK r : r = [op[o] EXCEPT !.pc = "write", !.on = c, !.intent = i]
      OBVIOUS
    <2>3. /\ r \in OperationState /\ r.pc = "write"
          /\ r.on = c /\ r.intent = i
          /\ r.guarded = op[o].guarded /\ r.contract = op[o].contract
          /\ r.seen = op[o].seen /\ r.kind = op[o].kind
      BY <1>1, <2>1, <2>2 DEF OperationState, Phase
    <2>4. op' = [op EXCEPT ![o] = r]
      BY <1>3, <2>1, <2>2 DEF IInv, TypeOK
    <2> QED BY <1>1, <2>3, <2>4, StaysInside DEF Guarding
  <1> QED BY <1>2, <1>3 DEF Read, IInv, TypeOK

LEMMA WriteHolds ==
    ASSUME IInv, NEW o \in Operation, Write(o)
    PROVE  IInv'
  <1>1. /\ op[o] \in OperationState /\ op[o].pc = "write"
        /\ op[o].pc \in Guarding
        /\ op[o].on \in Contract /\ op[o].intent \in Intent
        /\ row' = row /\ life \in [Contract -> Life]
    BY DEF Write, IInv, TypeOK, Wired, WellWired, Guarding
  <1>2. PICK written : written =
          [life EXCEPT ![op[o].on] = Patched(life[op[o].on], op[o].intent)]
    OBVIOUS
  <1>3. written \in [Contract -> Life]
    BY <1>1, <1>2, PatchedTyped
  <1>4. /\ life' \in {life, written}
        /\ \/ op' = [op EXCEPT ![o].pc = "verify"]
           \/ op' = [op EXCEPT ![o] = Stopped(op[o])]
    BY <1>2 DEF Write, IInv, TypeOK
  <1>5. CASE op' = [op EXCEPT ![o] = Stopped(op[o])]
    BY <1>1, <1>3, <1>4, <1>5, StopHolds
  <1>6. CASE op' = [op EXCEPT ![o].pc = "verify"]
    <2>1. PICK r : r = [op[o] EXCEPT !.pc = "verify"]
      OBVIOUS
    <2>2. /\ r \in OperationState /\ r.pc = "verify"
          /\ r.on = op[o].on /\ r.intent = op[o].intent
          /\ r.guarded = op[o].guarded /\ r.contract = op[o].contract
          /\ r.seen = op[o].seen /\ r.kind = op[o].kind
      BY <1>1, <2>1 DEF OperationState, Phase
    <2>3. op' = [op EXCEPT ![o] = r]
      BY <1>6, <2>1 DEF IInv, TypeOK
    <2> QED BY <1>1, <1>3, <1>4, <2>2, <2>3, StaysInside DEF Guarding
  <1> QED BY <1>4, <1>5, <1>6

LEMMA AdvanceHolds ==
    ASSUME IInv, row' = row, life' = life,
           NEW o \in Operation, op[o].pc \in Guarding,
           NEW q \in OperationState,
           q.guarded = op[o].guarded, q.contract = op[o].contract,
           q.seen = op[o].seen, q.kind = op[o].kind,
           op' = [op EXCEPT ![o] = Advanced(q)]
    PROVE  IInv'
  <1>1. PICK r \in OperationState : r = Advanced(q)
    BY AdvancedTyped
  <1>2. /\ r.guarded = op[o].guarded /\ r.contract = op[o].contract
        /\ r.seen = op[o].seen /\ r.kind \in {op[o].kind, "fallback"}
        /\ r.pc \in {"finish", "done", "read"}
        /\ r.pc = "finish" => r.guarded
    BY <1>1, AdvancedTyped DEF OperationState
  <1>3. r.pc \in Guarding \cup {"done"} /\ life' \in [Contract -> Life]
    BY <1>2 DEF Guarding, IInv, TypeOK
  <1> QED BY <1>1, <1>2, <1>3, StaysInside

LEMMA VerifyHolds ==
    ASSUME IInv, NEW o \in Operation, Verify(o)
    PROVE  IInv'
  <1>1. /\ op[o] \in OperationState /\ op[o].pc = "verify"
        /\ op[o].pc \in Guarding
        /\ op[o].on \in Contract /\ op[o].intent \in Intent
        /\ row' = row /\ life' = life /\ life \in [Contract -> Life]
    BY DEF Verify, IInv, TypeOK, Wired, WellWired, Guarding
  <1>2. CASE op' = [op EXCEPT ![o].pc = "execute",
                 ![o].did = op[o].did \cup {<<op[o].on, op[o].intent>>}]
             /\ op[o].intent = "approve"
    <2>1. PICK d : d = op[o].did \cup {<<op[o].on, op[o].intent>>}
      OBVIOUS
    <2>2. d \in SUBSET (Contract \X {"approve", "reject"})
      BY <1>1, <1>2, <2>1 DEF OperationState
    <2>3. PICK r : r = [op[o] EXCEPT !.pc = "execute", !.did = d]
      OBVIOUS
    <2>4. /\ r \in OperationState /\ r.pc = "execute"
          /\ r.on = op[o].on /\ r.intent = op[o].intent
          /\ r.guarded = op[o].guarded /\ r.contract = op[o].contract
          /\ r.seen = op[o].seen /\ r.kind = op[o].kind
      BY <1>1, <2>2, <2>3 DEF OperationState, Phase
    <2>5. op' = [op EXCEPT ![o] = r]
      BY <1>2, <2>1, <2>3 DEF IInv, TypeOK
    <2> QED BY <1>1, <2>4, <2>5, StaysInside DEF Guarding
  <1>3. CASE op' = [op EXCEPT ![o] = Advanced([op[o] EXCEPT
                 !.did = op[o].did \cup {<<op[o].on, op[o].intent>>}])]
             /\ op[o].intent = "reject"
    <2>1. PICK d : d = op[o].did \cup {<<op[o].on, op[o].intent>>}
      OBVIOUS
    <2>2. d \in SUBSET (Contract \X {"approve", "reject"})
      BY <1>1, <1>3, <2>1 DEF OperationState
    <2>3. PICK q : q = [op[o] EXCEPT !.did = d]
      OBVIOUS
    <2>4. /\ q \in OperationState
          /\ q.guarded = op[o].guarded /\ q.contract = op[o].contract
          /\ q.seen = op[o].seen /\ q.kind = op[o].kind
      BY <1>1, <2>2, <2>3 DEF OperationState
    <2>5. op' = [op EXCEPT ![o] = Advanced(q)]
      BY <1>3, <2>1, <2>3
    <2> QED BY <1>1, <2>4, <2>5, AdvanceHolds
  <1>4. CASE op' = [op EXCEPT ![o] = Advanced(op[o])]
    BY <1>1, <1>4, AdvanceHolds
  <1>5. CASE op' = [op EXCEPT ![o].pc = "read", ![o].again = TRUE]
    <2>1. PICK r : r = [op[o] EXCEPT !.pc = "read", !.again = TRUE]
      OBVIOUS
    <2>2. /\ r \in OperationState /\ r.pc = "read"
          /\ r.guarded = op[o].guarded /\ r.contract = op[o].contract
          /\ r.seen = op[o].seen /\ r.kind = op[o].kind
      BY <1>1, <2>1 DEF OperationState, Phase
    <2>3. op' = [op EXCEPT ![o] = r]
      BY <1>5, <2>1 DEF IInv, TypeOK
    <2> QED BY <1>1, <2>2, <2>3, StaysInside DEF Guarding
  <1>6. CASE op' = [op EXCEPT ![o] = Stopped(op[o])]
    BY <1>1, <1>6, StopHolds
  <1>7. op \in [Operation -> OperationState]
    BY DEF IInv, TypeOK
  <1> QED
    BY <1>1, <1>2, <1>3, <1>4, <1>5, <1>6, <1>7 DEF Verify

LEMMA ExecuteHolds ==
    ASSUME IInv, NEW o \in Operation, Execute(o)
    PROVE  IInv'
  <1>1. /\ op[o] \in OperationState /\ op[o].pc = "execute"
        /\ op[o].pc \in Guarding /\ op[o].on \in Contract
        /\ row' = row /\ life \in [Contract -> Life]
    BY DEF Execute, IInv, TypeOK, Wired, WellWired, Guarding
  <1>2. life' \in [Contract -> Life]
    BY <1>1 DEF Execute, Life, Status
  <1>3. PICK r \in OperationState : r = Closed(op[o])
    BY <1>1, ClosedTyped
  <1>4. op' = [op EXCEPT ![o] = r]
    BY <1>3 DEF Execute, IInv, TypeOK
  <1> QED BY <1>1, <1>2, <1>3, <1>4, ClosedTyped, StaysInside DEF Guarding

LEMMA FinishHolds ==
    ASSUME IInv, NEW o \in Operation, Finish(o)
    PROVE  IInv'
  <1>1. /\ op[o] \in OperationState /\ op[o].pc = "finish"
        /\ op[o].guarded /\ op[o].contract \in Contract
        /\ row \in RowRecord /\ row.version \in Nat
        /\ row.version + 1 \in Nat /\ life' = life
        /\ life \in [Contract -> Life]
    BY DEF Finish, IInv, TypeOK, Wired, WellWired, RowRecord
  <1>2. PICK r : r = [op[o] EXCEPT !.pc = "done"]
    OBVIOUS
  <1>3. /\ r \in OperationState /\ r.pc = "done"
        /\ r.guarded = op[o].guarded /\ r.contract = op[o].contract
        /\ r.seen = op[o].seen /\ r.kind = op[o].kind
    BY <1>1, <1>2 DEF OperationState, Phase
  <1>4. op' = [op EXCEPT ![o] = r]
    BY <1>2 DEF Finish, IInv, TypeOK
  <1>5. CASE row' = row
    BY <1>1, <1>3, <1>4, <1>5, StaysInside DEF Guarding
  <1>6. CASE row' # row
    <2>1. PICK s \in {"terminal", "released"} :
             row' = [row EXCEPT !.state = s, !.version = row.version + 1]
      BY <1>1, <1>6 DEF Finish, RowRecord
    <2>2. /\ row' \in RowRecord /\ row'.version = row.version + 1
          /\ row'.state = s /\ row'.contract = row.contract
      BY <1>1, <2>1 DEF RowRecord, RowState
    <2>3. OwnsRow(o)
      BY <1>6 DEF Finish
    <2>4. /\ row.contract # None
          /\ row'.state \in RowState \ {"absent"} /\ row'.state # "claimed"
          /\ row.owner = o
          /\ op[o].seen <= row.version /\ op[o].seen \in Nat
      BY <1>1, <2>2, <2>3
         DEF OwnsRow, RowState, IInv, TypeOK, Wired, WellWired, OperationState
    <2>5. /\ r.seen <= row'.version /\ r.guarded /\ r.contract \in Contract
          /\ r.pc \notin Guarding
          /\ r.pc \notin {"idle", "begin", "reopen", "claim", "write",
                          "verify", "execute", "finish"}
      BY <1>1, <1>3, <2>2, <2>4 DEF Guarding
    <2> QED BY <1>1, <1>3, <1>4, <2>2, <2>4, <2>5, MovesRow
  <1> QED BY <1>5, <1>6

LEMMA RestartHolds ==
    ASSUME IInv, Restart
    PROVE  IInv'
  <1> USE DEF Restart
  <1>1. /\ row' = row /\ life' = life
        /\ op \in [Operation -> OperationState]
    BY DEF IInv, TypeOK
  <1>2. \A o \in Operation :
           /\ op[o] \in OperationState /\ op'[o] \in OperationState
           /\ \/ op'[o] = op[o]
              \/ /\ op'[o].pc = "refused"
                 /\ op'[o].guarded = op[o].guarded
                 /\ op'[o].contract = op[o].contract
                 /\ op'[o].seen = op[o].seen
                 /\ op'[o].kind = op[o].kind
    <2> TAKE o \in Operation
    <2>1. op[o] \in OperationState /\ op'[o] \in {op[o], Refused(op[o])}
      BY <1>1
    <2> QED BY <2>1, RefusedTyped
  <1>3. op' \in [Operation -> OperationState]
    BY <1>2
  <1>4. TypeOK'
    BY <1>1, <1>3 DEF IInv, TypeOK
  <1>5. Wired'
    <2> SUFFICES ASSUME NEW o \in Operation PROVE WellWired(op[o])'
      BY DEF Wired
    <2>1. WellWired(op[o])
      BY DEF IInv, Wired
    <2> QED BY <1>1, <1>2, <2>1 DEF WellWired
  <1>6. OwnerKeepsRow'
    BY <1>1, <1>2 DEF IInv, OwnerKeepsRow, Guarding, OwnsRow
  <1> QED BY <1>4, <1>5, <1>6 DEF IInv

LEMMA NextHolds ==
    ASSUME IInv, [Next]_vars
    PROVE  IInv'
  <1>1. CASE UNCHANGED vars
    BY <1>1 DEF vars, IInv, TypeOK, Wired, WellWired, OwnerKeepsRow, OwnsRow
  <1>2. CASE \E c \in Contract : Propose(c)
    BY <1>2, ProposeHolds
  <1>3. CASE \E o \in Operation : Arrive(o)
    BY <1>3, PressHolds, SayHolds, InterruptHolds DEF Arrive
  <1>4. CASE \E o \in Operation : Step(o)
    BY <1>4, BeginHolds, ReopenHolds, ClaimHolds, StoreErrorHolds, RouteHolds,
       ReadHolds, WriteHolds, VerifyHolds, ExecuteHolds, FinishHolds DEF Step
  <1>5. CASE Restart
    BY <1>5, RestartHolds
  <1> QED BY <1>1, <1>2, <1>3, <1>4, <1>5 DEF Next

(* The strengthening of TypeOK and OwnerKeepsRow is inductive.              *)
THEOREM Inductive == Spec => []IInv
  <1> QED BY InitHolds, NextHolds, PTL DEF Spec

(* Every reachable state has the shapes the table and the handlers allow.   *)
THEOREM TypeCorrect == Spec => []TypeOK
  <1>1. IInv => TypeOK  BY DEF IInv
  <1> QED BY <1>1, Inductive, PTL

(* A guarded handler owns the row of its identity, at the version it will   *)
(* close it with, for the whole of its lifecycle call.                      *)
THEOREM OwnerKeeps == Spec => []OwnerKeepsRow
  <1>1. IInv => OwnerKeepsRow  BY DEF IInv
  <1> QED BY <1>1, Inductive, PTL

-----------------------------------------------------------------------------
(* The protocol of the row.                                                 *)

RowStep ==
    row' # row =>
      /\ row'.version = row.version + 1
      /\ \/ /\ row.state = "absent" /\ row'.state = "active"
         \/ /\ row.state = "active" /\ row'.state = "claimed"
            /\ row'.contract = row.contract
         \/ /\ row.state = "claimed"
            /\ row'.state \in {"released", "terminal"}
            /\ row'.contract = row.contract /\ row'.owner = row.owner
            /\ op[row.owner].pc = "finish"
         \/ /\ row.state \in {"released", "terminal"}
            /\ row'.state = "active" /\ row'.contract # row.contract

LEMMA StepsFollowProtocol ==
    ASSUME IInv, [Next]_vars
    PROVE  RowStep
  <1> SUFFICES ASSUME row' # row PROVE RowStep
    BY DEF RowStep
  <1>1. PICK o \in Operation : Begin(o) \/ Reopen(o) \/ Claim(o)
                                \/ StoreError(o) \/ Finish(o)
    <2>1. ASSUME NEW o \in Operation, Arrive(o) PROVE FALSE
      BY <2>1 DEF Arrive, Press, Say, Interrupt
    <2>2. ASSUME NEW o \in Operation,
                 Route(o) \/ Read(o) \/ Write(o) \/ Verify(o) \/ Execute(o)
          PROVE  FALSE
      <3>1. CASE Route(o)
        BY <3>1 DEF Route
      <3>2. CASE Read(o)
        BY <3>2 DEF Read
      <3>3. CASE Write(o)
        BY <3>3 DEF Write
      <3>4. CASE Verify(o)
        BY <3>4 DEF Verify
      <3>5. CASE Execute(o)
        BY <3>5 DEF Execute
      <3> QED BY <2>2, <3>1, <3>2, <3>3, <3>4, <3>5
    <2>3. ~Restart /\ \A c \in Contract : ~Propose(c)
      BY DEF Restart, Propose
    <2>4. PICK o \in Operation : Step(o)
      BY <2>1, <2>3 DEF Next, vars
    <2> QED BY <2>2, <2>4 DEF Step
  <1>2. row \in RowRecord /\ op[o] \in OperationState
    BY DEF IInv, TypeOK
  <1>3. CASE Begin(o)
    <2>1. /\ row.state = "absent" /\ row.version = 0
          /\ row'.state = "active" /\ row'.version = 1
      BY <1>3 DEF Begin, IInv, TypeOK
    <2> QED BY <2>1 DEF RowStep
  <1>4. CASE Reopen(o)
    <2>1. /\ row.version = op[o].seen /\ op[o].pc = "reopen"
          /\ row.state \in {"released", "terminal"}
          /\ row'.state = "active" /\ row'.version = row.version + 1
          /\ row'.contract = op[o].contract
      BY <1>4 DEF Reopen
    <2>2. row.contract # op[o].contract
      BY <2>1 DEF IInv, Wired, WellWired
    <2> QED BY <2>1, <2>2 DEF RowStep
  <1>5. CASE Claim(o) \/ StoreError(o)
    <2>1. Claimable(o) /\ row' = Claimed(o)
      BY <1>5 DEF Claim, StoreError
    <2> QED BY <1>2, <2>1, ClaimedTyped DEF Claimable, RowStep
  <1>6. CASE Finish(o)
    <2>1. /\ OwnsRow(o) /\ op[o].pc = "finish"
          /\ \E s \in {"terminal", "released"} :
                row' = [row EXCEPT !.state = s, !.version = row.version + 1]
      BY <1>2, <1>6 DEF Finish, RowRecord
    <2> QED BY <1>2, <2>1 DEF OwnsRow, RowRecord, RowStep
  <1> QED BY <1>1, <1>3, <1>4, <1>5, <1>6

(* Each change of the row follows its protocol and adds one to its version. *)
THEOREM Lifecycle == Spec => RowLifecycle
  <1>1. IInv /\ [Next]_vars => [RowStep]_vars
    BY StepsFollowProtocol
  <1>2. Spec => [][RowStep]_vars
    BY <1>1, Inductive, PTL DEF Spec
  <1> QED BY <1>2 DEF RowLifecycle, RowStep

-----------------------------------------------------------------------------
(* Buttons and words only.                                                  *)

CalmRecord(r) ==
    /\ r.pc # "idle" => r.kind \notin {"ingress", "fallback"}
    /\ r.todo \subseteq Contract \X {"approve", "reject"}
    /\ r.intent \in {"none", "approve", "reject"}

Calm == /\ \A c \in Contract :
              /\ ~life[c].interrupted
              /\ life[c].resolved => life[c].status \in TerminalStatus
        /\ \A o \in Operation : CalmRecord(op[o])

Writing(r, c) == r.on = c /\ r.pc \in {"write", "verify"}

(* What a guarded handler resolved is past pending for good, and no other   *)
(* guarded handler is about to write it.                                    *)
Settled ==
    \A o \in Operation : \A c \in Contract, k \in {"approve", "reject"} :
       op[o].guarded /\ <<c, k>> \in op[o].did
         => /\ life[c].status \notin {"unborn", "pending"}
            /\ \A p \in Operation \ {o} :
                  op[p].guarded => ~Writing(op[p], c)

RInv == IInv /\ Calm /\ Settled /\ NoSecondResolver /\ ClosedWhenResolved

(* How one handler's record may change in a step.                           *)
RecordStep(r, s) ==
    /\ CalmRecord(s)
    /\ r.pc # "idle" => s.guarded = r.guarded
    /\ \/ s.did = r.did
       \/ /\ r.pc = "verify" /\ r.on \in Contract
          /\ r.intent \in {"approve", "reject"}
          /\ life[r.on].status = StatusAfter(r.intent)
          /\ s.did = r.did \cup {<<r.on, r.intent>>}
          /\ r.guarded => r.pc \in Guarding
    /\ \A c \in Contract : Writing(s, c) => Writing(r, c) \/ c \in Live

LEMMA CalmInit == Init => RInv
  <1> SUFFICES ASSUME Init PROVE RInv  OBVIOUS
  <1>1. IInv  BY InitHolds
  <1>2. Calm
    BY DEF Init, Calm, CalmRecord, Fresh, Unborn
  <1>3. Settled /\ NoSecondResolver
    BY DEF Init, Settled, NoSecondResolver, Fresh
  <1>4. ClosedWhenResolved
    BY DEF Init, ClosedWhenResolved, NoRow
  <1> QED BY <1>1, <1>2, <1>3, <1>4 DEF RInv

LEMMA CalmPlans ==
    ASSUME RInv, NEW o \in Operation, op[o].pc = "route",
           NEW plan \in Plans(o)
    PROVE  plan \subseteq Contract \X {"approve", "reject"}
  <1>1. op[o] \in OperationState /\ op[o].kind \notin {"ingress", "fallback"}
    BY DEF RInv, IInv, TypeOK, Calm, CalmRecord
  <1>2. CASE op[o].kind \in {"approve", "reject"}
    BY <1>2 DEF Plans, RInv, IInv, Wired, WellWired
  <1>3. CASE op[o].kind = "confirm"
    BY <1>1, <1>3
       DEF Plans, ConfirmPlans, Live, OperationState, RInv, Calm
  <1>4. CASE op[o].kind = "cancel"
    BY <1>1, <1>4 DEF Plans, CancelPlan, Live, OperationState
  <1> QED BY <1>1, <1>2, <1>3, <1>4 DEF OperationState, Kind

(* The record steps of handlers that only close, refuse or stop.            *)
LEMMA EndingStep ==
    ASSUME RInv, NEW o \in Operation, op[o].pc # "idle",
           NEW s \in {Closed(op[o]), Refused(op[o]), Stopped(op[o])}
    PROVE  RecordStep(op[o], s)
  <1>1. /\ op[o] \in OperationState /\ CalmRecord(op[o])
        /\ op[o].kind \notin {"ingress", "fallback"}
    BY DEF RInv, IInv, TypeOK, Calm, CalmRecord
  <1>2. /\ s.did = op[o].did /\ s.guarded = op[o].guarded
        /\ s.kind = op[o].kind
        /\ s.on = None /\ s.intent = "none" /\ s.todo = {}
    BY <1>1, ClosedTyped, RefusedTyped, StoppedTyped
  <1> QED BY <1>1, <1>2, NoneIsFresh DEF RecordStep, CalmRecord, Writing

(* A handler's step leaves the records of the others alone.                 *)
LEMMA MovesOneRecord ==
    ASSUME op \in [Operation -> OperationState], NEW p \in Operation,
           NEW o \in Operation \ {p}, Arrive(o) \/ Step(o)
    PROVE  op'[p] = op[p]
  <1>1. CASE Arrive(o)
    <2>1. ASSUME NEW k, NEW c, Press(o, k, c)
          PROVE  op'[p] = op[p]
      BY <2>1 DEF Press
    <2>2. ASSUME NEW k, Say(o, k)
          PROVE  op'[p] = op[p]
      BY <2>2 DEF Say
    <2>3. CASE Interrupt(o)
      BY <2>3 DEF Interrupt
    <2> QED BY <1>1, <2>1, <2>2, <2>3 DEF Arrive
  <1>2. CASE Begin(o) \/ Reopen(o) \/ Claim(o) \/ StoreError(o)
    BY <1>2 DEF Begin, Reopen, Claim, StoreError
  <1>3. CASE Route(o) \/ Read(o)
    <2>1. CASE Route(o)
      <3>1. PICK r : op' = [op EXCEPT ![o] = r]
        BY <2>1 DEF Route
      <3> QED BY <3>1
    <2>2. CASE Read(o)
      BY <2>2 DEF Read
    <2> QED BY <1>3, <2>1, <2>2
  <1>4. CASE Write(o) \/ Verify(o)
    BY <1>4 DEF Write, Verify
  <1>5. CASE Execute(o) \/ Finish(o)
    BY <1>5 DEF Execute, Finish
  <1> QED BY <1>1, <1>2, <1>3, <1>4, <1>5 DEF Step

LEMMA CalmRecords ==
    ASSUME RInv, [Next]_vars, ResolutionsOnly', NEW p \in Operation
    PROVE  RecordStep(op[p], op'[p])
  <1> DEFINE same == op'[p] = op[p]
  <1>1. /\ op \in [Operation -> OperationState] /\ op[p] \in OperationState
        /\ CalmRecord(op[p]) /\ WellWired(op[p])
    BY DEF RInv, IInv, TypeOK, Calm, Wired
  <1>2. CASE same
    BY <1>1, <1>2 DEF RecordStep
  <1>3. ASSUME NEW k, NEW c \in Contract, Press(p, k, c)
        PROVE  RecordStep(op[p], op'[p])
    <2>1. /\ op'[p] = [op[p] EXCEPT !.pc = "begin", !.kind = k,
                                     !.contract = c, !.guarded = TRUE]
          /\ op[p].pc = "idle" /\ k \in {"approve", "reject"}
      BY <1>1, <1>3 DEF Press
    <2>2. /\ op'[p].did = op[p].did /\ op'[p].todo = op[p].todo
          /\ op'[p].intent = op[p].intent /\ op'[p].kind = k
          /\ op'[p].pc = "begin"
      BY <1>1, <2>1 DEF OperationState
    <2> QED BY <1>1, <2>1, <2>2 DEF RecordStep, CalmRecord, Writing
  <1>4. ASSUME NEW k, Say(p, k)
        PROVE  RecordStep(op[p], op'[p])
    <2>1. PICK c \in Contract \cup {None} :
            op' = [op EXCEPT ![p].pc = IF c # None /\ ~Resolver THEN "begin"
                                                                ELSE "route",
                             ![p].kind = k, ![p].contract = c,
                             ![p].guarded = c # None /\ ~Resolver]
      BY <1>4 DEF Say
    <2>2. op[p].pc = "idle" /\ k \in {"confirm", "cancel"}
      BY <1>4 DEF Say
    <2>3. /\ op'[p].did = op[p].did /\ op'[p].todo = op[p].todo
          /\ op'[p].intent = op[p].intent /\ op'[p].kind = k
          /\ op'[p].pc \in {"begin", "route"}
      BY <1>1, <2>1 DEF OperationState
    <2> QED BY <1>1, <2>2, <2>3 DEF RecordStep, CalmRecord, Writing
  <1>5. CASE op[p].pc # "idle" /\ op'[p] \in
               {Closed(op[p]), Refused(op[p]), Stopped(op[p])}
    BY <1>5, EndingStep
  <1>6. ASSUME NEW f \in {"claim", "reopen", "route", "read"}, NEW n, NEW g,
               \/ op'[p] = [op[p] EXCEPT !.pc = f, !.seen = n]
               \/ op'[p] = [op[p] EXCEPT !.pc = f, !.again = g],
               op[p].pc # "idle"
        PROVE  RecordStep(op[p], op'[p])
    <2>1. /\ op'[p].did = op[p].did /\ op'[p].todo = op[p].todo
          /\ op'[p].intent = op[p].intent /\ op'[p].kind = op[p].kind
          /\ op'[p].guarded = op[p].guarded /\ op'[p].pc = f
      BY <1>1, <1>6 DEF OperationState
    <2> QED BY <1>1, <1>6, <2>1 DEF RecordStep, CalmRecord, Writing
  <1>7. CASE Begin(p) \/ Reopen(p) \/ Claim(p) \/ StoreError(p)
    <2>1. op[p].pc # "idle"
      BY <1>7 DEF Begin, Reopen, Claim, StoreError
    <2>2. \/ op'[p] = Refused(op[p])
          \/ op'[p] = [op[p] EXCEPT !.pc = "claim", !.seen = 1]
          \/ op'[p] = [op[p] EXCEPT !.pc = "claim", !.seen = row.version]
          \/ op'[p] = [op[p] EXCEPT !.pc = "reopen", !.seen = row.version]
          \/ op'[p] = [op[p] EXCEPT !.pc = "claim", !.seen = row.version + 1]
          \/ op'[p] = [op[p] EXCEPT !.pc = "route", !.seen = row.version + 1]
      BY <1>1, <1>7 DEF Begin, Reopen, Claim, StoreError
    <2> QED BY <1>5, <1>6, <2>1, <2>2
  <1>8. CASE Route(p)
    <2>1. /\ op[p].pc = "route"
          /\ \E plan \in Plans(p) :
                \/ op'[p] = Closed(op[p])
                \/ op'[p] = [op[p] EXCEPT !.pc = "read", !.todo = plan]
      BY <1>1, <1>8 DEF Route
    <2>2. CASE op'[p] = Closed(op[p])
      BY <1>5, <2>1, <2>2
    <2>3. ASSUME NEW plan \in Plans(p),
                 op'[p] = [op[p] EXCEPT !.pc = "read", !.todo = plan]
          PROVE  RecordStep(op[p], op'[p])
      <3>1. plan \subseteq Contract \X {"approve", "reject"}
        BY <2>1, CalmPlans
      <3>2. /\ op'[p].did = op[p].did /\ op'[p].todo = plan
            /\ op'[p].intent = op[p].intent /\ op'[p].kind = op[p].kind
            /\ op'[p].guarded = op[p].guarded /\ op'[p].pc = "read"
        BY <1>1, <2>3 DEF OperationState
      <3> QED BY <1>1, <2>1, <3>1, <3>2 DEF RecordStep, CalmRecord, Writing
    <2> QED BY <2>1, <2>2, <2>3
  <1>9. CASE Read(p)
    <2>1. /\ op[p].pc = "read"
          /\ \/ op'[p] = Stopped(op[p])
             \/ \E item \in op[p].todo :
                   /\ item[1] \in Live
                   /\ op'[p] = [op[p] EXCEPT !.pc = "write", !.on = item[1],
                                             !.intent = item[2]]
      BY <1>1, <1>9 DEF Read
    <2>2. CASE op'[p] = Stopped(op[p])
      BY <1>5, <2>1, <2>2
    <2>3. ASSUME NEW item \in op[p].todo, item[1] \in Live,
                 op'[p] = [op[p] EXCEPT !.pc = "write", !.on = item[1],
                                        !.intent = item[2]]
          PROVE  RecordStep(op[p], op'[p])
      <3>1. item[2] \in {"approve", "reject"}
        BY <1>1, <2>3 DEF CalmRecord
      <3>2. /\ op'[p].did = op[p].did /\ op'[p].todo = op[p].todo
            /\ op'[p].intent = item[2] /\ op'[p].kind = op[p].kind
            /\ op'[p].guarded = op[p].guarded /\ op'[p].on = item[1]
        BY <1>1, <2>3 DEF OperationState
      <3> QED
        BY <1>1, <2>1, <2>3, <3>1, <3>2 DEF RecordStep, CalmRecord, Writing
    <2> QED BY <2>1, <2>2, <2>3
  <1>10. CASE Write(p)
    <2>1. /\ op[p].pc = "write"
          /\ \/ op'[p] = Stopped(op[p])
             \/ op'[p] = [op[p] EXCEPT !.pc = "verify"]
      BY <1>1, <1>10 DEF Write
    <2>2. CASE op'[p] = Stopped(op[p])
      BY <1>5, <2>1, <2>2
    <2>3. CASE op'[p] = [op[p] EXCEPT !.pc = "verify"]
      <3>1. /\ op'[p].did = op[p].did /\ op'[p].todo = op[p].todo
            /\ op'[p].intent = op[p].intent /\ op'[p].kind = op[p].kind
            /\ op'[p].guarded = op[p].guarded /\ op'[p].on = op[p].on
        BY <1>1, <2>3 DEF OperationState
      <3> QED BY <1>1, <2>1, <3>1 DEF RecordStep, CalmRecord, Writing
    <2> QED BY <2>1, <2>2, <2>3
  <1>11. CASE Verify(p)
    <2>0. /\ op[p].pc = "verify" /\ op[p].on \in Contract
          /\ op[p].pc \in Guarding
      BY <1>1, <1>11 DEF Verify, WellWired, Guarding
    <2>1. \/ /\ life[op[p].on].status = StatusAfter(op[p].intent)
             /\ op[p].intent = "approve"
             /\ op'[p] = [op[p] EXCEPT !.pc = "execute",
                    !.did = op[p].did \cup {<<op[p].on, op[p].intent>>}]
          \/ /\ life[op[p].on].status = StatusAfter(op[p].intent)
             /\ op[p].intent = "reject"
             /\ op'[p] = Advanced([op[p] EXCEPT
                    !.did = op[p].did \cup {<<op[p].on, op[p].intent>>}])
          \/ op'[p] = Advanced(op[p])
          \/ op'[p] = [op[p] EXCEPT !.pc = "read", !.again = TRUE]
          \/ op'[p] = Stopped(op[p])
      BY <1>1, <1>11 DEF Verify
    <2>2. PICK d : d = op[p].did \cup {<<op[p].on, op[p].intent>>}
      OBVIOUS
    <2>3. CASE /\ life[op[p].on].status = StatusAfter(op[p].intent)
               /\ op[p].intent = "approve"
               /\ op'[p] = [op[p] EXCEPT !.pc = "execute", !.did = d]
      <3>1. /\ op'[p].did = d /\ op'[p].todo = op[p].todo
            /\ op'[p].intent = op[p].intent /\ op'[p].kind = op[p].kind
            /\ op'[p].guarded = op[p].guarded /\ op'[p].pc = "execute"
        BY <1>1, <2>3 DEF OperationState
      <3> QED
        BY <1>1, <2>0, <2>2, <2>3, <3>1 DEF RecordStep, CalmRecord, Writing
    <2>4. CASE /\ life[op[p].on].status = StatusAfter(op[p].intent)
               /\ op[p].intent = "reject"
               /\ op'[p] = Advanced([op[p] EXCEPT !.did = d])
      <3>1. d \in SUBSET (Contract \X {"approve", "reject"})
        BY <1>1, <2>0, <2>2, <2>4 DEF OperationState
      <3>2. PICK q \in OperationState : q = [op[p] EXCEPT !.did = d]
        BY <1>1, <3>1 DEF OperationState
      <3>3. /\ q.did = d /\ q.todo = op[p].todo /\ q.kind = op[p].kind
            /\ q.guarded = op[p].guarded
        BY <1>1, <3>2 DEF OperationState
      <3>4. /\ op'[p].did = d /\ op'[p].todo \subseteq op[p].todo
            /\ op'[p].intent = "none" /\ op'[p].kind = op[p].kind
            /\ op'[p].guarded = op[p].guarded /\ op'[p].on = None
        BY <2>4, <3>2, <3>3, AdvancedTyped
      <3> QED
        BY <1>1, <2>0, <2>2, <2>4, <3>4, NoneIsFresh
           DEF RecordStep, CalmRecord, Writing
    <2>5. CASE op'[p] = Advanced(op[p])
      <3>1. /\ op'[p].did = op[p].did /\ op'[p].todo \subseteq op[p].todo
            /\ op'[p].intent = "none" /\ op'[p].kind = op[p].kind
            /\ op'[p].guarded = op[p].guarded /\ op'[p].on = None
        BY <1>1, <2>5, AdvancedTyped
      <3> QED
        BY <1>1, <2>0, <3>1, NoneIsFresh DEF RecordStep, CalmRecord, Writing
    <2>6. CASE op'[p] = [op[p] EXCEPT !.pc = "read", !.again = TRUE]
      BY <1>6, <2>0, <2>6
    <2>7. CASE op'[p] = Stopped(op[p])
      BY <1>5, <2>0, <2>7
    <2> QED BY <2>1, <2>2, <2>3, <2>4, <2>5, <2>6, <2>7
  <1>12. CASE Execute(p)
    BY <1>1, <1>5, <1>12 DEF Execute
  <1>13. CASE Finish(p)
    <2>1. op[p].pc = "finish" /\ op'[p] = [op[p] EXCEPT !.pc = "done"]
      BY <1>1, <1>13 DEF Finish
    <2>2. /\ op'[p].did = op[p].did /\ op'[p].todo = op[p].todo
          /\ op'[p].intent = op[p].intent /\ op'[p].kind = op[p].kind
          /\ op'[p].guarded = op[p].guarded /\ op'[p].pc = "done"
      BY <1>1, <2>1 DEF OperationState
    <2> QED BY <1>1, <2>1, <2>2 DEF RecordStep, CalmRecord, Writing
  <1>14. CASE Restart
    <2>1. op'[p] = IF InFlight(p) THEN Refused(op[p]) ELSE op[p]
      BY <1>14 DEF Restart
    <2>2. CASE InFlight(p)
      BY <1>5, <2>1, <2>2 DEF InFlight
    <2> QED BY <1>2, <2>1, <2>2
  <1>15. CASE op' = op \/ \E o \in Operation \ {p} : Arrive(o) \/ Step(o)
    <2>1. ASSUME NEW o \in Operation \ {p}, Arrive(o) \/ Step(o)
          PROVE  same
      BY <1>1, <2>1, MovesOneRecord
    <2> QED BY <1>2, <1>15, <2>1
  <1>16. CASE Arrive(p)
    <2>1. CASE Interrupt(p)
      <3>1. op'[p].pc = "route" /\ op'[p].kind = "ingress"
        BY <1>1, <2>1 DEF Interrupt, OperationState
      <3> QED BY <3>1 DEF ResolutionsOnly
    <2> QED BY <1>3, <1>4, <1>16, <2>1 DEF Arrive
  <1>17. CASE Step(p)
    BY <1>7, <1>8, <1>9, <1>10, <1>11, <1>12, <1>13, <1>17 DEF Step
  <1> QED
    BY <1>14, <1>15, <1>16, <1>17 DEF Next, vars, Propose


LEMMA ArriveKeeps ==
    ASSUME NEW o \in Operation, Arrive(o)
    PROVE  row' = row /\ life' = life
  <1>1. ASSUME NEW k, NEW c, Press(o, k, c)
        PROVE  row' = row /\ life' = life
    BY <1>1 DEF Press
  <1>2. ASSUME NEW k, Say(o, k)
        PROVE  row' = row /\ life' = life
    BY <1>2 DEF Say
  <1>3. CASE Interrupt(o)
    BY <1>3 DEF Interrupt
  <1> QED BY <1>1, <1>2, <1>3 DEF Arrive

(* Every change of a contract: it is proposed, resolved, or run.            *)
LEMMA LifeForward ==
    ASSUME RInv, [Next]_vars, ResolutionsOnly', NEW c \in Contract
    PROVE  /\ ~life'[c].interrupted
           /\ life'[c].resolved => life'[c].status \in TerminalStatus
           /\ life[c].status \notin {"unborn", "pending"}
                => life'[c].status \notin {"unborn", "pending"}
           /\ life[c].status \in TerminalStatus
                => life'[c].status \in TerminalStatus
  <1>1. /\ life \in [Contract -> Life] /\ life[c] \in Life
        /\ ~life[c].interrupted
        /\ life[c].resolved => life[c].status \in TerminalStatus
    BY DEF RInv, IInv, TypeOK, Calm
  <1>2. CASE life' = life
    BY <1>1, <1>2
  <1>3. CASE \E d \in Contract : Propose(d)
    <2>1. PICK d \in Contract : Propose(d)
      BY <1>3
    <2>2. CASE c = d
      <3>1. life[c].status = "unborn" /\ life'[c].interrupted = FALSE
        BY <1>1, <2>1, <2>2 DEF Propose, Life
      <3>2. life'[c].resolved = life[c].resolved
        BY <1>1, <2>1, <2>2 DEF Propose, Life
      <3> QED BY <1>1, <3>1, <3>2 DEF TerminalStatus
    <2>3. CASE c # d
      BY <1>1, <2>1, <2>3 DEF Propose
    <2> QED BY <2>2, <2>3
  <1>4. ASSUME NEW o \in Operation, Write(o)
        PROVE  \/ life' = life
               \/ /\ life'[c] # life[c]
                  /\ life'[c].status \in {"approved", "rejected"}
                  /\ ~life'[c].interrupted
               \/ life'[c] = life[c]
    <2>1. /\ op[o] \in OperationState /\ CalmRecord(op[o])
          /\ WellWired(op[o]) /\ op[o].pc = "write"
          /\ \/ life' = life
             \/ life' = [life EXCEPT ![op[o].on] =
                                 Patched(life[op[o].on], op[o].intent)]
      BY <1>4 DEF Write, RInv, IInv, TypeOK, Calm, Wired
    <2>2. op[o].intent \in {"approve", "reject"}
      BY <2>1 DEF CalmRecord, WellWired, Intent
    <2>3. /\ Patched(life[c], op[o].intent).status
               \in {"approved", "rejected"}
          /\ Patched(life[c], op[o].intent).interrupted = FALSE
      BY <1>1, <2>2 DEF Patched, StatusAfter, Life
    <2> QED BY <1>1, <2>1, <2>3
  <1>5. ASSUME NEW o \in Operation, Execute(o)
        PROVE  \/ life'[c] = life[c]
               \/ /\ life'[c].status \in {"executed", "failed"}
                  /\ ~life'[c].interrupted
    BY <1>1, <1>5 DEF Execute, Life
  <1>6. \/ life' = life
        \/ \E d \in Contract : Propose(d)
        \/ \E o \in Operation : Write(o) \/ Execute(o)
    <2>1. ASSUME NEW o \in Operation, Arrive(o)
          PROVE  life' = life
      BY <2>1, ArriveKeeps
    <2>2. ASSUME NEW o \in Operation, Step(o)
          PROVE  life' = life \/ Write(o) \/ Execute(o)
      <3>1. Begin(o) \/ Reopen(o) \/ Claim(o) \/ StoreError(o)
              => life' = life
        BY DEF Begin, Reopen, Claim, StoreError
      <3>2. Route(o) => life' = life
        BY DEF Route
      <3>3. Read(o) => life' = life
        BY DEF Read
      <3>4. Verify(o) => life' = life
        BY DEF Verify
      <3>5. Finish(o) => life' = life
        BY DEF Finish
      <3> QED BY <2>2, <3>1, <3>2, <3>3, <3>4, <3>5 DEF Step
    <2>3. Restart => life' = life
      BY DEF Restart
    <2> QED BY <2>1, <2>2, <2>3 DEF Next, vars
  <1> QED BY <1>1, <1>2, <1>3, <1>4, <1>5, <1>6 DEF TerminalStatus

(* Only a close of the row makes it terminal.                               *)
LEMMA TerminalCloses ==
    ASSUME IInv, [Next]_vars, row' # row, row'.state = "terminal"
    PROVE  \E o \in Operation :
              /\ op[o].pc = "finish" /\ OwnsRow(o)
              /\ row'.contract = row.contract /\ life' = life
              /\ life[op[o].contract].resolved
  <1>1. row \in RowRecord
    BY DEF IInv, TypeOK
  <1>2. PICK o \in Operation : Begin(o) \/ Reopen(o) \/ Claim(o)
                                 \/ StoreError(o) \/ Finish(o)
    <2>1. \A c \in Contract : ~Propose(c)
      BY DEF Propose
    <2>2. \A o \in Operation : ~Arrive(o)
      BY ArriveKeeps
    <2>3. ~Restart
      BY DEF Restart
    <2>4. PICK o \in Operation : Step(o)
      BY <2>1, <2>2, <2>3 DEF Next, vars
    <2>5. Route(o) => row' = row
      BY DEF Route
    <2>6. Read(o) => row' = row
      BY DEF Read
    <2>7. ~Write(o)
      BY DEF Write
    <2>8. ~Verify(o)
      BY DEF Verify
    <2>9. ~Execute(o)
      BY DEF Execute
    <2> QED BY <2>4, <2>5, <2>6, <2>7, <2>8, <2>9 DEF Step
  <1>3. ~Begin(o) /\ ~Reopen(o)
    BY DEF Begin, Reopen
  <1>4. ~Claim(o) /\ ~StoreError(o)
    BY <1>1 DEF Claim, StoreError, Claimed, RowRecord
  <1>5. Finish(o)
    BY <1>2, <1>3, <1>4
  <1>6. /\ op[o].pc = "finish" /\ life' = life
        /\ \E heard \in {FALSE, life[op[o].contract].resolved} :
              row' = IF OwnsRow(o) /\ row.version = op[o].seen
                       THEN [row EXCEPT
                               !.state = IF heard THEN "terminal"
                                                  ELSE "released",
                               !.version = row.version + 1]
                       ELSE row
    BY <1>5 DEF Finish
  <1>7. PICK heard \in {FALSE, life[op[o].contract].resolved} :
           /\ OwnsRow(o)
           /\ row' = [row EXCEPT !.state = IF heard THEN "terminal"
                                                    ELSE "released",
                                 !.version = row.version + 1]
    BY <1>6
  <1>8. heard /\ row'.contract = row.contract
    BY <1>1, <1>7 DEF RowRecord
  <1> QED BY <1>6, <1>7, <1>8

LEMMA CalmNext ==
    ASSUME RInv, [Next]_vars, ResolutionsOnly'
    PROVE  RInv'
  <1>1. IInv /\ IInv'
    BY NextHolds DEF RInv
  <1>2. \A p \in Operation : RecordStep(op[p], op'[p])
    BY CalmRecords
  <1>3. Calm'
    BY <1>2, LifeForward DEF Calm, RecordStep, CalmRecord
  <1>4. \A o, p \in Operation :
           /\ op[o].guarded /\ op[o].pc \in Guarding
           /\ op[p].guarded /\ op[p].pc \in Guarding
           => o = p
    BY <1>1 DEF IInv, OwnerKeepsRow, OwnsRow
  <1>5. \A p \in Operation :
           /\ op[p].pc = "idle" => op[p].did = {}
           /\ op[p].pc = "idle" => ~op[p].guarded
    BY <1>1 DEF IInv, Wired, WellWired, Fresh
  <1>6. \A o, p \in Operation, c \in Contract :
           \A k \in {"approve", "reject"} :
              /\ o # p /\ op[p].guarded /\ <<c, k>> \in op[p].did
              /\ op[o].guarded
              => op'[o].did = op[o].did \/ op[o].on # c
    BY <1>2 DEF RInv, Settled, RecordStep, Writing
  <1>7. Settled'
    <2> SUFFICES ASSUME NEW o \in Operation, NEW c \in Contract,
                        NEW k \in {"approve", "reject"},
                        op'[o].guarded, <<c, k>> \in op'[o].did
                 PROVE  /\ life'[c].status \notin {"unborn", "pending"}
                        /\ \A p \in Operation \ {o} :
                              op'[p].guarded => ~Writing(op[p], c)'
      BY DEF Settled
    <2>0. RecordStep(op[o], op'[o])
      BY <1>2
    <2>1. CASE <<c, k>> \in op[o].did
      <3>1. /\ op[o].guarded
            /\ life[c].status \notin {"unborn", "pending"}
            /\ \A p \in Operation \ {o} :
                  op[p].guarded => ~Writing(op[p], c)
        BY <2>0, <2>1, <1>5 DEF RecordStep, RInv, Settled
      <3>2. ASSUME NEW p \in Operation \ {o}, op'[p].guarded,
                   Writing(op'[p], c)
            PROVE  FALSE
        <4>1. Writing(op[p], c) \/ c \in Live
          BY <1>2, <3>2 DEF RecordStep
        <4>2. op[p].guarded \/ op[p].pc = "idle"
          BY <1>2, <3>2 DEF RecordStep
        <4> QED BY <3>1, <4>1, <4>2 DEF Live, Writing
      <3> QED BY <3>1, <3>2, LifeForward DEF Writing
    <2>2. CASE <<c, k>> \notin op[o].did
      <3>1. /\ op[o].pc = "verify" /\ op[o].on = c
            /\ life[c].status = StatusAfter(k)
            /\ op[o].guarded
        <4>1. /\ op[o].pc = "verify"
              /\ life[op[o].on].status = StatusAfter(op[o].intent)
              /\ op'[o].did = op[o].did \cup {<<op[o].on, op[o].intent>>}
          BY <2>0, <2>2 DEF RecordStep
        <4>2. op[o].on = c /\ op[o].intent = k
          BY <2>2, <4>1
        <4> QED BY <2>0, <4>1, <4>2 DEF RecordStep
      <3>2. life[c].status \in {"approved", "rejected"}
        BY <3>1 DEF StatusAfter
      <3>3. ASSUME NEW p \in Operation \ {o}, op'[p].guarded,
                   Writing(op'[p], c)
            PROVE  FALSE
        <4>1. Writing(op[p], c)
          BY <1>2, <3>2, <3>3 DEF RecordStep, Live
        <4>2. op[p].guarded
          BY <1>2, <3>3, <4>1 DEF RecordStep, Writing
        <4> QED BY <1>4, <3>1, <4>1, <4>2 DEF Writing, Guarding
      <3> QED BY <3>2, <3>3, LifeForward DEF Writing
    <2> QED BY <2>1, <2>2
  <1>8. NoSecondResolver'
    <2> SUFFICES ASSUME NEW o \in Operation, NEW p \in Operation,
                        NEW c \in Contract, NEW k \in {"approve", "reject"},
                        o # p, op'[o].guarded, op'[p].guarded,
                        <<c, "approve">> \in op'[o].did,
                        <<c, k>> \in op'[p].did
                 PROVE  FALSE
      BY DEF NoSecondResolver
    <2>1. RecordStep(op[o], op'[o]) /\ RecordStep(op[p], op'[p])
      BY <1>2
    <2>2. op[o].guarded /\ op[p].guarded
      BY <2>1, <1>5 DEF RecordStep
    <2>3. \/ <<c, "approve">> \in op[o].did
          \/ op[o].on = c /\ op[o].pc = "verify" /\ op[o].pc \in Guarding
      BY <2>1, <2>2 DEF RecordStep
    <2>4. \/ <<c, k>> \in op[p].did
          \/ op[p].on = c /\ op[p].pc = "verify" /\ op[p].pc \in Guarding
      BY <2>1, <2>2 DEF RecordStep
    <2> QED
      BY <1>4, <2>2, <2>3, <2>4 DEF RInv, Settled, NoSecondResolver, Writing
  <1>9. ClosedWhenResolved'
    <2> SUFFICES ASSUME row'.state = "terminal"
                 PROVE  life'[row'.contract].status \in TerminalStatus
      BY DEF ClosedWhenResolved
    <2>1. row'.contract \in Contract
      BY <1>1 DEF IInv, TypeOK, RowRecord
    <2>2. CASE row' = row
      BY <2>1, <2>2, LifeForward DEF RInv, ClosedWhenResolved
    <2>3. CASE row' # row
      <3>1. PICK o \in Operation :
              /\ op[o].pc = "finish" /\ OwnsRow(o)
              /\ row'.contract = row.contract
              /\ life' = life
              /\ life[op[o].contract].resolved
        BY <1>1, <2>3, TerminalCloses
      <3>2. op[o].guarded /\ op[o].contract = row.contract
        BY <1>1, <3>1 DEF IInv, Wired, WellWired, OwnerKeepsRow, Guarding
      <3> QED BY <2>1, <3>1, <3>2 DEF RInv, Calm
    <2> QED BY <2>2, <2>3
  <1> QED BY <1>1, <1>3, <1>7, <1>8, <1>9 DEF RInv

(* An event keeps its kind, so what is quiet now was quiet before.          *)
LEMMA KindStays ==
    ASSUME IInv, [Next]_vars, ResolutionsOnly'
    PROVE  ResolutionsOnly
  <1> SUFFICES ASSUME NEW p \in Operation, op[p].pc # "idle",
                      op[p].kind \in {"ingress", "fallback"}
               PROVE  /\ op'[p].pc # "idle"
                      /\ op'[p].kind \in {"ingress", "fallback"}
    BY DEF ResolutionsOnly
  <1>1. op \in [Operation -> OperationState] /\ op[p] \in OperationState
    BY DEF IInv, TypeOK
  <1>2. CASE op'[p] = op[p]
    BY <1>2
  <1>3. CASE op'[p] \in {Closed(op[p]), Refused(op[p]), Stopped(op[p])}
    BY <1>1, <1>3, ClosedTyped, RefusedTyped, StoppedTyped
  <1>4. CASE op'[p] = Advanced(op[p])
    BY <1>1, <1>4, AdvancedTyped
  <1>5. ASSUME NEW r \in OperationState, r.kind = op[p].kind,
               op'[p] = Advanced(r)
        PROVE  /\ op'[p].pc # "idle"
               /\ op'[p].kind \in {"ingress", "fallback"}
    BY <1>5, AdvancedTyped
  <1>6. CASE op'[p].kind = op[p].kind /\ op'[p].pc # "idle"
    BY <1>6
  <1>7. CASE Begin(p) \/ Reopen(p) \/ Claim(p) \/ StoreError(p)
    <2>1. \/ op'[p] = Refused(op[p])
          \/ op'[p] = [op[p] EXCEPT !.pc = "claim", !.seen = 1]
          \/ op'[p] = [op[p] EXCEPT !.pc = "claim", !.seen = row.version]
          \/ op'[p] = [op[p] EXCEPT !.pc = "reopen", !.seen = row.version]
          \/ op'[p] = [op[p] EXCEPT !.pc = "claim", !.seen = row.version + 1]
          \/ op'[p] = [op[p] EXCEPT !.pc = "route", !.seen = row.version + 1]
      BY <1>1, <1>7 DEF Begin, Reopen, Claim, StoreError
    <2>2. op'[p] = Refused(op[p])
            \/ (op'[p].kind = op[p].kind /\ op'[p].pc # "idle")
      BY <1>1, <2>1 DEF OperationState
    <2> QED BY <1>3, <1>6, <2>2
  <1>8. CASE Route(p)
    <2>1. \/ op'[p] = Closed(op[p])
          \/ \E plan : op'[p] = [op[p] EXCEPT !.pc = "read", !.todo = plan]
      BY <1>1, <1>8 DEF Route
    <2>2. \/ op'[p] = Closed(op[p])
          \/ op'[p].kind = op[p].kind /\ op'[p].pc # "idle"
      BY <1>1, <2>1 DEF OperationState
    <2> QED BY <1>3, <1>6, <2>2
  <1>9. CASE Read(p)
    <2>1. \/ op'[p] = Stopped(op[p])
          \/ \E item \in op[p].todo :
                op'[p] = [op[p] EXCEPT !.pc = "write", !.on = item[1],
                                       !.intent = item[2]]
      BY <1>1, <1>9 DEF Read
    <2>2. \/ op'[p] = Stopped(op[p])
          \/ op'[p].kind = op[p].kind /\ op'[p].pc # "idle"
      BY <1>1, <2>1 DEF OperationState
    <2> QED BY <1>3, <1>6, <2>2
  <1>10. CASE Write(p)
    <2>1. \/ op'[p] = Stopped(op[p])
          \/ op'[p] = [op[p] EXCEPT !.pc = "verify"]
      BY <1>1, <1>10 DEF Write
    <2>2. \/ op'[p] = Stopped(op[p])
          \/ op'[p].kind = op[p].kind /\ op'[p].pc # "idle"
      BY <1>1, <2>1 DEF OperationState
    <2> QED BY <1>3, <1>6, <2>2
  <1>11. CASE Verify(p)
    <2>0. /\ op[p].pc = "verify" /\ op[p].on \in Contract
          /\ op[p].intent \in Intent
      BY <1>11 DEF Verify, IInv, Wired, WellWired
    <2>1. PICK d \in SUBSET (Contract \X {"approve", "reject"}) :
            (\/ op'[p] = [op[p] EXCEPT !.pc = "execute", !.did = d]
             \/ op'[p] = Advanced([op[p] EXCEPT !.did = d])
             \/ op'[p] = Advanced(op[p])
             \/ op'[p] = [op[p] EXCEPT !.pc = "read", !.again = TRUE]
             \/ op'[p] = Stopped(op[p]))
      <3>1. CASE op[p].intent \in {"approve", "reject"}
        <4>1. op[p].did \cup {<<op[p].on, op[p].intent>>}
                \in SUBSET (Contract \X {"approve", "reject"})
          BY <1>1, <2>0, <3>1 DEF OperationState
        <4> QED BY <1>1, <1>11, <2>0, <3>1, <4>1 DEF Verify
      <3>2. CASE op[p].intent \notin {"approve", "reject"}
        <4>1. \/ op'[p] = Advanced(op[p])
              \/ op'[p] = [op[p] EXCEPT !.pc = "read", !.again = TRUE]
              \/ op'[p] = Stopped(op[p])
          BY <1>1, <1>11, <2>0, <3>2 DEF Verify
        <4>2. {} \in SUBSET (Contract \X {"approve", "reject"})
          OBVIOUS
        <4> QED BY <4>1, <4>2
      <3> QED BY <3>1, <3>2
    <2>2. PICK r \in OperationState : r = [op[p] EXCEPT !.did = d]
      BY <1>1 DEF OperationState
    <2>3. r.kind = op[p].kind
      BY <1>1, <2>2 DEF OperationState
    <2>4. \/ op'[p] = Advanced(r) \/ op'[p] = Advanced(op[p])
          \/ op'[p] = Stopped(op[p])
          \/ op'[p].kind = op[p].kind /\ op'[p].pc # "idle"
      BY <1>1, <2>1, <2>2 DEF OperationState
    <2> QED BY <1>3, <1>4, <1>5, <1>6, <2>3, <2>4
  <1>12. CASE Execute(p)
    BY <1>1, <1>3, <1>12 DEF Execute
  <1>13. CASE Finish(p)
    <2>1. op'[p] = [op[p] EXCEPT !.pc = "done"]
      BY <1>1, <1>13 DEF Finish
    <2> QED BY <1>1, <1>6, <2>1 DEF OperationState
  <1>14. CASE Restart
    <2>1. op'[p] = IF InFlight(p) THEN Refused(op[p]) ELSE op[p]
      BY <1>14 DEF Restart
    <2> QED BY <1>2, <1>3, <2>1
  <1>15. CASE op' = op \/ \E o \in Operation \ {p} : Arrive(o) \/ Step(o)
    <2>1. ASSUME NEW o \in Operation \ {p}, Arrive(o) \/ Step(o)
          PROVE  op'[p] = op[p]
      BY <1>1, <2>1, MovesOneRecord
    <2> QED BY <1>2, <1>15, <2>1
  <1>16. ~Arrive(p)
    BY DEF Arrive, Press, Say, Interrupt
  <1>17. CASE Step(p)
    BY <1>7, <1>8, <1>9, <1>10, <1>11, <1>12, <1>13, <1>17 DEF Step
  <1> QED
    BY <1>14, <1>15, <1>16, <1>17 DEF Next, vars, Propose

QInv == IInv /\ (ResolutionsOnly => RInv)

LEMMA QuietInductive == Spec => []QInv
  <1>1. Init => QInv
    BY CalmInit DEF QInv, RInv
  <1>2. QInv /\ [Next]_vars => QInv'
    <2> SUFFICES ASSUME QInv, [Next]_vars PROVE QInv'
      OBVIOUS
    <2>1. IInv'
      BY NextHolds DEF QInv
    <2>2. ASSUME ResolutionsOnly' PROVE RInv'
      BY <2>2, KindStays, CalmNext DEF QInv
    <2> QED BY <2>1, <2>2 DEF QInv
  <1> QED BY <1>1, <1>2, PTL DEF Spec

(* Until a message that is neither a button nor a word arrives, whatever    *)
(* restarts, no contract is approved by one handler that took the row and   *)
(* resolved by another that took it.                                        *)
THEOREM GuardedResolvedOnce == Spec => []GuardedOnce
  <1>1. QInv => GuardedOnce
    BY DEF QInv, RInv, GuardedOnce
  <1> QED BY <1>1, QuietInductive, PTL

(* Until then, a row closed as terminal names a contract the durable        *)
(* lifecycle resolved.                                                      *)
THEOREM TerminalResolved == Spec => []TerminalMeansResolved
  <1>1. QInv => TerminalMeansResolved
    BY DEF QInv, RInv, TerminalMeansResolved
  <1> QED BY <1>1, QuietInductive, PTL
=============================================================================
