---------------------------- MODULE AtomicClaims ----------------------------
(***************************************************************************)
(* The PostgreSQL table action_execution_claims and the callers that race  *)
(* for it: core/atomic_claim_repository.py (claim_contract_execution,      *)
(* update_claim_status, get_claim, list_pending_claims) driven by          *)
(* core/action_gateway_atomic_executor.py (execute_with_atomic_claim) with *)
(* FEATURE_ATOMIC_CLAIMS on.                                               *)
(*                                                                         *)
(* An attempt is one call of execute_with_atomic_claim: it has an          *)
(* execution_id of its own, so attempts name execution_ids too.  Every     *)
(* statement that PostgreSQL commits is one step; between the INSERT, the  *)
(* classifying SELECT, the recovery transaction, the dispatch and the      *)
(* status UPDATE other attempts run, the database may be unreachable and   *)
(* the process may die.                                                    *)
(***************************************************************************)
CONSTANTS Contract,  \* ActionContract ids
          Key,       \* idempotency keys an approval can ask for
          Attempt,   \* calls of execute_with_atomic_claim (execution_ids)
          None       \* a value outside all of these

ASSUME NoneIsFresh == /\ None \notin Contract
                      /\ None \notin Key
                      /\ None \notin Attempt

VARIABLES claims,  \* contract id -> the row of action_execution_claims
          att      \* attempt -> where its call stands

vars == <<claims, att>>

-----------------------------------------------------------------------------
Outcome == {"completed", "failed", "outcome_unknown"}

Refusal == {"already_claimed", "contract_identity_conflict",
            "idempotency_conflict", "unavailable", "error"}

(* A parked row carries the key "superseded:<contract>", which no approval  *)
(* ever asks for; None stands for it.                                       *)
Row == [key : Key \cup {None},
        by : Attempt,
        status : {"executing", "superseded"} \cup Outcome,
        origKey : Key \cup {None},
        supersededBy : Contract \cup {None}]

NoRow == [key |-> None, by |-> None, status |-> "absent",
          origKey |-> None, supersededBy |-> None]

NewRow(a) == [key |-> att[a].key, by |-> a, status |-> "executing",
              origKey |-> None, supersededBy |-> None]

(* Faulty variant of ParkedRow: the key is overwritten before it is copied. *)
ParkedRowKeyLost(r, c) == [key |-> None, by |-> claims[r].by,
                           status |-> "superseded", origKey |-> None,
                           supersededBy |-> c]

ParkedRow(r, c) == [key |-> None, by |-> claims[r].by, status |-> "superseded",
                    origKey |-> claims[r].key, supersededBy |-> c]

Phase == {"idle", "insert", "classify", "supersede", "dispatch", "settle",
          "done", "crashed"}

AttemptState ==
    [pc : Phase,
     contract : Contract \cup {None},
     key : Key \cup {None},
     recovers : Contract \cup {None},
     result : {"none", "acquired"} \cup Refusal,
     outcome : {"none"} \cup Outcome,
     applied : BOOLEAN]         \* the provider performed the write

Fresh == [pc |-> "idle", contract |-> None, key |-> None, recovers |-> None,
          result |-> "none", outcome |-> "none", applied |-> FALSE]

HasRow(c) == claims[c].status # "absent"

HoldersOf(k) == {c \in Contract : HasRow(c) /\ claims[c].key = k}

(* Faulty variants of Conflicts: only one of the two constraints exists.    *)
ConflictsOnKey(c, k) == HoldersOf(k) # {}
ConflictsOnContract(c, k) == HasRow(c)

(* What the UNIQUE constraints see: the PRIMARY KEY or the key index.       *)
Conflicts(c, k) == HasRow(c) \/ HoldersOf(k) # {}

-----------------------------------------------------------------------------
Init == /\ claims = [c \in Contract |-> NoRow]
        /\ att = [a \in Attempt |-> Fresh]

(* Faulty variant of RecoveryProven: nobody looks for the target row.       *)
RecoveryWithoutAbsenceProof(r, k) ==
    /\ \E b \in Attempt : att[b].contract = r
    /\ \A b \in Attempt :
          att[b].contract = r => /\ att[b].pc = "done"
                                 /\ att[b].outcome = "failed"
                                 /\ att[b].key = k
                                 /\ att[b].recovers = None

(* propose_action accepts a recovery of contract r only when r ended        *)
(* "failed" under the same natural key, was not itself a recovery (its key  *)
(* would carry the lineage marker) and the provider shows no target row.    *)
RecoveryProven(r, k) ==
    /\ \E b \in Attempt : att[b].contract = r
    /\ \A b \in Attempt :
          att[b].contract = r => /\ att[b].pc = "done"
                                 /\ att[b].outcome = "failed"
                                 /\ att[b].key = k
                                 /\ att[b].recovers = None
                                 /\ ~att[b].applied

(* An approved contract reaches execute_with_atomic_claim.                  *)
Begin(a, c, k, r) ==
    /\ att[a].pc = "idle"
    /\ r # None => r # c /\ RecoveryProven(r, k)
    /\ att' = [att EXCEPT ![a] = [Fresh EXCEPT !.pc = "insert",
                                               !.contract = c,
                                               !.key = k,
                                               !.recovers = r]]
    /\ UNCHANGED claims

Refuse(a, why) ==
    att' = [att EXCEPT ![a].pc = "done", ![a].result = why]

(* get_conn() has no connection: fail closed.                               *)
Unavailable(a) ==
    /\ att[a].pc = "insert"
    /\ Refuse(a, "unavailable")
    /\ UNCHANGED claims

(* Any statement may raise: the transaction is dropped.                     *)
DatabaseError(a) ==
    /\ att[a].pc \in {"insert", "classify", "supersede"}
    /\ Refuse(a, "error")
    /\ UNCHANGED claims

(* INSERT ... ON CONFLICT DO NOTHING RETURNING.                             *)
Insert(a) ==
    LET c == att[a].contract IN
    /\ att[a].pc = "insert"
    /\ \/ /\ ~Conflicts(c, att[a].key)
          /\ claims' = [claims EXCEPT ![c] = NewRow(a)]
          /\ att' = [att EXCEPT ![a].pc = "dispatch",
                                ![a].result = "acquired"]
       \/ /\ Conflicts(c, att[a].key)
          /\ att' = [att EXCEPT ![a].pc = "classify"]
          /\ UNCHANGED claims

(* The SELECT that names the constraint the INSERT ran into.                *)
ConflictKind(c, k) ==
    CASE HasRow(c) /\ claims[c].key = k -> "already_claimed"
      [] HasRow(c) /\ claims[c].key # k -> "contract_identity_conflict"
      [] ~HasRow(c) /\ HoldersOf(k) # {} -> "idempotency_conflict"
      [] OTHER -> "error"

MayRecover(a) ==
    /\ ConflictKind(att[a].contract, att[a].key) = "idempotency_conflict"
    /\ att[a].recovers \in HoldersOf(att[a].key)

Classify(a) ==
    /\ att[a].pc = "classify"
    /\ \/ /\ MayRecover(a)
          /\ att' = [att EXCEPT ![a].pc = "supersede"]
       \/ /\ ~MayRecover(a)
          /\ Refuse(a, ConflictKind(att[a].contract, att[a].key))
    /\ UNCHANGED claims

(* Faulty variant of Supersede: takes the key without reading the status.   *)
SupersedeUnchecked(a) ==
    LET c == att[a].contract  r == att[a].recovers IN
    /\ att[a].pc = "supersede"
    /\ ~HasRow(c)
    /\ claims' = [claims EXCEPT ![r] = ParkedRow(r, c), ![c] = NewRow(a)]
    /\ att' = [att EXCEPT ![a].pc = "dispatch", ![a].result = "acquired"]

(* SELECT ... FOR UPDATE, the guarded UPDATE and the second INSERT, one     *)
(* transaction under the row lock.  The second INSERT has no ON CONFLICT:   *)
(* a row of the recovering contract that appeared meanwhile makes it raise. *)
Supersede(a) ==
    LET c == att[a].contract
        r == att[a].recovers
        stillFailed == claims[r].status = "failed" /\ claims[r].key = att[a].key
    IN
    /\ att[a].pc = "supersede"
    /\ \/ /\ stillFailed
          /\ ~HasRow(c)
          /\ claims' = [claims EXCEPT ![r] = ParkedRow(r, c),
                                      ![c] = NewRow(a)]
          /\ att' = [att EXCEPT ![a].pc = "dispatch",
                                ![a].result = "acquired"]
       \/ /\ stillFailed
          /\ HasRow(c)
          /\ Refuse(a, "error")
          /\ UNCHANGED claims
       \/ /\ ~stillFailed
          /\ Refuse(a, "idempotency_conflict")
          /\ UNCHANGED claims

-----------------------------------------------------------------------------
(* The executor runs only for the attempt that acquired.  The provider may  *)
(* apply the write at any moment before the executor returns.               *)
ProviderWrites(a) ==
    /\ att[a].pc = "dispatch"
    /\ ~att[a].applied
    /\ att' = [att EXCEPT ![a].applied = TRUE]
    /\ UNCHANGED claims

(* The executor returns and its answer is classified.  "completed" needs    *)
(* verified evidence of the write; an exception, whenever it is raised, and *)
(* a result without evidence both count as "failed".                        *)
ExecutorReturns(a, o) ==
    /\ att[a].pc = "dispatch"
    /\ o = "completed" => att[a].applied
    /\ att' = [att EXCEPT ![a].pc = "settle", ![a].outcome = o]
    /\ UNCHANGED claims

(* Faulty variants of Settle: the claim result is written in place of the   *)
(* outcome; a failed execution deletes its row.                             *)
SettleWithResult(a) ==
    /\ att[a].pc = "settle"
    /\ att' = [att EXCEPT ![a].pc = "done"]
    /\ claims' = [claims EXCEPT ![att[a].contract].status = att[a].result]

SettleDeletesFailed(a) ==
    /\ att[a].pc = "settle"
    /\ att' = [att EXCEPT ![a].pc = "done"]
    /\ claims' = [claims EXCEPT ![att[a].contract] =
                     IF att[a].outcome = "failed" THEN NoRow
                     ELSE [@ EXCEPT !.status = att[a].outcome]]

(* update_claim_status: UPDATE ... WHERE contract_id, with no guard on the  *)
(* status or the execution_id; its return value is ignored, so a lost       *)
(* update only leaves the row as it was.                                    *)
Settle(a) ==
    /\ att[a].pc = "settle"
    /\ att' = [att EXCEPT ![a].pc = "done"]
    /\ \/ claims' = [claims EXCEPT ![att[a].contract].status = att[a].outcome]
       \/ UNCHANGED claims

(* The process dies inside the call.                                        *)
Crash(a) ==
    /\ att[a].pc \notin {"idle", "done", "crashed"}
    /\ att' = [att EXCEPT ![a].pc = "crashed"]
    /\ UNCHANGED claims

Next ==
    \E a \in Attempt :
       \/ \E c \in Contract, k \in Key, r \in Contract \cup {None} :
             Begin(a, c, k, r)
       \/ Unavailable(a)
       \/ DatabaseError(a)
       \/ Insert(a)
       \/ Classify(a)
       \/ Supersede(a)
       \/ ProviderWrites(a)
       \/ \E o \in Outcome : ExecutorReturns(a, o)
       \/ Settle(a)
       \/ Crash(a)

Spec == Init /\ [][Next]_vars

-----------------------------------------------------------------------------
(* Faulty variant of ActiveClaim: the execution_id is not compared.         *)
ActiveClaimOfAnyone(c, a) == claims[c].status = "executing"

(* get_claim() as tools/approval_actions.py uses it: the proof a gated tool *)
(* asks for before it writes.                                               *)
ActiveClaim(c, a) == claims[c].by = a /\ claims[c].status = "executing"

Acquired(a) == att[a].result = "acquired"
Owning(a) == Acquired(a) /\ att[a].pc \in {"dispatch", "settle"}

-----------------------------------------------------------------------------
(* Every row and every attempt has the shape the code gives it.             *)
TypeOK == /\ claims \in [Contract -> Row \cup {NoRow}]
          /\ att \in [Attempt -> AttemptState]

(* A contract is dispatched by at most one attempt, ever: crashes, lost     *)
(* status updates and recoveries included ("only the caller receiving an    *)
(* ACQUIRED result has the right to proceed to dispatch_tool()").           *)
DispatchedOnce ==
    \A a, b \in Attempt :
       a # b /\ Acquired(a) /\ Acquired(b) => att[a].contract # att[b].contract

(* Two attempts never execute under one idempotency key at the same time,   *)
(* also when a recovery moves the key from one contract to another.         *)
OneOwnerPerKey ==
    \A a, b \in Attempt :
       a # b /\ Owning(a) /\ Owning(b) => att[a].key # att[b].key

(* A key is dispatched again only after the previous dispatch under it was  *)
(* recorded as failed: a completed, unknown, running or crashed execution   *)
(* is never retried.                                                        *)
RetryOnlyAfterFailure ==
    \A a, b \in Attempt :
       /\ a # b
       /\ Acquired(a) /\ Acquired(b)
       /\ att[a].key = att[b].key
       => \E x \in {a, b} : /\ att[x].outcome = "failed"
                            /\ claims[att[x].contract].status = "superseded"

(* With the recovery proof taken at proposal time, one key never makes the  *)
(* provider write twice.                                                    *)
OneWritePerKey ==
    \A a, b \in Attempt :
       a # b /\ att[a].applied /\ att[b].applied => att[a].key # att[b].key

(* The gated tools' proof never fails the attempt that acquired and never   *)
(* passes another one.                                                      *)
ClaimProofIsExact ==
    \A a, b \in Attempt :
       att[a].pc = "dispatch" =>
          (ActiveClaim(att[a].contract, b) <=> b = a)

(* The branch commented "this should not happen" cannot happen: a conflict  *)
(* that made the INSERT fail is still visible to the SELECT after it, even  *)
(* if a recovery moved the key in between.                                  *)
ConflictStaysVisible ==
    \A a \in Attempt :
       att[a].pc = "classify" => Conflicts(att[a].contract, att[a].key)

(* The audit trail of a recovery: the parked row names the key it held and  *)
(* a contract that acquired under that key.                                 *)
LineageComplete ==
    \A c \in Contract :
       claims[c].status = "superseded" =>
          /\ claims[c].origKey \in Key
          /\ LET d == claims[c].supersededBy IN
             /\ HasRow(d)
             /\ claims[d].key = claims[c].origKey

(* Step by step: a row is never deleted, an outcome never turns into        *)
(* another one, and only a failed row gives its key up, to a new row, in    *)
(* the same step.                                                           *)
ClaimStep(c) ==
    LET old == claims[c]  new == claims'[c] IN
    \/ new = old
    \/ old = NoRow /\ new.status = "executing"
    \/ /\ old.status = "executing"
       /\ new.status \in Outcome
       /\ new.key = old.key /\ new.by = old.by
    \/ /\ old.status = "failed"
       /\ new.status = "superseded"
       /\ ~HasRow(new.supersededBy)
       /\ claims'[new.supersededBy].key = old.key

ClaimLifecycle == [][\A c \in Contract : ClaimStep(c)]_vars
=============================================================================
