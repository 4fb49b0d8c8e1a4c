----------------------- MODULE AtomicClaimsRefinement -----------------------
(***************************************************************************)
(* The claim table implements ExecutionOwnership.  The owner of a key is   *)
(* the contract whose row holds it; the state of the key is read off that  *)
(* row; the contracts that are spent are those with a row.                 *)
(***************************************************************************)
EXTENDS AtomicClaims

Holder(k) == IF HoldersOf(k) = {} THEN None
                                  ELSE CHOOSE c \in Contract : c \in HoldersOf(k)

KeyState(k) ==
    IF HoldersOf(k) = {} THEN "free"
    ELSE CASE claims[Holder(k)].status = "executing" -> "owned"
           [] claims[Holder(k)].status = "failed" -> "failed"
           [] OTHER -> "closed"

Ownership == INSTANCE ExecutionOwnership
                 WITH owner <- [k \in Key |-> Holder(k)],
                      state <- [k \in Key |-> KeyState(k)],
                      spent <- {c \in Contract : HasRow(c)}

(* Every behaviour of the table is a behaviour of the promise: an INSERT or *)
(* a recovery takes the key, a status UPDATE closes it, anything else       *)
(* leaves ownership alone.                                                  *)
ImplementsOwnership == Ownership!OwnershipSpec
=============================================================================
