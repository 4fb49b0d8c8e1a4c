------------------------- MODULE ExecutionOwnership -------------------------
(***************************************************************************)
(* What the claim table promises the rest of the system, one idempotency   *)
(* key at a time: a key is free until a contract takes it, belongs to that *)
(* contract while it executes, and after that either stays closed for good *)
(* or, when the execution is recorded as failed, may be handed to one      *)
(* other contract.  A contract takes a key at most once.                   *)
(***************************************************************************)
CONSTANTS Contract, Key, None

VARIABLES owner,  \* key -> the contract it was last given to
          state,  \* key -> where that ownership stands
          spent   \* the contracts that have taken a key

ownershipVars == <<owner, state, spent>>

States == {"free", "owned", "failed", "closed"}

OwnershipTypeOK == /\ owner \in [Key -> Contract \cup {None}]
                   /\ state \in [Key -> States]
                   /\ spent \subseteq Contract

OwnershipInit == /\ owner = [k \in Key |-> None]
                 /\ state = [k \in Key |-> "free"]
                 /\ spent = {}

Take(c, k) ==
    /\ state[k] \in {"free", "failed"}
    /\ c \notin spent
    /\ owner' = [owner EXCEPT ![k] = c]
    /\ state' = [state EXCEPT ![k] = "owned"]
    /\ spent' = spent \cup {c}

Close(k, s) ==
    /\ state[k] = "owned"
    /\ s \in {"failed", "closed"}
    /\ state' = [state EXCEPT ![k] = s]
    /\ UNCHANGED <<owner, spent>>

OwnershipNext ==
    \E k \in Key :
       \/ \E c \in Contract : Take(c, k)
       \/ \E s \in States : Close(k, s)

OwnershipSpec == OwnershipInit /\ [][OwnershipNext]_ownershipVars
=============================================================================
