------------------------------ MODULE Proposals ------------------------------
(***************************************************************************)
(* How one business fingerprint gets its ActionContract:                   *)
(* ActionGateway.propose_action over the ExecutionLedger's cache, its      *)
(* fingerprint index and its in-process claim token                        *)
(* (claim_fingerprint_cas), and the override word that repeats an executed *)
(* action (core/action_gateway.py).                                        *)
(*                                                                         *)
(* A proposer is a thread that calls propose_action with this fingerprint, *)
(* again and again; the answers are left out but for the challenge that    *)
(* one of them carries.  The cache is read without a lock, the repository  *)
(* is read and written over the network, and everything between two such   *)
(* points is one step.  The transitions of one contract are                *)
(* ContractLedger's subject; here they matter for what they do to the      *)
(* index.  No contract outlives its 24 hour limit within a behaviour.      *)
(***************************************************************************)
EXTENDS Naturals

CONSTANTS Contract,  \* contract ids
          Proposer,  \* threads that call propose_action
          None,
          Sources,   \* who calls: "agent", "task" (deterministic), "trusted"
          MaxTries,  \* _CLAIM_MAX_ATTEMPTS
          Started,   \* what a first contract may be that is there already
          Faults     \* "lookup", "save", "restart": what may go wrong

ASSUME NoneIsFresh == None \notin Contract /\ None \notin Proposer
ASSUME SourcesAreSources == Sources \subseteq {"agent", "task", "trusted"}
ASSUME TriesArePositive == MaxTries \in Nat \ {0}

VARIABLES store,     \* the durable status of each contract
          ram,       \* the status in the process's cache
          index,     \* _by_fingerprint: the contract the fingerprint leads to
          token,     \* _claim_tokens: the proposer that holds the claim
          due,       \* a stored transition that has not reached the cache
          override,  \* the contract of the open DuplicateOverrideApproval
          call,      \* where the call of each proposer stands
          astray     \* a record read from the repository came too late

vars == <<store, ram, index, token, due, override, call, astray>>

-----------------------------------------------------------------------------
Status == {"pending", "approved", "rejected", "superseded", "failed",
           "outcome_unknown", "completed"}

ASSUME StartedAreClosed ==
    Started \subseteq {"unborn", "rejected", "superseded", "failed",
                       "completed"}

(* ALLOWED_CONTRACT_TRANSITIONS; "approved" stands for "executing" too, and *)
(* "completed" for "executed".                                              *)
After(s) ==
    CASE s = "pending" -> {"approved", "rejected", "superseded", "failed",
                           "completed"}
      [] s = "approved" -> {"completed", "failed", "outcome_unknown"}
      [] OTHER -> {}

Phase == {"idle", "live", "query", "warm", "lookup", "claim", "save",
          "cache"}

Call == [pc : Phase,
         source : {"agent", "task", "trusted"},
         first : BOOLEAN,             \* the agent's question about live ones
         found : Contract \cup {None},     \* the record a query returned
         as : Status \cup {"unborn"},      \* the status it had then
         seen : Contract \cup {None},      \* expected_prior_contract_id
         tries : 0 .. MaxTries - 1]

(* No call is under way: none was made yet, or the last one has returned.   *)
Over == [pc |-> "idle", source |-> "trusted", first |-> FALSE,
         found |-> None, as |-> "unborn", seen |-> None, tries |-> 0]

Init == /\ \E c \in Contract, s \in Started :
              /\ store = [d \in Contract |-> IF d = c THEN s ELSE "unborn"]
              /\ \/ /\ index = IF s = "unborn" THEN None ELSE c
                    /\ ram = store
                 \/ /\ index = None
                    /\ ram = [d \in Contract |-> "unborn"]
        /\ token = None
        /\ due = [c \in Contract |-> "unborn"]
        /\ override = None
        /\ call = [p \in Proposer |-> Over]
        /\ astray = FALSE

Stored(c) == store[c] # "unborn"
Cached(c) == ram[c] # "unborn"

-----------------------------------------------------------------------------
(* Which earlier contract of the fingerprint stops a proposal.              *)
Unsettled == {"pending", "approved", "outcome_unknown"}

Stops(s, source) ==
    \/ s \in Unsettled \cup {"completed"}
    \/ s = "rejected" /\ source # "task"

(* A contract that is live, in doubt or done decides about the fingerprint. *)
Decisive(c) == store[c] \in Unsettled \cup {"completed"}

(* _cache_contract of a record c that was read from the repository: the     *)
(* index follows it.  Remember whether that was too late, since another     *)
(* contract decides by now or a transition is on its way to the cache.      *)
Reads(c, s) ==
    /\ ram' = [ram EXCEPT ![c] = s]
    /\ index' = c
    /\ astray' = \/ astray
                 \/ \E d \in Contract : due[d] # "unborn"
                 \/ \E d \in Contract \ {c} : Decisive(d)

(* The lookup found contract c with status s, or nothing.                   *)
Judged(p, c, s) ==
    IF c # None /\ Stops(s, call[p].source)
      THEN Over
      ELSE [call[p] EXCEPT !.pc = "claim", !.seen = c, !.found = None,
                           !.as = "unborn"]

(* _handle_duplicate_executed: a fresh challenge takes the place of an      *)
(* earlier one.                                                             *)
Overridden(c, s) == IF s = "completed" THEN c ELSE override

(* propose_action; only the agent is first asked for its live contracts.    *)
Ask(p, source) ==
    /\ call[p].pc = "idle"
    /\ call' = [call EXCEPT ![p] =
          [Over EXCEPT !.pc = IF source = "agent" THEN "live" ELSE "lookup",
                        !.source = source]]
    /\ UNCHANGED <<store, ram, index, token, due, override, astray>>

(* find_live_by_user: a warm cache answers alone, pending or not.           *)
AskLive(p) ==
    /\ call[p].pc = "live"
    /\ call' = [call EXCEPT ![p] =
          IF \A c \in Contract : ~Cached(c)
            THEN [call[p] EXCEPT !.pc = "query", !.first = TRUE]
          ELSE IF \E c \in Contract : ram[c] = "pending"
            THEN Over
          ELSE [call[p] EXCEPT !.pc = "lookup"]]
    /\ UNCHANGED <<store, ram, index, token, due, override, astray>>

(* find_by_fingerprint on the cache.                                        *)
LookUp(p) ==
    /\ call[p].pc = "lookup"
    /\ IF index # None /\ Cached(index)
         THEN /\ call' = [call EXCEPT ![p] = Judged(p, index, ram[index])]
              /\ override' = Overridden(index, ram[index])
         ELSE /\ call' = [call EXCEPT ![p].pc = "query", ![p].first = FALSE]
              /\ UNCHANGED override
    /\ UNCHANGED <<store, ram, index, token, due, astray>>

(* The repository answers with one of the matching records, which one is up *)
(* to Airtable; a failing lookup is never read as absence.  (The agent's    *)
(* question returns every pending one; caching the others is Press.)        *)
Query(p) ==
    /\ call[p].pc = "query"
    /\ LET matches == {c \in Contract : IF call[p].first
                                          THEN store[c] = "pending"
                                          ELSE Stored(c)}
       IN  \/ \E c \in matches :
                 call' = [call EXCEPT ![p].pc = "warm", ![p].found = c,
                                      ![p].as = store[c]]
           \/ /\ matches = {}
              /\ call' = [call EXCEPT ![p] =
                    IF call[p].first THEN [call[p] EXCEPT !.pc = "lookup"]
                                     ELSE Judged(p, None, "unborn")]
           \/ /\ "lookup" \in Faults
              /\ call' = [call EXCEPT ![p] = Over]
    /\ UNCHANGED <<store, ram, index, token, due, override, astray>>

(* The record that was read is cached, however old it is by now.            *)
Warm(p) ==
    /\ call[p].pc = "warm"
    /\ LET c == call[p].found
           s == call[p].as
       IN  /\ Reads(c, s)
           /\ call' = [call EXCEPT ![p] = IF @.first THEN Over
                                                     ELSE Judged(p, c, s)]
           /\ override' = IF call[p].first THEN override ELSE Overridden(c, s)
    /\ UNCHANGED <<store, token, due>>

-----------------------------------------------------------------------------
(* Faulty variant of MayClaim: whatever the index says by now.              *)
MayClaimAnyway(p) == token = None

MayClaim(p) == token = None /\ index = call[p].seen

(* claim_fingerprint_cas: granted; or lost, because the index moved or the  *)
(* competing claim was not released within the waiting time left.           *)
Claim(p) ==
    /\ call[p].pc = "claim"
    /\ MayClaim(p)
    /\ token' = p
    /\ call' = [call EXCEPT ![p].pc = "save"]
    /\ UNCHANGED <<store, ram, index, due, override, astray>>

(* Faulty variant of Lose: attempts beyond the limit.                       *)
LosePastLimit(p) ==
    /\ call[p].pc = "claim"
    /\ token # None \/ index # call[p].seen
    /\ call' = [call EXCEPT ![p] =
          IF call[p].tries > MaxTries
            THEN Over
            ELSE [call[p] EXCEPT !.pc = "lookup", !.seen = None,
                                 !.tries = call[p].tries + 1]]
    /\ UNCHANGED <<store, ram, index, token, due, override, astray>>

Lose(p) ==
    /\ call[p].pc = "claim"
    /\ token # None \/ index # call[p].seen
    /\ call' = [call EXCEPT ![p] =
          IF call[p].tries + 1 = MaxTries
            THEN Over
            ELSE [call[p] EXCEPT !.pc = "lookup", !.seen = None,
                                 !.tries = call[p].tries + 1]]
    /\ UNCHANGED <<store, ram, index, token, due, override, astray>>

Released(p) == IF token = p THEN None ELSE token

(* Faulty variant of Save: after a failed write the claim stays.            *)
SaveKeepsClaim(p) ==
    /\ call[p].pc = "save"
    /\ \/ \E c \in {d \in Contract : ~Stored(d)}, s \in {"pending", "approved"} :
             /\ store' = [store EXCEPT ![c] = s]
             /\ call' = [call EXCEPT ![p].pc = "cache", ![p].found = c,
                                     ![p].as = s]
             /\ UNCHANGED token
       \/ /\ "save" \in Faults
          /\ call' = [call EXCEPT ![p] = Over]
          /\ UNCHANGED <<store, token>>
    /\ UNCHANGED <<ram, index, due, override, astray>>

(* Faulty variant of Save: the claim is given back before the contract is   *)
(* published.                                                               *)
SaveReleasesEarly(p) ==
    /\ call[p].pc = "save"
    /\ \/ \E c \in {d \in Contract : ~Stored(d)}, s \in {"pending", "approved"} :
             /\ store' = [store EXCEPT ![c] = s]
             /\ call' = [call EXCEPT ![p].pc = "cache", ![p].found = c,
                                     ![p].as = s]
       \/ /\ "save" \in Faults
          /\ call' = [call EXCEPT ![p] = Over]
          /\ UNCHANGED store
    /\ token' = Released(p)
    /\ UNCHANGED <<ram, index, due, override, astray>>

(* The new contract is pending, or approved when its policy needs nobody.   *)
Save(p) ==
    /\ call[p].pc = "save"
    /\ \/ \E c \in {d \in Contract : ~Stored(d)}, s \in {"pending", "approved"} :
             /\ store' = [store EXCEPT ![c] = s]
             /\ call' = [call EXCEPT ![p].pc = "cache", ![p].found = c,
                                     ![p].as = s]
             /\ UNCHANGED token
       \/ /\ "save" \in Faults
          /\ token' = Released(p)
          /\ call' = [call EXCEPT ![p] = Over]
          /\ UNCHANGED store
    /\ UNCHANGED <<ram, index, due, override, astray>>

(* _cache_contract with the claim token: published and released at once.    *)
Cache(p) ==
    /\ call[p].pc = "cache"
    /\ ram' = [ram EXCEPT ![call[p].found] = call[p].as]
    /\ index' = call[p].found
    /\ token' = Released(p)
    /\ call' = [call EXCEPT ![p] = Over]
    /\ UNCHANGED <<store, due, override, astray>>

-----------------------------------------------------------------------------
(* update_status: the durable transition, then the cache and the index.     *)
Move(c) ==
    /\ Cached(c) /\ ram[c] = store[c] /\ due[c] = "unborn"
    /\ \E s \in After(store[c]) :
          /\ store' = [store EXCEPT ![c] = s]
          /\ due' = [due EXCEPT ![c] = s]
    /\ UNCHANGED <<ram, index, token, override, call, astray>>

Publish(c) ==
    /\ due[c] # "unborn"
    /\ ram' = [ram EXCEPT ![c] = due[c]]
    /\ due' = [due EXCEPT ![c] = "unborn"]
    /\ index' = c
    /\ UNCHANGED <<store, token, override, call, astray>>

(* A button finds a contract the cache does not hold (find_by_id).          *)
Press(c) ==
    /\ Stored(c) /\ ~Cached(c)
    /\ Reads(c, store[c])
    /\ UNCHANGED <<store, token, due, override, call>>

(* route_override_word with the right code in time: used up before the      *)
(* contract the fingerprint leads to is run again, which leaves a completed *)
(* one as it is (the status of another would change as in Move).            *)
Override ==
    /\ override # None
    /\ index # None
    /\ override' = None
    /\ UNCHANGED <<store, ram, index, token, due, call, astray>>

(* A new process: an empty cache, and nobody left in a call.                *)
Restart ==
    /\ "restart" \in Faults
    /\ \E c \in Contract : Cached(c)
    /\ ram' = [c \in Contract |-> "unborn"]
    /\ index' = None
    /\ token' = None
    /\ due' = [c \in Contract |-> "unborn"]
    /\ override' = None
    /\ call' = [p \in Proposer |-> Over]
    /\ UNCHANGED <<store, astray>>

Proceed(p) == \/ AskLive(p) \/ LookUp(p) \/ Query(p) \/ Warm(p)
              \/ Claim(p) \/ Lose(p) \/ Save(p) \/ Cache(p)

Next == \/ \E p \in Proposer : \/ \E s \in Sources : Ask(p, s)
                               \/ Proceed(p)
        \/ \E c \in Contract : Move(c) \/ Publish(c) \/ Press(c)
        \/ Override
        \/ Restart

Spec == Init /\ [][Next]_vars

-----------------------------------------------------------------------------
(* Shapes of the variables.                                                 *)
TypeOK == /\ store \in [Contract -> Status \cup {"unborn"}]
          /\ ram \in [Contract -> Status \cup {"unborn"}]
          /\ index \in Contract \cup {None}
          /\ token \in Proposer \cup {None}
          /\ due \in [Contract -> Status \cup {"unborn"}]
          /\ override \in Contract \cup {None}
          /\ call \in [Proposer -> Call]
          /\ astray \in BOOLEAN

(* Until a record that was read from the repository comes too late, at most *)
(* one contract of the fingerprint is live, in doubt or done: proposals     *)
(* that race, fail to save, restart in between or come again after a        *)
(* failure never ask for the same business action twice (propose_action,    *)
(* BUG-157).                                                                *)
AskedOnce ==
    ~astray => \A c, d \in Contract : Decisive(c) /\ Decisive(d) => c = d

(* The claim on the fingerprint always belongs to one call that is still    *)
(* about to save: no lost race, failed save or restart leaves it behind     *)
(* with nobody to give it back (release_fingerprint_claim).                 *)
ClaimHasHolder ==
    /\ token # None => call[token].pc \in {"save", "cache"}
    /\ \A p \in Proposer : call[p].pc \in {"save", "cache"} => token = p

(* Until then also, the contract that an override word would run is the one *)
(* its challenge was issued for, and it is completed: no newer proposal and *)
(* no late publication of another contract takes the fingerprint while the  *)
(* challenge is open (route_override_word looks the contract up by          *)
(* fingerprint and not by its id).                                          *)
RepeatsItsOwn ==
    ~astray /\ override # None
       => index = override /\ store[override] = "completed"
=============================================================================
