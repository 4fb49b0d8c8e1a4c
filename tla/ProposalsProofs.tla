--------------------------- MODULE ProposalsProofs ---------------------------
(***************************************************************************)
(* Proofs about Proposals for any number of contracts and callers and any  *)
(* faults.  A closed status is final, so what the cache, a transition that *)
(* is due or a record read long ago say about a closed contract stays true *)
(* (Faithful).  A contract engages the fingerprint while it decides or has *)
(* a transition due: unless a record from the repository came too late,    *)
(* only one does, the index leads to it unless it is being saved or nobody *)
(* is left that saw no contract, and no call may save meanwhile (Led).     *)
(***************************************************************************)
EXTENDS Proposals, TLAPS

Final == {"rejected", "superseded", "failed", "outcome_unknown", "completed"}

Wired ==
    \A p \in Proposer :
       /\ call[p].pc \in {"warm", "cache"} => /\ call[p].found \in Contract
                                             /\ call[p].as \in Status
       /\ call[p].pc = "cache" => call[p].as \notin Final

Faithful ==
    /\ \A c \in Contract : ram[c] \in Final => store[c] = ram[c]
    /\ \A c \in Contract : due[c] # "unborn" => store[c] = due[c]
    /\ \A p \in Proposer :
          /\ call[p].pc = "warm" /\ call[p].as \in Final
                => store[call[p].found] = call[p].as
          /\ call[p].pc = "claim" /\ call[p].seen # None
                => store[call[p].seen] \in Final /\ ~Decisive(call[p].seen)

Engaged(d) == Decisive(d) \/ due[d] # "unborn"

(* Somebody who saw no contract at all may still be given the claim.        *)
Unaware == \E p \in Proposer :
              call[p].pc = "claim" /\ call[p].seen = None

Saving(d) == \E p \in Proposer : call[p].pc = "cache" /\ call[p].found = d

Traced == \A d \in Contract :
             Engaged(d) => \/ index = d
                           \/ Saving(d)
                           \/ index = None /\ ~Unaware

Alone == \A c, d \in Contract : Engaged(c) /\ Engaged(d) => c = d

Guarded == \A p \in Proposer, d \in Contract :
              Engaged(d) => /\ call[p].pc # "save"
                            /\ call[p].pc = "cache" => call[p].found = d

(* A due transition closes a contract that the cache still has open.        *)
Owed == \A c \in Contract :
           due[c] # "unborn" => Cached(c) /\ ram[c] \notin Final

Heeded == \A p \in Proposer :
             call[p].pc = "claim" /\ call[p].seen # None
                => due[call[p].seen] = "unborn"

Led == ~astray => Traced /\ Alone /\ Guarded /\ Owed /\ Heeded

IInv == TypeOK /\ Wired /\ ClaimHasHolder /\ Faithful /\ Led /\ RepeatsItsOwn

-----------------------------------------------------------------------------
LEMMA OverTyped == /\ Over \in Call
                   /\ Over.pc = "idle"
  BY TriesArePositive DEF Over, Call, Phase

LEMMA JudgedTyped ==
    ASSUME TypeOK, NEW p \in Proposer, NEW c \in Contract \cup {None}, NEW s
    PROVE  /\ Judged(p, c, s) \in Call
           /\ \/ Judged(p, c, s).pc = "idle"
              \/ /\ Judged(p, c, s).pc = "claim"
                 /\ Judged(p, c, s).seen = c
                 /\ c # None => ~Stops(s, call[p].source)
  <1>1. CASE c # None /\ Stops(s, call[p].source)
    BY <1>1, OverTyped DEF Judged
  <1>2. CASE ~(c # None /\ Stops(s, call[p].source))
    <2>1. Judged(p, c, s) = [call[p] EXCEPT !.pc = "claim", !.seen = c,
                                            !.found = None, !.as = "unborn"]
      BY <1>2 DEF Judged
    <2>2. call[p] \in Call
      BY DEF TypeOK
    <2> QED BY <1>2, <2>1, <2>2 DEF Call, Phase
  <1> QED BY <1>1, <1>2

(* A closed status that does not stop a proposal is not decisive.           *)
LEMMA Unstopped ==
    ASSUME NEW s \in Status, NEW source, ~Stops(s, source)
    PROVE  s \in Final /\ s \notin Unsettled \cup {"completed"}
  BY DEF Stops, Status, Final, Unsettled

(* One call moves on, short of saving; nothing else changes but the         *)
(* override.                                                                *)
LEMMA CallStep ==
    ASSUME IInv, NEW p \in Proposer, NEW r \in Call,
           call' = [call EXCEPT ![p] = r],
           UNCHANGED <<store, ram, index, token, due, astray>>,
           override' \in Contract \cup {None},
           override' # None /\ ~astray
             => index = override' /\ store[override'] = "completed",
           call[p].pc \notin {"save", "cache"},
           r.pc \notin {"save", "cache"},
           r.pc = "warm" => /\ r.found \in Contract /\ r.as \in Status
                            /\ r.as \in Final => store[r.found] = r.as,
           r.pc = "claim" /\ r.seen # None
             => /\ store[r.seen] \in Final /\ ~Decisive(r.seen)
                /\ ~astray => due[r.seen] = "unborn",
           r.pc = "claim" /\ r.seen = None
             => \A d \in Contract : ~Engaged(d)
    PROVE  IInv'
  <1>0. /\ call \in [Proposer -> Call]
        /\ call'[p] = r
        /\ \A q \in Proposer \ {p} : call'[q] = call[q]
    BY DEF IInv, TypeOK
  <1>1. TypeOK'
    BY <1>0 DEF IInv, TypeOK
  <1>2. Wired'
    BY <1>0 DEF IInv, Wired
  <1>3. ClaimHasHolder'
    BY <1>0 DEF IInv, ClaimHasHolder
  <1>4. Faithful'
    BY <1>0 DEF IInv, Faithful, Decisive
  <1>5. ASSUME ~astray
        PROVE  Traced' /\ Alone' /\ Guarded' /\ Owed' /\ Heeded'
    <2>0. \A d \in Contract : Engaged(d)' <=> Engaged(d)
      BY DEF Engaged, Decisive
    <2>1. \A d \in Contract : Saving(d) => Saving(d)'
      BY <1>0 DEF Saving
    <2>2. Unaware' => Unaware \/ \A d \in Contract : ~Engaged(d)
      BY <1>0 DEF Unaware
    <2>3. Traced'
      BY <1>5, <2>0, <2>1, <2>2 DEF IInv, Led, Traced
    <2>4. Alone' /\ Guarded'
      BY <1>0, <1>5, <2>0 DEF IInv, Led, Alone, Guarded
    <2>5. Owed' /\ Heeded'
      BY <1>0, <1>5 DEF IInv, Led, Owed, Heeded, Cached
    <2> QED BY <2>3, <2>4, <2>5
  <1>6. RepeatsItsOwn'
    BY DEF RepeatsItsOwn
  <1> QED BY <1>1, <1>2, <1>3, <1>4, <1>5, <1>6 DEF IInv, Led

(* The override stays as it is.                                             *)
LEMMA OverrideKept ==
    ASSUME IInv, override' = override
    PROVE  /\ override' \in Contract \cup {None}
           /\ override' # None /\ ~astray
                => index = override' /\ store[override'] = "completed"
  BY DEF IInv, TypeOK, RepeatsItsOwn

LEMMA InitHolds == Init => IInv
  <1> SUFFICES ASSUME Init PROVE IInv  OBVIOUS
  <1>1. PICK c \in Contract, s \in Started :
          /\ store = [d \in Contract |-> IF d = c THEN s ELSE "unborn"]
          /\ \/ /\ index = IF s = "unborn" THEN None ELSE c
                /\ ram = store
             \/ /\ index = None
                /\ ram = [d \in Contract |-> "unborn"]
    BY DEF Init
  <1>2. s \in {"unborn", "rejected", "superseded", "failed", "completed"}
    BY StartedAreClosed
  <1>3. \A q \in Proposer : call[q] = Over
    BY DEF Init
  <1>4. TypeOK
    <2>1. s \in Status \cup {"unborn"}
      BY <1>2 DEF Status
    <2>2. store \in [Contract -> Status \cup {"unborn"}]
      BY <1>1, <2>1
    <2>3. ram \in [Contract -> Status \cup {"unborn"}]
      BY <1>1, <2>2
    <2> QED BY <1>1, <2>2, <2>3, OverTyped DEF Init, TypeOK
  <1>5. Wired /\ ClaimHasHolder
    BY <1>3, OverTyped DEF Init, Wired, ClaimHasHolder
  <1>6. Faithful
    BY <1>1, <1>2, <1>3, OverTyped DEF Init, Faithful, Final
  <1>7. Traced /\ Alone
    BY <1>1, <1>2, <1>3, OverTyped
       DEF Init, Traced, Alone, Engaged, Decisive, Unsettled, Unaware
  <1>8. Guarded /\ Owed /\ Heeded
    BY <1>3, OverTyped DEF Init, Guarded, Owed, Heeded
  <1>9. RepeatsItsOwn
    BY DEF Init, RepeatsItsOwn
  <1> QED BY <1>4, <1>5, <1>6, <1>7, <1>8, <1>9 DEF IInv, Led

-----------------------------------------------------------------------------
(* The steps of a call that change nothing but the call and the override.   *)
LEMMA AskHolds ==
    ASSUME IInv, NEW p \in Proposer, NEW source \in Sources, Ask(p, source)
    PROVE  IInv'
  <1>1. call \in [Proposer -> Call] /\ call[p].pc = "idle"
    BY DEF IInv, TypeOK, Ask
  <1>2. PICK f \in {"live", "lookup"} :
          f = IF source = "agent" THEN "live" ELSE "lookup"
    OBVIOUS
  <1>3. PICK r : r = [Over EXCEPT !.pc = f, !.source = source]
    OBVIOUS
  <1>4. r \in Call /\ r.pc \in {"live", "lookup"}
    BY <1>2, <1>3, OverTyped, SourcesAreSources DEF Call, Phase
  <1>5. call' = [call EXCEPT ![p] = r]
    BY <1>2, <1>3 DEF Ask
  <1>6. /\ UNCHANGED <<store, ram, index, token, due, astray>>
        /\ override' = override
    BY DEF Ask
  <1> QED BY <1>1, <1>4, <1>5, <1>6, OverrideKept, CallStep

LEMMA AskLiveHolds ==
    ASSUME IInv, NEW p \in Proposer, AskLive(p)
    PROVE  IInv'
  <1>1. call[p] \in Call /\ call[p].pc = "live"
    BY DEF IInv, TypeOK, AskLive
  <1>2. \E r : /\ call' = [call EXCEPT ![p] = r]
               /\ \/ r = [call[p] EXCEPT !.pc = "query", !.first = TRUE]
                  \/ r = Over
                  \/ r = [call[p] EXCEPT !.pc = "lookup"]
    BY DEF AskLive
  <1>3. PICK r : /\ call' = [call EXCEPT ![p] = r]
                 /\ \/ r = [call[p] EXCEPT !.pc = "query", !.first = TRUE]
                    \/ r = Over
                    \/ r = [call[p] EXCEPT !.pc = "lookup"]
    BY <1>2
  <1>4. r \in Call /\ r.pc \in {"idle", "query", "lookup"}
    BY <1>1, <1>3, OverTyped DEF Call, Phase
  <1>5. /\ UNCHANGED <<store, ram, index, token, due, astray>>
        /\ override' = override
    BY DEF AskLive
  <1> QED BY <1>1, <1>3, <1>4, <1>5, OverrideKept, CallStep

LEMMA LookUpHolds ==
    ASSUME IInv, NEW p \in Proposer, LookUp(p)
    PROVE  IInv'
  <1>1. /\ call[p] \in Call /\ call[p].pc = "lookup"
        /\ call \in [Proposer -> Call]
        /\ index \in Contract \cup {None}
    BY DEF IInv, TypeOK, LookUp
  <1>0. UNCHANGED <<store, ram, index, token, due, astray>>
    BY DEF LookUp
  <1>2. CASE index # None /\ Cached(index)
    <2>1. /\ ram[index] \in Status /\ index \in Contract
          /\ ram[index] \in Final => store[index] = ram[index]
      BY <1>1, <1>2 DEF IInv, TypeOK, Faithful, Cached
    <2>2. PICK r \in Call : r = Judged(p, index, ram[index])
      BY <1>1, JudgedTyped DEF IInv
    <2>3. r.pc = "idle" \/ r.pc = "claim"
      BY <1>1, <2>2, JudgedTyped DEF IInv
    <2>4. r.pc = "claim" => r.seen = index /\ ~Stops(ram[index], call[p].source)
      BY <1>1, <1>2, <2>2, JudgedTyped DEF IInv
    <2>5. r.pc = "claim" => ram[index] \in Final /\ ~Decisive(index)
      BY <2>1, <2>4, Unstopped DEF Decisive
    <2>6. r.pc = "claim" /\ ~astray => due[index] = "unborn"
      BY <2>1, <2>5 DEF IInv, Led, Owed
    <2>7. /\ call' = [call EXCEPT ![p] = r]
          /\ override' = Overridden(index, ram[index])
      BY <1>2, <2>2 DEF LookUp
    <2>8. \/ override' = index /\ ram[index] = "completed"
          \/ override' = override
      BY <2>7 DEF Overridden
    <2>9. /\ override' \in Contract \cup {None}
          /\ override' # None /\ ~astray
               => index = override' /\ store[override'] = "completed"
      BY <2>1, <2>8, OverrideKept DEF Final
    <2> QED
      BY <1>0, <1>1, <1>2, <2>1, <2>3, <2>4, <2>5, <2>6, <2>7, <2>9, CallStep
  <1>3. CASE ~(index # None /\ Cached(index))
    <2>1. PICK r : r = [call[p] EXCEPT !.pc = "query", !.first = FALSE]
      OBVIOUS
    <2>2. r \in Call /\ r.pc = "query"
      BY <1>1, <2>1 DEF Call, Phase
    <2>3. call' = [call EXCEPT ![p] = r] /\ override' = override
      BY <1>1, <1>3, <2>1 DEF LookUp
    <2> QED BY <1>0, <1>1, <2>2, <2>3, OverrideKept, CallStep
  <1> QED BY <1>2, <1>3

LEMMA QueryHolds ==
    ASSUME IInv, NEW p \in Proposer, Query(p)
    PROVE  IInv'
  <1>1. /\ call[p] \in Call /\ call[p].pc = "query"
        /\ call \in [Proposer -> Call]
        /\ store \in [Contract -> Status \cup {"unborn"}]
    BY DEF IInv, TypeOK, Query
  <1>0. /\ UNCHANGED <<store, ram, index, token, due, astray>>
        /\ override' = override
    BY DEF Query
  <1>2. ASSUME NEW c \in Contract, IF call[p].first THEN store[c] = "pending"
                                                   ELSE Stored(c),
               call' = [call EXCEPT ![p].pc = "warm", ![p].found = c,
                                    ![p].as = store[c]]
        PROVE  IInv'
    <2>1. PICK r : r = [call[p] EXCEPT !.pc = "warm", !.found = c,
                                       !.as = store[c]]
      OBVIOUS
    <2>2. r \in Call /\ r.pc = "warm" /\ r.found = c /\ r.as = store[c]
      BY <1>1, <2>1 DEF Call, Phase
    <2>3. call' = [call EXCEPT ![p] = r] /\ r.as \in Status
      BY <1>1, <1>2, <2>1, <2>2 DEF Stored, Status
    <2> QED BY <1>0, <1>1, <2>2, <2>3, OverrideKept, CallStep
  <1>3. ASSUME \A c \in Contract : ~(IF call[p].first THEN store[c] = "pending"
                                                     ELSE Stored(c)),
               call' = [call EXCEPT ![p] =
                          IF call[p].first
                            THEN [call[p] EXCEPT !.pc = "lookup"]
                            ELSE Judged(p, None, "unborn")]
        PROVE  IInv'
    <2>1. CASE call[p].first
      <3>1. PICK r : r = [call[p] EXCEPT !.pc = "lookup"]
        OBVIOUS
      <3>2. r \in Call /\ r.pc = "lookup"
        BY <1>1, <3>1 DEF Call, Phase
      <3>3. call' = [call EXCEPT ![p] = r]
        BY <1>1, <1>3, <2>1, <3>1
      <3> QED BY <1>0, <1>1, <3>2, <3>3, OverrideKept, CallStep
    <2>2. CASE ~call[p].first
      <3>1. PICK r \in Call : r = Judged(p, None, "unborn")
        BY JudgedTyped DEF IInv
      <3>2. r.pc = "idle" \/ (r.pc = "claim" /\ r.seen = None)
        BY <3>1, JudgedTyped DEF IInv
      <3>3. call' = [call EXCEPT ![p] = r]
        BY <1>3, <2>2, <3>1
      <3>4. \A d \in Contract : store[d] = "unborn"
        BY <1>3, <2>2 DEF Stored
      <3>5. \A d \in Contract : ~Engaged(d)
        BY <3>4 DEF Engaged, Decisive, Unsettled, IInv, Faithful
      <3> QED
        BY <1>0, <1>1, <3>2, <3>3, <3>5, OverrideKept, CallStep
    <2> QED BY <2>1, <2>2
  <1>4. ASSUME call' = [call EXCEPT ![p] = Over]
        PROVE  IInv'
    BY <1>0, <1>1, <1>4, OverTyped, OverrideKept, CallStep
  <1> QED BY <1>2, <1>3, <1>4 DEF Query

LEMMA LoseHolds ==
    ASSUME IInv, NEW p \in Proposer, Lose(p)
    PROVE  IInv'
  <1>1. /\ call[p] \in Call /\ call[p].pc = "claim"
        /\ call \in [Proposer -> Call]
        /\ call[p].tries \in 0 .. MaxTries - 1
    BY DEF IInv, TypeOK, Lose, Call
  <1>0. /\ UNCHANGED <<store, ram, index, token, due, astray>>
        /\ override' = override
    BY DEF Lose
  <1>2. CASE call[p].tries + 1 = MaxTries
    <2>1. call' = [call EXCEPT ![p] = Over]
      BY <1>2 DEF Lose
    <2> QED BY <1>0, <1>1, <2>1, OverTyped, OverrideKept, CallStep
  <1>3. CASE call[p].tries + 1 # MaxTries
    <2>0. PICK n \in 0 .. MaxTries - 1 : n = call[p].tries + 1
      BY <1>1, <1>3, TriesArePositive
    <2>1. PICK r : r = [call[p] EXCEPT !.pc = "lookup", !.seen = None,
                                       !.tries = n]
      OBVIOUS
    <2>2. r \in Call /\ r.pc = "lookup"
      BY <1>1, <2>0, <2>1 DEF Call, Phase
    <2>3. call' = [call EXCEPT ![p] = r]
      BY <1>1, <1>3, <2>0, <2>1 DEF Lose
    <2> QED BY <1>0, <1>1, <2>2, <2>3, OverrideKept, CallStep
  <1> QED BY <1>2, <1>3

-----------------------------------------------------------------------------
(* The steps that read a record from the repository.                        *)

(* Nothing but that record's contract engages the fingerprint if it came in *)
(* time.                                                                    *)
LEMMA ReadsInTime ==
    ASSUME IInv, NEW c \in Contract, NEW s \in Status,
           s \in Final => store[c] = s, Reads(c, s),
           UNCHANGED <<store, token, due>>,
           override' \in Contract \cup {None},
           override' # override => override' = c /\ s = "completed"
    PROVE  /\ TypeOK' <=> call' \in [Proposer -> Call]
           /\ \A d \in Contract : ram'[d] \in Final => store'[d] = ram'[d]
           /\ ~astray' => /\ ~astray
                          /\ \A d \in Contract : Engaged(d) => d = c
                          /\ \A d \in Contract : due'[d] = "unborn"
                          /\ index' = c
           /\ RepeatsItsOwn'
  <1>1. /\ ram \in [Contract -> Status \cup {"unborn"}]
        /\ ram' = [ram EXCEPT ![c] = s]
        /\ index' = c
    BY DEF IInv, TypeOK, Reads
  <1>2. TypeOK' <=> call' \in [Proposer -> Call]
    BY <1>1 DEF IInv, TypeOK, Reads
  <1>3. \A d \in Contract : ram'[d] \in Final => store'[d] = ram'[d]
    BY <1>1 DEF IInv, Faithful
  <1>4. ~astray' => /\ ~astray
                    /\ \A d \in Contract : due[d] = "unborn"
                    /\ \A d \in Contract : Decisive(d) => d = c
    BY DEF Reads
  <1>5. ASSUME ~astray', override' # None
        PROVE  index' = override' /\ store'[override'] = "completed"
    <2>1. CASE override' = override
      <3>1. store[override] = "completed" /\ override \in Contract
        BY <1>4, <1>5, <2>1 DEF IInv, RepeatsItsOwn
      <3>2. Decisive(override)
        BY <3>1 DEF Decisive
      <3> QED BY <1>1, <1>4, <1>5, <2>1, <3>1, <3>2
    <2>2. CASE override' # override
      BY <1>1, <2>2 DEF Final
    <2> QED BY <2>1, <2>2
  <1> QED BY <1>1, <1>2, <1>3, <1>4, <1>5 DEF Engaged, RepeatsItsOwn

LEMMA WarmHolds ==
    ASSUME IInv, NEW p \in Proposer, Warm(p)
    PROVE  IInv'
  <1>1. /\ call[p] \in Call /\ call[p].pc = "warm"
        /\ call \in [Proposer -> Call]
        /\ override \in Contract \cup {None}
    BY DEF IInv, TypeOK, Warm
  <1>2. PICK c \in Contract, s \in Status :
          /\ c = call[p].found /\ s = call[p].as
          /\ s \in Final => store[c] = s
    BY <1>1 DEF IInv, Wired, Faithful, Call
  <1>3. Reads(c, s) /\ UNCHANGED <<store, token, due>>
    BY <1>2 DEF Warm
  <1>4. \E r : /\ call' = [call EXCEPT ![p] = r]
               /\ r = Over \/ r = Judged(p, c, s)
    BY <1>2 DEF Warm
  <1>5. PICK r : /\ call' = [call EXCEPT ![p] = r]
                 /\ r = Over \/ r = Judged(p, c, s)
    BY <1>4
  <1>6. /\ r \in Call
        /\ \/ r.pc = "idle"
           \/ /\ r.pc = "claim" /\ r.seen = c
              /\ ~Stops(s, call[p].source)
    BY <1>2, <1>5, OverTyped, JudgedTyped, NoneIsFresh DEF IInv
  <1>7. /\ override' # override => override' = c /\ s = "completed"
        /\ override' \in Contract \cup {None}
    BY <1>1, <1>2 DEF Warm, Overridden
  <1>8. /\ call'[p] = r /\ call' \in [Proposer -> Call]
        /\ \A q \in Proposer \ {p} : call'[q] = call[q]
    BY <1>1, <1>5, <1>6
  <1>9. /\ TypeOK' /\ RepeatsItsOwn'
        /\ \A d \in Contract : ram'[d] \in Final => store'[d] = ram'[d]
        /\ ~astray' => /\ ~astray
                       /\ \A d \in Contract : Engaged(d) => d = c
                       /\ \A d \in Contract : due'[d] = "unborn"
                       /\ index' = c
    BY <1>2, <1>3, <1>7, <1>8, ReadsInTime
  <1>10. Wired'
    BY <1>6, <1>8 DEF IInv, Wired
  <1>11. ClaimHasHolder'
    BY <1>1, <1>3, <1>6, <1>8 DEF IInv, TypeOK, ClaimHasHolder
  <1>12. r.pc = "claim" => store[c] \in Final /\ ~Decisive(c)
    BY <1>2, <1>6, Unstopped DEF Decisive
  <1>13. Faithful'
    BY <1>3, <1>6, <1>8, <1>9, <1>12 DEF IInv, Faithful, Decisive
  <1>14. ASSUME ~astray'
         PROVE  Traced' /\ Alone' /\ Guarded' /\ Owed' /\ Heeded'
    <2>1. \A d \in Contract : Engaged(d)' => Engaged(d) /\ d = c
      BY <1>3, <1>9, <1>14 DEF Engaged, Decisive
    <2>2. Traced' /\ Alone'
      BY <1>9, <1>14, <2>1 DEF Traced, Alone
    <2>3. Guarded'
      BY <1>6, <1>8, <1>9, <1>14, <2>1 DEF IInv, Led, Guarded
    <2>4. Owed'
      BY <1>9, <1>14 DEF Owed
    <2>5. \A q \in Proposer : call'[q] \in Call
      BY <1>8
    <2>6. Heeded'
      BY <1>9, <1>14, <2>5 DEF Heeded, Call
    <2> QED BY <2>2, <2>3, <2>4, <2>6
  <1> QED BY <1>9, <1>10, <1>11, <1>13, <1>14 DEF IInv, Led

LEMMA PressHolds ==
    ASSUME IInv, NEW c \in Contract, Press(c)
    PROVE  IInv'
  <1>1. store[c] \in Status /\ Reads(c, store[c]) /\ UNCHANGED <<store, call>>
        /\ UNCHANGED <<token, due, override>>
    BY DEF Press, Stored, IInv, TypeOK
  <1>2. /\ TypeOK' /\ RepeatsItsOwn'
        /\ \A d \in Contract : ram'[d] \in Final => store'[d] = ram'[d]
        /\ ~astray' => /\ ~astray
                       /\ \A d \in Contract : Engaged(d) => d = c
                       /\ \A d \in Contract : due'[d] = "unborn"
                       /\ index' = c
    BY <1>1, ReadsInTime DEF IInv, TypeOK
  <1>3. Wired' /\ ClaimHasHolder'
    BY <1>1 DEF IInv, Wired, ClaimHasHolder
  <1>4. Faithful'
    BY <1>1, <1>2 DEF IInv, Faithful, Decisive
  <1>5. ASSUME ~astray'
        PROVE  Traced' /\ Alone' /\ Guarded' /\ Owed' /\ Heeded'
    <2>1. \A d \in Contract : Engaged(d)' => Engaged(d) /\ d = c
      BY <1>1, <1>2, <1>5 DEF Engaged, Decisive
    <2>2. Traced' /\ Alone'
      BY <1>2, <1>5, <2>1 DEF Traced, Alone
    <2>3. Guarded' /\ Owed'
      BY <1>1, <1>2, <1>5, <2>1 DEF IInv, Led, Guarded, Owed
    <2>4. \A q \in Proposer : call'[q] \in Call
      BY <1>1 DEF IInv, TypeOK
    <2>5. Heeded'
      BY <1>2, <1>5, <2>4 DEF Heeded, Call
    <2> QED BY <2>2, <2>3, <2>5
  <1> QED BY <1>2, <1>3, <1>4, <1>5 DEF IInv, Led

-----------------------------------------------------------------------------
(* The steps of a call that write the claim, the store or the index.        *)

(* Nobody is between claim and cache, so what engages is where the index    *)
(* leads; and that is the closed contract this call saw, or nothing.        *)
LEMMA ClaimHolds ==
    ASSUME IInv, NEW p \in Proposer, Claim(p)
    PROVE  IInv'
  <1>1. /\ call[p] \in Call /\ call[p].pc = "claim" /\ token = None
        /\ index = call[p].seen /\ call \in [Proposer -> Call]
    BY DEF IInv, TypeOK, Claim, MayClaim
  <1>2. PICK r : r = [call[p] EXCEPT !.pc = "save"]
    OBVIOUS
  <1>3. r \in Call /\ r.pc = "save"
    BY <1>1, <1>2 DEF Call, Phase
  <1>4. /\ call' = [call EXCEPT ![p] = r] /\ token' = p
        /\ UNCHANGED <<store, ram, index, due, override, astray>>
    BY <1>2 DEF Claim
  <1>5. /\ call'[p] = r
        /\ \A q \in Proposer \ {p} : call'[q] = call[q]
    BY <1>1, <1>4
  <1>6. \A q \in Proposer : call[q].pc \notin {"save", "cache"}
    BY <1>1, NoneIsFresh DEF IInv, ClaimHasHolder
  <1>7. ASSUME ~astray, NEW d \in Contract, Engaged(d)
        PROVE  FALSE
    <2>1. index = d \/ (index = None /\ ~Unaware)
      BY <1>6, <1>7 DEF IInv, Led, Traced, Saving
    <2>2. CASE index = d
      <3>1. call[p].seen = d /\ d # None
        BY <1>1, <2>2, NoneIsFresh
      <3>2. ~Decisive(d) /\ due[d] = "unborn"
        BY <1>1, <1>7, <3>1 DEF IInv, Faithful, Led, Heeded
      <3> QED BY <1>7, <3>2 DEF Engaged
    <2>3. CASE index = None /\ ~Unaware
      BY <1>1, <2>3 DEF Unaware
    <2> QED BY <2>1, <2>2, <2>3
  <1>8. TypeOK'
    BY <1>3, <1>4, <1>5 DEF IInv, TypeOK
  <1>9. Wired'
    BY <1>1, <1>3, <1>5 DEF IInv, Wired
  <1>10. ClaimHasHolder'
    BY <1>3, <1>4, <1>5, <1>6 DEF ClaimHasHolder
  <1>11. Faithful'
    BY <1>3, <1>4, <1>5 DEF IInv, Faithful, Decisive
  <1>12. ASSUME ~astray
         PROVE  Traced' /\ Alone' /\ Guarded' /\ Owed' /\ Heeded'
    <2>1. \A d \in Contract : ~Engaged(d)'
      BY <1>4, <1>7, <1>12 DEF Engaged, Decisive
    <2>2. Heeded'
      BY <1>3, <1>4, <1>5, <1>12 DEF IInv, Led, Heeded
    <2>3. Traced' /\ Alone' /\ Guarded'
      BY <2>1 DEF Traced, Alone, Guarded
    <2>4. Owed'
      BY <1>4, <1>12 DEF IInv, Led, Owed, Cached
    <2> QED BY <2>2, <2>3, <2>4
  <1>13. RepeatsItsOwn'
    BY <1>4 DEF IInv, RepeatsItsOwn
  <1> QED BY <1>4, <1>8, <1>9, <1>10, <1>11, <1>12, <1>13 DEF IInv, Led

LEMMA SaveHolds ==
    ASSUME IInv, NEW p \in Proposer, Save(p)
    PROVE  IInv'
  <1>1. /\ call[p] \in Call /\ call[p].pc = "save" /\ token = p
        /\ call \in [Proposer -> Call]
        /\ store \in [Contract -> Status \cup {"unborn"}]
        /\ UNCHANGED <<ram, index, due, override, astray>>
    BY DEF IInv, TypeOK, ClaimHasHolder, Save
  <1>2. \A q \in Proposer \ {p} : call[q].pc \notin {"save", "cache"}
    BY <1>1 DEF IInv, ClaimHasHolder
  <1>3. ASSUME NEW c \in Contract, ~Stored(c), NEW s \in {"pending", "approved"},
               store' = [store EXCEPT ![c] = s], token' = token,
               call' = [call EXCEPT ![p].pc = "cache", ![p].found = c,
                                    ![p].as = s]
        PROVE  IInv'
    <2>1. PICK r : r = [call[p] EXCEPT !.pc = "cache", !.found = c, !.as = s]
      OBVIOUS
    <2>2. /\ r \in Call /\ r.pc = "cache" /\ r.found = c /\ r.as = s
          /\ s \in Status /\ s \notin Final
      BY <1>1, <2>1 DEF Call, Phase, Status, Final
    <2>3. /\ call'[p] = r
          /\ \A q \in Proposer \ {p} : call'[q] = call[q]
          /\ call' \in [Proposer -> Call]
      BY <1>1, <1>3, <2>1, <2>2
    <2>4. /\ store' \in [Contract -> Status \cup {"unborn"}]
          /\ store'[c] = s
          /\ \A d \in Contract \ {c} : store'[d] = store[d]
          /\ store[c] = "unborn"
      BY <1>1, <1>3, <2>2 DEF Stored
    <2>5. TypeOK'
      BY <1>1, <1>3, <2>3, <2>4 DEF IInv, TypeOK
    <2>6. Wired'
      BY <1>1, <2>2, <2>3 DEF IInv, Wired
    <2>7. ClaimHasHolder'
      BY <1>1, <1>2, <1>3, <2>2, <2>3 DEF IInv, ClaimHasHolder
    <2>8. Faithful'
      <3>1. \A d \in Contract : store[d] # "unborn" => store'[d] = store[d]
        BY <2>4
      <3>2. \A d \in Contract : /\ ram'[d] \in Final => store'[d] = ram'[d]
                                /\ due'[d] # "unborn" => store'[d] = due'[d]
        BY <1>1, <3>1 DEF IInv, Faithful, Final
      <3>3. ASSUME NEW q \in Proposer \ {p}
            PROVE  /\ call'[q].pc = "warm" /\ call'[q].as \in Final
                        => store'[call'[q].found] = call'[q].as
                   /\ call'[q].pc = "claim" /\ call'[q].seen # None
                        => /\ store'[call'[q].seen] \in Final
                           /\ store'[call'[q].seen]
                                \notin Unsettled \cup {"completed"}
        <4>1. call'[q] = call[q] /\ call[q] \in Call
          BY <2>3 DEF IInv, TypeOK
        <4>2. CASE call[q].pc = "warm"
          <5>1. call[q].found \in Contract
            BY <4>2 DEF IInv, Wired
          <5>2. call[q].as \in Final => store[call[q].found] = call[q].as
            BY <4>2 DEF IInv, Faithful
          <5> QED BY <3>1, <4>1, <4>2, <5>1, <5>2 DEF Final
        <4>3. CASE call[q].pc = "claim" /\ call[q].seen # None
          <5>1. /\ call[q].seen \in Contract
                /\ store[call[q].seen] \in Final /\ ~Decisive(call[q].seen)
            BY <4>1, <4>3 DEF IInv, Faithful, Call
          <5> QED BY <3>1, <4>1, <4>3, <5>1 DEF Decisive, Final
        <4> QED BY <4>1, <4>2, <4>3
      <3>4. call'[p].pc = "cache"
        BY <2>2, <2>3
      <3> QED BY <3>2, <3>3, <3>4 DEF Faithful, Decisive
    <2>9. ASSUME ~astray
          PROVE  Traced' /\ Alone' /\ Guarded' /\ Owed' /\ Heeded'
      <3>0. \A d \in Contract : ~Engaged(d)
        BY <1>1, <2>9 DEF IInv, Led, Guarded
      <3>1. \A d \in Contract : Engaged(d)' => d = c
        BY <1>1, <2>4, <3>0 DEF Engaged, Decisive
      <3>2. Saving(c)'
        BY <2>2, <2>3 DEF Saving
      <3>3. Traced' /\ Alone'
        BY <3>1, <3>2 DEF Traced, Alone
      <3>4. Guarded'
        BY <1>2, <2>2, <2>3, <3>1 DEF Guarded
      <3>5. Owed'
        BY <1>1, <2>9 DEF IInv, Led, Owed, Cached
      <3>6. Heeded'
        BY <1>1, <2>2, <2>3, <2>9 DEF IInv, Led, Heeded
      <3> QED BY <3>3, <3>4, <3>5, <3>6
    <2>10. RepeatsItsOwn'
      <3>1. ASSUME ~astray, override # None
            PROVE  FALSE
        <4>1. override \in Contract /\ store[override] = "completed"
          BY <3>1 DEF IInv, TypeOK, RepeatsItsOwn
        <4>2. Engaged(override)
          BY <4>1 DEF Engaged, Decisive
        <4> QED BY <1>1, <3>1, <4>1, <4>2 DEF IInv, Led, Guarded
      <3> QED BY <1>1, <3>1 DEF RepeatsItsOwn
    <2> QED BY <1>1, <2>5, <2>6, <2>7, <2>8, <2>9, <2>10 DEF IInv, Led
  <1>4. ASSUME token' = Released(p), store' = store,
               call' = [call EXCEPT ![p] = Over]
        PROVE  IInv'
    <2>1. /\ call'[p].pc = "idle"
          /\ \A q \in Proposer \ {p} : call'[q] = call[q]
          /\ call' \in [Proposer -> Call] /\ token' = None
      BY <1>1, <1>4, OverTyped DEF Released
    <2>2. TypeOK' /\ Wired'
      BY <1>1, <1>4, <2>1 DEF IInv, TypeOK, Wired
    <2>3. ClaimHasHolder'
      BY <1>2, <2>1 DEF ClaimHasHolder
    <2>4. Faithful'
      BY <1>1, <1>4, <2>1 DEF IInv, Faithful, Decisive
    <2>5. ASSUME ~astray
          PROVE  Traced' /\ Alone' /\ Guarded' /\ Owed' /\ Heeded'
      <3>1. \A d \in Contract : ~Engaged(d)'
        BY <1>1, <1>4, <2>5 DEF IInv, Led, Guarded, Engaged, Decisive
      <3>2. Traced' /\ Alone' /\ Guarded'
        BY <3>1 DEF Traced, Alone, Guarded
      <3>3. Owed'
        BY <1>1, <2>5 DEF IInv, Led, Owed, Cached
      <3>4. Heeded'
        BY <1>1, <2>1, <2>5 DEF IInv, Led, Heeded
      <3> QED BY <3>2, <3>3, <3>4
    <2>6. RepeatsItsOwn'
      BY <1>1, <1>4 DEF IInv, RepeatsItsOwn
    <2> QED BY <1>1, <2>2, <2>3, <2>4, <2>5, <2>6 DEF IInv, Led
  <1> QED BY <1>3, <1>4 DEF Save

(* The contract that is saved is the only one that engages: the index turns *)
(* away from none.                                                          *)
LEMMA CacheHolds ==
    ASSUME IInv, NEW p \in Proposer, Cache(p)
    PROVE  IInv'
  <1>1. /\ call[p] \in Call /\ call[p].pc = "cache" /\ token = p
        /\ call \in [Proposer -> Call]
        /\ ram \in [Contract -> Status \cup {"unborn"}]
        /\ UNCHANGED <<store, due, override, astray>>
    BY DEF IInv, TypeOK, ClaimHasHolder, Cache
  <1>2. PICK c \in Contract, s \in Status :
          c = call[p].found /\ s = call[p].as /\ s \notin Final
    BY <1>1 DEF IInv, Wired
  <1>3. /\ ram' = [ram EXCEPT ![c] = s] /\ index' = c /\ token' = None
        /\ call' = [call EXCEPT ![p] = Over]
    BY <1>1, <1>2 DEF Cache, Released
  <1>4. /\ call'[p].pc = "idle" /\ call' \in [Proposer -> Call]
        /\ \A q \in Proposer \ {p} : call'[q] = call[q]
        /\ \A q \in Proposer : call'[q].pc \notin {"save", "cache"}
    BY <1>1, <1>3, OverTyped DEF IInv, ClaimHasHolder
  <1>5. TypeOK' /\ Wired'
    BY <1>1, <1>2, <1>3, <1>4 DEF IInv, TypeOK, Wired
  <1>6. ClaimHasHolder'
    BY <1>3, <1>4 DEF ClaimHasHolder
  <1>7. Faithful'
    BY <1>1, <1>2, <1>3, <1>4 DEF IInv, Faithful, Decisive
  <1>8. ASSUME ~astray, NEW d \in Contract, Engaged(d)
        PROVE  d = c
    BY <1>1, <1>2, <1>8 DEF IInv, Led, Guarded
  <1>9. ASSUME ~astray
        PROVE  Traced' /\ Alone' /\ Guarded' /\ Owed' /\ Heeded'
    <2>1. \A d \in Contract : Engaged(d)' => d = c
      BY <1>1, <1>8, <1>9 DEF Engaged, Decisive
    <2>2. Traced' /\ Alone' /\ Guarded'
      BY <1>3, <1>4, <2>1 DEF Traced, Alone, Guarded
    <2>3. Owed'
      <3>1. ASSUME NEW d \in Contract, due[d] # "unborn"
            PROVE  ram'[d] # "unborn" /\ ram'[d] \notin Final
        BY <1>1, <1>2, <1>3, <1>9, <3>1, NoneIsFresh
           DEF IInv, Led, Owed, Cached, Status
      <3> QED BY <1>1, <3>1 DEF Owed, Cached
    <2>4. Heeded'
      BY <1>1, <1>4, <1>9 DEF IInv, Led, Heeded
    <2> QED BY <2>2, <2>3, <2>4
  <1>10. RepeatsItsOwn'
    <2>1. ASSUME ~astray, override # None
          PROVE  override = c /\ store[c] = "completed"
      <3>1. /\ override \in Contract /\ store[override] = "completed"
            /\ Engaged(override)
        BY <2>1 DEF IInv, TypeOK, RepeatsItsOwn, Engaged, Decisive
      <3> QED BY <1>8, <2>1, <3>1
    <2> QED BY <1>1, <1>3, <2>1 DEF RepeatsItsOwn
  <1> QED BY <1>1, <1>5, <1>6, <1>7, <1>9, <1>10 DEF IInv, Led

-----------------------------------------------------------------------------
(* The steps of the contracts and of the process.                           *)
LEMMA MoveHolds ==
    ASSUME IInv, NEW c \in Contract, Move(c)
    PROVE  IInv'
  <1>1. PICK s \in After(store[c]) : /\ store' = [store EXCEPT ![c] = s]
                                     /\ due' = [due EXCEPT ![c] = s]
    BY DEF Move
  <1>2. /\ store \in [Contract -> Status \cup {"unborn"}]
        /\ due \in [Contract -> Status \cup {"unborn"}]
        /\ UNCHANGED <<ram, index, token, override, call, astray>>
        /\ ram[c] = store[c]
    BY DEF Move, IInv, TypeOK
  <1>3. /\ store[c] \in {"pending", "approved"}
        /\ s \in Status
    BY <1>1 DEF After, Status
  <1>4. /\ store'[c] = s /\ due'[c] = s
        /\ \A d \in Contract \ {c} : store'[d] = store[d] /\ due'[d] = due[d]
        /\ store' \in [Contract -> Status \cup {"unborn"}]
        /\ due' \in [Contract -> Status \cup {"unborn"}]
    BY <1>1, <1>2, <1>3
  <1>5. TypeOK' /\ Wired' /\ ClaimHasHolder'
    BY <1>2, <1>4 DEF IInv, TypeOK, Wired, ClaimHasHolder
  <1>6. \A d \in Contract : store[d] \in Final => store'[d] = store[d]
    BY <1>3, <1>4 DEF Final
  <1>7. Faithful'
    <2>1. \A d \in Contract : /\ ram'[d] \in Final => store'[d] = ram'[d]
                              /\ due'[d] # "unborn" => store'[d] = due'[d]
      BY <1>2, <1>4, <1>6 DEF IInv, Faithful
    <2>2. ASSUME NEW q \in Proposer
          PROVE  /\ call[q].pc = "warm" /\ call[q].as \in Final
                      => store'[call[q].found] = call[q].as
                 /\ call[q].pc = "claim" /\ call[q].seen # None
                      => /\ store'[call[q].seen] \in Final
                         /\ store'[call[q].seen]
                              \notin Unsettled \cup {"completed"}
      <3>1. call[q] \in Call
        BY DEF IInv, TypeOK
      <3>2. CASE call[q].pc = "warm"
        <4>1. call[q].found \in Contract
          BY <3>2 DEF IInv, Wired
        <4>2. call[q].as \in Final => store[call[q].found] = call[q].as
          BY <3>2 DEF IInv, Faithful
        <4>3. call[q].pc # "claim"
          BY <3>2
        <4> QED BY <1>6, <4>1, <4>2, <4>3
      <3>3. CASE call[q].pc = "claim" /\ call[q].seen # None
        <4>1. /\ call[q].seen \in Contract
              /\ store[call[q].seen] \in Final /\ ~Decisive(call[q].seen)
          BY <3>1, <3>3 DEF IInv, Faithful, Call
        <4>2. store'[call[q].seen] = store[call[q].seen]
          BY <1>6, <4>1
        <4> QED BY <3>3, <4>1, <4>2 DEF Decisive
      <3> QED BY <3>2, <3>3
    <2> QED BY <1>2, <2>1, <2>2 DEF Faithful, Decisive
  <1>8. ASSUME ~astray
        PROVE  Traced' /\ Alone' /\ Guarded' /\ Owed' /\ Heeded'
    <2>1. \A d \in Contract : Engaged(d)' => Engaged(d)
      BY <1>3, <1>4 DEF Engaged, Decisive, Unsettled
    <2>2. Traced'
      BY <1>2, <1>8, <2>1 DEF IInv, Led, Traced, Saving, Unaware
    <2>3. Alone' /\ Guarded'
      BY <1>2, <1>8, <2>1 DEF IInv, Led, Alone, Guarded
    <2>4. Owed'
      <3>1. ram[c] \notin Final /\ Cached(c)
        BY <1>2, <1>3 DEF Final, Cached
      <3> QED BY <1>2, <1>4, <1>8, <3>1 DEF IInv, Led, Owed, Cached
    <2>5. Heeded'
      <3>1. ASSUME NEW q \in Proposer, call[q].pc = "claim",
                   call[q].seen # None
            PROVE  due'[call[q].seen] = "unborn"
        <4>1. /\ call[q].seen \in Contract /\ due[call[q].seen] = "unborn"
              /\ store[call[q].seen] \in Final
          BY <1>8, <3>1 DEF IInv, TypeOK, Call, Faithful, Led, Heeded
        <4> QED BY <1>3, <1>4, <4>1 DEF Final
      <3> QED BY <1>2, <3>1 DEF Heeded
    <2> QED BY <2>2, <2>3, <2>4, <2>5
  <1>9. RepeatsItsOwn'
    BY <1>2, <1>6 DEF IInv, TypeOK, RepeatsItsOwn, Final
  <1> QED BY <1>2, <1>5, <1>7, <1>8, <1>9 DEF IInv, Led

(* A transition that is due belongs to the one contract that engages.       *)
LEMMA PublishHolds ==
    ASSUME IInv, NEW c \in Contract, Publish(c)
    PROVE  IInv'
  <1>1. /\ due \in [Contract -> Status \cup {"unborn"}]
        /\ ram \in [Contract -> Status \cup {"unborn"}]
        /\ due' = [due EXCEPT ![c] = "unborn"]
        /\ ram' = [ram EXCEPT ![c] = due[c]]
        /\ index' = c
        /\ store[c] = due[c] /\ due[c] # "unborn"
        /\ UNCHANGED <<store, token, override, call, astray>>
    BY DEF Publish, IInv, TypeOK, Faithful
  <1>2. TypeOK' /\ Wired' /\ ClaimHasHolder'
    BY <1>1 DEF IInv, TypeOK, Wired, ClaimHasHolder
  <1>3. Faithful'
    BY <1>1 DEF IInv, Faithful, Decisive
  <1>4. ASSUME ~astray, NEW d \in Contract, Engaged(d)
        PROVE  d = c
    BY <1>1, <1>4 DEF IInv, Led, Alone, Engaged
  <1>5. ASSUME ~astray
        PROVE  Traced' /\ Alone' /\ Guarded' /\ Owed' /\ Heeded'
    <2>1. \A d \in Contract : Engaged(d)' => Engaged(d) /\ d = c
      BY <1>1, <1>4, <1>5 DEF Engaged, Decisive
    <2>2. Traced' /\ Alone'
      BY <1>1, <2>1 DEF Traced, Alone
    <2>3. Guarded'
      BY <1>1, <1>5, <2>1 DEF IInv, Led, Guarded
    <2>4. Owed'
      BY <1>1, <1>5 DEF IInv, Led, Owed, Cached
    <2>5. Heeded'
      BY <1>1, <1>5 DEF IInv, Led, Heeded
    <2> QED BY <2>2, <2>3, <2>4, <2>5
  <1>6. RepeatsItsOwn'
    <2>1. ASSUME ~astray, override # None
          PROVE  override = c /\ store[c] = "completed"
      <3>1. /\ override \in Contract /\ store[override] = "completed"
            /\ Engaged(override)
        BY <2>1 DEF IInv, TypeOK, RepeatsItsOwn, Engaged, Decisive
      <3> QED BY <1>4, <2>1, <3>1
    <2> QED BY <1>1, <2>1 DEF RepeatsItsOwn
  <1> QED BY <1>1, <1>2, <1>3, <1>5, <1>6 DEF IInv, Led

LEMMA OverrideHolds ==
    ASSUME IInv, Override
    PROVE  IInv'
  <1>1. /\ UNCHANGED <<store, ram, index, token, due, call, astray>>
        /\ override' = None
    BY DEF Override
  <1>2. TypeOK' /\ Wired' /\ ClaimHasHolder' /\ Faithful'
    BY <1>1
       DEF IInv, TypeOK, Wired, ClaimHasHolder, Faithful, Decisive
  <1>3. Led'
    BY <1>1 DEF IInv, Led, Traced, Alone, Guarded, Owed, Heeded, Engaged,
                Decisive, Saving, Unaware, Cached
  <1>4. RepeatsItsOwn'
    BY <1>1 DEF RepeatsItsOwn
  <1> QED BY <1>2, <1>3, <1>4 DEF IInv

(* The index is empty after a restart, and so is every call.                *)
LEMMA RestartHolds ==
    ASSUME IInv, Restart
    PROVE  IInv'
  <1>1. /\ ram' = [c \in Contract |-> "unborn"]
        /\ due' = [c \in Contract |-> "unborn"]
        /\ index' = None /\ token' = None /\ override' = None
        /\ UNCHANGED <<store, astray>>
        /\ call' = [p \in Proposer |-> Over]
    BY DEF Restart
  <1>2. call' \in [Proposer -> Call] /\ \A q \in Proposer : call'[q].pc = "idle"
    BY <1>1, OverTyped
  <1>3. TypeOK' /\ Wired' /\ ClaimHasHolder'
    BY <1>1, <1>2 DEF IInv, TypeOK, Wired, ClaimHasHolder
  <1>4. Faithful'
    BY <1>1, <1>2 DEF Faithful, Final
  <1>5. ASSUME ~astray
        PROVE  Traced' /\ Alone' /\ Guarded' /\ Owed' /\ Heeded'
    <2>1. \A d \in Contract : Engaged(d)' => Engaged(d)
      BY <1>1 DEF Engaged, Decisive
    <2>2. Traced' /\ Guarded' /\ Owed' /\ Heeded'
      BY <1>1, <1>2 DEF Traced, Unaware, Guarded, Owed, Heeded
    <2> QED BY <1>5, <2>1, <2>2 DEF IInv, Led, Alone
  <1>6. RepeatsItsOwn'
    BY <1>1 DEF RepeatsItsOwn
  <1> QED BY <1>1, <1>3, <1>4, <1>5, <1>6 DEF IInv, Led

LEMMA NextHolds ==
    ASSUME IInv, [Next]_vars
    PROVE  IInv'
  <1>1. CASE UNCHANGED vars
    BY <1>1 DEF vars, IInv, TypeOK, Wired, ClaimHasHolder, Faithful, Led,
                Traced, Alone, Guarded, Owed, Heeded, RepeatsItsOwn, Engaged,
                Decisive, Saving, Unaware, Cached
  <1>2. ASSUME NEW p \in Proposer, Proceed(p)
        PROVE  IInv'
    BY <1>2, AskLiveHolds, LookUpHolds, QueryHolds, WarmHolds, ClaimHolds,
       LoseHolds, SaveHolds, CacheHolds DEF Proceed
  <1> QED
    BY <1>1, <1>2, AskHolds, MoveHolds, PublishHolds, PressHolds,
       OverrideHolds, RestartHolds DEF Next

(* The inductive invariant holds of every reachable state.                  *)
THEOREM Inductive == Spec => []IInv
  BY InitHolds, NextHolds, PTL DEF Spec

(* Shapes, for any number of contracts and calls.                           *)
THEOREM TypeCorrect == Spec => []TypeOK
  <1>1. IInv => TypeOK
    BY DEF IInv
  <1> QED BY <1>1, Inductive, PTL

(* The claim on the fingerprint never outlives the call that was given it,  *)
(* and nobody saves without it.                                             *)
THEOREM HolderSaves == Spec => []ClaimHasHolder
  <1>1. IInv => ClaimHasHolder
    BY DEF IInv
  <1> QED BY <1>1, Inductive, PTL

(* Until a record that was read from the repository comes too late, one     *)
(* fingerprint is never live, in doubt or done in two contracts.            *)
THEOREM OneDecides == Spec => []AskedOnce
  <1>1. IInv => AskedOnce
    BY DEF IInv, Led, Alone, AskedOnce, Engaged
  <1> QED BY <1>1, Inductive, PTL

(* Until then also, the fingerprint leads to the completed contract of an   *)
(* open challenge, whatever is proposed, saved and published meanwhile.     *)
THEOREM WordRepeatsItsOwn == Spec => []RepeatsItsOwn
  <1>1. IInv => RepeatsItsOwn
    BY DEF IInv
  <1> QED BY <1>1, Inductive, PTL
=============================================================================
