------------------------ MODULE ContractLedgerProofs ------------------------
(***************************************************************************)
(* Proofs about ContractLedger for any contracts and events.  What a       *)
(* handler may hold is stated over the contracts that are cached (K), that *)
(* are stored (S) and that the provider completed (D): these sets only     *)
(* grow while it works, so what was true when it read them stays true.     *)
(***************************************************************************)
EXTENDS ContractLedger, TLAPS

Working == {"enter", "capture", "get", "patch", "verify", "cache", "refresh",
            "heal", "dispatch", "answer"}

Resting == {"idle", "done"}

(* What a handler's phase says of its contract.                             *)
Wired(h, K) ==
    /\ h.pc \in {"find", "hydrate"} => h.on \in Contract
    /\ h.pc \in Working => h.on \in Contract /\ h.on \in K
    /\ h.pc \in {"get", "patch", "verify", "cache", "refresh", "heal"}
          => Persistent
    /\ h.pc = "route"
          => \A c \in Contract : h.got[c].status = "pending" => c \in K
    /\ h.pc \notin Resting
          => \A item \in h.todo : item[1] \in K /\ item[2] # "complete"
    /\ h.pc # "done" => h.told = "none"
    /\ h.pc \in Resting => h.todo = {}

(* What was looked up is stored.                                            *)
Found(h, S) ==
    /\ Persistent => \A c \in Contract : h.got[c].status # "absent" => c \in S
    /\ h.pc = "heal" => h.got[h.on].status # "absent"

(* Nothing says "completed" of a contract that the provider did not         *)
(* complete.                                                                *)
Truthful(h, D) ==
    /\ \A c \in Contract : h.got[c].status = "completed" => c \in D
    /\ h.intent = "complete" => h.on \in D
    /\ h.told = "completed" => h.on \in D

(* The retry relies on the record it was refreshed from.                    *)
Healed(h) ==
    /\ h.again => h.pc \in {"get", "patch", "verify", "cache", "answer"}
    /\ h.pc = "get" /\ h.again => h.ver = h.got[h.on].version

HandlerOK(h, K, S, D) ==
    h \in Handler /\ Wired(h, K) /\ Found(h, S) /\ Truthful(h, D) /\ Healed(h)

Kn == {c \in Contract : ram[c].status # "absent"}
Stored == {c \in Contract : air[c].status # "absent"}
Done == {c \in Contract : \E x \in ran : x.on = c /\ x.result = "complete"}

StoreOK ==
    /\ ram \in [Contract -> Entry] /\ air \in [Contract -> Entry]
    /\ ran \subseteq [by : Event, on : Contract, result : {"complete", "fail"}]
    /\ Persistent => Kn \subseteq Stored
    /\ \A c \in Contract : ram[c].status = "completed" => c \in Done
    /\ \A c \in Contract : air[c].status = "completed" => c \in Done

IInv == /\ StoreOK
        /\ op \in [Event -> Handler]
        /\ \A o \in Event : HandlerOK(op[o], Kn, Stored, Done)

-----------------------------------------------------------------------------
LEMMA NothingTyped ==
    /\ Absent \in Entry /\ Proposed \in Entry
    /\ Proposed.status = "pending"
    /\ Nothing \in [Contract -> Entry]
    /\ \A c \in Contract : Nothing[c].status = "absent"
                           /\ Nothing[c].interrupted = FALSE
  BY DEF Absent, Proposed, Entry, Status, Nothing

LEMMA FreshOK ==
    ASSUME NEW K, NEW S, NEW D
    PROVE  HandlerOK(Fresh, K, S, D)
<1>1. Fresh \in Handler
  BY NothingTyped DEF Fresh, Handler, Phase, Kind, Status, Reply
<1> QED
  BY <1>1, NothingTyped
  DEF HandlerOK, Wired, Found, Truthful, Healed, Fresh, Working, Resting

LEMMA OnlyTyped ==
    ASSUME NEW c \in Contract, NEW e \in Entry
    PROVE  /\ Only(c, e) \in [Contract -> Entry]
           /\ Only(c, e)[c] = e
           /\ \A d \in Contract : d # c => Only(c, e)[d].status = "absent"
  BY NothingTyped DEF Only

LEMMA CachedTyped ==
    ASSUME ram \in [Contract -> Entry], NEW got \in [Contract -> Entry]
    PROVE  /\ Cached(got) \in [Contract -> Entry]
           /\ \A c \in Contract : Cached(got)[c] = ram[c]
                                  \/ Cached(got)[c] = got[c]
           /\ \A c \in Contract : ram[c].status # "absent"
                                    => Cached(got)[c].status # "absent"
           /\ \A c \in Contract : got[c].status # "absent"
                                    => Cached(got)[c] = got[c]
  BY DEF Cached

LEMMA PendingTyped ==
    ASSUME NEW m \in [Contract -> Entry]
    PROVE  /\ Pending(m) \in [Contract -> Entry]
           /\ \A c \in Contract : /\ Pending(m)[c].status = "pending"
                                       => m[c].status = "pending"
                                  /\ Pending(m)[c].status # "absent"
                                       => Pending(m)[c] = m[c]
                                            /\ m[c].status = "pending"
  BY NothingTyped DEF Pending, Absent

(* What was read stays true.                                                *)
LEMMA Stays ==
    ASSUME NEW h, NEW K, NEW S, NEW D, NEW K2, NEW S2, NEW D2,
           HandlerOK(h, K, S, D),
           h.pc \in Resting \/ K \subseteq K2, S \subseteq S2, D \subseteq D2
    PROVE  HandlerOK(h, K2, S2, D2)
<1>1. h \in Handler
  BY DEF HandlerOK
<1>2. Wired(h, K2)
  BY <1>1 DEF HandlerOK, Wired, Working, Resting
<1>3. Found(h, S2) /\ Truthful(h, D2) /\ Healed(h)
  BY DEF HandlerOK, Found, Truthful
<1> QED
  BY <1>1, <1>2, <1>3 DEF HandlerOK

LEMMA ToldOK ==
    ASSUME NEW h, NEW K, NEW S, NEW D, HandlerOK(h, K, S, D),
           NEW t \in Reply, t = "completed" => h.on \in D
    PROVE  HandlerOK(Told(h, t), K, S, D)
<1>1. h \in Handler
  BY DEF HandlerOK
<1> DEFINE n == Told(h, t)
<1>2. /\ n \in Handler
      /\ n.pc = "done" /\ n.told = t /\ n.todo = {} /\ n.again = FALSE
      /\ n.on = h.on /\ n.intent = h.intent /\ n.got = Nothing
  BY <1>1, NothingTyped DEF Told, Handler, Phase, Status
<1>3. HandlerOK(n, K, S, D)
  <2> HIDE DEF n
  <2> QED
    BY <1>2, NothingTyped
    DEF HandlerOK, Wired, Found, Truthful, Healed, Working, Resting
<1> QED
  BY <1>3

LEMMA MovedOK ==
    ASSUME NEW h, NEW K, NEW S, NEW D, HandlerOK(h, K, S, D),
           h.pc \notin Resting,
           NEW pc \in {"enter", "answer", "capture", "dispatch"},
           h.on \in Contract, h.on \in K
    PROVE  HandlerOK([h EXCEPT !.pc = pc, !.again = FALSE], K, S, D)
<1>1. h \in Handler
  BY DEF HandlerOK
<1> DEFINE n == [h EXCEPT !.pc = pc, !.again = FALSE]
<1>2. /\ n \in Handler
      /\ n.pc = pc /\ n.told = h.told /\ n.todo = h.todo /\ n.again = FALSE
      /\ n.on = h.on /\ n.intent = h.intent /\ n.got = h.got
  BY <1>1 DEF Handler, Phase
<1>3. HandlerOK(n, K, S, D)
  <2> HIDE DEF n
  <2> QED
    BY <1>2 DEF HandlerOK, Wired, Found, Truthful, Healed, Working, Resting
<1> QED
  BY <1>3

To(h, pc) == [h EXCEPT !.pc = pc]

LEMMA ToOK ==
    ASSUME NEW h, NEW K, NEW S, NEW D, HandlerOK(h, K, S, D),
           h.pc \notin Resting, h.on \in Contract, h.on \in K,
           NEW pc \in {"enter", "capture", "patch", "verify", "answer"},
           pc \in {"patch", "verify"} => Persistent,
           h.again => pc \notin {"enter", "capture"}
    PROVE  HandlerOK(To(h, pc), K, S, D)
<1>1. h \in Handler
  BY DEF HandlerOK
<1> DEFINE n == To(h, pc)
<1>2. /\ n \in Handler
      /\ n.pc = pc /\ n.told = h.told /\ n.todo = h.todo
      /\ n.again = h.again
      /\ n.on = h.on /\ n.intent = h.intent /\ n.got = h.got
  BY <1>1 DEF Handler, Phase, To
<1>3. HandlerOK(n, K, S, D)
  <2> HIDE DEF n
  <2> QED
    BY <1>2 DEF HandlerOK, Wired, Found, Truthful, Healed, Working, Resting
<1> QED
  BY <1>3

Handed(h, pc, got) == [h EXCEPT !.pc = pc, !.got = got]

(* A handler with a new record in its hands.                                *)
LEMMA HandedOK ==
    ASSUME NEW h, NEW K, NEW S, NEW D, HandlerOK(h, K, S, D),
           h.pc \notin Resting,
           NEW pc \in {"hydrate", "recover", "route", "cache", "heal"},
           h.again => pc = "cache",
           NEW got \in [Contract -> Entry],
           pc \in {"hydrate", "cache", "heal"} => h.on \in Contract,
           pc \in {"cache", "heal"} => Persistent /\ h.on \in K,
           pc = "heal" => got[h.on].status # "absent",
           pc = "route"
             => \A c \in Contract : got[c].status = "pending" => c \in K,
           Persistent => \A c \in Contract : got[c].status # "absent" => c \in S,
           \A c \in Contract : got[c].status = "completed" => c \in D
    PROVE  HandlerOK(Handed(h, pc, got), K, S, D)
<1>1. h \in Handler
  BY DEF HandlerOK
<1> DEFINE n == Handed(h, pc, got)
<1>2. /\ n \in Handler
      /\ n.pc = pc /\ n.told = h.told /\ n.todo = h.todo
      /\ n.again = h.again
      /\ n.on = h.on /\ n.intent = h.intent /\ n.got = got
  BY <1>1 DEF Handler, Phase, Handed
<1>3. HandlerOK(n, K, S, D)
  <2> HIDE DEF n
  <2> QED
    BY <1>2 DEF HandlerOK, Wired, Found, Truthful, Healed, Working, Resting
<1> QED
  BY <1>3

Sent(h, pc, c, i) == [h EXCEPT !.pc = pc, !.on = c, !.intent = i,
                               !.got = Nothing]

(* A handler that was given a contract to work on.                          *)
LEMMA SentOK ==
    ASSUME NEW h, NEW K, NEW S, NEW D, HandlerOK(h, K, S, D),
           h.pc \notin Resting, ~h.again,
           NEW pc \in {"find", "capture"}, NEW c \in Contract,
           pc = "capture" => c \in K,
           NEW i \in Intent, i # "complete"
    PROVE  HandlerOK(Sent(h, pc, c, i), K, S, D)
<1>1. h \in Handler
  BY DEF HandlerOK
<1> DEFINE n == Sent(h, pc, c, i)
<1>2. /\ n \in Handler
      /\ n.pc = pc /\ n.told = h.told /\ n.todo = h.todo
      /\ n.again = h.again
      /\ n.on = c /\ n.intent = i /\ n.got = Nothing
  BY <1>1, NothingTyped DEF Handler, Phase, Sent
<1>3. HandlerOK(n, K, S, D)
  <2> HIDE DEF n
  <2> QED
    BY <1>2, NothingTyped
    DEF HandlerOK, Wired, Found, Truthful, Healed, Working, Resting
<1> QED
  BY <1>3

Listing(h, pc, todo) == [h EXCEPT !.pc = pc, !.todo = todo, !.got = Nothing]

(* A handler that was given a list of contracts.                            *)
LEMMA ListingOK ==
    ASSUME NEW h, NEW K, NEW S, NEW D, HandlerOK(h, K, S, D),
           h.pc \notin Resting, ~h.again,
           NEW pc \in {"next", "route"},
           NEW todo \in SUBSET (Contract \X Intent),
           \A item \in todo : item[1] \in K /\ item[2] # "complete"
    PROVE  HandlerOK(Listing(h, pc, todo), K, S, D)
<1>1. h \in Handler
  BY DEF HandlerOK
<1> DEFINE n == Listing(h, pc, todo)
<1>2. /\ n \in Handler
      /\ n.pc = pc /\ n.told = h.told /\ n.todo = todo
      /\ n.again = h.again
      /\ n.on = h.on /\ n.intent = h.intent /\ n.got = Nothing
  BY <1>1, NothingTyped DEF Handler, Phase, Listing
<1>3. HandlerOK(n, K, S, D)
  <2> HIDE DEF n
  <2> QED
    BY <1>2, NothingTyped
    DEF HandlerOK, Wired, Found, Truthful, Healed, Working, Resting
<1> QED
  BY <1>3

LEMMA LoopedOK ==
    ASSUME NEW h, NEW K, NEW S, NEW D, HandlerOK(h, K, S, D),
           h.pc \notin Resting, NEW t \in {"rejected", "none"}
    PROVE  HandlerOK(Looped(h, t), K, S, D)
<1>1. h \in Handler
  BY DEF HandlerOK
<1>2. CASE h.todo = {}
  BY <1>2, ToldOK DEF Looped, Reply, Status
<1>3. CASE h.todo # {}
  <2> DEFINE n == [h EXCEPT !.pc = "next", !.again = FALSE]
  <2>1. /\ n \in Handler
        /\ n.pc = "next" /\ n.told = h.told /\ n.todo = h.todo
        /\ n.again = FALSE
        /\ n.on = h.on /\ n.intent = h.intent /\ n.got = h.got
    BY <1>1 DEF Handler, Phase
  <2>2. Looped(h, t) = n
    BY <1>3 DEF Looped
  <2> HIDE DEF n
  <2> QED
    BY <2>1, <2>2 DEF HandlerOK, Wired, Found, Truthful, Healed, Working, Resting
<1> QED
  BY <1>2, <1>3

LEMMA SavedOK ==
    ASSUME NEW h, NEW K, NEW S, NEW D, HandlerOK(h, K, S, D),
           h.pc \in Working
    PROVE  HandlerOK(Saved(h), K, S, D)
<1>1. h.on \in Contract /\ h.on \in K /\ h.pc \notin Resting
  BY DEF HandlerOK, Wired, Working, Resting
<1>2. \/ Saved(h) = [h EXCEPT !.pc = "dispatch", !.again = FALSE]
      \/ Saved(h) = Told(h, "asked")
      \/ Saved(h) = Looped(h, "rejected")
      \/ Saved(h) = Looped(h, "none")
      \/ Saved(h) = To(h, "answer")
  BY DEF Saved, To
<1>3. HandlerOK([h EXCEPT !.pc = "dispatch", !.again = FALSE], K, S, D)
  BY <1>1, MovedOK
<1>4. HandlerOK(Told(h, "asked"), K, S, D)
  BY ToldOK DEF Reply
<1>5. HandlerOK(Looped(h, "rejected"), K, S, D)
      /\ HandlerOK(Looped(h, "none"), K, S, D)
  BY <1>1, LoopedOK
<1>6. HandlerOK(To(h, "answer"), K, S, D)
  BY <1>1, ToOK
<1> QED
  BY <1>2, <1>3, <1>4, <1>5, <1>6

LEMMA RaisedOK ==
    ASSUME NEW h, NEW K, NEW S, NEW D, HandlerOK(h, K, S, D),
           h.pc \in Working
    PROVE  HandlerOK(Raised(h), K, S, D)
<1> DEFINE n == [Fresh EXCEPT !.pc = "route", !.kind = "fallback"]
<1>1. h.on \in Contract /\ h.on \in K /\ h.pc \notin Resting
  BY DEF HandlerOK, Wired, Working, Resting
<1>2. \/ Raised(h) = n
      \/ Raised(h) = Told(h, "none")
      \/ Raised(h) = Told(h, "not_saved")
      \/ Raised(h) = To(h, "answer")
  BY DEF Raised, To
<1>3. HandlerOK(n, K, S, D)
  <2>1. Fresh \in Handler
    BY FreshOK DEF HandlerOK
  <2>2. /\ n \in Handler
        /\ n.pc = "route" /\ n.told = "none" /\ n.todo = {} /\ n.again = FALSE
        /\ n.intent = "none" /\ n.got = Nothing
    BY <2>1 DEF Fresh, Handler, Phase, Kind
  <2> HIDE DEF n
  <2> QED
    BY <2>2, NothingTyped
    DEF HandlerOK, Wired, Found, Truthful, Healed, Working, Resting
<1> QED
  BY <1>1, <1>2, <1>3, ToldOK, ToOK DEF Reply

LEMMA ConflictedOK ==
    ASSUME NEW h, NEW K, NEW S, NEW D, HandlerOK(h, K, S, D),
           h.pc \in {"get", "verify"}
    PROVE  HandlerOK(Conflicted(h), K, S, D)
<1>0. h.pc \in Working
  BY DEF Working
<1>1. CASE h.again
  BY <1>0, <1>1, RaisedOK DEF Conflicted
<1>2. CASE ~h.again
  <2>1. h \in Handler
    BY DEF HandlerOK
  <2> DEFINE n == [h EXCEPT !.pc = "refresh"]
  <2>2. /\ n \in Handler
        /\ n.pc = "refresh" /\ n.told = h.told /\ n.todo = h.todo
        /\ n.again = h.again
        /\ n.on = h.on /\ n.intent = h.intent /\ n.got = h.got
    BY <2>1 DEF Handler, Phase
  <2>3. Conflicted(h) = n
    BY <1>2 DEF Conflicted
  <2> HIDE DEF n
  <2> QED
    BY <1>2, <2>2, <2>3
    DEF HandlerOK, Wired, Found, Truthful, Healed, Working, Resting
<1> QED
  BY <1>1, <1>2

-----------------------------------------------------------------------------
LEMMA Initially == Init => IInv
<1> SUFFICES ASSUME Init PROVE IInv
  OBVIOUS
<1>1. StoreOK
  BY NothingTyped DEF Init, StoreOK, Kn, Stored
<1>2. \A o \in Event : op[o] = Fresh
  BY DEF Init
<1>3. \A o \in Event : HandlerOK(op[o], Kn, Stored, Done)
  BY <1>2, FreshOK
<1>4. op \in [Event -> Handler]
  BY FreshOK DEF Init, HandlerOK
<1> QED
  BY <1>1, <1>3, <1>4 DEF IInv

(* One handler goes on while the stores only grow.                          *)
LEMMA Step1 ==
    ASSUME IInv, NEW o \in Event, NEW n,
           op' = [op EXCEPT ![o] = n],
           StoreOK', Kn \subseteq Kn', Stored \subseteq Stored',
           Done \subseteq Done',
           HandlerOK(n, Kn', Stored', Done')
    PROVE  IInv'
<1>1. op \in [Event -> Handler] /\ n \in Handler
  BY DEF IInv, HandlerOK
<1>2. op' \in [Event -> Handler]
  BY <1>1
<1>3. ASSUME NEW p \in Event PROVE HandlerOK(op'[p], Kn', Stored', Done')
  <2>1. CASE p = o
    BY <1>1, <2>1
  <2>2. CASE p # o
    <3>1. op'[p] = op[p] /\ HandlerOK(op[p], Kn, Stored, Done)
      BY <1>1, <2>2 DEF IInv
    <3> QED
      BY <3>1, Stays
  <2> QED
    BY <2>1, <2>2
<1> QED
  BY <1>2, <1>3 DEF IInv

(* A step that touches neither cache, nor store, nor provider.              *)
LEMMA StepQuiet ==
    ASSUME IInv, NEW o \in Event, NEW n,
           op' = [op EXCEPT ![o] = n], UNCHANGED <<ram, air, ran>>,
           HandlerOK(n, Kn, Stored, Done)
    PROVE  IInv'
<1>1. Kn' = Kn /\ Stored' = Stored /\ Done' = Done
  BY DEF Kn, Stored, Done
<1>2. StoreOK'
  BY <1>1 DEF IInv, StoreOK
<1> QED
  BY <1>1, <1>2, Step1

(* A step that writes the cache only.                                       *)
LEMMA StepCache ==
    ASSUME IInv, NEW o \in Event, NEW n,
           op' = [op EXCEPT ![o] = n], UNCHANGED <<air, ran>>,
           ram' \in [Contract -> Entry],
           \A c \in Contract : ram[c].status # "absent"
                                 => ram'[c].status # "absent",
           \A c \in Contract : Persistent /\ ram'[c].status # "absent"
                                 => c \in Stored,
           \A c \in Contract : ram'[c].status = "completed" => c \in Done,
           HandlerOK(n, Kn', Stored, Done)
    PROVE  IInv'
<1>1. Kn \subseteq Kn' /\ Stored' = Stored /\ Done' = Done
  BY DEF Kn, Stored, Done
<1>2. StoreOK'
  BY <1>1 DEF IInv, StoreOK, Kn
<1> QED
  BY <1>1, <1>2, Step1

-----------------------------------------------------------------------------
(* The parts of the invariant at one handler.                               *)
LEMMA At ==
    ASSUME IInv, NEW o \in Event
    PROVE  /\ StoreOK
           /\ op[o] \in Handler
           /\ HandlerOK(op[o], Kn, Stored, Done)
           /\ Wired(op[o], Kn) /\ Found(op[o], Stored)
           /\ Truthful(op[o], Done) /\ Healed(op[o])
           /\ \A c \in Contract : ram[c] \in Entry /\ air[c] \in Entry
  BY DEF IInv, HandlerOK, StoreOK

LEMMA WorkingAt ==
    ASSUME IInv, NEW o \in Event, op[o].pc \in Working
    PROVE  /\ op[o].on \in Contract
           /\ ram[op[o].on].status # "absent"
           /\ op[o].on \in Kn
           /\ op[o].pc \notin Resting
  BY At DEF Wired, Kn, Working, Resting

LEMMA ProposeKeeps ==
    ASSUME IInv, NEW c \in Contract, Propose(c) PROVE IInv'
<1>0. StoreOK
  BY DEF IInv
<1>1. /\ ram' \in [Contract -> Entry]
      /\ \A d \in Contract : ram'[d] = IF d = c THEN Proposed ELSE ram[d]
  BY <1>0, NothingTyped DEF StoreOK, Propose
<1>a. /\ air' \in [Contract -> Entry]
      /\ \A d \in Contract : \/ air'[d] = air[d]
                             \/ (Persistent /\ d = c /\ air'[d] = Proposed)
      /\ Persistent => air'[c] = Proposed
  <2>1. CASE Persistent
    <3>1. air' = [air EXCEPT ![c] = Proposed]
      BY <2>1 DEF Propose
    <3> QED
      BY <1>0, <2>1, <3>1, NothingTyped DEF StoreOK
  <2>2. CASE ~Persistent
    <3>1. air' = air
      BY <2>2 DEF Propose
    <3> QED
      BY <1>0, <2>2, <3>1 DEF StoreOK
  <2> QED
    BY <2>1, <2>2
<1>2. Done' = Done
  BY DEF Done, Propose
<1>3. Kn \subseteq Kn' /\ Stored \subseteq Stored'
  BY <1>1, <1>a, NothingTyped DEF Kn, Stored
<1>4. StoreOK'
  BY <1>0, <1>1, <1>2, <1>a, NothingTyped DEF StoreOK, Kn, Stored, Propose
<1>5. \A o \in Event : HandlerOK(op[o], Kn', Stored', Done')
  BY <1>2, <1>3, Stays DEF IInv
<1> QED
  BY <1>4, <1>5 DEF IInv, Propose

Arrived(h, k, c, pc, i, m) ==
    [h EXCEPT !.kind = k, !.on = c, !.pc = pc, !.intent = i, !.marked = m]

LEMMA ArrivedTyped ==
    ASSUME NEW h \in Handler, NEW k \in Kind, NEW c \in Contract \cup {None},
           NEW pc \in {"look", "find"}, NEW i \in Intent \cup {"none"},
           NEW m \in SUBSET Contract, NEW n, n = Arrived(h, k, c, pc, i, m)
    PROVE  /\ n \in Handler
           /\ n.pc = pc /\ n.on = c /\ n.intent = i
           /\ n.told = h.told /\ n.todo = h.todo
           /\ n.again = h.again /\ n.got = h.got
  BY DEF Handler, Phase, Arrived

LEMMA ArriveKeeps ==
    ASSUME IInv, NEW o \in Event, NEW k \in Kinds,
           NEW c \in Contract \cup {None}, Arrive(o, k, c)
    PROVE  IInv'
<1> DEFINE h == op[o]
           m == IF k = "confirm" THEN Interrupted ELSE {}
           pc == IF c = None THEN "look" ELSE "find"
           i == IF c = None THEN "none" ELSE k
           n == Arrived(h, k, c, pc, i, m)
<1>1. op' = [op EXCEPT ![o] = n] /\ UNCHANGED <<ram, air, ran>>
      /\ h.pc = "idle"
  BY DEF Arrive, Arrived
<1>2. m \in SUBSET Contract
  BY DEF Interrupted
<1>3. /\ k \in Kind /\ h \in Handler
      /\ pc \in {"look", "find"}
      /\ i \in Intent \cup {"none"} /\ i # "complete"
      /\ (pc = "find" => c \in Contract)
  <2>1. k \in Kind /\ h \in Handler
    BY KindsAreKinds, At
  <2>2. c # None => c \in Contract /\ k \in {"approve", "reject"}
    BY DEF Arrive
  <2> QED
    BY <2>1, <2>2 DEF Intent
<1> HIDE DEF m, pc, i
<1>4. /\ n \in Handler
      /\ n.pc = pc /\ n.on = c /\ n.intent = i
      /\ n.told = h.told /\ n.todo = h.todo
      /\ n.again = h.again /\ n.got = h.got
  <2> HIDE DEF h
  <2> QED
    BY <1>2, <1>3, ArrivedTyped
<1>6. HandlerOK(n, Kn, Stored, Done)
  <2> HIDE DEF n
  <2> QED
    BY <1>1, <1>3, <1>4, At
    DEF HandlerOK, Wired, Found, Truthful, Healed, Working, Resting
<1> QED
  BY <1>1, <1>6, StepQuiet

-----------------------------------------------------------------------------
LEMMA FindKeeps == ASSUME IInv, NEW o \in Event, Find(o) PROVE IInv'
<1> DEFINE h == op[o]
           c == h.on
<1>0. /\ h.pc = "find" /\ UNCHANGED <<ram, air, ran>>
      /\ c \in Contract /\ h.pc \notin Resting /\ ~h.again
  BY At DEF Find, Wired, Resting, Healed
<1>1. CASE /\ Known(c)
           /\ op' = [op EXCEPT ![o] = IF c \in Live THEN To(h, "enter")
                                                    ELSE Told(h, ram[c].status)]
  <2>1. c \in Kn /\ ram[c] \in Entry
    BY <1>0, <1>1, At DEF Known, Kn
  <2>2. HandlerOK(To(h, "enter"), Kn, Stored, Done)
    BY <1>0, <2>1, At, ToOK
  <2>3. HandlerOK(Told(h, ram[c].status), Kn, Stored, Done)
    BY <1>0, <2>1, At, ToldOK DEF Entry, Reply, StoreOK
  <2> QED
    BY <1>0, <1>1, <2>2, <2>3, StepQuiet
<1>2. CASE op' = [op EXCEPT ![o] = Handed(h, "hydrate", Only(c, air[c]))]
  <2>1. /\ Only(c, air[c]) \in [Contract -> Entry]
        /\ \A d \in Contract : Only(c, air[c])[d].status = "absent"
                                 \/ Only(c, air[c])[d] = air[d]
    BY <1>0, At, OnlyTyped
  <2>2. HandlerOK(Handed(h, "hydrate", Only(c, air[c])), Kn, Stored, Done)
    BY <1>0, <2>1, At, HandedOK DEF Stored, StoreOK
  <2> QED
    BY <1>0, <1>2, <2>2, StepQuiet
<1>3. CASE op' = [op EXCEPT ![o] = Told(h, "error")]
  BY <1>0, <1>3, At, ToldOK, StepQuiet DEF Reply
<1> QED
  BY <1>1, <1>2, <1>3 DEF Find, To, Handed

(* What a handler caches was stored, and only what is completed says so.    *)
LEMMA CachedKeeps ==
    ASSUME IInv, NEW o \in Event, ram' = Cached(op[o].got), UNCHANGED <<air, ran>>
    PROVE  /\ ram' \in [Contract -> Entry]
           /\ \A c \in Contract : ram[c].status # "absent"
                                    => ram'[c].status # "absent"
           /\ \A c \in Contract : Persistent /\ ram'[c].status # "absent"
                                    => c \in Stored
           /\ \A c \in Contract : ram'[c].status = "completed" => c \in Done
           /\ Kn \subseteq Kn'
           /\ HandlerOK(op[o], Kn', Stored, Done)
<1> DEFINE g == op[o].got
<1>1. g \in [Contract -> Entry] /\ StoreOK
  BY At DEF Handler
<1>2. /\ ram' \in [Contract -> Entry]
      /\ \A c \in Contract : ram'[c] = ram[c] \/ ram'[c] = g[c]
      /\ \A c \in Contract : ram[c].status # "absent"
                               => ram'[c].status # "absent"
  BY <1>1, CachedTyped DEF StoreOK
<1>3. Kn \subseteq Kn'
  BY <1>2 DEF Kn
<1>4. \A c \in Contract : Persistent /\ ram'[c].status # "absent"
                                    => c \in Stored
  BY <1>1, <1>2, At DEF Found, StoreOK, Kn
<1>5. \A c \in Contract : ram'[c].status = "completed" => c \in Done
  BY <1>1, <1>2, At DEF Truthful, StoreOK
<1>6. HandlerOK(op[o], Kn', Stored, Done)
  BY <1>3, At, Stays
<1> QED
  BY <1>2, <1>3, <1>4, <1>5, <1>6

LEMMA HydrateKeeps == ASSUME IInv, NEW o \in Event, Hydrate(o) PROVE IInv'
<1> DEFINE h == op[o]
           e == h.got[h.on]
           n == IF e.status = "pending" THEN To(h, "enter")
                                        ELSE Told(h, e.status)
<1>0. /\ h.pc = "hydrate" /\ ram' = Cached(h.got) /\ UNCHANGED <<air, ran>>
      /\ op' = [op EXCEPT ![o] = n]
      /\ h.on \in Contract /\ h.pc \notin Resting /\ ~h.again
      /\ h.got \in [Contract -> Entry] /\ e \in Entry
  BY At DEF Hydrate, To, Wired, Resting, Healed, Handler
<1>1. HandlerOK(h, Kn', Stored, Done)
  BY <1>0, CachedKeeps
<1>2. CASE e.status = "pending"
  <2>1. h.on \in Kn'
    BY <1>0, <1>2, At, CachedTyped DEF Kn, StoreOK
  <2>2. HandlerOK(To(h, "enter"), Kn', Stored, Done)
    BY <1>0, <1>1, <2>1, ToOK
  <2> QED
    BY <1>0, <1>2, <2>2, CachedKeeps, StepCache
<1>3. CASE e.status # "pending"
  <2>1. HandlerOK(Told(h, e.status), Kn', Stored, Done)
    BY <1>0, <1>1, At, ToldOK DEF Truthful, Entry, Reply
  <2> QED
    BY <1>0, <1>3, <2>1, CachedKeeps, StepCache
<1> QED
  BY <1>2, <1>3

LEMMA LookKeeps == ASSUME IInv, NEW o \in Event, Look(o) PROVE IInv'
<1> DEFINE h == op[o]
<1>0. /\ h.pc = "look" /\ UNCHANGED <<ram, air, ran>>
      /\ h.pc \notin Resting /\ ~h.again
      /\ ram \in [Contract -> Entry] /\ air \in [Contract -> Entry]
  BY At DEF Look, Resting, Healed, StoreOK
<1>1. CASE op' = [op EXCEPT ![o] = Handed(h, "route", Pending(ram))]
  <2>1. HandlerOK(Handed(h, "route", Pending(ram)), Kn, Stored, Done)
    BY <1>0, At, PendingTyped, HandedOK DEF StoreOK, Kn
  <2> QED
    BY <1>0, <1>1, <2>1, StepQuiet
<1>2. CASE op' = [op EXCEPT ![o] = Handed(h, "recover", Pending(air))]
  <2>1. HandlerOK(Handed(h, "recover", Pending(air)), Kn, Stored, Done)
    BY <1>0, At, PendingTyped, HandedOK DEF StoreOK, Stored
  <2> QED
    BY <1>0, <1>2, <2>1, StepQuiet
<1>3. CASE op' = [op EXCEPT ![o] = Told(h, "error")]
  BY <1>0, <1>3, At, ToldOK, StepQuiet DEF Reply
<1> QED
  BY <1>1, <1>2, <1>3 DEF Look, Handed

LEMMA RecoverKeeps == ASSUME IInv, NEW o \in Event, Recover(o) PROVE IInv'
<1> DEFINE h == op[o]
           g == Pending(Cached(h.got))
<1>0. /\ h.pc = "recover" /\ ram' = Cached(h.got) /\ UNCHANGED <<air, ran>>
      /\ op' = [op EXCEPT ![o] = Handed(h, "route", g)]
      /\ h.pc \notin Resting /\ ~h.again
  BY At DEF Recover, Handed, Resting, Healed
<1>1. /\ HandlerOK(h, Kn', Stored, Done) /\ ram' \in [Contract -> Entry]
      /\ \A c \in Contract : Persistent /\ ram'[c].status # "absent"
                               => c \in Stored
      /\ \A c \in Contract : ram'[c].status = "completed" => c \in Done
  BY <1>0, CachedKeeps
<1>2. g = Pending(ram')
  BY <1>0
<1>3. /\ g \in [Contract -> Entry]
      /\ \A c \in Contract : /\ g[c].status = "pending" => c \in Kn'
                             /\ g[c].status # "absent" => g[c] = ram'[c]
  BY <1>1, <1>2, PendingTyped DEF Kn
<1> HIDE DEF g
<1>4. HandlerOK(Handed(h, "route", g), Kn', Stored, Done)
  BY <1>0, <1>1, <1>3, HandedOK
<1> QED
  BY <1>0, <1>4, CachedKeeps, StepCache

LEMMA RouteKeeps == ASSUME IInv, NEW o \in Event, Route(o) PROVE IInv'
<1> DEFINE h == op[o]
<1>0. /\ h.pc = "route" /\ UNCHANGED <<ram, air, ran>>
      /\ h.pc \notin Resting /\ ~h.again
      /\ HandlerOK(h, Kn, Stored, Done)
      /\ RouteConfirm(o) \/ RouteCancel(o) \/ RouteIngress(o)
  BY At DEF Route, Resting, Healed
<1>1. \A c \in Listed(o) : c \in Contract /\ c \in Kn
  BY <1>0, At DEF Listed, Wired
<1>2. ASSUME NEW t \in {"nothing", "listed"},
             op' = [op EXCEPT ![o] = Told(h, t)]
      PROVE  IInv'
  <2>1. HandlerOK(Told(h, t), Kn, Stored, Done)
    BY <1>0, ToldOK DEF Reply
  <2> QED
    BY <1>0, <1>2, <2>1, StepQuiet
<1>3. CASE RouteConfirm(o)
  <2>1. ASSUME NEW c \in Listed(o), NEW ask \in BOOLEAN,
               op' = [op EXCEPT ![o] =
                  Sent(h, IF ask THEN "capture" ELSE "find", c,
                       IF ask THEN "ask" ELSE "approve")]
        PROVE  IInv'
    <3>1. HandlerOK(Sent(h, "capture", c, "ask"), Kn, Stored, Done)
      BY <1>0, <1>1, SentOK DEF Intent
    <3>2. HandlerOK(Sent(h, "find", c, "approve"), Kn, Stored, Done)
      BY <1>0, <1>1, SentOK DEF Intent
    <3> QED
      BY <1>0, <2>1, <3>1, <3>2, StepQuiet
  <2>2. ASSUME NEW c \in Listed(o), NEW e \in Shown(o, c),
               op' = [op EXCEPT ![o].pc = IF e.interrupted /\ ~e.reconfirm
                                            THEN "capture" ELSE "find",
                                ![o].on = c,
                                ![o].intent = IF e.interrupted /\ ~e.reconfirm
                                                THEN "ask" ELSE "approve",
                                ![o].got = Nothing]
        PROVE  IInv'
    <3> DEFINE ask == e.interrupted /\ ~e.reconfirm
    <3>1. op' = [op EXCEPT ![o] =
                  Sent(h, IF ask THEN "capture" ELSE "find", c,
                       IF ask THEN "ask" ELSE "approve")]
      BY <2>2, At DEF Sent, IInv
    <3>2. ask \in BOOLEAN
      OBVIOUS
    <3> HIDE DEF ask
    <3> QED
      BY <2>1, <3>1, <3>2
  <2> QED
    BY <1>2, <1>3, <2>2 DEF RouteConfirm
<1>4. CASE RouteCancel(o)
  <2> DEFINE todo == Listed(o) \X {"reject"}
  <2>1. CASE op' = [op EXCEPT ![o] = Listing(h, "next", todo)]
    <3>1. /\ todo \in SUBSET (Contract \X Intent)
          /\ \A item \in todo : item[1] \in Kn /\ item[2] # "complete"
      BY <1>1 DEF Intent
    <3> HIDE DEF todo
    <3>2. HandlerOK(Listing(h, "next", todo), Kn, Stored, Done)
      BY <1>0, <3>1, ListingOK
    <3> QED
      BY <1>0, <2>1, <3>2, StepQuiet
  <2>2. CASE op' = [op EXCEPT ![o].pc = "next", ![o].todo = todo,
                              ![o].got = Nothing]
    <3>1. op' = [op EXCEPT ![o] = Listing(h, "next", todo)]
      BY <2>2, At DEF Listing, IInv
    <3> QED
      BY <2>1, <3>1
  <2> QED
    BY <1>2, <1>4, <2>2 DEF RouteCancel
<1>5. CASE RouteIngress(o)
  <2> DEFINE listed == {d \in Live : \/ h.kind = "fallback"
                                     \/ ram[d].reconfirm
                                     \/ ~ram[d].interrupted}
             marks == {<<c, IF ram[c].reconfirm THEN "supersede"
                                                ELSE "interrupt">> : c \in listed}
             m == [h EXCEPT !.todo = marks, !.got = Nothing]
  <2>1. op' = [op EXCEPT ![o] = Looped(m, "none")]
    BY <1>5 DEF RouteIngress
  <2>2. listed \subseteq Kn /\ listed \subseteq Contract
    BY DEF Live, Kn
  <2>3. /\ marks \in SUBSET (Contract \X Intent)
        /\ \A item \in marks : item[1] \in Kn /\ item[2] # "complete"
    <3> HIDE DEF listed
    <3> QED
      BY <2>2 DEF Intent
  <2> HIDE DEF marks
  <2>4. h = [h EXCEPT !.pc = "route"] /\ h \in Handler
    BY <1>0, At DEF Handler
  <2>5. m = Listing(h, "route", marks)
    BY <1>0, <2>4 DEF Listing, Handler
  <2>6. HandlerOK(m, Kn, Stored, Done)
    <3> HIDE DEF m
    <3> QED
      BY <1>0, <2>3, <2>5, ListingOK
  <2>7. m.pc \notin Resting
    BY <1>0, <2>4 DEF Handler, Resting
  <2> HIDE DEF m
  <2>8. HandlerOK(Looped(m, "none"), Kn, Stored, Done)
    BY <2>6, <2>7, LoopedOK
  <2> QED
    BY <1>0, <2>1, <2>8, StepQuiet
<1> QED
  BY <1>0, <1>3, <1>4, <1>5

Picked(h, c, i, x, pc) ==
    [h EXCEPT !.on = c, !.intent = i, !.todo = x, !.pc = pc]

LEMMA PickedTyped ==
    ASSUME NEW h \in Handler, NEW c \in Contract, NEW i \in Intent,
           NEW x \in SUBSET (Contract \X Intent),
           NEW pc \in {"enter", "capture"}, NEW n,
           n = Picked(h, c, i, x, pc)
    PROVE  /\ n \in Handler
           /\ n.pc = pc /\ n.told = h.told /\ n.todo = x
           /\ n.again = h.again /\ n.on = c /\ n.intent = i /\ n.got = h.got
  BY DEF Picked, Handler, Phase

LEMMA NextItemKeeps == ASSUME IInv, NEW o \in Event, NextItem(o) PROVE IInv'
<1> DEFINE h == op[o]
<1>0. /\ h.pc = "next" /\ UNCHANGED <<ram, air, ran>>
      /\ h.pc \notin Resting /\ ~h.again /\ h \in Handler
      /\ HandlerOK(h, Kn, Stored, Done)
  BY At DEF NextItem, Resting, Healed
<1>1. PICK item \in h.todo :
        op' = [op EXCEPT ![o].on = item[1], ![o].intent = item[2],
                         ![o].todo = @ \ {item},
                         ![o].pc = IF item[2] = "reject" THEN "enter"
                                                         ELSE "capture"]
  BY DEF NextItem
<1> DEFINE pc == IF item[2] = "reject" THEN "enter" ELSE "capture"
           x == h.todo \ {item}
           n == Picked(h, item[1], item[2], x, pc)
<1>2. /\ item[1] \in Contract /\ item[2] \in Intent
      /\ item[1] \in Kn /\ item[2] # "complete"
  BY <1>0, At DEF Handler, Wired
<1>3. x \in SUBSET (Contract \X Intent) /\ x \subseteq h.todo
  BY <1>0 DEF Handler
<1>4. pc \in {"enter", "capture"}
  OBVIOUS
<1>5. op' = [op EXCEPT ![o] = n]
  <2> HIDE DEF pc, x
  <2>1. op' = [op EXCEPT ![o].on = item[1], ![o].intent = item[2],
                         ![o].todo = x, ![o].pc = pc]
    BY <1>1 DEF pc, x
  <2> QED
    BY <2>1, At DEF Picked, IInv
<1>6. /\ n \in Handler
      /\ n.pc = pc /\ n.told = h.told /\ n.todo = x
      /\ n.again = h.again
      /\ n.on = item[1] /\ n.intent = item[2] /\ n.got = h.got
  <2> HIDE DEF pc, x
  <2> QED
    BY <1>0, <1>2, <1>3, <1>4, PickedTyped
<1>7. HandlerOK(n, Kn, Stored, Done)
  <2> HIDE DEF n, pc, x
  <2> QED
    BY <1>0, <1>2, <1>3, <1>4, <1>6
    DEF HandlerOK, Wired, Found, Truthful, Healed, Working, Resting
<1> QED
  <2> HIDE DEF n
  <2> QED
    BY <1>0, <1>5, <1>7, StepQuiet

LEMMA EnterKeeps == ASSUME IInv, NEW o \in Event, Enter(o) PROVE IInv'
<1> DEFINE h == op[o]
           c == h.on
<1>0. /\ h.pc = "enter" /\ UNCHANGED <<ram, air, ran>>
      /\ h.pc \notin Resting /\ ~h.again
      /\ HandlerOK(h, Kn, Stored, Done)
      /\ c \in Contract /\ c \in Kn /\ ram[c] \in Entry
  BY At, WorkingAt DEF Enter, Resting, Working, Healed
<1>1. CASE op' = [op EXCEPT ![o] = To(h, "capture")]
  BY <1>0, <1>1, ToOK, StepQuiet
<1>2. CASE op' = [op EXCEPT ![o] = To(h, "answer")]
  BY <1>0, <1>2, ToOK, StepQuiet
<1>3. CASE op' = [op EXCEPT ![o] = Told(h, ram[c].status)]
  <2>1. HandlerOK(Told(h, ram[c].status), Kn, Stored, Done)
    BY <1>0, At, ToldOK DEF Entry, Reply, StoreOK
  <2> QED
    BY <1>0, <1>3, <2>1, StepQuiet
<1> QED
  BY <1>1, <1>2, <1>3 DEF Enter, To

-----------------------------------------------------------------------------
LEMMA WrittenTyped ==
    ASSUME NEW e \in Entry, NEW i, NEW v \in Nat
    PROVE  /\ Written(e, i, v) \in Entry
           /\ Written(e, i, v).status = StatusAfter(i)
           /\ Written(e, i, v).version = v
           /\ StatusAfter(i) # "absent"
           /\ StatusAfter(i) = "completed" <=> i = "complete"
  BY DEF Written, Entry, StatusAfter, Status

Captured(h, e) == [h EXCEPT !.pc = "get", !.exp = e.status, !.ver = e.version]

LEMMA CaptureKeeps == ASSUME IInv, NEW o \in Event, Capture(o) PROVE IInv'
<1> DEFINE h == op[o]
           c == h.on
<1>0. /\ h.pc = "capture" /\ UNCHANGED <<air, ran>>
      /\ h.pc \notin Resting /\ ~h.again /\ h.pc \in Working
      /\ HandlerOK(h, Kn, Stored, Done) /\ h \in Handler
      /\ c \in Contract /\ c \in Kn /\ ram[c] \in Entry
      /\ ram \in [Contract -> Entry]
  BY At, WorkingAt DEF Capture, Resting, Working, Healed, StoreOK
<1>1. CASE Persistent
  <2> DEFINE n == Captured(h, ram[c])
  <2>1. ram' = ram /\ op' = [op EXCEPT ![o] = n]
    <3>1. /\ ram' = ram
          /\ op' = [op EXCEPT ![o].pc = "get", ![o].exp = ram[c].status,
                              ![o].ver = ram[c].version]
      BY <1>1 DEF Capture
    <3> QED
      BY <3>1, At DEF Captured, IInv
  <2>2. /\ n \in Handler
        /\ n.pc = "get" /\ n.told = h.told /\ n.todo = h.todo
        /\ n.again = h.again
        /\ n.on = h.on /\ n.intent = h.intent /\ n.got = h.got
    BY <1>0 DEF Captured, Handler, Phase, Entry
  <2>3. HandlerOK(n, Kn, Stored, Done)
    <3> HIDE DEF n
    <3> QED
      BY <1>0, <1>1, <2>2
      DEF HandlerOK, Wired, Found, Truthful, Healed, Working, Resting
  <2> QED
    BY <1>0, <2>1, <2>3, StepQuiet
<1>2. CASE ~Persistent
  <2> DEFINE e == Written(ram[c], h.intent, ram[c].version)
  <2>1. ram' = [ram EXCEPT ![c] = e] /\ op' = [op EXCEPT ![o] = Saved(h)]
    BY <1>2 DEF Capture
  <2>2. /\ e \in Entry /\ e.status # "absent"
        /\ e.status = "completed" => h.intent = "complete"
    BY <1>0, WrittenTyped DEF Entry
  <2> HIDE DEF e
  <2>3. /\ ram' \in [Contract -> Entry]
        /\ \A d \in Contract : ram'[d] = IF d = c THEN e ELSE ram[d]
    BY <1>0, <2>1, <2>2
  <2>4. /\ \A d \in Contract : ram[d].status # "absent"
                                 => ram'[d].status # "absent"
        /\ \A d \in Contract : ram'[d].status = "completed" => d \in Done
        /\ Kn \subseteq Kn'
    BY <1>0, <2>2, <2>3, At DEF Truthful, StoreOK, Kn
  <2>5. HandlerOK(Saved(h), Kn', Stored, Done)
    BY <1>0, <2>4, SavedOK, Stays
  <2> QED
    BY <1>0, <1>2, <2>1, <2>3, <2>4, <2>5, StepCache
<1> QED
  BY <1>1, <1>2

LEMMA GetKeeps == ASSUME IInv, NEW o \in Event, Get(o) PROVE IInv'
<1> DEFINE h == op[o]
           c == h.on
<1>0. /\ h.pc = "get" /\ UNCHANGED <<ram, air, ran>>
      /\ h.pc \notin Resting /\ h.pc \in Working
      /\ HandlerOK(h, Kn, Stored, Done) /\ Persistent
      /\ c \in Contract /\ c \in Kn /\ air[c] \in Entry
  BY At, WorkingAt DEF Get, Resting, Working, Wired
<1>1. CASE op' = [op EXCEPT ![o] = Handed(h, "cache", Only(c, air[c]))]
  <2>1. /\ Only(c, air[c]) \in [Contract -> Entry]
        /\ \A d \in Contract : \/ Only(c, air[c])[d].status = "absent"
                               \/ Only(c, air[c])[d] = air[d]
    BY <1>0, OnlyTyped
  <2>2. HandlerOK(Handed(h, "cache", Only(c, air[c])), Kn, Stored, Done)
    BY <1>0, <2>1, At, HandedOK DEF Stored, StoreOK
  <2> QED
    BY <1>0, <1>1, <2>2, StepQuiet
<1>2. CASE op' = [op EXCEPT ![o] = To(h, "patch")]
  BY <1>0, <1>2, ToOK, StepQuiet
<1>3. CASE op' = [op EXCEPT ![o] = Conflicted(h)]
  BY <1>0, <1>3, ConflictedOK, StepQuiet
<1>4. CASE op' = [op EXCEPT ![o] = Raised(h)]
  BY <1>0, <1>4, RaisedOK, StepQuiet
<1> QED
  BY <1>1, <1>2, <1>3, <1>4 DEF Get, Handed, To

LEMMA PatchKeeps == ASSUME IInv, NEW o \in Event, Patch(o) PROVE IInv'
<1> DEFINE h == op[o]
           c == h.on
           e == Written(air[c], h.intent, h.ver + 1)
<1>0. /\ h.pc = "patch" /\ UNCHANGED <<ram, ran>>
      /\ h.pc \notin Resting /\ h.pc \in Working
      /\ HandlerOK(h, Kn, Stored, Done) /\ Persistent /\ h.ver \in Nat
      /\ c \in Contract /\ c \in Kn /\ air[c] \in Entry
      /\ air \in [Contract -> Entry]
  BY At, WorkingAt DEF Patch, Resting, Working, Wired, Handler, StoreOK
<1>1. /\ e \in Entry /\ e.status # "absent"
      /\ e.status = "completed" => h.intent = "complete"
  BY <1>0, WrittenTyped
<1>2. air' = air \/ air' = [air EXCEPT ![c] = e]
  BY DEF Patch
<1> HIDE DEF e
<1>3. /\ air' \in [Contract -> Entry]
      /\ \A d \in Contract : air'[d] = air[d] \/ (d = c /\ air'[d] = e)
  BY <1>0, <1>1, <1>2
<1>4. Kn' = Kn /\ Done' = Done /\ Stored \subseteq Stored'
  BY <1>0, <1>1, <1>3 DEF Kn, Done, Stored
<1>5. StoreOK'
  BY <1>0, <1>1, <1>3, <1>4, At DEF StoreOK, Truthful
<1>6. HandlerOK(h, Kn, Stored', Done)
  BY <1>0, <1>4, Stays
<1>7. op' = [op EXCEPT ![o] = To(h, "verify")] \/ op' = [op EXCEPT ![o] = Raised(h)]
  BY DEF Patch, To
<1>8. HandlerOK(To(h, "verify"), Kn, Stored', Done)
  BY <1>0, <1>6, ToOK
<1>9. HandlerOK(Raised(h), Kn, Stored', Done)
  BY <1>0, <1>6, RaisedOK
<1> QED
  BY <1>4, <1>5, <1>7, <1>8, <1>9, Step1

LEMMA VerifyKeeps == ASSUME IInv, NEW o \in Event, Verify(o) PROVE IInv'
<1> DEFINE h == op[o]
           c == h.on
<1>0. /\ h.pc = "verify" /\ UNCHANGED <<ram, air, ran>>
      /\ h.pc \notin Resting /\ h.pc \in Working
      /\ HandlerOK(h, Kn, Stored, Done) /\ Persistent
      /\ c \in Contract /\ c \in Kn /\ air[c] \in Entry
  BY At, WorkingAt DEF Verify, Resting, Working, Wired
<1>1. CASE op' = [op EXCEPT ![o] = Handed(h, "cache", Only(c, air[c]))]
  <2>1. /\ Only(c, air[c]) \in [Contract -> Entry]
        /\ \A d \in Contract : \/ Only(c, air[c])[d].status = "absent"
                               \/ Only(c, air[c])[d] = air[d]
    BY <1>0, OnlyTyped
  <2>2. HandlerOK(Handed(h, "cache", Only(c, air[c])), Kn, Stored, Done)
    BY <1>0, <2>1, At, HandedOK DEF Stored, StoreOK
  <2> QED
    BY <1>0, <1>1, <2>2, StepQuiet
<1>2. CASE op' = [op EXCEPT ![o] = Conflicted(h)]
  BY <1>0, <1>2, ConflictedOK, StepQuiet
<1>3. CASE op' = [op EXCEPT ![o] = Raised(h)]
  BY <1>0, <1>3, RaisedOK, StepQuiet
<1> QED
  BY <1>1, <1>2, <1>3 DEF Verify, Handed

LEMMA CacheKeeps == ASSUME IInv, NEW o \in Event, Cache(o) PROVE IInv'
<1> DEFINE h == op[o]
<1>0. /\ h.pc = "cache" /\ ram' = Cached(h.got) /\ UNCHANGED <<air, ran>>
      /\ op' = [op EXCEPT ![o] = Saved(h)] /\ h.pc \in Working
  BY DEF Cache, Working
<1>1. HandlerOK(Saved(h), Kn', Stored, Done)
  BY <1>0, CachedKeeps, SavedOK
<1> QED
  BY <1>0, <1>1, CachedKeeps, StepCache

LEMMA RefreshKeeps == ASSUME IInv, NEW o \in Event, Refresh(o) PROVE IInv'
<1> DEFINE h == op[o]
           c == h.on
<1>0. /\ h.pc = "refresh" /\ UNCHANGED <<ram, air, ran>>
      /\ h.pc \notin Resting /\ h.pc \in Working /\ ~h.again
      /\ HandlerOK(h, Kn, Stored, Done) /\ Persistent
      /\ c \in Contract /\ c \in Kn /\ air[c] \in Entry
      /\ air[c].status # "absent"
  BY At, WorkingAt DEF Refresh, Resting, Working, Wired, Healed, StoreOK, Stored
<1>1. CASE op' = [op EXCEPT ![o] = Handed(h, "heal", Only(c, air[c]))]
  <2>1. /\ Only(c, air[c]) \in [Contract -> Entry]
        /\ Only(c, air[c])[c] = air[c]
        /\ \A d \in Contract : \/ Only(c, air[c])[d].status = "absent"
                               \/ Only(c, air[c])[d] = air[d]
    BY <1>0, OnlyTyped
  <2>2. HandlerOK(Handed(h, "heal", Only(c, air[c])), Kn, Stored, Done)
    BY <1>0, <2>1, At, HandedOK DEF Stored, StoreOK
  <2> QED
    BY <1>0, <1>1, <2>2, StepQuiet
<1>2. CASE op' = [op EXCEPT ![o] = Raised(h)]
  BY <1>0, <1>2, RaisedOK, StepQuiet
<1> QED
  BY <1>1, <1>2 DEF Refresh, Handed

Retrying(h, v) == [h EXCEPT !.pc = "get", !.again = TRUE, !.ver = v]

LEMMA HealKeeps == ASSUME IInv, NEW o \in Event, Heal(o) PROVE IInv'
<1> DEFINE h == op[o]
           c == h.on
           g == h.got[c]
           n == Retrying(h, g.version)
<1>0. /\ h.pc = "heal" /\ UNCHANGED <<air, ran>>
      /\ h.pc \notin Resting /\ h.pc \in Working
      /\ HandlerOK(h, Kn, Stored, Done) /\ Persistent /\ h \in Handler
      /\ c \in Contract /\ c \in Kn /\ ram[c] \in Entry
      /\ g \in Entry /\ g.status # "absent"
      /\ ram \in [Contract -> Entry]
  BY At, WorkingAt
  DEF Heal, Resting, Working, Wired, Found, Handler, StoreOK
<1>1. /\ ram' = [ram EXCEPT ![c].status = g.status, ![c].version = g.version]
      /\ op' = [op EXCEPT ![o] = n]
  <2>1. op' = [op EXCEPT ![o].pc = "get", ![o].again = TRUE,
                         ![o].ver = g.version]
    BY DEF Heal
  <2> QED
    BY <2>1, At DEF Heal, Retrying, IInv
<1>2. /\ ram' \in [Contract -> Entry]
      /\ ram'[c].status = g.status
      /\ \A d \in Contract : d # c => ram'[d] = ram[d]
  <2>1. ASSUME NEW e \in Entry,
               ram' = [ram EXCEPT ![c] = [e EXCEPT !.status = g.status,
                                                   !.version = g.version]]
        PROVE  /\ ram' \in [Contract -> Entry]
               /\ ram'[c].status = g.status
               /\ \A d \in Contract : d # c => ram'[d] = ram[d]
    <3>1. /\ [e EXCEPT !.status = g.status, !.version = g.version] \in Entry
          /\ [e EXCEPT !.status = g.status, !.version = g.version].status
               = g.status
      BY <1>0 DEF Entry
    <3> QED
      BY <1>0, <2>1, <3>1
  <2>2. ram' = [ram EXCEPT ![c] = [ram[c] EXCEPT !.status = g.status,
                                                 !.version = g.version]]
    BY <1>0, <1>1
  <2> QED
    BY <1>0, <2>1, <2>2
<1>3. /\ n \in Handler
      /\ n.pc = "get" /\ n.told = h.told /\ n.todo = h.todo
      /\ n.ver = n.got[n.on].version
      /\ n.on = h.on /\ n.intent = h.intent /\ n.got = h.got
  BY <1>0 DEF Retrying, Handler, Phase, Entry
<1>4. /\ \A d \in Contract : ram[d].status # "absent"
                               => ram'[d].status # "absent"
      /\ \A d \in Contract : Persistent /\ ram'[d].status # "absent"
                               => d \in Stored
      /\ \A d \in Contract : ram'[d].status = "completed" => d \in Done
      /\ Kn \subseteq Kn'
  BY <1>0, <1>2, At DEF Truthful, Found, StoreOK, Kn
<1>5. HandlerOK(n, Kn, Stored, Done)
  <2> HIDE DEF n
  <2> QED
    BY <1>0, <1>3
    DEF HandlerOK, Wired, Found, Truthful, Healed, Working, Resting
<1>6. HandlerOK(n, Kn', Stored, Done)
  BY <1>4, <1>5, Stays
<1> QED
  BY <1>0, <1>1, <1>2, <1>4, <1>6, StepCache
-----------------------------------------------------------------------------
Ran(h, i) == [h EXCEPT !.pc = "capture", !.intent = i]

LEMMA DispatchKeeps == ASSUME IInv, NEW o \in Event, Dispatch(o) PROVE IInv'
<1> DEFINE h == op[o]
           c == h.on
<1>0. /\ h.pc = "dispatch" /\ UNCHANGED <<ram, air>>
      /\ h.pc \notin Resting /\ ~h.again /\ h \in Handler
      /\ HandlerOK(h, Kn, Stored, Done)
      /\ c \in Contract /\ c \in Kn
  BY At, WorkingAt DEF Dispatch, Resting, Working, Healed
<1>1. CASE ran' = ran /\ op' = [op EXCEPT ![o].pc = "answer"]
  <2>1. op' = [op EXCEPT ![o] = To(h, "answer")]
    BY <1>1, At DEF To, IInv
  <2> QED
    BY <1>0, <1>1, <2>1, ToOK, StepQuiet
<1>2. ASSUME NEW s \in {"complete", "fail"},
             ran' = ran \cup {[by |-> o, on |-> c, result |-> s]},
             op' = [op EXCEPT ![o].pc = "capture", ![o].intent = Outcome(s)]
      PROVE  IInv'
  <2> DEFINE n == Ran(h, s)
  <2>1. op' = [op EXCEPT ![o] = n]
    BY <1>2, At DEF Ran, Outcome, IInv
  <2>2. /\ n \in Handler /\ n.pc = "capture" /\ n.told = h.told
        /\ n.todo = h.todo /\ n.again = h.again /\ n.on = h.on
        /\ n.intent = s /\ n.got = h.got
    BY <1>0 DEF Ran, Handler, Phase, Intent
  <2>3. Kn' = Kn /\ Stored' = Stored /\ Done \subseteq Done'
    BY <1>0, <1>2 DEF Kn, Stored, Done
  <2>4. s = "complete" => c \in Done'
    <3> DEFINE r == [by |-> o, on |-> c, result |-> s]
    <3>1. r \in ran' /\ r.on = c /\ r.result = s
      BY <1>2
    <3> HIDE DEF r
    <3> QED
      BY <1>0, <3>1 DEF Done
  <2>5. StoreOK'
    BY <1>0, <1>2, <2>3, At DEF StoreOK
  <2>6. HandlerOK(h, Kn', Stored', Done')
    BY <1>0, <2>3, Stays
  <2>7. HandlerOK(n, Kn', Stored', Done')
    <3> HIDE DEF n
    <3> QED
      BY <1>0, <2>2, <2>3, <2>4, <2>6
      DEF HandlerOK, Wired, Found, Truthful, Healed, Working, Resting
  <2> QED
    <3> HIDE DEF n
    <3> QED
      BY <2>1, <2>3, <2>5, <2>7, Step1
<1> QED
  BY <1>1, <1>2 DEF Dispatch

LEMMA AnswerKeeps == ASSUME IInv, NEW o \in Event, Answer(o) PROVE IInv'
<1> DEFINE h == op[o]
           c == h.on
<1>0. /\ h.pc = "answer" /\ UNCHANGED <<ram, air, ran>>
      /\ HandlerOK(h, Kn, Stored, Done)
      /\ c \in Contract /\ ram[c] \in Entry
  BY At, WorkingAt DEF Answer, Resting, Working
<1>1. HandlerOK(Told(h, ram[c].status), Kn, Stored, Done)
  BY <1>0, At, ToldOK DEF Entry, Reply, StoreOK
<1>2. op' = [op EXCEPT ![o] = Told(h, ram[c].status)]
  BY DEF Answer
<1> QED
  BY <1>0, <1>1, <1>2, StepQuiet

LEMMA RestartKeeps == ASSUME IInv, Restart PROVE IInv'
<1>1. /\ ram' = Nothing /\ UNCHANGED <<air, ran>>
      /\ op' = [o \in Event |-> IF op[o].pc \in {"idle", "done"} THEN op[o]
                                ELSE Told(op[o], "error")]
  BY DEF Restart
<1>2. Stored' = Stored /\ Done' = Done
  BY <1>1 DEF Stored, Done
<1>3. StoreOK'
  BY <1>1, <1>2, NothingTyped DEF IInv, StoreOK, Kn
<1>4. ASSUME NEW o \in Event PROVE HandlerOK(op'[o], Kn', Stored', Done')
  <2>1. HandlerOK(op[o], Kn, Stored, Done)
    BY DEF IInv
  <2>2. CASE op[o].pc \in Resting
    BY <1>1, <1>2, <2>1, <2>2, Stays DEF Resting
  <2>3. CASE op[o].pc \notin Resting
    <3>1. op'[o] = Told(op[o], "error")
      BY <1>1, <2>3 DEF Resting
    <3>2. HandlerOK(Told(op[o], "error"), Kn, Stored, Done)
      BY <2>1, ToldOK DEF Reply
    <3>3. Told(op[o], "error").pc \in Resting
      BY <2>1 DEF HandlerOK, Handler, Told, Resting
    <3> QED
      BY <1>2, <3>1, <3>2, <3>3, Stays
  <2> QED
    BY <2>2, <2>3
<1>5. op' \in [Event -> Handler]
  BY <1>1, <1>4 DEF HandlerOK
<1> QED
  BY <1>3, <1>4, <1>5 DEF IInv

LEMMA NextKeeps == IInv /\ [Next]_vars => IInv'
<1> SUFFICES ASSUME IInv, [Next]_vars PROVE IInv'
  OBVIOUS
<1>1. CASE UNCHANGED vars
  BY <1>1
  DEF vars, IInv, StoreOK, Kn, Stored, Done
<1>2. ASSUME NEW c \in Contract, Propose(c) PROVE IInv'
  BY <1>2, ProposeKeeps
<1>3. ASSUME NEW o \in Event, NEW k \in Kinds, NEW c \in Contract \cup {None},
             Arrive(o, k, c)
      PROVE  IInv'
  BY <1>3, ArriveKeeps
<1>4. ASSUME NEW o \in Event, Step(o) PROVE IInv'
  BY <1>4, FindKeeps, HydrateKeeps, LookKeeps, RecoverKeeps, RouteKeeps,
     NextItemKeeps, EnterKeeps, CaptureKeeps, GetKeeps, PatchKeeps,
     VerifyKeeps, CacheKeeps, RefreshKeeps, HealKeeps, DispatchKeeps,
     AnswerKeeps
  DEF Step
<1>5. CASE Restart
  BY <1>5, RestartKeeps
<1> QED
  BY <1>1, <1>2, <1>3, <1>4, <1>5 DEF Next

(* The invariant that carries the rest: shapes, what a handler holds of its *)
(* contract, what it found, and that nothing says "completed" by itself.    *)
THEOREM Inductive == Spec => []IInv
  BY Initially, NextKeeps, PTL DEF Spec

(* The cache, the durable records and every handler keep their shapes, only *)
(* stored contracts are cached, and a handler at work on a contract has it  *)
(* in its cache (ExecutionLedger, ActionContractRepository).                *)
THEOREM TypeCorrect == Spec => []TypeOK
<1>1. IInv => TypeOK
  <2> SUFFICES ASSUME IInv PROVE TypeOK
    OBVIOUS
  <2>1. ASSUME NEW o \in Event, op[o].pc \in Working
        PROVE  op[o].on \in Contract /\ Known(op[o].on)
    BY <2>1, WorkingAt DEF Known
  <2> QED
    BY <2>1 DEF TypeOK, IInv, StoreOK, Kn, Stored, Known, Working
<1> QED
  BY <1>1, Inductive, PTL

(* Whoever is told that the action was performed is told so of an action    *)
(* the provider completed, whatever fails and however events interleave     *)
(* (ActionGateway._execute_contract, _build_reply_from_contract).           *)
THEOREM SuccessIsTrue == Spec => []SuccessWasRun
<1>1. IInv => SuccessWasRun
  BY At DEF SuccessWasRun, Truthful, Done
<1> QED
  BY <1>1, Inductive, PTL

(* When lookups answer and the process lives on, the one retry of           *)
(* ExecutionLedger.update_status gives up only on a record that really      *)
(* moved or a status the caller did not rely on.                            *)
THEOREM ConflictIsReal ==
    ASSUME "lookup" \notin Faults, "restart" \notin Faults
    PROVE  Spec => RetryHeals
<1>1. IInv /\ [Next]_vars
        => [\A o \in Event :
              LET c == op[o].on
              IN  /\ op[o].pc = "get" /\ op[o].again
                  /\ op'[o].pc \notin {"get", "patch", "cache"}
                  => \/ air[c] # op[o].got[c]
                     \/ air[c].status # op[o].exp
                     \/ ~Valid(o)]_vars
  <2> SUFFICES ASSUME IInv, [Next]_vars, NEW o \in Event,
                      op[o].pc = "get", op[o].again,
                      op'[o].pc \notin {"get", "patch", "cache"},
                      air[op[o].on] = op[o].got[op[o].on],
                      air[op[o].on].status = op[o].exp, Valid(o)
               PROVE  FALSE
    OBVIOUS
  <2>1. op \in [Event -> Handler] /\ op[o] \in Handler
    BY DEF IInv
  <2>2. Expected(o)
    BY At DEF Healed, Expected
  <2>3. op'[o] # op[o]
    BY DEF vars
  <2>4. ASSUME NEW p \in Event, p # o, Step(p) PROVE op'[o] = op[o]
    BY <2>1, <2>4
    DEF Step, Find, Hydrate, Look, Recover, Route, RouteConfirm, RouteCancel,
        RouteIngress, NextItem, Enter, Capture, Get, Patch, Verify, Cache,
        Refresh, Heal, Dispatch, Answer
  <2>5. Get(o)
    <3>1. ASSUME Step(o) PROVE Get(o)
      BY <3>1 DEF Step, Find, Hydrate, Look, Recover, Route, NextItem, Enter,
         Capture, Patch, Verify, Cache, Refresh, Heal, Dispatch, Answer
    <3>2. ASSUME NEW c \in Contract, Propose(c) PROVE FALSE
      BY <2>3, <3>2 DEF Propose
    <3>3. ASSUME NEW p \in Event, NEW k \in Kinds,
                 NEW c \in Contract \cup {None}, Arrive(p, k, c)
          PROVE  FALSE
      BY <2>1, <2>3, <3>3 DEF Arrive
    <3> QED
      BY <2>3, <2>4, <3>1, <3>2, <3>3 DEF Next, Restart, vars
  <2> QED
    <3>1. op' = [op EXCEPT ![o] = IF NoOp(o)
                      THEN [@ EXCEPT !.pc = "cache",
                                     !.got = Only(op[o].on, air[op[o].on])]
                      ELSE [@ EXCEPT !.pc = "patch"]]
      BY <2>2, <2>5 DEF Get
    <3> QED
      BY <2>1, <3>1 DEF Handler
<1> QED
  BY <1>1, Inductive, PTL DEF RetryHeals, Spec

-----------------------------------------------------------------------------
(* The approve lock is enough: without restarts and without interrupting    *)
(* messages no contract is run twice, with or without the durable store     *)
(* and the atomic claims, whatever the store loses or delays.  The run      *)
(* happens under the lock and after the cached status left "pending", and   *)
(* no handler ever writes "pending" back: what it looked up for the cache   *)
(* was decided by then, and a record that is still pending is as cached.    *)

Resolutions == {"approve", "reject", "confirm", "cancel"}

Locking == {"capture", "get", "patch", "verify", "cache", "refresh", "heal",
            "dispatch"}

(* The handler is inside approve(), past its lock.                          *)
Claimed(h) == h.intent \in {"approve", "complete", "fail"} /\ h.pc \in Locking

(* What a handler of a button or a word holds.                              *)
Sober(h) ==
    /\ h.pc # "idle" => h.kind \in Resolutions
    /\ h.pc \in {"look", "recover", "route"} => h.kind \in {"confirm", "cancel"}
    /\ h.pc \in {"find", "hydrate", "enter"}
         => h.intent \in {"approve", "reject"}
    /\ h.pc \in Locking => h.intent \in {"approve", "reject", "complete", "fail"}
    /\ h.pc = "dispatch" => h.intent = "approve"
    /\ \A item \in h.todo : item[2] = "reject"
    /\ \A c \in Contract : ~h.got[c].interrupted
    /\ h.pc = "recover" => \A c \in Contract : h.got[c].status = "absent"
    /\ h.pc \in {"cache", "heal"} =>
          /\ h.got[h.on].status \notin {"absent", "pending"}
          /\ \A c \in Contract \ {h.on} : h.got[c].status = "absent"

Open == {c \in Contract : air[c].status = "pending"}

(* What its phase says of the contracts that are cached (K), stored as      *)
(* pending (A) and cached as pending (L).                                   *)
Placed(h, K, A, L) ==
    /\ h.pc = "find" => h.on \in K
    /\ h.pc # "hydrate"
    /\ h.pc \in {"get", "patch"} /\ h.on \in A => h.exp = "pending" /\ h.ver = 1
    /\ h.pc \in {"verify", "cache", "refresh", "heal"} => h.on \notin A
    /\ h.pc = "dispatch" => h.on \notin L

(* A record that is pending is the one that was proposed, and so is its     *)
(* cached entry.                                                            *)
Calm ==
    /\ \A c \in Contract : ~ram[c].interrupted /\ ~air[c].interrupted
    /\ Stored \subseteq Kn
    /\ ~Persistent => Stored = {}
    /\ Open \subseteq Live
    /\ \A c \in Open : air[c].version = 1 /\ ram[c].version = 1

Locked ==
    \A o, p \in Event :
       Claimed(op[o]) /\ Claimed(op[p]) /\ op[o].on = op[p].on => o = p

(* After the run nobody is about to run the contract.                       *)
Spent ==
    \A x \in ran :
       /\ x.on \in Kn \ Live
       /\ \A o \in Event : Claimed(op[o]) /\ op[o].on = x.on
                             => op[o].intent # "approve"

SInv == /\ Calm /\ Locked /\ Spent /\ RunsOnce
        /\ \A o \in Event : Sober(op[o]) /\ Placed(op[o], Kn, Open, Live)

-----------------------------------------------------------------------------
LEMMA SoberInitially == Init => SInv
<1> SUFFICES ASSUME Init PROVE SInv
  OBVIOUS
<1>1. /\ ram = Nothing /\ air = Nothing /\ ran = {}
      /\ \A o \in Event : op[o] = Fresh
  BY DEF Init
<1>2. Calm /\ Spent /\ RunsOnce
  BY <1>1, NothingTyped
  DEF Calm, Spent, RunsOnce, Stored, Kn, Open, Live, Absent, Nothing
<1>3. /\ Fresh.pc = "idle" /\ Fresh.todo = {}
      /\ \A c \in Contract : ~Fresh.got[c].interrupted
  BY DEF Fresh, Nothing, Absent
<1>4. \A o \in Event : Sober(op[o]) /\ Placed(op[o], Kn, Open, Live)
  BY <1>1, <1>3 DEF Sober, Placed, Locking
<1>5. Locked
  BY <1>1, <1>3 DEF Locked, Claimed, Locking
<1> QED
  BY <1>2, <1>4, <1>5 DEF SInv

(* What was so for a handler stays so while the stores move on.             *)
LEMMA PlacedStays ==
    ASSUME NEW h, NEW K, NEW A, NEW L, NEW K2, NEW A2, NEW L2,
           Placed(h, K, A, L), Wired(h, K),
           K \subseteq K2, A2 \cap K \subseteq A, L2 \cap K \subseteq L
    PROVE  Placed(h, K2, A2, L2)
  BY DEF Placed, Wired, Working

(* A handler that may follow h: it takes no lock that h did not hold.       *)
Fits(n, h, K, A, L) ==
    /\ Sober(n) /\ Placed(n, K, A, L)
    /\ Claimed(n) => Claimed(h) /\ n.on = h.on /\ n.intent = h.intent

(* One handler goes on, perhaps into the lock of a live contract.           *)
LEMMA OneMoves ==
    ASSUME IInv, SInv, NEW o \in Event, NEW n,
           op' = [op EXCEPT ![o] = n], ran' = ran, Calm',
           Kn \subseteq Kn', Open' \cap Kn \subseteq Open,
           Live' \cap Kn \subseteq Live,
           \/ Fits(n, op[o], Kn', Open', Live')
           \/ /\ Sober(n) /\ Placed(n, Kn', Open', Live')
              /\ n.on \in Live'
              /\ \A p \in Event \ {o} : ~(Claimed(op[p]) /\ op[p].on = n.on)
    PROVE  SInv'
<1>1. op'[o] = n /\ \A p \in Event \ {o} : op'[p] = op[p]
  BY DEF IInv
<1>2. ASSUME NEW p \in Event
      PROVE  Sober(op'[p]) /\ Placed(op'[p], Kn', Open', Live')
  <2>1. CASE p = o
    BY <1>1, <2>1 DEF Fits
  <2>2. CASE p # o
    BY <1>1, <2>2, At, PlacedStays DEF SInv
  <2> QED
    BY <2>1, <2>2
<1>3. Locked'
  <2> SUFFICES ASSUME NEW p \in Event, NEW q \in Event, p # q,
                      Claimed(op'[p]), Claimed(op'[q]), op'[p].on = op'[q].on
               PROVE  FALSE
    BY DEF Locked
  <2>1. CASE p # o /\ q # o
    BY <1>1, <2>1 DEF SInv, Locked
  <2>2. CASE p = o
    BY <1>1, <2>2 DEF SInv, Locked, Fits
  <2>3. CASE q = o
    BY <1>1, <2>3 DEF SInv, Locked, Fits
  <2> QED
    BY <2>1, <2>2, <2>3
<1>4. Spent'
  <2> SUFFICES ASSUME NEW x \in ran
               PROVE  /\ x.on \in Kn' \ Live'
                      /\ \A p \in Event : Claimed(op'[p]) /\ op'[p].on = x.on
                                            => op'[p].intent # "approve"
    BY DEF Spent
  <2>1. x.on \in Kn' \ Live'
    BY DEF SInv, Spent
  <2>2. ASSUME NEW p \in Event, Claimed(op'[p]), op'[p].on = x.on
        PROVE  op'[p].intent # "approve"
    <3>1. CASE p = o
      BY <1>1, <2>1, <2>2, <3>1 DEF SInv, Spent, Fits
    <3>2. CASE p # o
      BY <1>1, <2>2, <3>2 DEF SInv, Spent
    <3> QED
      BY <3>1, <3>2
  <2> QED
    BY <2>1, <2>2
<1>5. RunsOnce'
  BY DEF SInv, RunsOnce
<1> QED
  BY <1>2, <1>3, <1>4, <1>5 DEF SInv

LEMMA OneMovesQuietly ==
    ASSUME IInv, SInv, NEW o \in Event, NEW n,
           op' = [op EXCEPT ![o] = n], UNCHANGED <<ram, air, ran>>,
           Fits(n, op[o], Kn, Open, Live)
    PROVE  SInv'
<1>1. Kn' = Kn /\ Open' = Open /\ Live' = Live /\ Stored' = Stored
  BY DEF Kn, Open, Live, Stored
<1>2. Calm'
  BY <1>1 DEF SInv, Calm
<1> QED
  BY <1>1, <1>2, OneMoves

-----------------------------------------------------------------------------
(* Where handlers may go.                                                   *)
LEMMA ToldFits ==
    ASSUME NEW h \in Handler, Sober(h), h.pc # "idle", NEW t,
           NEW K, NEW A, NEW L
    PROVE  Fits(Told(h, t), h, K, A, L)
<1> DEFINE n == Told(h, t)
<1>1. n.pc = "done" /\ n.kind = h.kind /\ n.todo = {} /\ n.got = Nothing
  BY DEF Told, Handler
<1>2. Fits(n, h, K, A, L)
  <2> HIDE DEF n
  <2> QED
    BY <1>1 DEF Fits, Sober, Placed, Claimed, Locking, Nothing, Absent
<1> QED
  BY <1>2

LEMMA ToFits ==
    ASSUME NEW h \in Handler, Sober(h), h.pc # "idle",
           NEW K, NEW A, NEW L, Placed(h, K, A, L),
           NEW pc \in {"enter", "answer", "patch", "verify", "refresh"},
           pc = "enter" => h.pc = "find",
           pc = "patch" => h.pc = "get",
           pc = "refresh" => h.pc \in {"get", "verify"} /\ h.on \notin A,
           pc = "verify" => h.pc = "patch" /\ h.on \notin A
    PROVE  Fits(To(h, pc), h, K, A, L)
<1> DEFINE n == To(h, pc)
<1>1. /\ n.pc = pc /\ n.kind = h.kind /\ n.on = h.on /\ n.intent = h.intent
      /\ n.todo = h.todo /\ n.got = h.got /\ n.exp = h.exp /\ n.ver = h.ver
  BY DEF To, Handler
<1>2. Fits(n, h, K, A, L)
  <2> HIDE DEF n
  <2> QED
    BY <1>1 DEF Fits, Sober, Placed, Claimed, Locking
<1> QED
  BY <1>2

LEMMA HandedFits ==
    ASSUME NEW h \in Handler, Sober(h), h.pc # "idle",
           NEW pc \in {"route", "recover", "cache", "heal"},
           NEW got, \A c \in Contract : ~got[c].interrupted,
           NEW K, NEW A, NEW L,
           pc \in {"route", "recover"} => h.pc \in {"look", "recover"},
           pc = "recover" => \A c \in Contract : got[c].status = "absent",
           pc \in {"cache", "heal"} =>
              /\ h.pc \in Locking /\ h.on \notin A
              /\ got[h.on].status \notin {"absent", "pending"}
              /\ \A c \in Contract \ {h.on} : got[c].status = "absent"
    PROVE  Fits(Handed(h, pc, got), h, K, A, L)
<1> DEFINE n == Handed(h, pc, got)
<1>1. /\ n.pc = pc /\ n.kind = h.kind /\ n.on = h.on /\ n.intent = h.intent
      /\ n.todo = h.todo /\ n.got = got
  BY DEF Handed, Handler
<1>2. Fits(n, h, K, A, L)
  <2> HIDE DEF n
  <2> QED
    BY <1>1 DEF Fits, Sober, Placed, Claimed, Locking
<1> QED
  BY <1>2

LEMMA LoopedFits ==
    ASSUME NEW h \in Handler, Sober(h), h.pc # "idle", NEW t,
           NEW K, NEW A, NEW L
    PROVE  Fits(Looped(h, t), h, K, A, L)
<1>1. CASE h.todo = {}
  BY <1>1, ToldFits DEF Looped
<1>2. CASE h.todo # {}
  <2> DEFINE n == [h EXCEPT !.pc = "next", !.again = FALSE]
  <2>1. /\ n.pc = "next" /\ n.kind = h.kind /\ n.on = h.on
        /\ n.intent = h.intent /\ n.todo = h.todo /\ n.got = h.got
    BY DEF Handler
  <2>2. Looped(h, t) = n
    BY <1>2 DEF Looped
  <2> HIDE DEF n
  <2> QED
    BY <2>1, <2>2 DEF Fits, Sober, Placed, Claimed, Locking
<1> QED
  BY <1>1, <1>2

LEMMA SavedFits ==
    ASSUME NEW h \in Handler, Sober(h), h.pc \in Locking,
           NEW K, NEW A, NEW L, Placed(h, K, A, L), h.on \notin L
    PROVE  Fits(Saved(h), h, K, A, L)
<1> DEFINE n == [h EXCEPT !.pc = "dispatch", !.again = FALSE]
<1>1. \/ Saved(h) = n /\ h.intent = "approve"
      \/ Saved(h) = Looped(h, "rejected")
      \/ Saved(h) = To(h, "answer")
  <2>1. h.intent \notin {"ask", "interrupt", "supersede"}
    BY DEF Sober
  <2> QED
    BY <2>1 DEF Saved, To
<1>2. /\ n.pc = "dispatch" /\ n.kind = h.kind /\ n.on = h.on
      /\ n.intent = h.intent /\ n.todo = h.todo /\ n.got = h.got
  BY DEF Handler
<1>3. h.intent = "approve" => Fits(n, h, K, A, L)
  <2> HIDE DEF n
  <2> QED
    BY <1>2 DEF Fits, Sober, Placed, Claimed, Locking
<1>4. Fits(Looped(h, "rejected"), h, K, A, L) /\ Fits(To(h, "answer"), h, K, A, L)
  BY LoopedFits, ToFits DEF Locking
<1> HIDE DEF n
<1> QED
  BY <1>1, <1>3, <1>4

LEMMA RaisedFits ==
    ASSUME NEW h \in Handler, Sober(h), h.pc \in Locking,
           NEW K, NEW A, NEW L, Placed(h, K, A, L)
    PROVE  Fits(Raised(h), h, K, A, L)
<1>1. \/ Raised(h) = Told(h, "not_saved")
      \/ Raised(h) = To(h, "answer")
  BY DEF Raised, To, Sober, Locking, Resolutions
<1> QED
  BY <1>1, ToldFits, ToFits DEF Locking

LEMMA ConflictedFits ==
    ASSUME NEW h \in Handler, Sober(h), h.pc \in {"get", "verify"},
           NEW K, NEW A, NEW L, Placed(h, K, A, L), h.on \notin A
    PROVE  Fits(Conflicted(h), h, K, A, L)
<1>1. CASE h.again
  BY <1>1, RaisedFits DEF Conflicted, Locking
<1>2. CASE ~h.again
  <2>1. Conflicted(h) = To(h, "refresh")
    BY <1>2 DEF Conflicted, To
  <2> QED
    BY <2>1, ToFits
<1> QED
  BY <1>1, <1>2
-----------------------------------------------------------------------------
LEMMA SoberAt ==
    ASSUME IInv, SInv, NEW o \in Event
    PROVE  /\ op[o] \in Handler /\ Sober(op[o])
           /\ Placed(op[o], Kn, Open, Live) /\ Wired(op[o], Kn)
           /\ Calm /\ StoreOK
           /\ \A c \in Contract : ram[c] \in Entry /\ air[c] \in Entry
  BY At DEF SInv

LEMMA ProposeStays ==
    ASSUME IInv, SInv, NEW c \in Contract, Propose(c) PROVE SInv'
<1>0. StoreOK /\ Calm /\ c \notin Kn /\ c \notin Stored
  BY DEF IInv, SInv, Propose, Known, Kn, Stored
<1>1. /\ \A d \in Contract : ram'[d] = IF d = c THEN Proposed ELSE ram[d]
      /\ UNCHANGED <<op, ran>>
  BY <1>0 DEF StoreOK, Propose
<1>2. \A d \in Contract : \/ d # c /\ air'[d] = air[d]
                          \/ d = c /\ Persistent /\ air'[d] = Proposed
                          \/ d = c /\ ~Persistent /\ air'[d] = air[d]
  <2>1. CASE Persistent
    BY <1>0, <2>1 DEF Propose, StoreOK
  <2>2. CASE ~Persistent
    BY <2>2 DEF Propose
  <2> QED
    BY <2>1, <2>2
<1>3. /\ Proposed.status = "pending" /\ Proposed.version = 1
      /\ ~Proposed.interrupted
  BY DEF Proposed, Absent
<1>4. Kn \subseteq Kn' /\ Open' \cap Kn \subseteq Open /\ Live' \cap Kn \subseteq Live
  BY <1>0, <1>1, <1>2, <1>3 DEF Kn, Open, Live
<1>5. Calm'
  BY <1>0, <1>1, <1>2, <1>3 DEF Calm, Kn, Stored, Open, Live
<1>6. Locked' /\ RunsOnce'
  BY <1>1 DEF SInv, Locked, RunsOnce
<1>7. Spent'
  BY <1>1, <1>4 DEF SInv, Spent
<1>8. \A o \in Event : Sober(op[o]) /\ Placed(op[o], Kn', Open', Live')
  BY <1>4, SoberAt, PlacedStays
<1> QED
  BY <1>1, <1>5, <1>6, <1>7, <1>8 DEF SInv

LEMMA ArriveStays ==
    ASSUME IInv, SInv, "ingress" \notin Kinds,
           NEW o \in Event, NEW k \in Kinds, NEW c \in Contract \cup {None},
           Arrive(o, k, c)
    PROVE  SInv'
<1> DEFINE h == op[o]
           m == IF k = "confirm" THEN Interrupted ELSE {}
           pc == IF c = None THEN "look" ELSE "find"
           i == IF c = None THEN "none" ELSE k
           n == Arrived(h, k, c, pc, i, m)
<1>1. op' = [op EXCEPT ![o] = n] /\ UNCHANGED <<ram, air, ran>>
      /\ h.pc = "idle"
  BY DEF Arrive, Arrived
<1>2. k \in Resolutions /\ h \in Handler /\ h.todo = {}
  BY <1>1, KindsAreKinds, SoberAt DEF Kind, Resolutions, Wired, Resting
<1>3. /\ pc = "find" => c \in Kn /\ k \in {"approve", "reject"} /\ i = k
      /\ pc = "look" => k \in {"confirm", "cancel"}
      /\ pc \in {"look", "find"}
  <2>1. CASE c \in Contract
    <3>1. c # None
      BY <2>1, NoneIsFresh
    <3>2. k \in {"approve", "reject"}
      BY <2>1, <3>1 DEF Arrive
    <3>3. ram[c].status # "absent" \/ air[c].status # "absent"
      BY <2>1, <3>1, <3>2 DEF Arrive, Now
    <3>4. c \in Kn
      BY <2>1, <3>3, SoberAt DEF Calm, Kn, Stored
    <3> QED
      BY <3>1, <3>2, <3>4
  <2>2. CASE c = None
    <3>1. k \notin {"approve", "reject"}
      BY <2>2, NoneIsFresh DEF Arrive
    <3> QED
      BY <1>2, <2>2, <3>1 DEF Resolutions
  <2> QED
    BY <2>1, <2>2
<1> HIDE DEF m, pc, i
<1>4. /\ n.pc = pc /\ n.kind = k /\ n.on = c /\ n.intent = i
      /\ n.todo = h.todo /\ n.got = h.got
  BY <1>2 DEF Arrived, Handler
<1>5. Fits(n, h, Kn, Open, Live)
  <2> HIDE DEF n
  <2> QED
    BY <1>2, <1>3, <1>4, SoberAt DEF Fits, Sober, Placed, Claimed, Locking
<1> QED
  BY <1>1, <1>5, OneMovesQuietly

LEMMA FindStays ==
    ASSUME IInv, SInv, NEW o \in Event, Find(o) PROVE SInv'
<1> DEFINE h == op[o]
           c == h.on
<1>0. h.pc = "find" /\ UNCHANGED <<ram, air, ran>> /\ Known(c)
  BY SoberAt DEF Find, Placed, Kn, Known
<1>1. \/ op' = [op EXCEPT ![o] = To(h, "enter")]
      \/ op' = [op EXCEPT ![o] = Told(h, ram[c].status)]
  BY <1>0 DEF Find, To
<1>2. /\ Fits(To(h, "enter"), h, Kn, Open, Live)
      /\ Fits(Told(h, ram[c].status), h, Kn, Open, Live)
  BY <1>0, SoberAt, ToFits, ToldFits
<1> QED
  BY <1>0, <1>1, <1>2, OneMovesQuietly

LEMMA HydrateStays ==
    ASSUME IInv, SInv, NEW o \in Event, Hydrate(o) PROVE SInv'
  BY SoberAt DEF Hydrate, Placed

LEMMA LookStays ==
    ASSUME IInv, SInv, NEW o \in Event, Look(o) PROVE SInv'
<1> DEFINE h == op[o]
<1>0. /\ h.pc = "look" /\ UNCHANGED <<ram, air, ran>>
      /\ ram \in [Contract -> Entry] /\ air \in [Contract -> Entry]
  BY SoberAt DEF Look, StoreOK
<1>1. \/ op' = [op EXCEPT ![o] = Handed(h, "route", Pending(ram))]
      \/ Cold /\ op' = [op EXCEPT ![o] = Handed(h, "recover", Pending(air))]
      \/ op' = [op EXCEPT ![o] = Told(h, "error")]
  BY DEF Look, Handed
<1>2. \A c \in Contract : ~Pending(ram)[c].interrupted
                            /\ ~Pending(air)[c].interrupted
  BY SoberAt DEF Calm, Pending, Absent
<1>3. Cold => \A c \in Contract : Pending(air)[c].status = "absent"
  BY SoberAt DEF Calm, Pending, Absent, Cold, Known, Kn, Stored
<1>4. /\ Fits(Handed(h, "route", Pending(ram)), h, Kn, Open, Live)
      /\ Cold => Fits(Handed(h, "recover", Pending(air)), h, Kn, Open, Live)
      /\ Fits(Told(h, "error"), h, Kn, Open, Live)
  BY <1>0, <1>2, <1>3, SoberAt, HandedFits, ToldFits
<1> QED
  BY <1>0, <1>1, <1>4, OneMovesQuietly

LEMMA RecoverStays ==
    ASSUME IInv, SInv, NEW o \in Event, Recover(o) PROVE SInv'
<1> DEFINE h == op[o]
           g == Pending(Cached(h.got))
<1>0. /\ h.pc = "recover" /\ ram' = Cached(h.got) /\ UNCHANGED <<air, ran>>
      /\ op' = [op EXCEPT ![o] = Handed(h, "route", g)]
      /\ ram \in [Contract -> Entry]
  BY SoberAt DEF Recover, Handed, StoreOK
<1>1. \A c \in Contract : Cached(h.got)[c] = ram[c]
  BY <1>0, SoberAt DEF Cached, Sober
<1>2. ram' = ram
  BY <1>0, <1>1 DEF Cached
<1>3. \A c \in Contract : ~g[c].interrupted
  BY <1>1, SoberAt DEF Pending, Absent, Calm
<1> HIDE DEF g
<1>4. Fits(Handed(h, "route", g), h, Kn, Open, Live)
  BY <1>0, <1>3, SoberAt, HandedFits
<1> QED
  BY <1>0, <1>2, <1>4, OneMovesQuietly
LEMMA RouteStays ==
    ASSUME IInv, SInv, NEW o \in Event, Route(o) PROVE SInv'
<1> DEFINE h == op[o]
<1>0. /\ h.pc = "route" /\ UNCHANGED <<ram, air, ran>>
      /\ h \in Handler /\ Sober(h) /\ h.kind \in Resolutions
      /\ RouteConfirm(o) \/ RouteCancel(o)
  BY SoberAt DEF Route, Sober
<1>1. \A c \in Listed(o) : c \in Kn
  BY <1>0, SoberAt DEF Listed, Wired
<1>2. ASSUME NEW t, op' = [op EXCEPT ![o] = Told(h, t)] PROVE SInv'
  <2>1. Fits(Told(h, t), h, Kn, Open, Live)
    BY <1>0, ToldFits
  <2> QED
    BY <1>0, <1>2, <2>1, OneMovesQuietly
<1>3. CASE RouteConfirm(o)
  <2>1. ASSUME NEW c \in Listed(o), NEW e \in Shown(o, c),
               op' = [op EXCEPT ![o].pc = IF e.interrupted /\ ~e.reconfirm
                                            THEN "capture" ELSE "find",
                                ![o].on = c,
                                ![o].intent = IF e.interrupted /\ ~e.reconfirm
                                                THEN "ask" ELSE "approve",
                                ![o].got = Nothing]
        PROVE  SInv'
    <3>1. ~e.interrupted
      BY SoberAt DEF Shown, Sober, Calm, Listed
    <3>2. op' = [op EXCEPT ![o] = Sent(h, "find", c, "approve")]
      BY <2>1, <3>1, At DEF Sent, IInv
    <3> DEFINE n == Sent(h, "find", c, "approve")
    <3>3. /\ n.pc = "find" /\ n.kind = h.kind /\ n.on = c
          /\ n.intent = "approve" /\ n.todo = h.todo /\ n.got = Nothing
      BY <1>0 DEF Sent, Handler
    <3>4. Fits(n, h, Kn, Open, Live)
      <4> HIDE DEF n
      <4> QED
        BY <1>0, <1>1, <3>3
        DEF Fits, Sober, Placed, Claimed, Locking, Nothing, Absent
    <3> QED
      BY <1>0, <3>2, <3>4, OneMovesQuietly
  <2> QED
    BY <1>2, <1>3, <2>1 DEF RouteConfirm
<1>4. CASE RouteCancel(o)
  <2> DEFINE todo == Listed(o) \X {"reject"}
             n == Listing(h, "next", todo)
  <2>1. ASSUME op' = [op EXCEPT ![o].pc = "next", ![o].todo = todo,
                                ![o].got = Nothing]
        PROVE  SInv'
    <3>1. op' = [op EXCEPT ![o] = n]
      BY <2>1, At DEF Listing, IInv
    <3>2. \A item \in todo : item[2] = "reject"
      OBVIOUS
    <3> HIDE DEF todo
    <3>3. /\ n.pc = "next" /\ n.kind = h.kind /\ n.todo = todo
          /\ n.got = Nothing
      BY <1>0 DEF Listing, Handler
    <3>4. Fits(n, h, Kn, Open, Live)
      <4> HIDE DEF n
      <4> QED
        BY <1>0, <3>2, <3>3
        DEF Fits, Sober, Placed, Claimed, Locking, Nothing, Absent
    <3> QED
      BY <1>0, <3>1, <3>4, OneMovesQuietly
  <2> QED
    BY <1>2, <1>4, <2>1 DEF RouteCancel
<1> QED
  BY <1>0, <1>3, <1>4

LEMMA NextItemStays ==
    ASSUME IInv, SInv, NEW o \in Event, NextItem(o) PROVE SInv'
<1> DEFINE h == op[o]
<1>0. /\ h.pc = "next" /\ UNCHANGED <<ram, air, ran>>
      /\ h \in Handler /\ Sober(h)
  BY SoberAt DEF NextItem
<1>1. PICK item \in h.todo :
        op' = [op EXCEPT ![o].on = item[1], ![o].intent = item[2],
                         ![o].todo = @ \ {item},
                         ![o].pc = IF item[2] = "reject" THEN "enter"
                                                         ELSE "capture"]
  BY DEF NextItem
<1> DEFINE x == h.todo \ {item}
           n == Picked(h, item[1], "reject", x, "enter")
<1>2. item[2] = "reject"
  BY <1>0 DEF Sober
<1>3. op' = [op EXCEPT ![o] = n]
  <2> HIDE DEF x
  <2>1. op' = [op EXCEPT ![o].on = item[1], ![o].intent = "reject",
                         ![o].todo = x, ![o].pc = "enter"]
    BY <1>1, <1>2 DEF x
  <2> QED
    BY <2>1, At DEF Picked, IInv
<1>4. /\ n.pc = "enter" /\ n.kind = h.kind /\ n.intent = "reject"
      /\ n.todo = x /\ n.got = h.got
  <2> HIDE DEF x
  <2> QED
    BY <1>0 DEF Picked, Handler
<1>5. Fits(n, h, Kn, Open, Live)
  <2> HIDE DEF n
  <2> QED
    BY <1>0, <1>4 DEF Fits, Sober, Placed, Claimed, Locking
<1> QED
  <2> HIDE DEF n
  <2> QED
    BY <1>0, <1>3, <1>5, OneMovesQuietly

LEMMA EnterStays ==
    ASSUME IInv, SInv, NEW o \in Event, Enter(o) PROVE SInv'
<1> DEFINE h == op[o]
           c == h.on
           n == To(h, "capture")
<1>0. /\ h.pc = "enter" /\ UNCHANGED <<ram, air, ran>>
      /\ h \in Handler /\ Sober(h)
      /\ Kn' = Kn /\ Open' = Open /\ Live' = Live /\ Stored' = Stored
  BY SoberAt DEF Enter, Kn, Open, Live, Stored
<1>1. CASE /\ h.intent = "approve" => LockFree(o, c)
           /\ c \in Live /\ op' = [op EXCEPT ![o] = n]
  <2>1. /\ n.pc = "capture" /\ n.kind = h.kind /\ n.on = c
        /\ n.intent = h.intent /\ n.todo = h.todo /\ n.got = h.got
    BY <1>0 DEF To, Handler
  <2> HIDE DEF n
  <2>2. Sober(n) /\ Placed(n, Kn, Open, Live)
    BY <1>0, <2>1 DEF Sober, Placed, Locking
  <2>3. CASE h.intent = "approve"
    <3>1. \A p \in Event \ {o} : ~(Claimed(op[p]) /\ op[p].on = n.on)
      BY <1>1, <2>1, <2>3 DEF LockFree, Holds, Claimed, Locking
    <3>2. Calm'
      BY <1>0 DEF SInv, Calm
    <3> QED
      BY <1>0, <1>1, <2>1, <2>2, <3>1, <3>2, OneMoves
  <2>4. CASE h.intent # "approve"
    <3>1. Fits(n, h, Kn, Open, Live)
      BY <1>0, <2>1, <2>2, <2>4 DEF Fits, Claimed, Sober
    <3> QED
      BY <1>0, <1>1, <3>1, OneMovesQuietly
  <2> QED
    BY <2>3, <2>4
<1>2. ASSUME \/ op' = [op EXCEPT ![o] = To(h, "answer")]
             \/ op' = [op EXCEPT ![o] = Told(h, ram[c].status)]
      PROVE  SInv'
  <2>1. /\ Fits(To(h, "answer"), h, Kn, Open, Live)
        /\ Fits(Told(h, ram[c].status), h, Kn, Open, Live)
    BY <1>0, SoberAt, ToFits, ToldFits
  <2> QED
    BY <1>0, <1>2, <2>1, OneMovesQuietly
<1> HIDE DEF n
<1>3. \/ /\ h.intent = "approve" => LockFree(o, c)
         /\ c \in Live /\ op' = [op EXCEPT ![o] = n]
      \/ op' = [op EXCEPT ![o] = To(h, "answer")]
      \/ op' = [op EXCEPT ![o] = Told(h, ram[c].status)]
  <2>1. op' = [op EXCEPT ![o].pc = "capture"] => op' = [op EXCEPT ![o] = n]
    BY At DEF n, To, IInv
  <2> QED
    BY <2>1 DEF Enter, To
<1> QED
  BY <1>1, <1>2, <1>3
-----------------------------------------------------------------------------
LEMMA Decided ==
    ASSUME NEW i \in {"approve", "reject", "complete", "fail"}
    PROVE  /\ StatusAfter(i) \notin {"absent", "pending"}
           /\ StatusAfter(i) \in Allowed("pending")
  BY DEF StatusAfter, Allowed, Status

LEMMA CaptureStays ==
    ASSUME IInv, SInv, NEW o \in Event, Capture(o) PROVE SInv'
<1> DEFINE h == op[o]
           c == h.on
<1>0. /\ h.pc = "capture" /\ UNCHANGED <<air, ran>>
      /\ h \in Handler /\ Sober(h) /\ Placed(h, Kn, Open, Live)
      /\ c \in Contract /\ c \in Kn /\ ram[c] \in Entry
      /\ h.intent \in {"approve", "reject", "complete", "fail"}
      /\ ram \in [Contract -> Entry]
  BY SoberAt, WorkingAt DEF Capture, Working, Sober, Locking, StoreOK
<1>1. CASE Persistent
  <2> DEFINE n == Captured(h, ram[c])
  <2>1. ram' = ram /\ op' = [op EXCEPT ![o] = n]
    <3>1. /\ ram' = ram
          /\ op' = [op EXCEPT ![o].pc = "get", ![o].exp = ram[c].status,
                              ![o].ver = ram[c].version]
      BY <1>1 DEF Capture
    <3> QED
      BY <3>1, At DEF Captured, IInv
  <2>2. /\ n.pc = "get" /\ n.kind = h.kind /\ n.on = c /\ n.intent = h.intent
        /\ n.todo = h.todo /\ n.got = h.got
        /\ n.exp = ram[c].status /\ n.ver = ram[c].version
    BY <1>0 DEF Captured, Handler
  <2>3. c \in Open => ram[c].status = "pending" /\ ram[c].version = 1
    BY SoberAt DEF Calm, Live
  <2>4. Fits(n, h, Kn, Open, Live)
    <3> HIDE DEF n
    <3> QED
      BY <1>0, <2>2, <2>3 DEF Fits, Sober, Placed, Claimed, Locking
  <2> QED
    BY <1>0, <2>1, <2>4, OneMovesQuietly
<1>2. CASE ~Persistent
  <2> DEFINE e == Written(ram[c], h.intent, ram[c].version)
  <2>1. ram' = [ram EXCEPT ![c] = e] /\ op' = [op EXCEPT ![o] = Saved(h)]
    BY <1>2 DEF Capture
  <2>2. e.status \notin {"absent", "pending"} /\ ~e.interrupted
    BY <1>0, Decided, SoberAt DEF Written, Calm
  <2> HIDE DEF e
  <2>3. \A d \in Contract : ram'[d] = IF d = c THEN e ELSE ram[d]
    BY <1>0, <2>1
  <2>4. /\ Kn \subseteq Kn' /\ Live' \cap Kn \subseteq Live /\ c \notin Live'
        /\ Open' = Open /\ Stored' = Stored
    BY <1>0, <2>2, <2>3 DEF Kn, Live, Open, Stored
  <2>5. Open = {}
    BY <1>2, SoberAt DEF Calm, Open, Stored
  <2>6. Calm'
    BY <1>0, <2>2, <2>3, <2>4, <2>5, SoberAt DEF Calm
  <2>7. Placed(h, Kn', Open', Live')
    BY <1>0, <2>4 DEF Placed
  <2>8. Fits(Saved(h), h, Kn', Open', Live')
    BY <1>0, <2>4, <2>7, SavedFits DEF Locking
  <2> QED
    BY <1>0, <2>1, <2>4, <2>6, <2>8, OneMoves
<1> QED
  BY <1>1, <1>2

LEMMA GetStays ==
    ASSUME IInv, SInv, NEW o \in Event, Get(o) PROVE SInv'
<1> DEFINE h == op[o]
           c == h.on
           g == Only(c, air[c])
<1>0. /\ h.pc = "get" /\ UNCHANGED <<ram, air, ran>>
      /\ h \in Handler /\ Sober(h) /\ Placed(h, Kn, Open, Live)
      /\ c \in Contract /\ air[c] \in Entry
      /\ h.intent \in {"approve", "reject", "complete", "fail"}
  BY SoberAt, WorkingAt DEF Get, Working, Sober, Locking
<1>1. CASE /\ Expected(o) /\ NoOp(o)
           /\ op' = [op EXCEPT ![o] = Handed(h, "cache", g)]
  <2>1. /\ g[c] = air[c]
        /\ \A d \in Contract \ {c} : g[d].status = "absent"
        /\ \A d \in Contract : ~g[d].interrupted
    BY <1>0, SoberAt DEF Only, Nothing, Absent, Calm
  <2>2. air[c].status \notin {"absent", "pending"} /\ c \notin Open
    BY <1>0, <1>1, Decided DEF Expected, NoOp, Open
  <2> HIDE DEF g
  <2>3. Fits(Handed(h, "cache", g), h, Kn, Open, Live)
    BY <1>0, <2>1, <2>2, HandedFits DEF Locking
  <2> QED
    BY <1>0, <1>1, <2>3, OneMovesQuietly
<1>2. CASE op' = [op EXCEPT ![o] = To(h, "patch")]
  <2>1. Fits(To(h, "patch"), h, Kn, Open, Live)
    BY <1>0, ToFits
  <2> QED
    BY <1>0, <1>2, <2>1, OneMovesQuietly
<1>3. CASE /\ ~(Expected(o) /\ Valid(o))
           /\ op' = [op EXCEPT ![o] = Conflicted(h)]
  <2>1. c \notin Open
    BY <1>0, <1>3, Decided, SoberAt
    DEF Placed, Expected, Valid, Open, Calm
  <2>2. Fits(Conflicted(h), h, Kn, Open, Live)
    BY <1>0, <2>1, ConflictedFits
  <2> QED
    BY <1>0, <1>3, <2>2, OneMovesQuietly
<1>4. CASE op' = [op EXCEPT ![o] = Raised(h)]
  <2>1. Fits(Raised(h), h, Kn, Open, Live)
    BY <1>0, RaisedFits DEF Locking
  <2> QED
    BY <1>0, <1>4, <2>1, OneMovesQuietly
<1> QED
  BY <1>1, <1>2, <1>3, <1>4 DEF Get, Handed, To

LEMMA PatchStays ==
    ASSUME IInv, SInv, NEW o \in Event, Patch(o) PROVE SInv'
<1> DEFINE h == op[o]
           c == h.on
           e == Written(air[c], h.intent, h.ver + 1)
<1>0. /\ h.pc = "patch" /\ UNCHANGED <<ram, ran>>
      /\ h \in Handler /\ Sober(h) /\ Placed(h, Kn, Open, Live) /\ Persistent
      /\ c \in Contract /\ c \in Kn /\ air \in [Contract -> Entry]
      /\ h.intent \in {"approve", "reject", "complete", "fail"}
  BY SoberAt, WorkingAt DEF Patch, Working, Sober, Locking, Wired, StoreOK
<1>1. e.status \notin {"absent", "pending"} /\ ~e.interrupted
  BY <1>0, Decided, SoberAt DEF Written, Calm
<1>2. \/ /\ air' = [air EXCEPT ![c] = e]
         /\ op' = [op EXCEPT ![o] = To(h, "verify")]
      \/ /\ air' = air \/ air' = [air EXCEPT ![c] = e]
         /\ op' = [op EXCEPT ![o] = Raised(h)]
  BY DEF Patch, To
<1> HIDE DEF e
<1>3. \A d \in Contract : air'[d] = air[d] \/ (d = c /\ air'[d] = e)
  BY <1>0, <1>2
<1>4. /\ Kn' = Kn /\ Live' = Live /\ Open' \subseteq Open
      /\ Stored' \subseteq Stored \cup {c}
  BY <1>0, <1>1, <1>3 DEF Kn, Live, Open, Stored
<1>5. Calm'
  <2>1. \A d \in Contract : ~ram'[d].interrupted /\ ~air'[d].interrupted
    BY <1>0, <1>1, <1>3, SoberAt DEF Calm
  <2>2. \A d \in Open' : air'[d] = air[d]
    BY <1>1, <1>3 DEF Open
  <2> QED
    BY <1>0, <1>4, <2>1, <2>2, SoberAt DEF Calm
<1>6. Placed(h, Kn', Open', Live')
  BY <1>0, <1>4 DEF Placed
<1>7. CASE /\ air' = [air EXCEPT ![c] = e]
           /\ op' = [op EXCEPT ![o] = To(h, "verify")]
  <2>1. c \notin Open'
    BY <1>0, <1>1, <1>7 DEF Open
  <2>2. Fits(To(h, "verify"), h, Kn', Open', Live')
    BY <1>0, <1>6, <2>1, ToFits
  <2> QED
    BY <1>0, <1>4, <1>5, <1>7, <2>2, OneMoves
<1>8. CASE op' = [op EXCEPT ![o] = Raised(h)]
  <2>1. Fits(Raised(h), h, Kn', Open', Live')
    BY <1>0, <1>6, RaisedFits DEF Locking
  <2> QED
    BY <1>0, <1>4, <1>5, <1>8, <2>1, OneMoves
<1> QED
  BY <1>2, <1>7, <1>8

LEMMA VerifyStays ==
    ASSUME IInv, SInv, NEW o \in Event, Verify(o) PROVE SInv'
<1> DEFINE h == op[o]
           c == h.on
           g == Only(c, air[c])
<1>0. /\ h.pc = "verify" /\ UNCHANGED <<ram, air, ran>>
      /\ h \in Handler /\ Sober(h) /\ Placed(h, Kn, Open, Live)
      /\ c \in Contract /\ c \notin Open
      /\ h.intent \in {"approve", "reject", "complete", "fail"}
  BY SoberAt, WorkingAt DEF Verify, Working, Sober, Placed, Locking
<1>1. CASE /\ air[c].status = StatusAfter(h.intent)
           /\ op' = [op EXCEPT ![o] = Handed(h, "cache", g)]
  <2>1. /\ g[c] = air[c]
        /\ \A d \in Contract \ {c} : g[d].status = "absent"
        /\ \A d \in Contract : ~g[d].interrupted
    BY <1>0, SoberAt DEF Only, Nothing, Absent, Calm
  <2>2. air[c].status \notin {"absent", "pending"}
    BY <1>0, <1>1, Decided
  <2> HIDE DEF g
  <2>3. Fits(Handed(h, "cache", g), h, Kn, Open, Live)
    BY <1>0, <2>1, <2>2, HandedFits DEF Locking
  <2> QED
    BY <1>0, <1>1, <2>3, OneMovesQuietly
<1>2. CASE op' = [op EXCEPT ![o] = Conflicted(h)]
  <2>1. Fits(Conflicted(h), h, Kn, Open, Live)
    BY <1>0, ConflictedFits
  <2> QED
    BY <1>0, <1>2, <2>1, OneMovesQuietly
<1>3. CASE op' = [op EXCEPT ![o] = Raised(h)]
  <2>1. Fits(Raised(h), h, Kn, Open, Live)
    BY <1>0, RaisedFits DEF Locking
  <2> QED
    BY <1>0, <1>3, <2>1, OneMovesQuietly
<1> QED
  BY <1>1, <1>2, <1>3 DEF Verify, Handed

LEMMA CacheStays ==
    ASSUME IInv, SInv, NEW o \in Event, Cache(o) PROVE SInv'
<1> DEFINE h == op[o]
           c == h.on
<1>0. /\ h.pc = "cache" /\ ram' = Cached(h.got) /\ UNCHANGED <<air, ran>>
      /\ op' = [op EXCEPT ![o] = Saved(h)]
      /\ h \in Handler /\ Sober(h) /\ Placed(h, Kn, Open, Live)
      /\ c \in Contract /\ c \in Kn /\ c \notin Open
      /\ h.got[c].status \notin {"absent", "pending"}
      /\ ~h.got[c].interrupted
  BY SoberAt, WorkingAt DEF Cache, Working, Sober, Placed
<1>1. \A d \in Contract : ram'[d] = IF d = c THEN h.got[c] ELSE ram[d]
  BY <1>0 DEF Cached, Sober
<1>2. /\ Kn' = Kn /\ Live' \subseteq Live /\ c \notin Live'
      /\ Open' = Open /\ Stored' = Stored
      /\ \A d \in Live : d # c => d \in Live'
  BY <1>0, <1>1 DEF Kn, Live, Open, Stored
<1>3. Calm'
  <2>0. Calm /\ air' = air /\ Open \subseteq Contract
    BY <1>0, SoberAt DEF Open
  <2>1. \A d \in Contract : ~ram'[d].interrupted /\ ~air'[d].interrupted
    BY <1>0, <1>1, <2>0 DEF Calm
  <2>2. \A d \in Open' : d # c /\ d \in Open /\ ram'[d] = ram[d]
    BY <1>0, <1>1, <1>2, <2>0
  <2> QED
    BY <1>2, <2>0, <2>1, <2>2 DEF Calm
<1>4. Placed(h, Kn', Open', Live')
  BY <1>0, <1>2 DEF Placed
<1>5. Fits(Saved(h), h, Kn', Open', Live')
  BY <1>0, <1>2, <1>4, SavedFits DEF Locking
<1> QED
  BY <1>0, <1>2, <1>3, <1>5, OneMoves

LEMMA RefreshStays ==
    ASSUME IInv, SInv, NEW o \in Event, Refresh(o) PROVE SInv'
<1> DEFINE h == op[o]
           c == h.on
           g == Only(c, air[c])
<1>0. /\ h.pc = "refresh" /\ UNCHANGED <<ram, air, ran>>
      /\ h \in Handler /\ Sober(h) /\ Placed(h, Kn, Open, Live)
      /\ c \in Contract /\ c \notin Open /\ c \in Stored
  BY SoberAt, WorkingAt DEF Refresh, Working, Wired, Placed, StoreOK
<1>1. CASE op' = [op EXCEPT ![o] = Handed(h, "heal", g)]
  <2>1. /\ g[c] = air[c]
        /\ \A d \in Contract \ {c} : g[d].status = "absent"
        /\ \A d \in Contract : ~g[d].interrupted
    BY <1>0, SoberAt DEF Only, Nothing, Absent, Calm
  <2>2. air[c].status \notin {"absent", "pending"}
    BY <1>0 DEF Open, Stored
  <2> HIDE DEF g
  <2>3. Fits(Handed(h, "heal", g), h, Kn, Open, Live)
    BY <1>0, <2>1, <2>2, HandedFits DEF Locking
  <2> QED
    BY <1>0, <1>1, <2>3, OneMovesQuietly
<1>2. CASE op' = [op EXCEPT ![o] = Raised(h)]
  <2>1. Fits(Raised(h), h, Kn, Open, Live)
    BY <1>0, RaisedFits DEF Locking
  <2> QED
    BY <1>0, <1>2, <2>1, OneMovesQuietly
<1> QED
  BY <1>1, <1>2 DEF Refresh, Handed
LEMMA HealStays ==
    ASSUME IInv, SInv, NEW o \in Event, Heal(o) PROVE SInv'
<1> DEFINE h == op[o]
           c == h.on
           g == h.got[c]
           n == Retrying(h, g.version)
<1>0. /\ h.pc = "heal" /\ UNCHANGED <<air, ran>>
      /\ h \in Handler /\ Sober(h) /\ Placed(h, Kn, Open, Live)
      /\ c \in Contract /\ c \in Kn /\ c \notin Open
      /\ ram \in [Contract -> Entry] /\ ram[c] \in Entry
      /\ g.status \notin {"absent", "pending"}
      /\ ~ram[c].interrupted
  BY SoberAt, WorkingAt DEF Heal, Working, Sober, Placed, StoreOK, Calm
<1>1. op' = [op EXCEPT ![o] = n]
  <2>1. op' = [op EXCEPT ![o].pc = "get", ![o].again = TRUE,
                         ![o].ver = g.version]
    BY DEF Heal
  <2> QED
    BY <2>1, At DEF Retrying, IInv
<1>2. /\ ram'[c].status = g.status /\ ~ram'[c].interrupted
      /\ \A d \in Contract \ {c} : ram'[d] = ram[d]
  <2> DEFINE e == [ram[c] EXCEPT !.status = g.status, !.version = g.version]
  <2>1. ram' = [ram EXCEPT ![c].status = g.status, ![c].version = g.version]
    BY DEF Heal
  <2>2. ram' = [ram EXCEPT ![c] = e]
    BY <1>0, <2>1
  <2>3. e.status = g.status /\ e.interrupted = ram[c].interrupted
    BY <1>0 DEF Entry
  <2> HIDE DEF e
  <2> QED
    BY <1>0, <2>2, <2>3
<1>3. /\ n.pc = "get" /\ n.kind = h.kind /\ n.on = c /\ n.intent = h.intent
      /\ n.todo = h.todo /\ n.got = h.got
  BY <1>0 DEF Retrying, Handler
<1>4. /\ Kn' = Kn /\ Live' \subseteq Live
      /\ Open' = Open /\ Stored' = Stored
      /\ \A d \in Live : d # c => d \in Live'
  BY <1>0, <1>2 DEF Kn, Live, Open, Stored
<1>5. Calm'
  <2>0. Calm /\ air' = air /\ Open \subseteq Contract
    BY <1>0, SoberAt DEF Open
  <2>1. \A d \in Contract : ~ram'[d].interrupted /\ ~air'[d].interrupted
    BY <1>0, <1>2, <2>0 DEF Calm
  <2>2. \A d \in Open' : d # c /\ d \in Open /\ ram'[d] = ram[d]
    BY <1>0, <1>2, <1>4, <2>0
  <2> QED
    BY <1>4, <2>0, <2>1, <2>2 DEF Calm
<1>6. Fits(n, h, Kn', Open', Live')
  <2> HIDE DEF n
  <2> QED
    BY <1>0, <1>3, <1>4 DEF Fits, Sober, Placed, Claimed, Locking
<1> QED
  <2> HIDE DEF n
  <2> QED
    BY <1>0, <1>1, <1>4, <1>5, <1>6, OneMoves

LEMMA AnswerStays ==
    ASSUME IInv, SInv, NEW o \in Event, Answer(o) PROVE SInv'
<1> DEFINE h == op[o]
           t == ram[h.on].status
<1>1. /\ h.pc = "answer" /\ UNCHANGED <<ram, air, ran>>
      /\ op' = [op EXCEPT ![o] = Told(h, t)]
  BY DEF Answer
<1>2. Fits(Told(h, t), h, Kn, Open, Live)
  BY <1>1, SoberAt, ToldFits
<1> QED
  BY <1>1, <1>2, OneMovesQuietly

(* The run itself: its handler is the only one in the lock, and the cached  *)
(* status is no longer "pending".                                           *)
LEMMA DispatchStays ==
    ASSUME IInv, SInv, NEW o \in Event, Dispatch(o) PROVE SInv'
<1> DEFINE h == op[o]
           c == h.on
<1>0. /\ h.pc = "dispatch" /\ UNCHANGED <<ram, air>>
      /\ h \in Handler /\ Sober(h) /\ h.intent = "approve" /\ Claimed(h)
      /\ c \in Contract /\ c \in Kn /\ c \notin Live
      /\ Kn' = Kn /\ Open' = Open /\ Live' = Live /\ Stored' = Stored
  BY SoberAt, WorkingAt
  DEF Dispatch, Working, Sober, Placed, Claimed, Locking,
      Kn, Open, Live, Stored
<1>1. CASE ran' = ran /\ op' = [op EXCEPT ![o].pc = "answer"]
  <2>1. op' = [op EXCEPT ![o] = To(h, "answer")]
    BY <1>1, At DEF To, IInv
  <2>2. Fits(To(h, "answer"), h, Kn, Open, Live)
    BY <1>0, SoberAt, ToFits
  <2> QED
    BY <1>0, <1>1, <2>1, <2>2, OneMovesQuietly
<1>2. ASSUME NEW s \in {"complete", "fail"},
             ran' = ran \cup {[by |-> o, on |-> c, result |-> s]},
             op' = [op EXCEPT ![o].pc = "capture", ![o].intent = Outcome(s)]
      PROVE  SInv'
  <2> DEFINE n == Ran(h, s)
             r == [by |-> o, on |-> c, result |-> s]
  <2>1. op' = [op EXCEPT ![o] = n]
    BY <1>2, At DEF Ran, Outcome, IInv
  <2>2. /\ n.pc = "capture" /\ n.kind = h.kind /\ n.on = c /\ n.intent = s
        /\ n.todo = h.todo /\ n.got = h.got
    BY <1>0 DEF Ran, Handler
  <2> HIDE DEF n
  <2>3. op'[o] = n /\ \A p \in Event \ {o} : op'[p] = op[p]
    BY <2>1 DEF IInv
  <2>4. Claimed(n) /\ Sober(n) /\ Placed(n, Kn', Open', Live')
    BY <1>0, <2>2 DEF Claimed, Sober, Placed, Locking
  <2>5. ran' = ran \cup {r} /\ r.on = c
    BY <1>2
  <2> HIDE DEF r
  <2>6. \A x \in ran : x.on # c
    BY <1>0 DEF SInv, Spent
  <2>7. \A p \in Event \ {o} : ~(Claimed(op[p]) /\ op[p].on = c)
    BY <1>0 DEF SInv, Locked
  <2>8. Calm'
    BY <1>0 DEF SInv, Calm
  <2>9. Locked'
    BY <2>2, <2>3, <2>7 DEF SInv, Locked
  <2>10. RunsOnce'
    BY <2>5, <2>6 DEF SInv, RunsOnce
  <2>11. Spent'
    <3>1. \A x \in ran' : x.on \in Kn' \ Live'
      BY <1>0, <2>5 DEF SInv, Spent
    <3>2. ASSUME NEW x \in ran', NEW p \in Event, Claimed(op'[p]),
                 op'[p].on = x.on
          PROVE  op'[p].intent # "approve"
      <4>1. CASE p = o
        BY <2>2, <2>3, <4>1
      <4>2. CASE p # o
        BY <2>3, <2>5, <2>7, <3>2, <4>2 DEF SInv, Spent
      <4> QED
        BY <4>1, <4>2
    <3> QED
      BY <3>1, <3>2 DEF Spent
  <2>12. \A p \in Event : Sober(op'[p]) /\ Placed(op'[p], Kn', Open', Live')
    BY <1>0, <2>3, <2>4 DEF SInv
  <2> QED
    BY <2>8, <2>9, <2>10, <2>11, <2>12 DEF SInv
<1> QED
  BY <1>1, <1>2 DEF Dispatch

LEMMA LockStays ==
    ASSUME "restart" \notin Faults, "ingress" \notin Kinds,
           IInv, SInv, [Next]_vars
    PROVE  SInv'
<1>1. CASE UNCHANGED vars
  BY <1>1
  DEF vars, SInv, Calm, Locked, Spent, RunsOnce, Kn, Open, Live, Stored
<1>2. ASSUME NEW c \in Contract, Propose(c) PROVE SInv'
  BY <1>2, ProposeStays
<1>3. ASSUME NEW o \in Event, NEW k \in Kinds, NEW c \in Contract \cup {None},
             Arrive(o, k, c)
      PROVE  SInv'
  BY <1>3, ArriveStays
<1>4. ASSUME NEW o \in Event, Step(o) PROVE SInv'
  BY <1>4, FindStays, HydrateStays, LookStays, RecoverStays, RouteStays,
     NextItemStays, EnterStays, CaptureStays, GetStays, PatchStays,
     VerifyStays, CacheStays, RefreshStays, HealStays, DispatchStays,
     AnswerStays
  DEF Step
<1> QED
  BY <1>1, <1>2, <1>3, <1>4 DEF Next, Restart

(* No contract is run twice by ActionGateway.approve within one process and *)
(* without interrupting messages, for any number of contracts and handlers, *)
(* whatever the store loses, with persistence and claims on or off: the     *)
(* approve lock and the order of the writes are enough.                     *)
THEOREM RunOnce ==
    ASSUME "restart" \notin Faults, "ingress" \notin Kinds
    PROVE  Spec => []RunsOnce
<1>1. IInv /\ SInv /\ [Next]_vars => SInv'
  BY LockStays
<1>2. SInv => RunsOnce
  BY DEF SInv
<1> QED
  BY <1>1, <1>2, SoberInitially, Inductive, PTL DEF Spec
=============================================================================
