--------------------- MODULE ContractLedgerContextProofs ---------------------
(***************************************************************************)
(* A confirm word knows the context: where no answer is lost and the       *)
(* atomic claims are on, it runs a contract that a message interrupted     *)
(* before it only when the question is on record, or a rejection is at     *)
(* work.  An interruption on record reaches the cache (Noticed), unless an *)
(* approval overtakes it that nothing can stop any more (Closing); once a  *)
(* word has to respect it, it is not lost again (Sealed); and a word that  *)
(* did not see it waits for the lock of that approval (Heeded), and the    *)
(* claim refuses it the second run.                                        *)
(***************************************************************************)
EXTENDS ContractLedgerProofs

(* The contract was run.                                                    *)
Performed(c) == \E x \in ran : x.on = c

(* It was run, or the question is on record.                                *)
Past(c) == Now[c].reconfirm \/ Performed(c)

(* An interruption on its way into the cache, when e is on record.          *)
Carries(h, c, e) ==
    /\ h.on = c /\ h.intent = "interrupt"
    /\ \/ h.pc = "cache"
       \/ /\ h.pc = "verify"
          /\ e.status = "pending" /\ e.version = h.ver + 1

(* An approval that has the contract as good as run.                        *)
Closes(h, c, e) ==
    /\ h.on = c /\ h.intent = "approve"
    /\ \/ h.pc \in {"cache", "dispatch"}
       \/ /\ h.pc = "verify"
          /\ e.status = "approved" /\ e.version = h.ver + 1

Interrupts(h, c) == h.pc = "patch" /\ h.on = c /\ h.intent = "interrupt"

(* Contracts that are as good as run, and nobody is about to overwrite that. *)
Closing ==
    {c \in Contract :
       \E a \in Event :
          /\ Closes(op[a], c, air[c])
          /\ op[a].pc = "verify" => \A q \in Event : ~Interrupts(op[q], c)}

Meddling == {"ingress", "fallback"}

(* What a handler holds while nobody rejects anything.                      *)
Poised(h) ==
    /\ h.pc # "idle" => h.kind \notin {"reject", "cancel"}
    /\ h.pc \in {"look", "recover", "route"} => h.kind # "approve"
    /\ h.pc \in {"find", "enter"} => h.intent = "approve"
    /\ h.pc # "hydrate"
    /\ h.marked \subseteq Contract
    /\ h.pc \in Locking => h.intent \notin {"reject", "none"}
    /\ h.pc = "dispatch" => h.intent = "approve"
    /\ h.pc \in Locking /\ h.intent = "interrupt" => h.kind \in Meddling
    /\ h.todo # {} => h.kind \in Meddling
    /\ \A item \in h.todo : item[2] \in {"interrupt", "supersede"}
    /\ h.pc = "recover" => \A c \in Contract : h.got[c].status = "absent"
    /\ h.pc = "cache"
         => /\ \A c \in Contract \ {h.on} : h.got[c].status = "absent"
            /\ h.got[h.on].status # "absent"
            /\ h.intent = "interrupt" => h.got[h.on].interrupted

(* What its phase says of the contracts that are cached (K), run or asked   *)
(* about (P), interrupted (I) and asked about (R).                          *)
Grounded(h, K, P, I, R) ==
    /\ h.pc = "find" => h.on \in K
    /\ h.pc = "verify" /\ h.intent = "interrupt" => h.on \in I
    /\ h.pc \in Locking /\ h.intent \in {"supersede", "complete", "fail"}
         => h.on \in P
    /\ h.pc \in {"verify", "cache"} /\ h.intent = "ask" => h.on \in P
    /\ \A item \in h.todo : item[2] = "supersede" => item[1] \in P
    /\ h.pc \in {"route", "cache"}
         => \A c \in Contract : h.got[c].reconfirm => c \in R

Passed == {c \in Contract : Past(c)}
Broken == {c \in Contract : Now[c].interrupted}
Asked == {c \in Contract : Now[c].reconfirm}

Plain(e) == e.status = "absent" => ~e.interrupted /\ ~e.reconfirm

StoreKnown ==
    /\ Stored \subseteq Kn
    /\ ~Persistent => Stored = {}
    /\ \A c \in Contract : /\ Plain(ram[c]) /\ Plain(air[c])
                           /\ ram[c].reconfirm => c \in Asked

(* An interruption on record is in the cache, or on its way, or too late.   *)
Noticed ==
    \A c \in Broken \ Passed :
       \/ ram[c].interrupted
       \/ \E q \in Event : Carries(op[q], c, air[c]) \/ Closes(op[q], c, air[c])

(* Once a word has to respect it, it is not lost again.                     *)
Sealed ==
    \A c \in Contract \ Passed :
       (\E o \in Event : c \in op[o].marked)
         => ram[c].interrupted \/ c \in Closing

(* A confirm word that did not see it comes too late.                       *)
Warned(h, c, S) ==
    /\ h.pc = "route" /\ h.got[c].status = "pending"
         => h.got[c].interrupted \/ c \in S
    /\ h.on = c /\ h.intent = "approve"
         => /\ h.pc \notin Locking
            /\ h.pc \in {"find", "enter"} => c \in S

Heeded == \A o \in Event : \A c \in op[o].marked \ Passed :
             op[o].kind = "confirm" => Warned(op[o], c, Closing)

CInv == /\ StoreKnown /\ Locked /\ Noticed /\ Sealed /\ Heeded
        /\ \A o \in Event : /\ Poised(op[o])
                            /\ Grounded(op[o], Kn, Passed, Broken, Asked)
        /\ \A x \in ran : /\ op[x.by].pc # "idle"
                          /\ op[x.by].kind = "confirm" /\ x.on \in op[x.by].marked
                               => x.on \in Asked

-----------------------------------------------------------------------------
LEMMA GroundedStays ==
    ASSUME NEW h, NEW K, NEW P, NEW I, NEW R, NEW K2, NEW P2, NEW I2, NEW R2,
           Grounded(h, K, P, I, R),
           K \subseteq K2, P \subseteq P2, I \subseteq I2, R \subseteq R2
    PROVE  Grounded(h, K2, P2, I2, R2)
  BY DEF Grounded

(* A word that was warned stays so as long as the approval goes on.         *)
LEMMA WarnedStays ==
    ASSUME NEW h, NEW c, NEW S, NEW S2, Warned(h, c, S), c \in S => c \in S2
    PROVE  Warned(h, c, S2)
  BY DEF Warned

LEMMA CalmAt ==
    ASSUME IInv, CInv, NEW o \in Event
    PROVE  /\ op[o] \in Handler /\ Poised(op[o])
           /\ Grounded(op[o], Kn, Passed, Broken, Asked)
           /\ Wired(op[o], Kn) /\ Found(op[o], Stored)
           /\ StoreOK /\ StoreKnown
           /\ \A c \in Contract : ram[c] \in Entry /\ air[c] \in Entry
  BY At DEF CInv

(* One handler goes on, and what it leaves of each contract is as good.     *)
LEMMA GoesOn ==
    ASSUME IInv, CInv, NEW o \in Event, NEW n,
           op' = [op EXCEPT ![o] = n], n.pc # "idle",
           StoreKnown', Kn \subseteq Kn', Passed \subseteq Passed',
           Broken \subseteq Broken', Asked \subseteq Asked',
           Poised(n), Grounded(n, Kn', Passed', Broken', Asked'),
           op[o].pc # "idle" /\ n.kind = "confirm"
             => op[o].kind = "confirm" /\ n.marked \subseteq op[o].marked,
           Claimed(n) => \/ Claimed(op[o]) /\ n.on = op[o].on
                         \/ \A p \in Event \ {o} :
                               ~(Claimed(op[p]) /\ op[p].on = n.on),
           \A c \in Contract \ Passed' :
              /\ c \in Closing => c \in Closing'
              /\ c \in Broken' =>
                   \/ ram'[c].interrupted
                   \/ \E q \in Event : \/ Carries(op'[q], c, air'[c])
                                       \/ Closes(op'[q], c, air'[c])
              /\ ram[c].interrupted => ram'[c].interrupted \/ c \in Closing'
              /\ c \in n.marked => \/ c \in op[o].marked
                                   \/ ram[c].interrupted \/ c \in Closing
              /\ n.kind = "confirm" /\ c \in n.marked => Warned(n, c, Closing),
           \A x \in ran' : \/ x \in ran
                           \/ /\ x.by = o
                              /\ n.kind = "confirm" /\ x.on \in n.marked
                                   => x.on \in Asked'
    PROVE  CInv'
<1>1. /\ op'[o] = n /\ \A p \in Event \ {o} : op'[p] = op[p]
      /\ \A p \in Event : op[p] \in Handler
      /\ ran \subseteq [by : Event, on : Contract, result : {"complete", "fail"}]
  BY DEF IInv, StoreOK
<1>2. ASSUME NEW p \in Event
      PROVE  Poised(op'[p]) /\ Grounded(op'[p], Kn', Passed', Broken', Asked')
  <2>1. CASE p = o
    BY <1>1, <2>1
  <2>2. CASE p # o
    BY <1>1, <2>2, CalmAt, GroundedStays
  <2> QED
    BY <2>1, <2>2
<1>3. Locked'
  <2> SUFFICES ASSUME NEW p \in Event, NEW q \in Event, p # q,
                      Claimed(op'[p]), Claimed(op'[q]), op'[p].on = op'[q].on
               PROVE  FALSE
    BY DEF Locked
  <2>0. Locked
    BY DEF CInv
  <2>1. CASE p # o /\ q # o
    BY <1>1, <2>0, <2>1 DEF Locked
  <2>2. CASE p = o
    BY <1>1, <2>0, <2>2 DEF Locked
  <2>3. CASE q = o
    BY <1>1, <2>0, <2>3 DEF Locked
  <2> QED
    BY <2>1, <2>2, <2>3
<1>4. Noticed'
  BY DEF Noticed, Broken, Passed
<1>5. Sealed'
  <2> SUFFICES ASSUME NEW c \in Contract, c \notin Passed', NEW p \in Event,
                      c \in op'[p].marked
               PROVE  ram'[c].interrupted \/ c \in Closing'
    BY DEF Sealed
  <2>1. c \notin Passed
    OBVIOUS
  <2>2. ram[c].interrupted \/ c \in Closing
    <3>1. CASE c \in op[p].marked
      BY <2>1, <3>1 DEF CInv, Sealed
    <3>2. CASE c \notin op[p].marked
      <4>1. p = o
        BY <1>1, <3>2
      <4>2. c \in n.marked
        BY <1>1, <4>1
      <4>3. CASE c \in op[o].marked
        BY <2>1, <4>3 DEF CInv, Sealed
      <4> QED
        BY <4>2, <4>3
    <3> QED
      BY <3>1, <3>2
  <2> QED
    BY <2>2
<1>6. Heeded'
  <2> SUFFICES ASSUME NEW p \in Event, NEW c \in op'[p].marked, c \notin Passed',
                      op'[p].kind = "confirm"
               PROVE  Warned(op'[p], c, Closing')
    BY DEF Heeded
  <2>1. CASE p = o
    <3>1. c \in Contract
      BY <2>1, <1>1 DEF Poised
    <3>2. Warned(n, c, Closing)
      BY <1>1, <2>1, <3>1
    <3> QED
      BY <1>1, <2>1, <3>1, <3>2, WarnedStays
  <2>2. CASE p # o
    <3>1. op'[p] = op[p] /\ c \in Contract
      BY <1>1, <2>2 DEF Handler
    <3>2. Warned(op[p], c, Closing)
      BY <3>1 DEF CInv, Heeded
    <3> QED
      BY <3>1, <3>2, WarnedStays
  <2> QED
    BY <2>1, <2>2
<1>7. ASSUME NEW x \in ran'
      PROVE  /\ op'[x.by].pc # "idle"
             /\ op'[x.by].kind = "confirm" /\ x.on \in op'[x.by].marked
                  => x.on \in Asked'
  <2>1. CASE x \notin ran
    BY <1>1, <2>1
  <2>2. CASE x \in ran
    <3>1. /\ x.by \in Event /\ op[x.by].pc # "idle"
          /\ op[x.by].kind = "confirm" /\ x.on \in op[x.by].marked
               => x.on \in Asked
      BY <1>1, <2>2 DEF CInv
    <3>2. CASE x.by = o
      BY <1>1, <3>1, <3>2
    <3>3. CASE x.by # o
      BY <1>1, <3>1, <3>3
    <3> QED
      BY <3>2, <3>3
  <2> QED
    BY <2>1, <2>2
<1> QED
  BY <1>2, <1>3, <1>4, <1>5, <1>6, <1>7 DEF CInv

(* What a step leaves of a contract whose record it does not write.         *)
LEMMA Kept ==
    ASSUME IInv, CInv, NEW o \in Event, NEW n, op' = [op EXCEPT ![o] = n],
           NEW c \in Contract, c \notin Passed, air'[c] = air[c],
           Closes(op[o], c, air[c])
             => Closes(n, c, air[c]) /\ n.pc # "verify",
           Interrupts(n, c) => air[c].status = "pending",
           Carries(op[o], c, air[c])
             => Carries(n, c, air[c]) \/ ram'[c].interrupted,
           ram[c].interrupted
             => \/ ram'[c].interrupted
                \/ Closes(n, c, air[c]) /\ n.pc # "verify",
           c \in Broken' => c \in Broken \/ ram'[c].interrupted
    PROVE  /\ c \in Closing => c \in Closing'
           /\ c \in Broken' =>
                \/ ram'[c].interrupted
                \/ \E q \in Event : \/ Carries(op'[q], c, air'[c])
                                    \/ Closes(op'[q], c, air'[c])
           /\ ram[c].interrupted => ram'[c].interrupted \/ c \in Closing'
<1>1. op'[o] = n /\ \A p \in Event \ {o} : op'[p] = op[p]
  BY DEF IInv
<1>2. Closes(n, c, air[c]) /\ n.pc # "verify" => c \in Closing'
  BY <1>1 DEF Closing
<1>3. ASSUME c \in Closing PROVE c \in Closing'
  <2>1. PICK a \in Event :
          /\ Closes(op[a], c, air[c])
          /\ op[a].pc = "verify" => \A q \in Event : ~Interrupts(op[q], c)
    BY <1>3 DEF Closing
  <2>2. CASE a = o
    BY <1>2, <2>1, <2>2
  <2>3. CASE a # o
    <3>1. Closes(op'[a], c, air'[c])
      BY <1>1, <2>1, <2>3
    <3>2. ASSUME op'[a].pc = "verify", NEW q \in Event
          PROVE  ~Interrupts(op'[q], c)
      <4>1. op[a].pc = "verify" /\ air[c].status = "approved"
        BY <1>1, <2>1, <2>3, <3>2 DEF Closes
      <4>2. CASE q = o
        BY <1>1, <4>1, <4>2
      <4>3. CASE q # o
        BY <1>1, <2>1, <4>1, <4>3
      <4> QED
        BY <4>2, <4>3
    <3> QED
      BY <3>1, <3>2 DEF Closing
  <2> QED
    BY <2>2, <2>3
<1>4. ASSUME c \in Broken', ~ram'[c].interrupted
      PROVE  \E q \in Event : \/ Carries(op'[q], c, air'[c])
                              \/ Closes(op'[q], c, air'[c])
  <2>1. c \in Broken \ Passed
    BY <1>4
  <2>2. CASE ram[c].interrupted
    BY <1>1, <1>4, <2>2
  <2>3. ASSUME NEW q \in Event, Carries(op[q], c, air[c])
        PROVE  \E p \in Event : Carries(op'[p], c, air'[c])
    BY <1>1, <1>4, <2>3
  <2>4. ASSUME NEW q \in Event, Closes(op[q], c, air[c])
        PROVE  \E p \in Event : Closes(op'[p], c, air'[c])
    BY <1>1, <2>4
  <2> QED
    BY <2>1, <2>2, <2>3, <2>4 DEF CInv, Noticed
<1> QED
  BY <1>2, <1>3, <1>4

(* What a handler may become after h without taking a lock.                 *)
Follows(n, h, K, P, I, R) ==
    /\ Poised(n) /\ Grounded(n, K, P, I, R)
    /\ n.pc # "idle" /\ h.pc # "idle"
    /\ n.marked \subseteq h.marked
    /\ n.kind = "confirm" => h.kind = "confirm"
    /\ Claimed(n) => Claimed(h) /\ n.on = h.on

(* It is neither on its way to the cache or the run, nor about to write.    *)
Still(h) == h.pc \notin {"patch", "verify", "cache", "dispatch"}

(* A step that touches neither cache, nor store, nor provider.              *)
LEMMA GoesOnQuietly ==
    ASSUME IInv, CInv, NEW o \in Event, NEW n, op' = [op EXCEPT ![o] = n],
           UNCHANGED <<ram, air, ran>>,
           Follows(n, op[o], Kn, Passed, Broken, Asked),
           \A c \in Contract \ Passed :
              /\ Closes(op[o], c, air[c])
                   => Closes(n, c, air[c]) /\ n.pc # "verify"
              /\ Interrupts(n, c) => air[c].status = "pending"
              /\ Carries(op[o], c, air[c]) => Carries(n, c, air[c])
              /\ n.kind = "confirm" /\ c \in n.marked => Warned(n, c, Closing)
    PROVE  CInv'
<1>1. /\ Kn' = Kn /\ Passed' = Passed /\ Broken' = Broken /\ Asked' = Asked
      /\ Stored' = Stored
  BY DEF Kn, Passed, Past, Performed, Now, Broken, Asked, Stored
<1>2. StoreKnown'
  BY <1>1 DEF CInv, StoreKnown
<1>3. ASSUME NEW c \in Contract, c \notin Passed
      PROVE  /\ c \in Closing => c \in Closing'
             /\ c \in Broken' =>
                  \/ ram'[c].interrupted
                  \/ \E q \in Event : \/ Carries(op'[q], c, air'[c])
                                      \/ Closes(op'[q], c, air'[c])
             /\ ram[c].interrupted => ram'[c].interrupted \/ c \in Closing'
  <2>1. /\ Closes(op[o], c, air[c])
             => Closes(n, c, air[c]) /\ n.pc # "verify"
        /\ Interrupts(n, c) => air[c].status = "pending"
        /\ Carries(op[o], c, air[c]) => Carries(n, c, air[c])
    BY <1>3
  <2> QED
    BY <1>1, <1>3, <2>1, Kept
<1> QED
  BY <1>1, <1>2, <1>3, GoesOn DEF Follows

(* Neither does one that writes nothing and is not about to.                *)
LEMMA GoesOnStill ==
    ASSUME IInv, CInv, NEW o \in Event, NEW n, op' = [op EXCEPT ![o] = n],
           UNCHANGED <<ram, air, ran>>, Still(op[o]), n.pc # "patch",
           Follows(n, op[o], Kn, Passed, Broken, Asked),
           \A c \in Contract \ Passed :
              n.kind = "confirm" /\ c \in n.marked => Warned(n, c, Closing)
    PROVE  CInv'
<1>1. \A c \in Contract : /\ ~Closes(op[o], c, air[c])
                          /\ ~Carries(op[o], c, air[c])
                          /\ ~Interrupts(n, c)
  BY DEF Still, Closes, Carries, Interrupts
<1> QED
  BY <1>1, GoesOnQuietly

-----------------------------------------------------------------------------
(* Handlers that have let go of their contract.                             *)
Away(h) == \/ h.pc \in {"done", "next", "answer"}
           \/ h.pc = "route" /\ h.kind = "fallback"

LEMMA AwayWarned ==
    ASSUME NEW h, Away(h), NEW c, NEW S
    PROVE  h.kind = "confirm" => Warned(h, c, S)
  BY DEF Away, Warned, Locking

LEMMA ToldAway ==
    ASSUME NEW h \in Handler, h.pc # "idle", NEW t, NEW K, NEW P, NEW I, NEW R,
           Poised(h), Grounded(h, K, P, I, R)
    PROVE  Follows(Told(h, t), h, K, P, I, R) /\ Away(Told(h, t))
<1> DEFINE n == Told(h, t)
<1>1. /\ n.pc = "done" /\ n.kind = h.kind /\ n.todo = {}
      /\ n.marked = h.marked
  BY DEF Told, Handler
<1>2. Follows(n, h, K, P, I, R) /\ Away(n)
  <2> HIDE DEF n
  <2> QED
    BY <1>1 DEF Follows, Poised, Grounded, Claimed, Locking, Away
<1> QED
  BY <1>2

LEMMA AnswerAway ==
    ASSUME NEW h \in Handler, h.pc # "idle", NEW K, NEW P, NEW I, NEW R,
           Poised(h), Grounded(h, K, P, I, R)
    PROVE  Follows(To(h, "answer"), h, K, P, I, R) /\ Away(To(h, "answer"))
<1> DEFINE n == To(h, "answer")
<1>1. /\ n.pc = "answer" /\ n.kind = h.kind /\ n.todo = h.todo
      /\ n.marked = h.marked
  BY DEF To, Handler
<1>2. Follows(n, h, K, P, I, R) /\ Away(n)
  <2> HIDE DEF n
  <2> QED
    BY <1>1 DEF Follows, Poised, Grounded, Claimed, Locking, Away
<1> QED
  BY <1>2

LEMMA LoopedAway ==
    ASSUME NEW h \in Handler, h.pc # "idle", NEW t, NEW K, NEW P, NEW I, NEW R,
           Poised(h), Grounded(h, K, P, I, R)
    PROVE  Follows(Looped(h, t), h, K, P, I, R) /\ Away(Looped(h, t))
<1>1. CASE h.todo = {}
  BY <1>1, ToldAway DEF Looped
<1>2. CASE h.todo # {}
  <2> DEFINE n == [h EXCEPT !.pc = "next", !.again = FALSE]
  <2>1. /\ n.pc = "next" /\ n.kind = h.kind /\ n.todo = h.todo
        /\ n.marked = h.marked
    BY DEF Handler
  <2>2. Looped(h, t) = n
    BY <1>2 DEF Looped
  <2>3. Follows(n, h, K, P, I, R) /\ Away(n)
    <3> HIDE DEF n
    <3> QED
      BY <2>1 DEF Follows, Poised, Grounded, Claimed, Locking, Away
  <2> QED
    BY <2>2, <2>3
<1> QED
  BY <1>1, <1>2

LEMMA RaisedAway ==
    ASSUME NEW h \in Handler, h.pc \in Locking, NEW K, NEW P, NEW I, NEW R,
           Poised(h), Grounded(h, K, P, I, R)
    PROVE  Follows(Raised(h), h, K, P, I, R) /\ Away(Raised(h))
<1> DEFINE n == [Fresh EXCEPT !.pc = "route", !.kind = "fallback"]
<1>1. \/ Raised(h) = n
      \/ Raised(h) = Told(h, "none")
      \/ Raised(h) = Told(h, "not_saved")
      \/ Raised(h) = To(h, "answer")
  BY DEF Raised, To
<1>2. Follows(n, h, K, P, I, R) /\ Away(n)
  <2>1. /\ n.pc = "route" /\ n.kind = "fallback" /\ n.todo = {}
        /\ n.marked = {} /\ n.got = Nothing
    BY DEF Fresh
  <2> HIDE DEF n
  <2>2. \A c \in Contract : ~Nothing[c].reconfirm
    BY DEF Nothing, Absent
  <2> QED
    BY <2>1, <2>2 DEF Follows, Poised, Grounded, Claimed, Locking, Away
<1>3. h.pc # "idle"
  BY DEF Locking
<1> QED
  BY <1>1, <1>2, <1>3, ToldAway, AnswerAway

LEMMA ConflictedFollows ==
    ASSUME NEW h \in Handler, h.pc \in {"get", "verify"},
           NEW K, NEW P, NEW I, NEW R, Poised(h), Grounded(h, K, P, I, R),
           NEW n, n = Conflicted(h), NEW c, NEW S,
           h.kind = "confirm" => Warned(h, c, S)
    PROVE  /\ Follows(n, h, K, P, I, R)
           /\ n.pc # "patch" /\ n.pc # "verify"
           /\ n.kind = "confirm" => Warned(n, c, S)
<1>1. CASE h.again
  <2>1. n = Raised(h)
    BY <1>1 DEF Conflicted
  <2>2. Follows(n, h, K, P, I, R) /\ Away(n)
    BY <2>1, RaisedAway DEF Locking
  <2> QED
    BY <2>2, AwayWarned DEF Away
<1>2. CASE ~h.again
  <2>1. n = [h EXCEPT !.pc = "refresh"]
    BY <1>2 DEF Conflicted
  <2>2. /\ n.pc = "refresh" /\ n.kind = h.kind /\ n.todo = h.todo
        /\ n.marked = h.marked /\ n.on = h.on /\ n.intent = h.intent
    BY <2>1 DEF Handler
  <2>3. Follows(n, h, K, P, I, R)
    BY <2>2 DEF Follows, Poised, Grounded, Claimed, Locking
  <2>4. Warned(h, c, S) => Warned(n, c, S)
    BY <2>2 DEF Warned, Locking
  <2> QED
    BY <2>2, <2>3, <2>4
<1> QED
  BY <1>1, <1>2

(* A handler that goes from a phase of update_status to the next one.       *)
LEMMA LockingFollows ==
    ASSUME NEW h \in Handler, h.pc \in Locking,
           NEW K, NEW P, NEW I, NEW R, Poised(h), Grounded(h, K, P, I, R),
           NEW n, n.pc \in {"get", "patch", "heal", "refresh"},
           n.kind = h.kind, n.on = h.on, n.intent = h.intent,
           n.todo = h.todo, n.marked = h.marked, NEW c, NEW S,
           h.kind = "confirm" => Warned(h, c, S)
    PROVE  /\ Follows(n, h, K, P, I, R)
           /\ n.kind = "confirm" => Warned(n, c, S)
<1>1. Follows(n, h, K, P, I, R)
  BY DEF Follows, Poised, Grounded, Claimed, Locking
<1>2. Warned(h, c, S) => Warned(n, c, S)
  BY DEF Warned, Locking
<1> QED
  BY <1>1, <1>2

LEMMA WarnedAt ==
    ASSUME CInv, NEW o \in Event, NEW c \in Contract \ Passed,
           c \in op[o].marked, op[o].kind = "confirm"
    PROVE  /\ Warned(op[o], c, Closing)
           /\ ram[c].interrupted \/ c \in Closing
  BY DEF CInv, Heeded, Sealed

(* A step after which the handler has let go of its contract.               *)
LEMMA GoesAway ==
    ASSUME IInv, CInv, NEW o \in Event, NEW n, op' = [op EXCEPT ![o] = n],
           UNCHANGED <<ram, air, ran>>, Still(op[o]),
           Follows(n, op[o], Kn, Passed, Broken, Asked), Away(n)
    PROVE  CInv'
  BY AwayWarned, GoesOnStill DEF Away

LEMMA ContextInitially == Init => CInv
<1> SUFFICES ASSUME Init PROVE CInv
  OBVIOUS
<1>1. /\ ram = Nothing /\ air = Nothing /\ ran = {}
      /\ \A o \in Event : op[o] = Fresh
  BY DEF Init
<1>2. /\ Fresh.pc = "idle" /\ Fresh.todo = {} /\ Fresh.marked = {}
  BY DEF Fresh
<1>3. Passed = {} /\ Broken = {} /\ Asked = {} /\ Stored = {}
  BY <1>1 DEF Passed, Past, Performed, Broken, Asked, Stored, Now, Nothing,
     Absent
<1>4. StoreKnown
  BY <1>1, <1>3 DEF StoreKnown, Plain, Nothing, Absent
<1>5. ASSUME NEW o \in Event
      PROVE  Poised(op[o]) /\ Grounded(op[o], Kn, Passed, Broken, Asked)
  <2>1. op[o].pc = "idle" /\ op[o].todo = {} /\ op[o].marked = {}
    BY <1>1, <1>2
  <2> QED
    BY <2>1 DEF Poised, Grounded, Locking
<1>6. Locked
  BY <1>1, <1>2 DEF Locked, Claimed, Locking
<1>7. Noticed /\ Sealed /\ Heeded
  BY <1>1, <1>2, <1>3 DEF Noticed, Sealed, Heeded
<1> QED
  BY <1>1, <1>4, <1>5, <1>6, <1>7 DEF CInv

-----------------------------------------------------------------------------
(* A word arrives: what it has to respect is in the cache, or too late.     *)
LEMMA ArriveWarns ==
    ASSUME IInv, CInv, NEW c \in Interrupted, c \notin Passed
    PROVE  c \in Contract /\ (ram[c].interrupted \/ c \in Closing)
<1>1. /\ c \in Contract /\ c \in Broken
      /\ \A p \in Event : op[p].kind \in Meddling
                            => op[p].pc \in {"idle", "done"}
  BY DEF Interrupted, Broken, Meddling
<1>2. ASSUME NEW q \in Event PROVE ~Carries(op[q], c, air[c])
                                   /\ ~Interrupts(op[q], c)
  <2>1. Poised(op[q])
    BY CalmAt
  <2> QED
    BY <1>1, <2>1 DEF Poised, Carries, Interrupts, Locking
<1>3. (\E q \in Event : Closes(op[q], c, air[c])) => c \in Closing
  BY <1>1, <1>2 DEF Closing
<1> QED
  BY <1>1, <1>2, <1>3 DEF CInv, Noticed

LEMMA ArriveWarned ==
    ASSUME IInv, CInv, NEW o \in Event, NEW k \in Kinds,
           NEW c \in Contract \cup {None}, Arrive(o, k, c), ~Rejecting'
    PROVE  CInv'
<1> DEFINE h == op[o]
           m == IF k = "confirm" THEN Interrupted ELSE {}
           pc == IF c = None THEN "look" ELSE "find"
           i == IF c = None THEN "none" ELSE k
           n == Arrived(h, k, c, pc, i, m)
<1>1. op' = [op EXCEPT ![o] = n] /\ UNCHANGED <<ram, air, ran>>
      /\ h.pc = "idle" /\ op'[o] = n
  BY At DEF Arrive, Arrived, IInv
<1>2. h \in Handler /\ h.todo = {} /\ k \in Kind \ {"fallback"}
  BY <1>1, CalmAt, KindsAreKinds DEF Wired, Resting
<1>3. c # None => /\ c \in Contract /\ k \in {"approve", "reject"}
                  /\ c \in Kn /\ i = k /\ pc = "find"
  <2> SUFFICES ASSUME c # None PROVE c \in Contract /\ c \in Kn
                                     /\ k \in {"approve", "reject"}
    OBVIOUS
  <2>1. c \in Contract /\ k \in {"approve", "reject"} /\ Now[c].status # "absent"
    BY DEF Arrive
  <2>2. c \in Kn
    BY <2>1, CalmAt DEF StoreKnown, Now, Kn, Stored
  <2> QED
    BY <2>1, <2>2
<1>4. c = None => k \notin {"approve", "reject"} /\ i = "none" /\ pc = "look"
  BY NoneIsFresh DEF Arrive
<1>5. m \subseteq Contract /\ (m # {} => k = "confirm")
  BY DEF Interrupted
<1>6. \A d \in m \ Passed : ram[d].interrupted \/ d \in Closing
  BY ArriveWarns
<1>7. k \notin {"reject", "cancel"}
  <2>1. n.pc # "idle" /\ n.kind = k
    BY <1>2, <1>3, <1>4 DEF Arrived, Handler
  <2> QED
    BY <1>1, <2>1 DEF Rejecting
<1> HIDE DEF m, pc, i
<1>8. /\ n.pc = pc /\ n.kind = k /\ n.on = c /\ n.intent = i
      /\ n.todo = {} /\ n.marked = m /\ n.pc # "idle"
  BY <1>2, <1>3, <1>4 DEF Arrived, Handler
<1> HIDE DEF n
<1>9. Poised(n) /\ Grounded(n, Kn, Passed, Broken, Asked) /\ ~Claimed(n)
  BY <1>3, <1>4, <1>5, <1>7, <1>8 DEF Poised, Grounded, Claimed, Locking
<1>10. /\ Kn' = Kn /\ Passed' = Passed /\ Broken' = Broken /\ Asked' = Asked
       /\ Stored' = Stored
  BY <1>1 DEF Kn, Passed, Past, Performed, Now, Broken, Asked, Stored
<1>11. StoreKnown'
  BY <1>1, <1>10 DEF CInv, StoreKnown
<1>12. ASSUME NEW d \in Contract, d \notin Passed
       PROVE  /\ d \in Closing => d \in Closing'
              /\ d \in Broken' =>
                   \/ ram'[d].interrupted
                   \/ \E q \in Event : \/ Carries(op'[q], d, air'[d])
                                       \/ Closes(op'[q], d, air'[d])
              /\ ram[d].interrupted => ram'[d].interrupted \/ d \in Closing'
  <2>1. /\ ~Closes(h, d, air[d]) /\ ~Carries(h, d, air[d])
        /\ ~Interrupts(n, d)
    BY <1>1, <1>3, <1>4, <1>8 DEF Closes, Carries, Interrupts
  <2> QED
    BY <1>1, <1>10, <1>12, <2>1, Kept
<1>13. ASSUME NEW d \in Contract, d \notin Passed, n.kind = "confirm", d \in m
       PROVE  Warned(n, d, Closing)
  BY <1>3, <1>4, <1>8, <1>13 DEF Warned, Locking
<1> QED
  BY <1>1, <1>6, <1>8, <1>9, <1>10, <1>11, <1>12, <1>13, GoesOn

LEMMA FindWarned ==
    ASSUME IInv, CInv, NEW o \in Event, Find(o) PROVE CInv'
<1> DEFINE h == op[o]
           c == h.on
<1>0. /\ h.pc = "find" /\ UNCHANGED <<ram, air, ran>> /\ Known(c)
      /\ h \in Handler /\ Still(h)
  BY CalmAt DEF Find, Grounded, Kn, Known, Still
<1>1. \/ op' = [op EXCEPT ![o] = To(h, "enter")]
      \/ op' = [op EXCEPT ![o] = Told(h, ram[c].status)]
  BY <1>0 DEF Find, To
<1>2. CASE op' = [op EXCEPT ![o] = Told(h, ram[c].status)]
  <2>1. Follows(Told(h, ram[c].status), h, Kn, Passed, Broken, Asked)
        /\ Away(Told(h, ram[c].status))
    BY <1>0, CalmAt, ToldAway
  <2> QED
    BY <1>0, <1>2, <2>1, GoesAway
<1>3. CASE op' = [op EXCEPT ![o] = To(h, "enter")]
  <2> DEFINE n == To(h, "enter")
  <2>1. /\ n.pc = "enter" /\ n.kind = h.kind /\ n.on = h.on
        /\ n.intent = h.intent /\ n.todo = h.todo /\ n.marked = h.marked
    BY <1>0 DEF To, Handler
  <2> HIDE DEF n
  <2>2. Follows(n, h, Kn, Passed, Broken, Asked)
    BY <1>0, <2>1, CalmAt DEF Follows, Poised, Grounded, Claimed, Locking
  <2>3. ASSUME NEW d \in Contract \ Passed, n.kind = "confirm", d \in n.marked
        PROVE  Warned(n, d, Closing)
    BY <1>0, <2>1, <2>3, WarnedAt DEF Warned, Locking
  <2> QED
    BY <1>0, <1>3, <2>1, <2>2, <2>3, GoesOnStill DEF n
<1> QED
  BY <1>1, <1>2, <1>3

LEMMA HydrateWarned ==
    ASSUME IInv, CInv, NEW o \in Event, Hydrate(o) PROVE CInv'
  BY CalmAt DEF Hydrate, Poised

(* The list a handler routes by.                                            *)
LEMMA RoutedFollows ==
    ASSUME IInv, CInv, NEW o \in Event, op[o].pc \in {"look", "recover"},
           NEW n, n = Handed(op[o], "route", Pending(ram))
    PROVE  /\ Follows(n, op[o], Kn, Passed, Broken, Asked) /\ n.pc = "route"
           /\ \A c \in Contract \ Passed :
                 n.kind = "confirm" /\ c \in n.marked => Warned(n, c, Closing)
<1> DEFINE h == op[o]
<1>1. /\ n.pc = "route" /\ n.kind = h.kind /\ n.todo = h.todo
      /\ n.marked = h.marked /\ n.got = Pending(ram)
  BY CalmAt DEF Handed, Handler
<1>2. \A c \in Contract : \/ Pending(ram)[c] = ram[c]
                          \/ /\ Pending(ram)[c] = Absent
                             /\ ~Absent.reconfirm /\ Absent.status # "pending"
  BY DEF Pending, Absent
<1>3. \A c \in Contract : n.got[c].reconfirm => c \in Asked
  BY <1>1, <1>2, CalmAt DEF StoreKnown
<1>4. Follows(n, h, Kn, Passed, Broken, Asked)
  BY <1>1, <1>3, CalmAt DEF Follows, Poised, Grounded, Claimed, Locking
<1>5. ASSUME NEW c \in Contract \ Passed, n.kind = "confirm", c \in n.marked
      PROVE  Warned(n, c, Closing)
  <2>1. ram[c].interrupted \/ c \in Closing
    BY <1>1, <1>5, WarnedAt
  <2> QED
    BY <1>1, <1>2, <2>1 DEF Warned, Locking
<1> QED
  BY <1>1, <1>4, <1>5

LEMMA LookWarned ==
    ASSUME IInv, CInv, NEW o \in Event, Look(o) PROVE CInv'
<1> DEFINE h == op[o]
<1>0. /\ h.pc = "look" /\ UNCHANGED <<ram, air, ran>>
      /\ h \in Handler /\ Still(h)
  BY CalmAt DEF Look, Still
<1>1. CASE op' = [op EXCEPT ![o] = Handed(h, "route", Pending(ram))]
  <2> DEFINE n == Handed(h, "route", Pending(ram))
  <2>1. /\ Follows(n, h, Kn, Passed, Broken, Asked) /\ n.pc # "patch"
        /\ \A c \in Contract \ Passed :
              n.kind = "confirm" /\ c \in n.marked => Warned(n, c, Closing)
    BY <1>0, RoutedFollows
  <2> HIDE DEF n
  <2> QED
    BY <1>0, <1>1, <2>1, GoesOnStill DEF n
<1>2. CASE Cold /\ op' = [op EXCEPT ![o] = Handed(h, "recover", Pending(air))]
  <2> DEFINE n == Handed(h, "recover", Pending(air))
  <2>1. /\ n.pc = "recover" /\ n.kind = h.kind /\ n.todo = h.todo
        /\ n.marked = h.marked /\ n.got = Pending(air)
    BY <1>0 DEF Handed, Handler
  <2>2. \A c \in Contract : air[c].status = "absent"
    BY <1>2, CalmAt DEF Cold, Known, StoreKnown, Kn, Stored
  <2>3. \A c \in Contract : Pending(air)[c].status = "absent"
    BY <2>2 DEF Pending, Absent
  <2> HIDE DEF n
  <2>4. Follows(n, h, Kn, Passed, Broken, Asked)
    BY <1>0, <2>1, <2>3, CalmAt DEF Follows, Poised, Grounded, Claimed, Locking
  <2>5. \A c : Warned(n, c, Closing)
    BY <2>1 DEF Warned, Locking
  <2> QED
    BY <1>0, <1>2, <2>1, <2>4, <2>5, GoesOnStill DEF n
<1>3. CASE op' = [op EXCEPT ![o] = Told(h, "error")]
  <2>1. Follows(Told(h, "error"), h, Kn, Passed, Broken, Asked)
        /\ Away(Told(h, "error"))
    BY <1>0, CalmAt, ToldAway
  <2> QED
    BY <1>0, <1>3, <2>1, GoesAway
<1> QED
  BY <1>1, <1>2, <1>3 DEF Look, Handed

LEMMA RecoverWarned ==
    ASSUME IInv, CInv, NEW o \in Event, Recover(o) PROVE CInv'
<1> DEFINE h == op[o]
<1>0. /\ h.pc = "recover" /\ ram' = Cached(h.got) /\ UNCHANGED <<air, ran>>
      /\ op' = [op EXCEPT ![o] = Handed(h, "route", Pending(Cached(h.got)))]
      /\ ram \in [Contract -> Entry] /\ Still(h)
  BY CalmAt DEF Recover, Handed, StoreOK, Still
<1>1. \A c \in Contract : Cached(h.got)[c] = ram[c]
  BY <1>0, CalmAt DEF Cached, Poised
<1>2. Cached(h.got) = ram
  BY <1>0, <1>1 DEF Cached
<1>3. /\ ram' = ram
      /\ op' = [op EXCEPT ![o] = Handed(h, "route", Pending(ram))]
  BY <1>0, <1>2
<1> DEFINE n == Handed(h, "route", Pending(ram))
<1>4. /\ Follows(n, h, Kn, Passed, Broken, Asked) /\ n.pc # "patch"
      /\ \A c \in Contract \ Passed :
            n.kind = "confirm" /\ c \in n.marked => Warned(n, c, Closing)
  BY <1>0, RoutedFollows
<1> HIDE DEF n
<1> QED
  BY <1>0, <1>3, <1>4, GoesOnStill DEF n

(* A word picks a contract: it asks, or what it did not see comes too late. *)
LEMMA RouteConfirmWarned ==
    ASSUME IInv, CInv, NEW o \in Event, op[o].pc = "route",
           UNCHANGED <<ram, air, ran>>,
           NEW c \in Listed(o), NEW e \in Shown(o, c),
           op' = [op EXCEPT ![o].pc = IF e.interrupted /\ ~e.reconfirm
                                        THEN "capture" ELSE "find",
                            ![o].on = c,
                            ![o].intent = IF e.interrupted /\ ~e.reconfirm
                                            THEN "ask" ELSE "approve",
                            ![o].got = Nothing]
    PROVE  CInv'
<1> DEFINE h == op[o]
           pc == IF e.interrupted /\ ~e.reconfirm THEN "capture" ELSE "find"
           i == IF e.interrupted /\ ~e.reconfirm THEN "ask" ELSE "approve"
           n == Sent(h, pc, c, i)
<1>0. /\ h \in Handler /\ Still(h) /\ c \in Contract /\ c \in Kn
      /\ h.got[c].status = "pending"
  BY CalmAt DEF Still, Listed, Wired
<1>1. op' = [op EXCEPT ![o] = n]
  <2> HIDE DEF pc, i
  <2>1. op' = [op EXCEPT ![o].pc = pc, ![o].on = c, ![o].intent = i,
                         ![o].got = Nothing]
    BY DEF pc, i
  <2> QED
    BY <2>1, At DEF Sent, IInv
<1>2. e = h.got[c] \/ e = ram[c]
  BY DEF Shown
<1>3. \/ pc = "capture" /\ i = "ask"
      \/ /\ pc = "find" /\ i = "approve"
         /\ ~e.interrupted \/ c \in Passed
  <2>1. e.reconfirm => c \in Passed
    BY <1>0, <1>2, CalmAt
    DEF Grounded, StoreKnown, Asked, Passed, Past
  <2> QED
    BY <2>1
<1> HIDE DEF pc, i
<1>4. /\ n.pc = pc /\ n.kind = h.kind /\ n.on = c /\ n.intent = i
      /\ n.todo = h.todo /\ n.got = Nothing /\ n.marked = h.marked
  BY <1>0 DEF Sent, Handler
<1> HIDE DEF n
<1>5. Follows(n, h, Kn, Passed, Broken, Asked)
  BY <1>0, <1>3, <1>4, CalmAt DEF Follows, Poised, Grounded, Claimed, Locking
<1>6. ASSUME NEW d \in Contract \ Passed, n.kind = "confirm", d \in n.marked
      PROVE  Warned(n, d, Closing)
  <2>1. /\ Warned(h, d, Closing)
        /\ ram[d].interrupted \/ d \in Closing
    BY <1>4, <1>6, WarnedAt
  <2>2. CASE d # c \/ pc = "capture"
    BY <1>3, <1>4, <2>2 DEF Warned
  <2>3. CASE d = c /\ pc = "find"
    <3>1. ~e.interrupted
      BY <1>3, <1>6, <2>3
    <3>2. c \in Closing
      BY <1>0, <1>2, <2>1, <2>3, <3>1 DEF Warned
    <3> QED
      BY <1>3, <1>4, <2>3, <3>2 DEF Warned, Locking
  <2> QED
    BY <1>3, <2>2, <2>3
<1>7. n.pc # "patch"
  BY <1>3, <1>4
<1> QED
  BY <1>0, <1>1, <1>5, <1>6, <1>7, GoesOnStill

LEMMA RouteWarned ==
    ASSUME IInv, CInv, NEW o \in Event, Route(o) PROVE CInv'
<1> DEFINE h == op[o]
<1>0. /\ h.pc = "route" /\ UNCHANGED <<ram, air, ran>>
      /\ h \in Handler /\ Still(h) /\ h.pc # "idle"
      /\ h.kind = "confirm" \/ h.kind \in Meddling
      /\ Poised(h) /\ Grounded(h, Kn, Passed, Broken, Asked)
  BY CalmAt DEF Route, Still, Poised, Handler, Kind, Meddling
<1>1. ASSUME NEW t, op' = [op EXCEPT ![o] = Told(h, t)] PROVE CInv'
  <2>1. Follows(Told(h, t), h, Kn, Passed, Broken, Asked) /\ Away(Told(h, t))
    BY <1>0, ToldAway
  <2> QED
    BY <1>0, <1>1, <2>1, GoesAway
<1>2. CASE h.kind = "confirm"
  <2>1. RouteConfirm(o)
    BY <1>2 DEF Route
  <2> QED
    BY <1>0, <1>1, <2>1, RouteConfirmWarned DEF RouteConfirm
<1>3. CASE h.kind \in Meddling
  <2> DEFINE listed == {d \in Live : \/ h.kind = "fallback"
                                     \/ ram[d].reconfirm
                                     \/ ~ram[d].interrupted}
             marks == {<<c, IF ram[c].reconfirm THEN "supersede"
                                                ELSE "interrupt">> : c \in listed}
             m == [h EXCEPT !.todo = marks, !.got = Nothing]
             n == Looped(m, "none")
  <2>1. op' = [op EXCEPT ![o] = n]
    BY <1>3 DEF Route, RouteIngress, Meddling
  <2>2. /\ \A item \in marks : /\ item[2] \in {"interrupt", "supersede"}
                               /\ item[2] = "supersede" => item[1] \in Passed
        /\ marks \in SUBSET (Contract \X Intent)
    <3>1. \A c \in listed : /\ c \in Contract
                            /\ ram[c].reconfirm => c \in Passed
      BY CalmAt DEF StoreKnown, Asked, Passed, Past, Live
    <3> HIDE DEF listed
    <3> QED
      BY <3>1 DEF Intent
  <2> HIDE DEF marks
  <2>3. /\ m \in Handler /\ m.pc = "route" /\ m.kind = h.kind
        /\ m.todo = marks /\ m.got = Nothing /\ m.marked = h.marked
        /\ m.on = h.on /\ m.intent = h.intent
    BY <1>0, <2>2, NothingTyped DEF Handler
  <2> HIDE DEF m
  <2>4. \A c \in Contract : ~Nothing[c].reconfirm
    BY DEF Nothing, Absent
  <2>5. Poised(m) /\ Grounded(m, Kn, Passed, Broken, Asked)
    BY <1>0, <1>3, <2>2, <2>3, <2>4 DEF Poised, Grounded, Locking
  <2>6. Follows(n, m, Kn, Passed, Broken, Asked) /\ Away(n)
    BY <2>3, <2>5, LoopedAway
  <2> HIDE DEF n
  <2>7. Follows(n, h, Kn, Passed, Broken, Asked)
    BY <1>0, <2>3, <2>6 DEF Follows, Claimed
  <2> QED
    BY <1>0, <2>1, <2>6, <2>7, GoesAway
<1> QED
  BY <1>0, <1>2, <1>3

LEMMA NextItemWarned ==
    ASSUME IInv, CInv, NEW o \in Event, NextItem(o) PROVE CInv'
<1> DEFINE h == op[o]
<1>0. /\ h.pc = "next" /\ UNCHANGED <<ram, air, ran>>
      /\ h \in Handler /\ Still(h)
      /\ Poised(h) /\ Grounded(h, Kn, Passed, Broken, Asked)
  BY CalmAt DEF NextItem, Still
<1>1. PICK item \in h.todo :
        op' = [op EXCEPT ![o].on = item[1], ![o].intent = item[2],
                         ![o].todo = @ \ {item},
                         ![o].pc = IF item[2] = "reject" THEN "enter"
                                                         ELSE "capture"]
  BY DEF NextItem
<1> DEFINE x == h.todo \ {item}
           n == Picked(h, item[1], item[2], x, "capture")
<1>2. item[2] \in {"interrupt", "supersede"}
      /\ (item[2] = "supersede" => item[1] \in Passed)
  BY <1>0 DEF Poised, Grounded
<1>3. op' = [op EXCEPT ![o] = n]
  <2> HIDE DEF x
  <2>1. op' = [op EXCEPT ![o].on = item[1], ![o].intent = item[2],
                         ![o].todo = x, ![o].pc = "capture"]
    BY <1>1, <1>2 DEF x
  <2> QED
    BY <2>1, At DEF Picked, IInv
<1>4. /\ n.pc = "capture" /\ n.kind = h.kind /\ n.intent = item[2]
      /\ n.on = item[1] /\ n.todo = x /\ n.got = h.got /\ n.marked = h.marked
  <2> HIDE DEF x
  <2> QED
    BY <1>0 DEF Picked, Handler
<1> HIDE DEF n
<1>5. h.kind \in Meddling
  BY <1>0, <1>1 DEF Poised
<1>6. Follows(n, h, Kn, Passed, Broken, Asked)
  BY <1>0, <1>2, <1>4, <1>5
  DEF Follows, Poised, Grounded, Claimed, Locking
<1>7. n.kind # "confirm" /\ n.pc # "patch"
  BY <1>4, <1>5 DEF Meddling
<1> QED
  BY <1>0, <1>3, <1>6, <1>7, GoesOnStill

(* Under the lock nobody else closes the contract, so a word that was not   *)
(* warned finds it run or asked about.                                      *)
LEMMA EnterWarned ==
    ASSUME IInv, CInv, NEW o \in Event, Enter(o) PROVE CInv'
<1> DEFINE h == op[o]
           c == h.on
           n == To(h, "capture")
<1>0. /\ h.pc = "enter" /\ UNCHANGED <<ram, air, ran>>
      /\ h \in Handler /\ Still(h) /\ h.intent = "approve"
      /\ h.pc # "idle" /\ LockFree(o, c)
      /\ Poised(h) /\ Grounded(h, Kn, Passed, Broken, Asked)
  BY CalmAt DEF Enter, Still, Poised
<1>1. ASSUME \/ op' = [op EXCEPT ![o] = To(h, "answer")]
             \/ op' = [op EXCEPT ![o] = Told(h, ram[c].status)]
      PROVE  CInv'
  <2>1. /\ Follows(To(h, "answer"), h, Kn, Passed, Broken, Asked)
        /\ Away(To(h, "answer"))
        /\ Follows(Told(h, ram[c].status), h, Kn, Passed, Broken, Asked)
        /\ Away(Told(h, ram[c].status))
    BY <1>0, AnswerAway, ToldAway
  <2> QED
    BY <1>0, <1>1, <2>1, GoesAway
<1>2. CASE op' = [op EXCEPT ![o] = n]
  <2>1. /\ n.pc = "capture" /\ n.kind = h.kind /\ n.on = c
        /\ n.intent = h.intent /\ n.todo = h.todo /\ n.got = h.got
        /\ n.marked = h.marked
    BY <1>0 DEF To, Handler
  <2> HIDE DEF n
  <2>2. \A p \in Event \ {o} : ~(Claimed(op[p]) /\ op[p].on = c)
    BY <1>0 DEF LockFree, Holds, Claimed, Locking
  <2>3. c \notin Closing
    <3>1. ASSUME NEW p \in Event PROVE ~Closes(op[p], c, air[c])
      <4>1. CASE p = o
        BY <1>0, <4>1 DEF Closes
      <4>2. CASE p # o
        BY <2>2, <4>2 DEF Closes, Claimed, Locking
      <4> QED
        BY <4>1, <4>2
    <3> QED
      BY <3>1 DEF Closing
  <2>4. Poised(n) /\ Grounded(n, Kn, Passed, Broken, Asked)
    BY <1>0, <2>1 DEF Poised, Grounded, Locking
  <2>5. ASSUME NEW d \in Contract \ Passed, n.kind = "confirm", d \in n.marked
        PROVE  Warned(n, d, Closing)
    <3>1. Warned(h, d, Closing)
      BY <2>1, <2>5, WarnedAt
    <3>2. d # c
      BY <1>0, <2>3, <3>1 DEF Warned
    <3> QED
      BY <2>1, <3>2 DEF Warned
  <2>6. /\ Kn' = Kn /\ Passed' = Passed /\ Broken' = Broken /\ Asked' = Asked
        /\ Stored' = Stored
    BY <1>0 DEF Kn, Passed, Past, Performed, Now, Broken, Asked, Stored
  <2>7. StoreKnown'
    BY <1>0, <2>6 DEF CInv, StoreKnown
  <2>8. ASSUME NEW d \in Contract, d \notin Passed
        PROVE  /\ d \in Closing => d \in Closing'
               /\ d \in Broken' =>
                    \/ ram'[d].interrupted
                    \/ \E q \in Event : \/ Carries(op'[q], d, air'[d])
                                        \/ Closes(op'[q], d, air'[d])
               /\ ram[d].interrupted => ram'[d].interrupted \/ d \in Closing'
    <3>1. /\ ~Closes(h, d, air[d]) /\ ~Carries(h, d, air[d])
          /\ ~Interrupts(n, d)
      BY <1>0, <2>1 DEF Closes, Carries, Interrupts
    <3> QED
      BY <1>0, <1>2, <2>6, <2>8, <3>1, Kept
  <2> QED
    BY <1>0, <1>2, <2>1, <2>2, <2>4, <2>5, <2>6, <2>7, <2>8, GoesOn
<1> HIDE DEF n
<1>3. \/ op' = [op EXCEPT ![o] = n]
      \/ op' = [op EXCEPT ![o] = To(h, "answer")]
      \/ op' = [op EXCEPT ![o] = Told(h, ram[c].status)]
  <2>1. op' = [op EXCEPT ![o].pc = "capture"] => op' = [op EXCEPT ![o] = n]
    BY At DEF n, To, IInv
  <2> QED
    BY <2>1 DEF Enter, To
<1> QED
  BY <1>1, <1>2, <1>3

-----------------------------------------------------------------------------
(* update_status: what the store took is on its way to the cache.           *)
LEMMA SavedFollows ==
    ASSUME NEW h \in Handler, h.pc \in {"capture", "cache"},
           NEW K, NEW P, NEW I, NEW R, Poised(h), Grounded(h, K, P, I, R),
           NEW n, n = Saved(h)
    PROVE  /\ Follows(n, h, K, P, I, R)
           /\ \/ Away(n)
              \/ /\ h.intent = "approve" /\ n.pc = "dispatch" /\ n.on = h.on
                 /\ n.intent = h.intent /\ n.marked = h.marked
                 /\ n.kind = h.kind
<1>0. /\ h.pc # "idle" /\ h.pc \in Locking
      /\ h.kind \notin {"reject", "cancel"}
  BY DEF Locking, Poised
<1>1. CASE h.intent = "approve"
  <2>1. n = [h EXCEPT !.pc = "dispatch", !.again = FALSE]
    BY <1>0, <1>1 DEF Saved
  <2>2. /\ n.pc = "dispatch" /\ n.kind = h.kind /\ n.on = h.on
        /\ n.intent = h.intent /\ n.todo = h.todo /\ n.marked = h.marked
    BY <2>1 DEF Handler
  <2> QED
    BY <1>0, <1>1, <2>2 DEF Follows, Poised, Grounded, Claimed, Locking
<1>2. CASE h.intent # "approve"
  <2>1. \/ n = Told(h, "asked")
        \/ n = Looped(h, "none")
        \/ n = To(h, "answer")
    BY <1>0, <1>2 DEF Saved, To
  <2> QED
    BY <1>0, <2>1, ToldAway, LoopedAway, AnswerAway
<1> QED
  BY <1>1, <1>2

LEMMA SavedWarned ==
    ASSUME IInv, CInv, NEW o \in Event, op[o].pc \in {"capture", "cache"},
           NEW n, n = Saved(op[o]), NEW c \in Contract \ Passed,
           n.kind = "confirm", c \in n.marked
    PROVE  Warned(n, c, Closing)
<1>1. /\ Follows(n, op[o], Kn, Passed, Broken, Asked)
      /\ \/ Away(n)
         \/ /\ op[o].intent = "approve" /\ n.pc = "dispatch"
            /\ n.on = op[o].on
  BY CalmAt, SavedFollows
<1>2. CASE Away(n)
  BY <1>2, AwayWarned
<1>3. CASE op[o].intent = "approve" /\ n.pc = "dispatch" /\ n.on = op[o].on
  <2>1. Warned(op[o], c, Closing)
    BY <1>1, WarnedAt DEF Follows
  <2> QED
    BY <1>3, <2>1 DEF Warned, Locking
<1> QED
  BY <1>1, <1>2, <1>3

LEMMA CaptureWarned ==
    ASSUME IInv, CInv, NEW o \in Event, Capture(o) PROVE CInv'
<1> DEFINE h == op[o]
           c == h.on
<1>0. /\ h.pc = "capture" /\ UNCHANGED <<air, ran>> /\ Still(h)
      /\ h \in Handler /\ h.pc \in Locking
      /\ Poised(h) /\ Grounded(h, Kn, Passed, Broken, Asked)
      /\ c \in Contract /\ c \in Kn
      /\ ram \in [Contract -> Entry] /\ ram[c] \in Entry
  BY CalmAt, WorkingAt DEF Capture, Working, Locking, StoreOK, Still
<1>1. CASE Persistent
  <2> DEFINE n == Captured(h, ram[c])
  <2>1. ram' = ram /\ op' = [op EXCEPT ![o] = n]
    <3>1. /\ ram' = ram
          /\ op' = [op EXCEPT ![o].pc = "get", ![o].exp = ram[c].status,
                              ![o].ver = ram[c].version]
      BY <1>1 DEF Capture
    <3> QED
      BY <3>1, At DEF Captured, IInv
  <2>2. /\ n.pc = "get" /\ n.kind = h.kind /\ n.on = c /\ n.intent = h.intent
        /\ n.todo = h.todo /\ n.marked = h.marked
    BY <1>0 DEF Captured, Handler
  <2> HIDE DEF n
  <2>3. Follows(n, h, Kn, Passed, Broken, Asked)
    BY <1>0, <2>2 DEF Follows, Poised, Grounded, Claimed, Locking
  <2>4. ASSUME NEW d \in Contract \ Passed, n.kind = "confirm", d \in n.marked
        PROVE  Warned(n, d, Closing)
    <3>1. Warned(h, d, Closing)
      BY <2>2, <2>4, WarnedAt
    <3> QED
      BY <1>0, <2>2, <3>1 DEF Warned, Locking
  <2> QED
    BY <1>0, <2>1, <2>2, <2>3, <2>4, GoesOnStill
<1>2. CASE ~Persistent
  <2> DEFINE e == Written(ram[c], h.intent, ram[c].version)
             n == Saved(h)
  <2>1. ram' = [ram EXCEPT ![c] = e] /\ op' = [op EXCEPT ![o] = n]
    BY <1>2 DEF Capture
  <2>2. /\ e.status # "absent"
        /\ ram[c].interrupted => e.interrupted
        /\ ram[c].reconfirm => e.reconfirm
    BY DEF Written, StatusAfter
  <2> HIDE DEF e
  <2>3. \A d \in Contract : ram'[d] = IF d = c THEN e ELSE ram[d]
    BY <1>0, <2>1
  <2>4. \A d \in Contract : /\ ram[d].interrupted => ram'[d].interrupted
                            /\ ram[d].reconfirm => ram'[d].reconfirm
                            /\ Plain(ram'[d])
    BY <2>2, <2>3, CalmAt DEF StoreKnown, Plain
  <2>5. Kn \subseteq Kn' /\ Stored' = Stored
    BY <1>0, <2>2, <2>3 DEF Kn, Stored
  <2>6. /\ Broken \subseteq Broken' /\ Asked \subseteq Asked'
        /\ Passed \subseteq Passed'
        /\ \A d \in Contract : /\ ram'[d].reconfirm => d \in Asked'
                               /\ d \in Broken' => ram'[d].interrupted
    BY <1>0, <1>2, <2>4 DEF Broken, Asked, Passed, Past, Performed, Now
  <2>7. StoreKnown'
    <3>1. StoreKnown
      BY CalmAt
    <3> QED
      BY <1>0, <2>4, <2>5, <2>6, <3>1 DEF StoreKnown
  <2>8. Follows(n, h, Kn, Passed, Broken, Asked) /\ n.pc # "patch"
    BY <1>0, SavedFollows DEF Away
  <2>9. \A d \in Contract \ Passed :
           n.kind = "confirm" /\ d \in n.marked => Warned(n, d, Closing)
    BY <1>0, SavedWarned
  <2> HIDE DEF n
  <2>10. Poised(n) /\ Grounded(n, Kn', Passed', Broken', Asked')
    BY <2>5, <2>6, <2>8, GroundedStays DEF Follows
  <2>11. ASSUME NEW d \in Contract, d \notin Passed'
         PROVE  /\ d \in Closing => d \in Closing'
                /\ d \in Broken' =>
                     \/ ram'[d].interrupted
                     \/ \E q \in Event : \/ Carries(op'[q], d, air'[d])
                                         \/ Closes(op'[q], d, air'[d])
                /\ ram[d].interrupted => ram'[d].interrupted \/ d \in Closing'
    <3>1. /\ ~Closes(h, d, air[d]) /\ ~Carries(h, d, air[d])
          /\ ~Interrupts(n, d)
      BY <1>0, <2>8 DEF Closes, Carries, Interrupts
    <3>2. d \notin Passed /\ (d \in Broken' => ram'[d].interrupted)
          /\ (ram[d].interrupted => ram'[d].interrupted)
      BY <2>4, <2>6, <2>11
    <3> QED
      BY <1>0, <2>1, <3>1, <3>2, Kept
  <2> QED
    BY <1>0, <2>1, <2>5, <2>6, <2>7, <2>8, <2>9, <2>10, <2>11, GoesOn
    DEF Follows
<1> QED
  BY <1>1, <1>2
(* What get() returned is to be cached.                                     *)
LEMMA CachingFollows ==
    ASSUME IInv, CInv, NEW o \in Event, op[o].pc \in {"get", "verify"},
           air[op[o].on].status # "absent",
           op[o].intent = "interrupt" => air[op[o].on].interrupted,
           op[o].intent = "ask" => op[o].on \in Passed,
           NEW n, n = Handed(op[o], "cache", Only(op[o].on, air[op[o].on]))
    PROVE  /\ Follows(n, op[o], Kn, Passed, Broken, Asked)
           /\ n.pc = "cache" /\ n.on = op[o].on /\ n.intent = op[o].intent
           /\ \A c \in Contract \ Passed :
                 n.kind = "confirm" /\ c \in n.marked => Warned(n, c, Closing)
<1> DEFINE h == op[o]
           c == h.on
           g == Only(c, air[c])
<1>0. /\ h \in Handler /\ h.pc \in Locking /\ h.pc # "idle" /\ Persistent
      /\ Poised(h) /\ Grounded(h, Kn, Passed, Broken, Asked)
      /\ c \in Contract /\ air[c] \in Entry
  BY CalmAt, WorkingAt DEF Locking, Working, Wired
<1>1. /\ n.pc = "cache" /\ n.kind = h.kind /\ n.on = c /\ n.intent = h.intent
      /\ n.todo = h.todo /\ n.marked = h.marked /\ n.got = g
  BY <1>0 DEF Handed, Handler
<1>2. /\ g[c] = air[c]
      /\ \A d \in Contract \ {c} : g[d].status = "absent" /\ ~g[d].reconfirm
  BY <1>0 DEF Only, Nothing, Absent
<1>3. \A d \in Contract : g[d].reconfirm => d \in Asked
  BY <1>0, <1>2 DEF Asked, Now
<1> HIDE DEF g
<1>4. Poised(n)
  <2>1. n.on = c /\ n.got = g /\ n.intent = h.intent
    BY <1>1
  <2>2. \A d \in Contract \ {n.on} : n.got[d].status = "absent"
    BY <1>2, <2>1
  <2>3. n.got[n.on] = air[c]
    BY <1>2, <2>1
  <2>4. /\ n.got[n.on].status # "absent"
        /\ n.intent = "interrupt" => n.got[n.on].interrupted
    BY <2>1, <2>3
  <2>5. h.marked \subseteq Contract /\ h.kind \notin {"reject", "cancel"}
    BY <1>0 DEF Poised
  <2> QED
    BY <1>0, <1>1, <2>2, <2>4, <2>5 DEF Poised, Locking
<1>5. Grounded(n, Kn, Passed, Broken, Asked)
  BY <1>0, <1>1, <1>3 DEF Grounded, Locking
<1>6. Follows(n, h, Kn, Passed, Broken, Asked)
  BY <1>0, <1>1, <1>4, <1>5 DEF Follows, Claimed, Locking
<1>7. ASSUME NEW d \in Contract \ Passed, n.kind = "confirm", d \in n.marked
      PROVE  Warned(n, d, Closing)
  <2>1. Warned(h, d, Closing)
    BY <1>1, <1>7, WarnedAt
  <2> QED
    BY <1>0, <1>1, <2>1 DEF Warned, Locking
<1> QED
  BY <1>1, <1>6, <1>7

LEMMA GetWarned ==
    ASSUME Faults = {}, IInv, CInv, NEW o \in Event, Get(o) PROVE CInv'
<1> DEFINE h == op[o]
           c == h.on
<1>0. /\ h.pc = "get" /\ UNCHANGED <<ram, air, ran>> /\ Still(h)
      /\ h \in Handler /\ h.pc \in Locking
      /\ Poised(h) /\ Grounded(h, Kn, Passed, Broken, Asked)
  BY CalmAt DEF Get, Locking, Still
<1>1. CASE /\ Expected(o) /\ NoOp(o)
           /\ op' = [op EXCEPT ![o] = Handed(h, "cache", Only(c, air[c]))]
  <2> DEFINE n == Handed(h, "cache", Only(c, air[c]))
  <2>1. air[c].status # "absent" /\ h.intent \notin {"interrupt", "ask"}
    BY <1>1 DEF Expected, NoOp, StatusAfter, Updating
  <2>2. /\ Follows(n, h, Kn, Passed, Broken, Asked) /\ n.pc # "patch"
        /\ \A d \in Contract \ Passed :
              n.kind = "confirm" /\ d \in n.marked => Warned(n, d, Closing)
    BY <1>0, <2>1, CachingFollows
  <2> HIDE DEF n
  <2> QED
    BY <1>0, <1>1, <2>2, GoesOnStill DEF n
<1>2. CASE /\ Expected(o) /\ Valid(o)
           /\ op' = [op EXCEPT ![o] = To(h, "patch")]
  <2> DEFINE n == To(h, "patch")
  <2>1. /\ n.pc = "patch" /\ n.kind = h.kind /\ n.on = c
        /\ n.intent = h.intent /\ n.todo = h.todo /\ n.marked = h.marked
    BY <1>0 DEF To, Handler
  <2> HIDE DEF n
  <2>2. Follows(n, h, Kn, Passed, Broken, Asked)
    BY <1>0, <2>1 DEF Follows, Poised, Grounded, Claimed, Locking
  <2>3. ASSUME NEW d \in Contract \ Passed, n.kind = "confirm", d \in n.marked
        PROVE  Warned(n, d, Closing)
    <3>1. Warned(h, d, Closing)
      BY <2>1, <2>3, WarnedAt
    <3> QED
      BY <1>0, <2>1, <3>1 DEF Warned, Locking
  <2>4. h.intent = "interrupt" => air[c].status = "pending"
    BY <1>2 DEF Expected, Valid, StatusAfter, Allowed
  <2>5. \A d \in Contract : /\ ~Closes(h, d, air[d]) /\ ~Carries(h, d, air[d])
                            /\ Interrupts(n, d) => air[d].status = "pending"
    BY <1>0, <2>1, <2>4 DEF Closes, Carries, Interrupts
  <2> QED
    BY <1>0, <1>2, <2>2, <2>3, <2>5, GoesOnQuietly DEF n
<1>3. CASE op' = [op EXCEPT ![o] = Conflicted(h)]
  <2> DEFINE n == Conflicted(h)
  <2>1. ASSUME NEW d, h.kind = "confirm" => Warned(h, d, Closing)
        PROVE  /\ Follows(n, h, Kn, Passed, Broken, Asked) /\ n.pc # "patch"
               /\ n.kind = "confirm" => Warned(n, d, Closing)
    BY <1>0, <2>1, ConflictedFollows
  <2>2. Warned(h, None, Closing)
    BY <1>0, CalmAt, NoneIsFresh, WorkingAt DEF Warned, Locking, Working
  <2>3. Follows(n, h, Kn, Passed, Broken, Asked) /\ n.pc # "patch"
    BY <2>1, <2>2
  <2> HIDE DEF n
  <2>4. ASSUME NEW d \in Contract \ Passed, n.kind = "confirm", d \in n.marked
        PROVE  Warned(n, d, Closing)
    <3>1. Warned(h, d, Closing)
      BY <2>3, <2>4, WarnedAt DEF Follows
    <3> QED
      BY <2>1, <2>4, <3>1
  <2> QED
    BY <1>0, <1>3, <2>3, <2>4, GoesOnStill DEF n
<1> QED
  BY <1>1, <1>2, <1>3 DEF Get, Handed, To

LEMMA VerifyWarned ==
    ASSUME Faults = {}, IInv, CInv, NEW o \in Event, Verify(o) PROVE CInv'
<1> DEFINE h == op[o]
           c == h.on
<1>0. /\ h.pc = "verify" /\ UNCHANGED <<ram, air, ran>>
      /\ h \in Handler /\ h.pc \in Locking /\ Persistent /\ c \in Contract
      /\ Poised(h) /\ Grounded(h, Kn, Passed, Broken, Asked)
  BY CalmAt, WorkingAt DEF Verify, Locking, Wired, Working
<1>1. CASE /\ air[c].status = StatusAfter(h.intent)
           /\ op' = [op EXCEPT ![o] = Handed(h, "cache", Only(c, air[c]))]
  <2> DEFINE n == Handed(h, "cache", Only(c, air[c]))
  <2>1. /\ air[c].status # "absent"
        /\ h.intent = "interrupt" => air[c].interrupted
        /\ h.intent = "ask" => c \in Passed
    BY <1>0, <1>1 DEF StatusAfter, Grounded, Broken, Now
  <2>2. /\ Follows(n, h, Kn, Passed, Broken, Asked)
        /\ n.pc = "cache" /\ n.on = c /\ n.intent = h.intent
        /\ \A d \in Contract \ Passed :
              n.kind = "confirm" /\ d \in n.marked => Warned(n, d, Closing)
    BY <1>0, <2>1, CachingFollows
  <2> HIDE DEF n
  <2>3. \A d \in Contract : /\ Closes(h, d, air[d]) => Closes(n, d, air[d])
                            /\ Carries(h, d, air[d]) => Carries(n, d, air[d])
                            /\ ~Interrupts(n, d)
    BY <2>2 DEF Closes, Carries, Interrupts
  <2> QED
    BY <1>0, <1>1, <2>2, <2>3, GoesOnQuietly DEF n
<1>2. CASE /\ ~(/\ air[c].status = StatusAfter(h.intent)
                /\ air[c].version = h.ver + 1)
           /\ op' = [op EXCEPT ![o] = Conflicted(h)]
  <2> DEFINE n == Conflicted(h)
  <2>1. ASSUME NEW d, h.kind = "confirm" => Warned(h, d, Closing)
        PROVE  /\ Follows(n, h, Kn, Passed, Broken, Asked) /\ n.pc # "patch"
               /\ n.kind = "confirm" => Warned(n, d, Closing)
    BY <1>0, <2>1, ConflictedFollows
  <2>2. Warned(h, None, Closing)
    BY <1>0, NoneIsFresh DEF Warned
  <2>3. Follows(n, h, Kn, Passed, Broken, Asked) /\ n.pc # "patch"
    BY <2>1, <2>2
  <2> HIDE DEF n
  <2>4. ASSUME NEW d \in Contract \ Passed, n.kind = "confirm", d \in n.marked
        PROVE  Warned(n, d, Closing)
    <3>1. Warned(h, d, Closing)
      BY <2>3, <2>4, WarnedAt DEF Follows
    <3> QED
      BY <2>1, <2>4, <3>1
  <2>5. \A d \in Contract : /\ ~Closes(h, d, air[d]) /\ ~Carries(h, d, air[d])
                            /\ ~Interrupts(n, d)
    BY <1>0, <1>2, <2>3 DEF Closes, Carries, Interrupts, StatusAfter
  <2> QED
    BY <1>0, <1>2, <2>3, <2>4, <2>5, GoesOnQuietly DEF n
<1> QED
  BY <1>1, <1>2 DEF Verify, Handed

(* The PATCH: an interruption spares what has already verified, and under   *)
(* the lock an approval is the only one.                                    *)
LEMMA PatchWarned ==
    ASSUME Faults = {}, IInv, CInv, NEW o \in Event, Patch(o) PROVE CInv'
<1> DEFINE h == op[o]
           c == h.on
           e == Written(air[c], h.intent, h.ver + 1)
           n == To(h, "verify")
<1>0. /\ h.pc = "patch" /\ UNCHANGED <<ram, ran>>
      /\ h \in Handler /\ h.pc \in Locking /\ Persistent
      /\ c \in Contract /\ c \in Kn /\ air \in [Contract -> Entry]
      /\ Poised(h) /\ Grounded(h, Kn, Passed, Broken, Asked)
  BY CalmAt, WorkingAt DEF Patch, Locking, Wired, Working, StoreOK
<1>1. air' = [air EXCEPT ![c] = e] /\ op' = [op EXCEPT ![o] = n]
  BY DEF Patch, To
<1>2. /\ e.status = StatusAfter(h.intent) /\ e.status # "absent"
      /\ e.version = h.ver + 1
      /\ air[c].interrupted \/ h.intent = "interrupt" => e.interrupted
      /\ air[c].reconfirm \/ h.intent = "ask" => e.reconfirm
  BY DEF Written, StatusAfter
<1> HIDE DEF e
<1>3. \A d \in Contract : air'[d] = IF d = c THEN e ELSE air[d]
  BY <1>0, <1>1
<1>4. /\ n.pc = "verify" /\ n.kind = h.kind /\ n.on = c
      /\ n.intent = h.intent /\ n.todo = h.todo /\ n.marked = h.marked
      /\ n.ver = h.ver
  BY <1>0 DEF To, Handler
<1> HIDE DEF n
<1>5. op'[o] = n /\ \A p \in Event \ {o} : op'[p] = op[p]
  <2>1. op \in [Event -> Handler]
    BY DEF IInv
  <2> QED
    BY <1>1, <2>1
<1>6. Kn' = Kn /\ Stored' \subseteq Stored \cup {c}
  BY <1>0, <1>3 DEF Kn, Stored
<1>7. /\ \A d \in Contract : /\ Now[d] = air[d] /\ (Now')[d] = air'[d]
                             /\ Performed(d)' <=> Performed(d)
  BY <1>0 DEF Now, Performed
<1>8. Broken \subseteq Broken' /\ Asked \subseteq Asked'
  <2>1. \A d \in Contract : /\ air[d].interrupted => air'[d].interrupted
                            /\ air[d].reconfirm => air'[d].reconfirm
    BY <1>2, <1>3
  <2> QED
    BY <1>7, <2>1 DEF Broken, Asked
<1>9. Passed \subseteq Passed' /\ Asked' \subseteq Passed'
  BY <1>7, <1>8 DEF Passed, Past, Asked
<1>10. /\ h.intent = "interrupt" => c \in Broken'
       /\ h.intent = "ask" => c \in Passed'
       /\ h.intent \in {"supersede", "complete", "fail"} => c \in Passed'
  <2>1. h.intent = "interrupt" => c \in Broken'
    BY <1>0, <1>2, <1>3, <1>7 DEF Broken
  <2>2. h.intent = "ask" => c \in Asked'
    BY <1>0, <1>2, <1>3, <1>7 DEF Asked
  <2>3. h.intent \in {"supersede", "complete", "fail"} => c \in Passed
    BY <1>0 DEF Grounded
  <2> QED
    BY <1>9, <2>1, <2>2, <2>3
<1>11. StoreKnown'
  <2>1. Stored' \subseteq Kn'
    BY <1>0, <1>6, CalmAt DEF StoreKnown
  <2>2. \A d \in Contract : Plain(ram'[d]) /\ Plain(air'[d])
    BY <1>0, <1>2, <1>3, CalmAt DEF StoreKnown, Plain
  <2>3. \A d \in Contract : ram'[d].reconfirm => d \in Asked'
    BY <1>0, <1>8, CalmAt DEF StoreKnown
  <2> QED
    BY <1>0, <2>1, <2>2, <2>3 DEF StoreKnown
<1>12. Poised(n) /\ Grounded(n, Kn', Passed', Broken', Asked')
  <2>1. Grounded(h, Kn', Passed', Broken', Asked')
    BY <1>0, <1>6, <1>8, <1>9, GroundedStays
  <2>2. Poised(n)
    BY <1>0, <1>4 DEF Poised, Locking
  <2>3. Grounded(n, Kn', Passed', Broken', Asked')
    BY <1>0, <1>4, <1>10, <2>1 DEF Grounded, Locking
  <2> QED
    BY <2>2, <2>3
<1>13. ASSUME NEW d \in Contract \ Passed', n.kind = "confirm", d \in n.marked
       PROVE  Warned(n, d, Closing)
  <2>1. Warned(h, d, Closing)
    BY <1>4, <1>9, <1>13, WarnedAt
  <2> QED
    BY <1>0, <1>4, <2>1 DEF Warned, Locking
<1>14. ASSUME NEW d \in Contract \ Passed', d # c
       PROVE  /\ d \in Closing => d \in Closing'
              /\ d \in Broken' =>
                   \/ ram'[d].interrupted
                   \/ \E q \in Event : \/ Carries(op'[q], d, air'[d])
                                       \/ Closes(op'[q], d, air'[d])
  <2>1. /\ ~Closes(h, d, air[d]) /\ ~Carries(h, d, air[d])
        /\ ~Interrupts(n, d)
    BY <1>0, <1>4 DEF Closes, Carries, Interrupts
  <2>2. d \notin Passed /\ air'[d] = air[d] /\ (d \in Broken' => d \in Broken)
    BY <1>3, <1>7, <1>9, <1>14 DEF Broken
  <2>3. ram'[d].interrupted <=> ram[d].interrupted
    BY <1>0
  <2> QED
    BY <1>1, <2>1, <2>2, <2>3, Kept
<1>15. ASSUME c \notin Passed'
       PROVE  /\ c \in Closing => c \in Closing'
              /\ \E q \in Event : \/ Carries(op'[q], c, air'[c])
                                  \/ Closes(op'[q], c, air'[c])
  <2>1. h.intent \in {"approve", "interrupt"}
    BY <1>0, <1>10, <1>15 DEF Poised, Handler, Intent
  <2>2. CASE h.intent = "interrupt"
    <3>1. Carries(op'[o], c, air'[c])
      BY <1>0, <1>2, <1>3, <1>4, <1>5, <2>2 DEF Carries, StatusAfter
    <3>2. ASSUME c \in Closing PROVE c \in Closing'
      <4>1. PICK a \in Event :
              /\ Closes(op[a], c, air[c])
              /\ op[a].pc = "verify" => \A q \in Event : ~Interrupts(op[q], c)
        BY <3>2 DEF Closing
      <4>2. op[a].pc # "verify" /\ a # o
        BY <1>0, <2>2, <4>1 DEF Interrupts, Closes
      <4>3. op'[a] = op[a] /\ Closes(op'[a], c, air'[c])
        BY <1>5, <4>1, <4>2 DEF Closes
      <4> QED
        BY <1>0, <4>2, <4>3 DEF Closing
    <3> QED
      BY <3>1, <3>2
  <2>3. CASE h.intent = "approve"
    <3>1. Closes(op'[o], c, air'[c])
      BY <1>0, <1>2, <1>3, <1>4, <1>5, <2>3 DEF Closes, StatusAfter
    <3>2. ASSUME NEW a \in Event PROVE ~Closes(op[a], c, air[c])
      <4>1. CASE a = o
        BY <1>0, <4>1 DEF Closes
      <4>2. CASE a # o
        BY <1>0, <2>3, <4>2 DEF Closes, Claimed, Locking, CInv, Locked
      <4> QED
        BY <4>1, <4>2
    <3> QED
      BY <3>1, <3>2 DEF Closing
  <2> QED
    BY <2>1, <2>2, <2>3
<1>16. Claimed(n) => Claimed(h) /\ n.on = h.on
  BY <1>0, <1>4 DEF Claimed
<1>17. ASSUME NEW d \in Contract \ Passed'
       PROVE  /\ d \in Closing => d \in Closing'
              /\ d \in Broken' =>
                   \/ ram'[d].interrupted
                   \/ \E q \in Event : \/ Carries(op'[q], d, air'[d])
                                       \/ Closes(op'[q], d, air'[d])
              /\ ram[d].interrupted => ram'[d].interrupted \/ d \in Closing'
              /\ d \in n.marked => \/ d \in op[o].marked
                                   \/ ram[d].interrupted \/ d \in Closing
              /\ n.kind = "confirm" /\ d \in n.marked => Warned(n, d, Closing)
  <2>1. /\ d \in Closing => d \in Closing'
        /\ d \in Broken' =>
             \/ ram'[d].interrupted
             \/ \E q \in Event : \/ Carries(op'[q], d, air'[d])
                                 \/ Closes(op'[q], d, air'[d])
    BY <1>14, <1>15, <1>17
  <2> QED
    BY <1>0, <1>4, <1>13, <1>17, <2>1
<1> QED
  BY <1>0, <1>1, <1>4, <1>6, <1>8, <1>9, <1>11, <1>12, <1>16, <1>17, GoesOn

LEMMA CacheWarned ==
    ASSUME IInv, CInv, NEW o \in Event, Cache(o) PROVE CInv'
<1> DEFINE h == op[o]
           c == h.on
           n == Saved(h)
<1>0. /\ h.pc = "cache" /\ ram' = Cached(h.got) /\ UNCHANGED <<air, ran>>
      /\ op' = [op EXCEPT ![o] = n]
      /\ h \in Handler /\ Persistent /\ c \in Contract /\ h.pc \in Locking
      /\ Poised(h) /\ Grounded(h, Kn, Passed, Broken, Asked)
      /\ ram \in [Contract -> Entry]
  BY CalmAt, WorkingAt DEF Cache, Working, Wired, Locking, StoreOK
<1>1. \A d \in Contract : ram'[d] = IF d = c THEN h.got[c] ELSE ram[d]
  BY <1>0 DEF Cached, Poised
<1>2. /\ Passed' = Passed /\ Broken' = Broken /\ Asked' = Asked
      /\ Stored' = Stored
  BY <1>0 DEF Passed, Past, Performed, Now, Broken, Asked, Stored
<1>3. Kn \subseteq Kn'
  BY <1>0, <1>1 DEF Kn, Poised
<1>4. StoreKnown'
  <2>1. StoreKnown
    BY CalmAt
  <2>2. /\ \A d \in Contract : Plain(ram'[d])
        /\ \A d \in Contract : ram'[d].reconfirm => d \in Asked
    BY <1>0, <1>1, <2>1 DEF Plain, StoreKnown, Poised, Grounded
  <2> QED
    BY <1>0, <1>2, <1>3, <2>1, <2>2 DEF StoreKnown
<1>5. /\ Follows(n, h, Kn, Passed, Broken, Asked) /\ n.pc # "patch"
      /\ h.intent = "approve" => n.pc = "dispatch" /\ n.on = c
                                 /\ n.intent = "approve"
  <2>1. h.intent = "approve" => n = [h EXCEPT !.pc = "dispatch",
                                              !.again = FALSE]
    BY <1>0 DEF Saved, Poised
  <2>2. h.intent = "approve" => n.pc = "dispatch" /\ n.on = c
                                /\ n.intent = "approve"
    BY <1>0, <2>1 DEF Handler
  <2>3. Follows(n, h, Kn, Passed, Broken, Asked) /\ n.pc # "patch"
    BY <1>0, SavedFollows DEF Away
  <2> QED
    BY <2>2, <2>3
<1>6. \A d \in Contract \ Passed :
         n.kind = "confirm" /\ d \in n.marked => Warned(n, d, Closing)
  BY <1>0, SavedWarned
<1> HIDE DEF n
<1>7. Poised(n) /\ Grounded(n, Kn', Passed', Broken', Asked')
  BY <1>2, <1>3, <1>5, GroundedStays DEF Follows
<1>8. ASSUME NEW d \in Contract, d \notin Passed'
      PROVE  /\ d \in Closing => d \in Closing'
             /\ d \in Broken' =>
                  \/ ram'[d].interrupted
                  \/ \E q \in Event : \/ Carries(op'[q], d, air'[d])
                                      \/ Closes(op'[q], d, air'[d])
             /\ ram[d].interrupted => ram'[d].interrupted \/ d \in Closing'
  <2>1. /\ Closes(h, d, air[d]) => Closes(n, d, air[d]) /\ n.pc # "verify"
        /\ ~Interrupts(n, d)
    BY <1>5 DEF Closes, Interrupts
  <2>2. d = c => h.intent \in {"approve", "interrupt"}
    BY <1>0, <1>2, <1>8 DEF Poised, Grounded, Handler, Intent
  <2>3. d = c /\ h.intent = "interrupt" => ram'[d].interrupted
    BY <1>0, <1>1 DEF Poised
  <2>4. d = c /\ h.intent = "approve"
          => Closes(n, d, air[d]) /\ n.pc # "verify"
    BY <1>5 DEF Closes
  <2>5. /\ Carries(h, d, air[d]) => ram'[d].interrupted
        /\ ram[d].interrupted
             => \/ ram'[d].interrupted
                \/ Closes(n, d, air[d]) /\ n.pc # "verify"
    BY <1>1, <2>2, <2>3, <2>4 DEF Carries
  <2> QED
    BY <1>0, <1>2, <1>8, <2>1, <2>5, Kept
<1> QED
  BY <1>0, <1>2, <1>3, <1>4, <1>5, <1>6, <1>7, <1>8, GoesOn DEF Follows

LEMMA RefreshWarned ==
    ASSUME Faults = {}, IInv, CInv, NEW o \in Event, Refresh(o) PROVE CInv'
<1> DEFINE h == op[o]
           n == Handed(h, "heal", Only(h.on, air[h.on]))
<1>0. /\ h.pc = "refresh" /\ UNCHANGED <<ram, air, ran>> /\ Still(h)
      /\ h \in Handler /\ h.pc \in Locking
      /\ Poised(h) /\ Grounded(h, Kn, Passed, Broken, Asked)
      /\ op' = [op EXCEPT ![o] = n]
  BY CalmAt DEF Refresh, Locking, Still, Handed
<1>1. /\ n.pc = "heal" /\ n.kind = h.kind /\ n.on = h.on
      /\ n.intent = h.intent /\ n.todo = h.todo /\ n.marked = h.marked
  BY <1>0 DEF Handed, Handler
<1> HIDE DEF n
<1>2. Follows(n, h, Kn, Passed, Broken, Asked)
  BY <1>0, <1>1 DEF Follows, Poised, Grounded, Claimed, Locking
<1>3. ASSUME NEW d \in Contract \ Passed, n.kind = "confirm", d \in n.marked
      PROVE  Warned(n, d, Closing)
  <2>1. Warned(h, d, Closing)
    BY <1>1, <1>3, WarnedAt
  <2> QED
    BY <1>0, <1>1, <2>1 DEF Warned, Locking
<1> QED
  BY <1>0, <1>1, <1>2, <1>3, GoesOnStill

(* The refresh of a conflict leaves the flags of the cached entry alone.    *)
LEMMA HealWarned ==
    ASSUME IInv, CInv, NEW o \in Event, Heal(o) PROVE CInv'
<1> DEFINE h == op[o]
           c == h.on
           g == h.got[c]
           n == Retrying(h, g.version)
<1>0. /\ h.pc = "heal" /\ UNCHANGED <<air, ran>> /\ Still(h)
      /\ h \in Handler /\ h.pc \in Locking /\ c \in Contract
      /\ Persistent /\ g.status # "absent"
      /\ ram \in [Contract -> Entry] /\ ram[c] \in Entry
      /\ Poised(h) /\ Grounded(h, Kn, Passed, Broken, Asked)
  BY CalmAt, WorkingAt
  DEF Heal, Working, Wired, Found, Locking, StoreOK, Still
<1>1. op' = [op EXCEPT ![o] = n]
  <2>1. op' = [op EXCEPT ![o].pc = "get", ![o].again = TRUE,
                         ![o].ver = g.version]
    BY DEF Heal
  <2> QED
    BY <2>1, At DEF Retrying, IInv
<1>2. /\ ram'[c].status # "absent"
      /\ ram'[c].interrupted = ram[c].interrupted
      /\ ram'[c].reconfirm = ram[c].reconfirm
      /\ \A d \in Contract \ {c} : ram'[d] = ram[d]
  <2> DEFINE e == [ram[c] EXCEPT !.status = g.status, !.version = g.version]
  <2>1. ram' = [ram EXCEPT ![c].status = g.status, ![c].version = g.version]
    BY DEF Heal
  <2>2. ram' = [ram EXCEPT ![c] = e]
    BY <1>0, <2>1
  <2>3. /\ e.status = g.status /\ e.interrupted = ram[c].interrupted
        /\ e.reconfirm = ram[c].reconfirm
    BY <1>0 DEF Entry
  <2> HIDE DEF e
  <2> QED
    BY <1>0, <2>2, <2>3
<1>3. /\ n.pc = "get" /\ n.kind = h.kind /\ n.on = c /\ n.intent = h.intent
      /\ n.todo = h.todo /\ n.marked = h.marked
  BY <1>0 DEF Retrying, Handler
<1> HIDE DEF n
<1>4. /\ Passed' = Passed /\ Broken' = Broken /\ Asked' = Asked
      /\ Stored' = Stored
  BY <1>0 DEF Passed, Past, Performed, Now, Broken, Asked, Stored
<1>5. Kn \subseteq Kn'
  BY <1>0, <1>2 DEF Kn
<1>6. StoreKnown'
  <2>1. StoreKnown
    BY CalmAt
  <2>2. /\ \A d \in Contract : Plain(ram'[d])
        /\ \A d \in Contract : ram'[d].reconfirm => d \in Asked
    BY <1>2, <2>1 DEF Plain, StoreKnown
  <2> QED
    BY <1>0, <1>4, <1>5, <2>1, <2>2 DEF StoreKnown
<1>7. Follows(n, h, Kn, Passed, Broken, Asked)
  BY <1>0, <1>3 DEF Follows, Poised, Grounded, Claimed, Locking
<1>8. Poised(n) /\ Grounded(n, Kn', Passed', Broken', Asked')
  BY <1>4, <1>5, <1>7, GroundedStays DEF Follows
<1>9. ASSUME NEW d \in Contract \ Passed, n.kind = "confirm", d \in n.marked
      PROVE  Warned(n, d, Closing)
  <2>1. Warned(h, d, Closing)
    BY <1>3, <1>9, WarnedAt
  <2> QED
    BY <1>0, <1>3, <2>1 DEF Warned, Locking
<1>10. ASSUME NEW d \in Contract, d \notin Passed'
       PROVE  /\ d \in Closing => d \in Closing'
              /\ d \in Broken' =>
                   \/ ram'[d].interrupted
                   \/ \E q \in Event : \/ Carries(op'[q], d, air'[d])
                                       \/ Closes(op'[q], d, air'[d])
              /\ ram[d].interrupted => ram'[d].interrupted \/ d \in Closing'
  <2>1. /\ ~Closes(h, d, air[d]) /\ ~Carries(h, d, air[d])
        /\ ~Interrupts(n, d)
    BY <1>0, <1>3 DEF Closes, Carries, Interrupts
  <2>2. ram[d].interrupted => ram'[d].interrupted
    BY <1>2
  <2> QED
    BY <1>0, <1>1, <1>4, <1>10, <2>1, <2>2, Kept
<1> QED
  BY <1>0, <1>1, <1>3, <1>4, <1>5, <1>6, <1>7, <1>8, <1>9, <1>10, GoesOn
  DEF Follows

(* The run: the claim lets the first one through, and a word only gets here *)
(* when it was asked about or somebody ran it before.                       *)
LEMMA DispatchWarned ==
    ASSUME Faults = {}, Claims, IInv, CInv, NEW o \in Event, Dispatch(o)
    PROVE  CInv'
<1> DEFINE h == op[o]
           c == h.on
<1>0. /\ h.pc = "dispatch" /\ UNCHANGED <<ram, air>>
      /\ h \in Handler /\ h.intent = "approve" /\ h.pc \in Locking
      /\ Claimed(h) /\ h.pc # "idle" /\ c \in Contract
      /\ Poised(h) /\ Grounded(h, Kn, Passed, Broken, Asked)
      /\ Kn' = Kn /\ Broken' = Broken /\ Asked' = Asked /\ Stored' = Stored
  BY CalmAt, WorkingAt
  DEF Dispatch, Poised, Working, Locking, Claimed, Kn, Broken, Asked, Stored,
      Now
<1>1. ASSUME ran' = ran, op' = [op EXCEPT ![o].pc = "answer"],
             \E x \in ran : x.on = c
      PROVE  CInv'
  <2> DEFINE n == To(h, "answer")
  <2>1. op' = [op EXCEPT ![o] = n]
    BY <1>1, At DEF To, IInv
  <2>2. Follows(n, h, Kn, Passed, Broken, Asked) /\ Away(n)
    BY <1>0, AnswerAway
  <2> HIDE DEF n
  <2>3. c \in Passed
    BY <1>0, <1>1 DEF Passed, Past, Performed
  <2>4. ASSUME NEW d \in Contract \ Passed
        PROVE  /\ ~Closes(h, d, air[d]) /\ ~Carries(h, d, air[d])
               /\ ~Interrupts(n, d)
               /\ n.kind = "confirm" /\ d \in n.marked => Warned(n, d, Closing)
    BY <1>0, <2>2, <2>3, AwayWarned DEF Closes, Carries, Interrupts, Away
  <2> QED
    BY <1>0, <1>1, <2>1, <2>2, <2>4, GoesOnQuietly
<1>2. ASSUME \A x \in ran : x.on # c, NEW s \in {"complete", "fail"},
             ran' = ran \cup {[by |-> o, on |-> c, result |-> s]},
             op' = [op EXCEPT ![o].pc = "capture", ![o].intent = Outcome(s)]
      PROVE  CInv'
  <2> DEFINE n == Ran(h, s)
             r == [by |-> o, on |-> c, result |-> s]
  <2>1. op' = [op EXCEPT ![o] = n]
    BY <1>2, At DEF Ran, Outcome, IInv
  <2>2. /\ n.pc = "capture" /\ n.kind = h.kind /\ n.on = c /\ n.intent = s
        /\ n.todo = h.todo /\ n.marked = h.marked
    BY <1>0 DEF Ran, Handler
  <2> HIDE DEF n
  <2>3. ran' = ran \cup {r} /\ r.on = c /\ r.by = o
    BY <1>2
  <2> HIDE DEF r
  <2>4. Passed \subseteq Passed' /\ c \in Passed'
    BY <1>0, <2>3 DEF Passed, Past, Performed, Now
  <2>5. StoreKnown'
    BY <1>0, CalmAt DEF StoreKnown
  <2>6. Poised(n) /\ Grounded(n, Kn', Passed', Broken', Asked')
    <3>1. Grounded(h, Kn', Passed', Broken', Asked')
      BY <1>0, <2>4, GroundedStays
    <3> QED
      BY <1>0, <2>2, <2>4, <3>1 DEF Poised, Grounded, Locking
  <2>7. n.kind = "confirm" /\ c \in n.marked => c \in Asked
    <3> SUFFICES ASSUME h.kind = "confirm", c \in h.marked, c \notin Passed
                 PROVE  FALSE
      BY <1>2, <2>2, <1>0 DEF Passed, Past, Performed, Asked
    <3> QED
      BY <1>0, WarnedAt DEF Warned
  <2>8. ASSUME NEW d \in Contract, d \notin Passed'
        PROVE  /\ d \in Closing => d \in Closing'
               /\ d \in Broken' =>
                    \/ ram'[d].interrupted
                    \/ \E q \in Event : \/ Carries(op'[q], d, air'[d])
                                        \/ Closes(op'[q], d, air'[d])
               /\ ram[d].interrupted => ram'[d].interrupted \/ d \in Closing'
               /\ n.kind = "confirm" /\ d \in n.marked => Warned(n, d, Closing)
    <3>1. d # c /\ d \notin Passed
      BY <2>4, <2>8
    <3>2. /\ ~Closes(h, d, air[d]) /\ ~Carries(h, d, air[d])
          /\ ~Interrupts(n, d)
      BY <2>2, <3>1 DEF Closes, Carries, Interrupts
    <3>3. Warned(n, d, Closing)
      BY <2>2, <3>1 DEF Warned
    <3>4. ram'[d] = ram[d] /\ air'[d] = air[d]
      BY <1>0
    <3> QED
      BY <1>0, <2>1, <3>1, <3>2, <3>3, <3>4, Kept
  <2>9. \A x \in ran' : \/ x \in ran
                        \/ /\ x.by = o
                           /\ n.kind = "confirm" /\ x.on \in n.marked
                                => x.on \in Asked'
    BY <1>0, <2>3, <2>7
  <2>10. Claimed(n) => Claimed(h) /\ n.on = h.on
    BY <1>0, <2>2
  <2> QED
    BY <1>0, <2>1, <2>2, <2>4, <2>5, <2>6, <2>8, <2>9, <2>10, GoesOn
<1> QED
  BY <1>1, <1>2 DEF Dispatch

LEMMA AnswerWarned ==
    ASSUME IInv, CInv, NEW o \in Event, Answer(o) PROVE CInv'
<1> DEFINE h == op[o]
           t == ram[h.on].status
<1>1. /\ h.pc = "answer" /\ UNCHANGED <<ram, air, ran>> /\ Still(h)
      /\ op' = [op EXCEPT ![o] = Told(h, t)]
  BY DEF Answer, Still
<1>2. Follows(Told(h, t), h, Kn, Passed, Broken, Asked) /\ Away(Told(h, t))
  BY <1>1, CalmAt, ToldAway
<1> QED
  BY <1>1, <1>2, GoesAway

LEMMA ProposeWarned ==
    ASSUME IInv, CInv, NEW c \in Contract, Propose(c) PROVE CInv'
<1>0. /\ op' = op /\ ran' = ran /\ ram[c].status = "absent"
      /\ air[c].status = "absent"
      /\ ram' = [ram EXCEPT ![c] = Proposed]
      /\ Persistent => air' = [air EXCEPT ![c] = Proposed]
      /\ ~Persistent => air' = air
      /\ ram \in [Contract -> Entry] /\ air \in [Contract -> Entry]
      /\ StoreKnown
  BY DEF Propose, Known, StoreOK, IInv, CInv
<1>1. /\ Proposed.status = "pending" /\ ~Proposed.interrupted
      /\ ~Proposed.reconfirm
  BY DEF Proposed, Absent
<1> HIDE DEF Proposed
<1>2. /\ \A d \in Contract : ram'[d] = IF d = c THEN Proposed ELSE ram[d]
      /\ \A d \in Contract : \/ air'[d] = air[d]
                             \/ Persistent /\ d = c /\ air'[d] = Proposed
  BY <1>0
<1>3. /\ ~ram[c].interrupted /\ ~ram[c].reconfirm
      /\ ~air[c].interrupted /\ ~air[c].reconfirm
  BY <1>0 DEF StoreKnown, Plain
<1>4. \A d \in Contract : /\ (Now')[d].interrupted <=> Now[d].interrupted
                          /\ (Now')[d].reconfirm <=> Now[d].reconfirm
                          /\ Performed(d)' <=> Performed(d)
  BY <1>0, <1>1, <1>2, <1>3 DEF Now, Performed
<1>5. /\ Broken' = Broken /\ Asked' = Asked /\ Passed' = Passed
  BY <1>4 DEF Broken, Asked, Passed, Past
<1>6. /\ Kn' = Kn \cup {c} /\ Stored' \subseteq Kn'
      /\ ~Persistent => Stored' = Stored
  BY <1>0, <1>1, <1>2 DEF Kn, Stored, StoreKnown
<1>7. StoreKnown'
  <2>1. \A d \in Contract : Plain(ram'[d]) /\ Plain(air'[d])
    BY <1>0, <1>1, <1>2 DEF StoreKnown, Plain
  <2>2. \A d \in Contract : ram'[d].reconfirm => d \in Asked'
    BY <1>0, <1>1, <1>2, <1>5 DEF StoreKnown
  <2> QED
    BY <1>0, <1>6, <2>1, <2>2 DEF StoreKnown
<1>8. \A q \in Event, d \in Contract : /\ op'[q] = op[q]
                                       /\ Closes(op[q], d, air'[d])
                                            <=> Closes(op[q], d, air[d])
                                       /\ Carries(op[q], d, air[d])
                                            => d # c
  <2>1. ASSUME NEW q \in Event
        PROVE  op[q].pc \in {"cache", "verify", "dispatch"} => op[q].on # c
    BY <1>0, WorkingAt DEF Working, Kn
  <2> QED
    BY <1>0, <1>2, <2>1 DEF Closes, Carries
<1>9. Closing' = Closing
  BY <1>0, <1>8 DEF Closing
<1>10. Noticed'
  <2> SUFFICES ASSUME NEW d \in Broken \ Passed
               PROVE  \/ ram'[d].interrupted
                      \/ \E q \in Event : \/ Carries(op[q], d, air'[d])
                                          \/ Closes(op[q], d, air'[d])
    BY <1>0, <1>5 DEF Noticed
  <2>1. d \in Contract /\ d # c
    BY <1>3 DEF Broken, Now
  <2> QED
    BY <1>2, <2>1, <1>1 DEF CInv, Noticed
<1>11. Sealed'
  <2> SUFFICES ASSUME NEW d \in Contract \ Passed, NEW q \in Event,
                      d \in op[q].marked
               PROVE  ram'[d].interrupted \/ d \in Closing
    BY <1>0, <1>5, <1>9 DEF Sealed
  <2>1. ram[d].interrupted \/ d \in Closing
    BY DEF CInv, Sealed
  <2> QED
    BY <1>2, <1>3, <2>1
<1>12. Heeded'
  <2>1. Heeded
    BY DEF CInv
  <2> QED
    BY <1>0, <1>5, <1>9, <2>1 DEF Heeded
<1>13. ASSUME NEW q \in Event
       PROVE  Poised(op'[q]) /\ Grounded(op'[q], Kn', Passed', Broken', Asked')
  BY <1>5, <1>6, <1>8, CalmAt, GroundedStays
<1>14. Locked'
  <2>1. Locked
    BY DEF CInv
  <2> QED
    BY <1>0, <2>1 DEF Locked
<1>15. \A x \in ran : /\ op[x.by].pc # "idle"
                      /\ op[x.by].kind = "confirm" /\ x.on \in op[x.by].marked
                           => x.on \in Asked
  BY DEF CInv
<1> QED
  BY <1>0, <1>5, <1>7, <1>10, <1>11, <1>12, <1>13, <1>14, <1>15 DEF CInv

-----------------------------------------------------------------------------
(* A rejection stays one, whatever becomes of it.                           *)
Same(n, h) == n.kind = h.kind /\ n.pc # "idle"

LEMMA SameShapes ==
    ASSUME NEW h \in Handler, h.pc # "idle", h.kind # "ingress"
    PROVE  /\ \A t : Same(Told(h, t), h)
           /\ \A t : Same(Looped(h, t), h)
           /\ \A pc : pc # "idle" => Same(To(h, pc), h)
           /\ \A pc, g : pc # "idle" => Same(Handed(h, pc, g), h)
           /\ Same(Saved(h), h) /\ Same(Raised(h), h) /\ Same(Conflicted(h), h)
<1>1. \A t : Same(Told(h, t), h)
  BY DEF Same, Told, Handler
<1>2. \A pc : pc # "idle" => Same(To(h, pc), h)
  BY DEF Same, To, Handler
<1>3. \A pc, g : pc # "idle" => Same(Handed(h, pc, g), h)
  BY DEF Same, Handed, Handler
<1>4. \A t : Same(Looped(h, t), h)
  <2> DEFINE n == [h EXCEPT !.pc = "next", !.again = FALSE]
  <2>1. Same(n, h)
    BY DEF Same, Handler
  <2> HIDE DEF n
  <2>2. \A t : Looped(h, t) = Told(h, t) \/ Looped(h, t) = n
    BY DEF Looped, n
  <2> QED
    BY <1>1, <2>1, <2>2
<1>5. Same(Saved(h), h)
  <2> DEFINE n == [h EXCEPT !.pc = "dispatch", !.again = FALSE]
  <2>1. Same(n, h)
    BY DEF Same, Handler
  <2>2. \/ Saved(h) = n
        \/ Saved(h) = Told(h, "asked")
        \/ Saved(h) = Looped(h, "rejected")
        \/ Saved(h) = Looped(h, "none")
        \/ Saved(h) = To(h, "answer")
    BY DEF Saved, To
  <2> QED
    BY <1>1, <1>2, <1>4, <2>1, <2>2
<1>6. Same(Raised(h), h)
  <2>1. \/ Raised(h) = Told(h, "none")
        \/ Raised(h) = Told(h, "not_saved")
        \/ Raised(h) = To(h, "answer")
    BY DEF Raised, To
  <2> QED
    BY <1>1, <1>2, <2>1
<1>7. Same(Conflicted(h), h)
  <2>1. Conflicted(h) = Raised(h) \/ Conflicted(h) = To(h, "refresh")
    BY DEF Conflicted, To
  <2> QED
    BY <1>2, <1>6, <2>1
<1> QED
  BY <1>1, <1>2, <1>3, <1>4, <1>5, <1>6, <1>7

LEMMA SameFields ==
    ASSUME NEW h \in Handler, NEW pc, pc # "idle"
    PROVE  /\ \A c, i : Same(Sent(h, pc, c, i), h)
           /\ \A t : Same(Listing(h, pc, t), h)
           /\ \A c, i, t : Same(Picked(h, c, i, t, pc), h)
           /\ \A e : Same(Captured(h, e), h)
           /\ \A v : Same(Retrying(h, v), h)
           /\ \A i : Same(Ran(h, i), h)
  BY DEF Same, Sent, Listing, Picked, Captured, Retrying, Ran, Handler

LEMMA StepSame ==
    ASSUME IInv, NEW o \in Event, Step(o), op[o].kind # "ingress"
    PROVE  \E n : op' = [op EXCEPT ![o] = n] /\ Same(n, op[o])
<1> DEFINE h == op[o]
           c == h.on
<1>0. h \in Handler /\ h.pc # "idle"
  BY At DEF Step, Find, Hydrate, Look, Recover, Route, NextItem, Enter,
     Capture, Get, Patch, Verify, Cache, Refresh, Heal, Dispatch, Answer
<1>1. /\ \A t : Same(Told(h, t), h)
      /\ \A t : Same(Looped(h, t), h)
      /\ \A pc : pc # "idle" => Same(To(h, pc), h)
      /\ \A pc, g : pc # "idle" => Same(Handed(h, pc, g), h)
      /\ Same(Saved(h), h) /\ Same(Raised(h), h) /\ Same(Conflicted(h), h)
  BY <1>0, SameShapes
<1>2. CASE Find(o) \/ Hydrate(o) \/ Look(o) \/ Recover(o)
  <2>1. \/ op' = [op EXCEPT ![o] = To(h, "enter")]
        \/ \E t : op' = [op EXCEPT ![o] = Told(h, t)]
        \/ \E pc \in {"hydrate", "route", "recover"} :
              \E g : op' = [op EXCEPT ![o] = Handed(h, pc, g)]
    BY <1>2, At DEF Find, Hydrate, Look, Recover, To, Handed, IInv
  <2> QED
    BY <1>1, <2>1
<1>3. CASE Route(o)
  <2>1. CASE RouteConfirm(o)
    <3>1. \/ \E t : op' = [op EXCEPT ![o] = Told(h, t)]
          \/ \E pc \in {"capture", "find"} : \E d, i :
                op' = [op EXCEPT ![o] = Sent(h, pc, d, i)]
      <4>1. ASSUME NEW d \in Listed(o), NEW e \in Shown(o, d),
                   op' = [op EXCEPT ![o].pc = IF e.interrupted /\ ~e.reconfirm
                                                THEN "capture" ELSE "find",
                                    ![o].on = d,
                                    ![o].intent = IF e.interrupted
                                                       /\ ~e.reconfirm
                                                    THEN "ask" ELSE "approve",
                                    ![o].got = Nothing]
            PROVE  \E pc \in {"capture", "find"} : \E i :
                      op' = [op EXCEPT ![o] = Sent(h, pc, d, i)]
        <5> DEFINE pc == IF e.interrupted /\ ~e.reconfirm
                           THEN "capture" ELSE "find"
                   i == IF e.interrupted /\ ~e.reconfirm
                          THEN "ask" ELSE "approve"
        <5>1. pc \in {"capture", "find"}
          OBVIOUS
        <5>2. op' = [op EXCEPT ![o].pc = pc, ![o].on = d,
                               ![o].intent = i, ![o].got = Nothing]
          BY <4>1
        <5> HIDE DEF pc, i
        <5>3. op' = [op EXCEPT ![o] = Sent(h, pc, d, i)]
          BY <5>2, At DEF Sent, IInv
        <5> QED
          BY <5>1, <5>3
      <4> QED
        BY <2>1, <4>1 DEF RouteConfirm
    <3> QED
      BY <1>0, <1>1, <3>1, SameFields
  <2>2. CASE RouteCancel(o)
    <3>1. \/ \E t : op' = [op EXCEPT ![o] = Told(h, t)]
          \/ op' = [op EXCEPT ![o] = Listing(h, "next", Listed(o) \X {"reject"})]
      BY <2>2, At DEF RouteCancel, Listing, IInv
    <3> QED
      BY <1>0, <1>1, <3>1, SameFields
  <2>3. CASE RouteIngress(o)
    <3> DEFINE marks == {<<d, IF ram[d].reconfirm THEN "supersede"
                                                  ELSE "interrupt">> :
                           d \in {b \in Live : \/ h.kind = "fallback"
                                               \/ ram[b].reconfirm
                                               \/ ~ram[b].interrupted}}
               m == [h EXCEPT !.todo = marks, !.got = Nothing]
               k == [m EXCEPT !.pc = "next", !.again = FALSE]
    <3>1. op' = [op EXCEPT ![o] = Looped(m, "none")]
      BY <2>3 DEF RouteIngress
    <3> HIDE DEF marks
    <3>2. m.kind = h.kind
      BY <1>0 DEF Handler
    <3>3. Looped(m, "none") = Told(m, "none") \/ Looped(m, "none") = k
      BY DEF Looped
    <3>4. Same(Told(m, "none"), h) /\ Same(k, h)
      BY <1>0 DEF Same, Told, Handler
    <3> HIDE DEF m, k
    <3> QED
      BY <3>1, <3>3, <3>4
  <2> QED
    BY <1>3, <2>1, <2>2, <2>3 DEF Route
<1>4. CASE NextItem(o)
  <2>1. \E d, i, t : \E pc \in {"enter", "capture"} :
           op' = [op EXCEPT ![o] = Picked(h, d, i, t, pc)]
    <3>1. PICK item \in h.todo :
            op' = [op EXCEPT ![o].on = item[1], ![o].intent = item[2],
                             ![o].todo = @ \ {item},
                             ![o].pc = IF item[2] = "reject" THEN "enter"
                                                             ELSE "capture"]
      BY <1>4 DEF NextItem
    <3> DEFINE x == h.todo \ {item}
               pc == IF item[2] = "reject" THEN "enter" ELSE "capture"
    <3>2. op' = [op EXCEPT ![o] = Picked(h, item[1], item[2], x, pc)]
      <4> HIDE DEF x, pc
      <4>1. op' = [op EXCEPT ![o].on = item[1], ![o].intent = item[2],
                             ![o].todo = x, ![o].pc = pc]
        BY <3>1 DEF x, pc
      <4> QED
        BY <4>1, At DEF Picked, IInv
    <3> QED
      BY <3>2
  <2> QED
    BY <1>0, <2>1, SameFields
<1>5. CASE Enter(o)
  <2>1. \/ \E pc \in {"capture", "answer"} : op' = [op EXCEPT ![o] = To(h, pc)]
        \/ \E t : op' = [op EXCEPT ![o] = Told(h, t)]
    BY <1>5, At DEF Enter, To, IInv
  <2> QED
    BY <1>1, <2>1
<1>6. CASE Capture(o)
  <2>1. \/ \E e : op' = [op EXCEPT ![o] = Captured(h, e)]
        \/ op' = [op EXCEPT ![o] = Saved(h)]
    BY <1>6, At DEF Capture, Captured, IInv
  <2> QED
    BY <1>0, <1>1, <2>1, SameFields
<1>7. CASE Get(o) \/ Patch(o) \/ Verify(o) \/ Cache(o) \/ Refresh(o) \/ Answer(o)
  <2>1. \/ \E pc \in {"patch", "verify"} : op' = [op EXCEPT ![o] = To(h, pc)]
        \/ \E pc \in {"cache", "heal"} :
              \E g : op' = [op EXCEPT ![o] = Handed(h, pc, g)]
        \/ op' = [op EXCEPT ![o] = Conflicted(h)]
        \/ op' = [op EXCEPT ![o] = Raised(h)]
        \/ op' = [op EXCEPT ![o] = Saved(h)]
        \/ \E t : op' = [op EXCEPT ![o] = Told(h, t)]
    BY <1>7 DEF Get, Patch, Verify, Cache, Refresh, Answer, To, Handed
  <2> QED
    BY <1>1, <2>1
<1>8. CASE Heal(o)
  <2>1. \E v : op' = [op EXCEPT ![o] = Retrying(h, v)]
    BY <1>8, At DEF Heal, Retrying, IInv
  <2> QED
    BY <1>0, <2>1, SameFields
<1>9. CASE Dispatch(o)
  <2>1. \/ \E i : op' = [op EXCEPT ![o] = Ran(h, i)]
        \/ op' = [op EXCEPT ![o] = To(h, "answer")]
    BY <1>9, At DEF Dispatch, Ran, To, IInv
  <2> QED
    BY <1>0, <1>1, <2>1, SameFields
<1> QED
  BY <1>2, <1>3, <1>4, <1>5, <1>6, <1>7, <1>8, <1>9 DEF Step

LEMMA RejectingStays ==
    ASSUME "restart" \notin Faults, IInv, Rejecting, [Next]_vars
    PROVE  Rejecting'
<1>1. PICK p \in Event : op[p].kind \in {"reject", "cancel"} /\ op[p].pc # "idle"
  BY DEF Rejecting
<1>2. CASE op' = op
  BY <1>1, <1>2 DEF Rejecting
<1>3. ASSUME NEW o \in Event, NEW n, op' = [op EXCEPT ![o] = n],
             o = p => Same(n, op[p])
      PROVE  Rejecting'
  <2>1. o # p => op'[p] = op[p]
    BY <1>3
  <2>2. o = p => op'[p] = n
    BY <1>3 DEF IInv
  <2> QED
    BY <1>1, <1>3, <2>1, <2>2 DEF Rejecting, Same
<1>4. ASSUME NEW o \in Event, NEW k \in Kinds, NEW c \in Contract \cup {None},
             Arrive(o, k, c)
      PROVE  Rejecting'
  <2>1. o # p
    BY <1>1, <1>4 DEF Arrive
  <2>2. \E n : op' = [op EXCEPT ![o] = n]
    BY <1>4, At DEF Arrive, IInv
  <2> QED
    BY <1>3, <2>1, <2>2
<1>5. ASSUME NEW o \in Event, Step(o) PROVE Rejecting'
  <2>1. CASE o = p
    BY <1>1, <1>3, <1>5, <2>1, StepSame
  <2>2. CASE o # p
    <3>1. op'[p] = op[p]
      BY <1>5, <2>2, At DEF IInv, Step, Find, Hydrate, Look, Recover, Route,
         RouteConfirm, RouteCancel, RouteIngress, NextItem, Enter, Capture,
         Get, Patch, Verify, Cache, Refresh, Heal, Dispatch, Answer
    <3> QED
      BY <1>1, <3>1 DEF Rejecting
  <2> QED
    BY <2>1, <2>2
<1>6. ASSUME NEW c \in Contract, Propose(c) PROVE op' = op
  BY <1>6 DEF Propose
<1> QED
  BY <1>2, <1>4, <1>5, <1>6 DEF Next, Restart, vars

LEMMA ContextStays ==
    ASSUME Faults = {}, Claims, IInv, CInv, [Next]_vars, ~Rejecting'
    PROVE  CInv'
<1>1. CASE UNCHANGED vars
  BY <1>1 DEF vars, CInv, StoreKnown, Locked, Noticed, Sealed, Heeded, Kn,
     Stored, Passed, Past, Performed, Broken, Asked, Now, Closing
<1>2. ASSUME NEW c \in Contract, Propose(c) PROVE CInv'
  BY <1>2, ProposeWarned
<1>3. ASSUME NEW o \in Event, NEW k \in Kinds, NEW c \in Contract \cup {None},
             Arrive(o, k, c)
      PROVE  CInv'
  BY <1>3, ArriveWarned
<1>4. ASSUME NEW o \in Event, Step(o) PROVE CInv'
  BY <1>4, FindWarned, HydrateWarned, LookWarned, RecoverWarned, RouteWarned,
     NextItemWarned, EnterWarned, CaptureWarned, GetWarned, PatchWarned,
     VerifyWarned, CacheWarned, RefreshWarned, HealWarned, DispatchWarned,
     AnswerWarned
  DEF Step
<1> QED
  BY <1>1, <1>2, <1>3, <1>4 DEF Next, Restart

(* Where no answer is lost and the atomic claims are on, no confirm word    *)
(* runs a contract that an answered message had interrupted before it,      *)
(* unless the question is on record or a rejection is at work.              *)
THEOREM ContextIsKnown ==
    ASSUME Faults = {}, Claims
    PROVE  Spec => []ConfirmKnowsContext
<1> DEFINE Inv == Rejecting \/ CInv
<1>1. Init => Inv
  BY ContextInitially
<1>2. IInv /\ Inv /\ [Next]_vars => Inv'
  BY ContextStays, RejectingStays
<1>3. Inv => ConfirmKnowsContext
  BY DEF CInv, ConfirmKnowsContext, Asked
<1> HIDE DEF Inv
<1> QED
  BY <1>1, <1>2, <1>3, Inductive, PTL DEF Spec, ConfirmKnowsContext
=============================================================================
