----------------------- MODULE ExternalExecutionProofs -----------------------
(***************************************************************************)
(* Proofs about ExternalExecution for any number of jobs, calls, pollers,  *)
(* runs and faults.  A submission that is under way finds its job as it    *)
(* left it, because no poller looks at a job that was not recorded as      *)
(* submitted (Submitters, Pollers); each run that was started is on        *)
(* record, about to be, or lost (Accounted); and while no lease ran out, a *)
(* poller that is about to write its job still finds it submitted.         *)
(***************************************************************************)
EXTENDS ExternalExecution, TLAPS

Recordings == {"submitted"} \cup Terminal

Busy(s) == sub[s].pc \in {"gate", "create", "park", "call", "record"}

(* One submission: its job, and what it knows of it.                        *)
Submits(s) ==
    /\ Busy(s) => sub[s].on \in Job
    /\ ~Busy(s) => sub[s].on = Nobody
    /\ sub[s].pc = "gate" => job[sub[s].on].status \in {"absent", "created"}
    /\ sub[s].pc \in {"create", "park"} => job[sub[s].on].status = "absent"
    /\ sub[s].pc \in {"call", "record"} => job[sub[s].on].status = "created"
    /\ sub[s].pc = "record" <=> sub[s].result # "none"
    /\ sub[s].run # Nobody
          => sub[s].pc = "record" /\ run[sub[s].run].of = sub[s].on
    /\ sub[s].result = "submitted" => sub[s].run \in Run
    /\ sub[s].result = "completed"
          => sub[s].run \in Run /\ run[sub[s].run].state = "good"

Submitters ==
    /\ \A s \in Submission : Submits(s)
    /\ \A s, t \in Submission :
          sub[s].on = sub[t].on /\ sub[s].on # Nobody => s = t

(* A job that was submitted or completed names a run of its own.            *)
OwnRun == \A c \in Job :
             job[c].status \in {"submitted", "completed"}
               => job[c].run \in Run /\ run[job[c].run].of = c

Pollers ==
    \A p \in Poller :
       /\ p \in slow => AtWork(p) /\ pol[p].on \in late
       /\ pol[p].pc \in {"poll", "write", "clean"}
             => /\ pol[p].got.run \in Run
                /\ run[pol[p].got.run].of = pol[p].on
                /\ job[pol[p].on].status \in Recordings
       /\ pol[p].pc \in {"poll", "write"} /\ pol[p].on \notin late
             => job[pol[p].on].status = "submitted"
       /\ pol[p].pc = "write" => pol[p].result \in Recordings
       /\ pol[p].pc = "write" /\ pol[p].result = "completed"
             => run[pol[p].got.run].state = "good"

Accounted ==
    \A r \in Run :
       run[r].of # Nobody
         => \/ r \in lost
            \/ \E s \in Submission : sub[s].pc = "record" /\ sub[s].run = r
            \/ job[run[r].of].status \in Recordings

Unused == \A r \in Run : run[r].state = "unused" <=> run[r].of = Nobody

IInv == /\ TypeOK /\ Submitters /\ OwnRun /\ Pollers /\ Accounted /\ Unused
        /\ LeaseHeld /\ StartedOnce /\ CompletedHasArtifact

-----------------------------------------------------------------------------
LEMMA FaultTyped ==
    ASSUME TypeOK, Fault \/ UNCHANGED faults
    PROVE  faults' \in 0 .. MaxFaults
  BY LimitsAreNumbers DEF Fault, TypeOK

LEMMA ToldTyped ==
    ASSUME NEW s \in Submission,
           NEW t \in {"none", "accepted", "failed", "outcome_unknown"}
    PROVE  /\ Told(s, t) \in Submitting
           /\ Told(s, t).pc = "done" /\ Told(s, t).on = Nobody
           /\ Told(s, t).run = Nobody /\ Told(s, t).result = "none"
  BY DEF Told, Idle, Submitting

LEMMA InitHolds == Init => IInv
  <1> SUFFICES ASSUME Init PROVE IInv
    OBVIOUS
  <1>1. TypeOK
    BY LimitsAreNumbers
       DEF Init, TypeOK, NoJob, JobRecord, NoRun, RunRecord, NoLease, Lease,
           Idle, Submitting, Resting, Polling, AtWork, Terminal
  <1>2. Submitters
    BY DEF Init, Submitters, Submits, Busy, Idle
  <1>3. OwnRun /\ CompletedHasArtifact
    BY DEF Init, OwnRun, CompletedHasArtifact, NoJob
  <1>4. Pollers /\ LeaseHeld
    BY DEF Init, Pollers, LeaseHeld, Resting, AtWork
  <1>5. Accounted /\ StartedOnce /\ Unused
    BY DEF Init, Accounted, StartedOnce, NoRun, Unused
  <1> QED BY <1>1, <1>2, <1>3, <1>4, <1>5 DEF IInv

-----------------------------------------------------------------------------
(* A submission moves on while no job and no run changes, and what it had   *)
(* started, if anything, is lost.                                           *)
LEMMA SubmissionMoves ==
    ASSUME IInv, NEW s \in Submission, NEW r \in Submitting,
           sub' = [sub EXCEPT ![s] = r],
           UNCHANGED <<job, run, lease, pol, slow, late>>,
           faults' \in 0 .. MaxFaults,
           lost \subseteq lost', lost' \subseteq Run,
           sub[s].run # Nobody => sub[s].run \in lost',
           r.run = Nobody, r.result = "none", r.pc # "record",
           r.pc \in {"gate", "create", "park", "call"}
             => r.on \in Job /\ (\A t \in Submission \ {s} : sub[t].on # r.on),
           r.pc \in {"idle", "done"} => r.on = Nobody,
           r.pc = "gate" => job[r.on].status \in {"absent", "created"},
           r.pc \in {"create", "park"} => job[r.on].status = "absent",
           r.pc = "call" => job[r.on].status = "created"
    PROVE  IInv'
  <1>1. /\ sub \in [Submission -> Submitting] /\ sub'[s] = r
        /\ \A t \in Submission \ {s} : sub'[t] = sub[t]
    BY DEF IInv, TypeOK
  <1>2. TypeOK'
    BY <1>1 DEF IInv, TypeOK, AtWork
  <1>3. r.on # Nobody => r.on \in Job
    BY DEF Submitting
  <1>4. Submitters'
    <2>1. ASSUME NEW t \in Submission, NEW u \in Submission,
                 sub'[t].on = sub'[u].on, sub'[t].on # Nobody
          PROVE  t = u
      BY <1>1, <2>1 DEF IInv, Submitters, Submits, Busy, Submitting
    <2>2. Submits(s)'
      BY <1>1, <1>3, NobodyIsNew DEF Submits, Busy, Submitting
    <2>3. ASSUME NEW t \in Submission \ {s} PROVE Submits(t)'
      <3>1. Submits(t)
        BY DEF IInv, Submitters
      <3> QED BY <1>1, <3>1 DEF Submits, Busy
    <2> QED BY <2>1, <2>2, <2>3 DEF Submitters
  <1>5. OwnRun' /\ CompletedHasArtifact' /\ StartedOnce' /\ Unused'
    BY DEF IInv, OwnRun, CompletedHasArtifact, StartedOnce, Unused
  <1>6. Pollers' /\ LeaseHeld'
    BY DEF IInv, Pollers, LeaseHeld, AtWork
  <1>7. Accounted'
    BY <1>1, NobodyIsNew DEF IInv, Accounted
  <1> QED BY <1>2, <1>4, <1>5, <1>6, <1>7 DEF IInv

LEMMA StartHolds ==
    ASSUME IInv, NEW s \in Submission, NEW c \in Job, Start(s, c)
    PROVE  IInv'
  <1>1. /\ sub[s] \in Submitting /\ sub[s].pc = "idle" /\ sub[s].run = Nobody
        /\ sub[s].result = "none"
        /\ \A t \in Submission : sub[t].on # c
        /\ UNCHANGED <<job, run, lease, pol, lost, slow, late>>
        /\ lost \subseteq Run /\ job[c] \in JobRecord
    BY DEF Start, IInv, TypeOK, Submitters, Submits
  <1>2. faults' \in 0 .. MaxFaults
    BY FaultTyped DEF Start, IInv
  <1>3. ASSUME NEW t \in {"none", "accepted", "failed", "outcome_unknown"},
               sub' = [sub EXCEPT ![s] = Told(s, t)]
        PROVE  IInv'
    BY <1>1, <1>2, <1>3, ToldTyped, SubmissionMoves
  <1>4. ASSUME MayCall(job[c].status),
               sub' = [sub EXCEPT ![s].pc = "gate", ![s].on = c]
        PROVE  IInv'
    <2>1. PICK r : r = [sub[s] EXCEPT !.pc = "gate", !.on = c]
      OBVIOUS
    <2>2. /\ r \in Submitting /\ r.pc = "gate" /\ r.on = c
          /\ r.run = Nobody /\ r.result = sub[s].result
      BY <1>1, <2>1 DEF Submitting
    <2>3. sub' = [sub EXCEPT ![s] = r]
      BY <1>4, <2>1
    <2> QED BY <1>1, <1>2, <1>4, <2>2, <2>3, SubmissionMoves DEF MayCall
  <1>5. ~MayCall(job[c].status)
          => Known(job[c].status) \in {"accepted", "failed", "outcome_unknown"}
    BY <1>1 DEF MayCall, Known, JobRecord, Terminal
  <1> QED BY <1>3, <1>4, <1>5 DEF Start

LEMMA GateHolds ==
    ASSUME IInv, NEW s \in Submission, Gate(s)
    PROVE  IInv'
  <1> DEFINE c == sub[s].on
  <1>1. /\ sub[s] \in Submitting /\ sub[s].pc = "gate" /\ c \in Job
        /\ sub[s].run = Nobody /\ sub[s].result = "none"
        /\ job[c].status \in {"absent", "created"}
        /\ \A t \in Submission \ {s} : sub[t].on # c
        /\ UNCHANGED <<job, run, lease, pol, lost, slow, late>>
        /\ lost \subseteq Run
    BY NobodyIsNew DEF Gate, IInv, TypeOK, Submitters, Submits, Busy
  <1>2. faults' \in 0 .. MaxFaults
    BY FaultTyped DEF Gate, IInv
  <1>3. ASSUME sub' = [sub EXCEPT ![s] = Told(s, "outcome_unknown")]
        PROVE  IInv'
    BY <1>1, <1>2, <1>3, ToldTyped, SubmissionMoves
  <1>4. ASSUME NEW pc \in {"create", "park", "call"},
               pc \in {"create", "park"} <=> job[c].status = "absent",
               sub' = [sub EXCEPT ![s].pc = pc]
        PROVE  IInv'
    <2>1. PICK r : r = [sub[s] EXCEPT !.pc = pc]
      OBVIOUS
    <2>2. /\ r \in Submitting /\ r.pc = pc /\ r.on = c
          /\ r.run = Nobody /\ r.result = "none"
      BY <1>1, <2>1 DEF Submitting
    <2>3. sub' = [sub EXCEPT ![s] = r]
      BY <1>4, <2>1
    <2>4. /\ r.pc # "record" /\ r.pc # "gate" /\ r.pc \notin {"idle", "done"}
          /\ r.pc \in {"create", "park"} => job[r.on].status = "absent"
          /\ r.pc = "call" => job[r.on].status = "created"
      BY <1>1, <1>4, <2>2
    <2>5. r.on \in Job /\ \A t \in Submission \ {s} : sub[t].on # r.on
      BY <1>1, <2>2
    <2> QED
      BY <1>1, <1>2, <2>2, <2>3, <2>4, <2>5, SubmissionMoves
  <1> QED BY <1>3, <1>4 DEF Gate

LEMMA SubmissionDiesHolds ==
    ASSUME IInv, NEW s \in Submission, SubmissionDies(s)
    PROVE  IInv'
  <1>1. /\ sub[s] \in Submitting
        /\ sub' = [sub EXCEPT ![s] = Told(s, "none")]
        /\ UNCHANGED <<job, run, lease, pol, slow, late>>
        /\ lost' = lost \cup ({sub[s].run} \ {Nobody})
        /\ lost \subseteq Run
    BY DEF SubmissionDies, IInv, TypeOK
  <1>2. faults' \in 0 .. MaxFaults
    BY FaultTyped DEF SubmissionDies, IInv
  <1>3. /\ lost \subseteq lost' /\ lost' \subseteq Run
        /\ sub[s].run # Nobody => sub[s].run \in lost'
    BY <1>1 DEF Submitting
  <1> QED BY <1>1, <1>2, <1>3, ToldTyped, SubmissionMoves

(* A job that is put on record; its submission goes on, or gives up.        *)
LEMMA CreateHolds ==
    ASSUME IInv, NEW s \in Submission, Create(s)
    PROVE  IInv'
  <1> DEFINE c == sub[s].on
  <1>1. /\ sub \in [Submission -> Submitting] /\ sub[s].pc \in {"create", "park"}
        /\ c \in Job /\ sub[s].run = Nobody /\ sub[s].result = "none"
        /\ job[c].status = "absent" /\ job \in [Job -> JobRecord]
        /\ \A t \in Submission \ {s} : sub[t].on # c
        /\ UNCHANGED <<run, lease, pol, lost, slow, late>>
    BY NobodyIsNew DEF Create, IInv, TypeOK, Submitters, Submits, Busy
  <1>2. faults' \in 0 .. MaxFaults
    BY FaultTyped DEF Create, IInv
  <1>3. PICK j : j = [job[c] EXCEPT !.status = "created"]
    OBVIOUS
  <1>4. j \in JobRecord /\ j.status = "created"
    BY <1>1, <1>3 DEF JobRecord
  <1>5. job' = job \/ job' = [job EXCEPT ![c] = j]
    BY <1>3 DEF Create
  <1>6. /\ job' \in [Job -> JobRecord]
        /\ \A d \in Job \ {c} : job'[d] = job[d]
        /\ job'[c].status \in {"absent", "created"}
    BY <1>1, <1>4, <1>5
  <1>7. PICK r \in Submitting :
           /\ sub' = [sub EXCEPT ![s] = r]
           /\ r.run = Nobody /\ r.result = "none"
           /\ \/ r.pc = "done" /\ r.on = Nobody
              \/ r.pc = "call" /\ r.on = c /\ job'[c].status = "created"
    <2>1. CASE sub' = [sub EXCEPT ![s] = Told(s, "outcome_unknown")]
      BY <2>1, ToldTyped
    <2>2. CASE /\ sub' = [sub EXCEPT ![s] = [sub[s] EXCEPT !.pc = "call"]]
               /\ job' = [job EXCEPT ![c] = j]
      <3>1. PICK r : r = [sub[s] EXCEPT !.pc = "call"]
        OBVIOUS
      <3>2. /\ r \in Submitting /\ r.pc = "call" /\ r.on = c
            /\ r.run = Nobody /\ r.result = "none"
        BY <1>1, <3>1 DEF Submitting
      <3> QED BY <1>1, <1>4, <2>2, <3>1, <3>2
    <2> QED BY <1>3, <2>1, <2>2 DEF Create
  <1>8. /\ sub'[s] = r /\ \A t \in Submission \ {s} : sub'[t] = sub[t]
        /\ sub' \in [Submission -> Submitting]
    BY <1>1, <1>7
  <1>9. TypeOK'
    BY <1>1, <1>2, <1>6, <1>8 DEF IInv, TypeOK, AtWork
  <1>10. Submitters'
    <2>1. ASSUME NEW t \in Submission, NEW u \in Submission,
                 sub'[t].on = sub'[u].on, sub'[t].on # Nobody
          PROVE  t = u
      BY <1>1, <1>7, <1>8, <2>1 DEF IInv, Submitters
    <2>2. Submits(s)'
      BY <1>1, <1>7, <1>8 DEF Submits, Busy
    <2>3. ASSUME NEW t \in Submission \ {s} PROVE Submits(t)'
      <3>1. Submits(t) /\ sub[t].on # c
        BY <1>1 DEF IInv, Submitters
      <3>2. /\ sub'[t] = sub[t]
            /\ Busy(t) => sub[t].on \in Job \ {c}
        BY <1>8, <3>1 DEF Submits
      <3> QED BY <1>1, <1>6, <3>1, <3>2 DEF Submits, Busy
    <2> QED BY <2>1, <2>2, <2>3 DEF Submitters
  <1>11. OwnRun' /\ CompletedHasArtifact' /\ StartedOnce' /\ Unused'
    BY <1>1, <1>6 DEF IInv, OwnRun, CompletedHasArtifact, StartedOnce, Unused
  <1>12. Pollers' /\ LeaseHeld'
    <2>1. \A p \in Poller : AtWork(p) => pol[p].on \in Job
      BY DEF IInv, TypeOK
    <2> QED BY <1>1, <1>6, <2>1
          DEF IInv, Pollers, LeaseHeld, AtWork, Recordings, Terminal
  <1>13. Accounted'
    <2>1. ASSUME NEW q \in Run, run[q].of # Nobody
          PROVE  \/ q \in lost
                 \/ \E t \in Submission : sub'[t].pc = "record" /\ sub'[t].run = q
                 \/ job'[run[q].of].status \in Recordings
      <3>1. run[q].of \in Job
        BY <2>1 DEF IInv, TypeOK, RunRecord
      <3>2. CASE \E t \in Submission : sub[t].pc = "record" /\ sub[t].run = q
        BY <1>1, <1>8, <3>2
      <3>3. CASE job[run[q].of].status \in Recordings
        BY <1>1, <1>6, <3>1, <3>3 DEF Recordings, Terminal
      <3> QED BY <2>1, <3>2, <3>3 DEF IInv, Accounted
    <2> QED BY <1>1, <2>1 DEF Accounted
  <1> QED BY <1>9, <1>10, <1>11, <1>12, <1>13 DEF IInv

(* What a call leaves behind: a run q of the job, or none, and a result.     *)
Called(s, q, result) ==
    /\ sub' = [sub EXCEPT ![s].pc = "record", ![s].run = q,
                          ![s].result = result]
    /\ result = "submitted" => q \in Run
    /\ result = "completed" => q \in Run /\ run'[q].state = "good"
    /\ \/ q = Nobody /\ run' = run
       \/ /\ q \in Run /\ run[q].state = "unused"
          /\ \E state \in {"running", "good"} :
                run' = [run EXCEPT ![q] = [state |-> state, of |-> sub[s].on,
                                           files |-> TRUE]]

(* The provider is called for a job on record; the run it may have started  *)
(* is the submission's own.                                                 *)
LEMMA CallHolds ==
    ASSUME IInv, NEW s \in Submission, Call(s)
    PROVE  IInv'
  <1> DEFINE c == sub[s].on
  <1>1. /\ sub \in [Submission -> Submitting] /\ sub[s].pc = "call"
        /\ c \in Job /\ sub[s].run = Nobody /\ sub[s].result = "none"
        /\ job[c].status = "created" /\ run \in [Run -> RunRecord]
        /\ \A t \in Submission \ {s} : sub[t].on # c
        /\ UNCHANGED <<job, lease, pol, lost, slow, late>>
    BY NobodyIsNew DEF Call, IInv, TypeOK, Submitters, Submits, Busy
  <1>2. faults' \in 0 .. MaxFaults
    BY FaultTyped DEF Call, IInv
  <1>3. PICK q \in Run \cup {Nobody}, result \in Recordings : Called(s, q, result)
    <2>1. ASSUME NEW q \in Run, run[q].state = "unused",
                 NEW state \in {"running", "good"}, Begun(q, c, state),
                 NEW result \in Recordings,
                 result = "completed" => state = "good",
                 sub' = [sub EXCEPT ![s].pc = "record", ![s].run = q,
                                    ![s].result = result]
          PROVE  Called(s, q, result)
      <3>1. run'[q].state = state
        BY <1>1, <2>1 DEF Begun
      <3> QED BY <2>1, <3>1 DEF Called, Begun
    <2>2. ASSUME NEW result \in {"failed", "outcome_unknown"}, run' = run,
                 sub' = [sub EXCEPT ![s].pc = "record", ![s].run = Nobody,
                                    ![s].result = result]
          PROVE  result \in Recordings /\ Called(s, Nobody, result)
      BY <2>2 DEF Called, Recordings, Terminal
    <2>3. {"submitted", "completed", "failed", "outcome_unknown"} \subseteq Recordings
      BY DEF Recordings, Terminal
    <2>4. CASE \E q \in {q \in Run : run[q].state = "unused"} :
                 \/ /\ Begun(q, c, "running")
                    /\ sub' = [sub EXCEPT ![s].pc = "record", ![s].run = q,
                                          ![s].result = "submitted"]
                 \/ /\ Begun(q, c, "good")
                    /\ sub' = [sub EXCEPT ![s].pc = "record", ![s].run = q,
                                          ![s].result = "completed"]
                 \/ /\ Begun(q, c, "running")
                    /\ \E result \in {"failed", "outcome_unknown"} :
                          sub' = [sub EXCEPT ![s].pc = "record", ![s].run = q,
                                             ![s].result = result]
      <3>1. PICK q \in Run :
                 /\ run[q].state = "unused"
                 /\ \/ /\ Begun(q, c, "running")
                       /\ sub' = [sub EXCEPT ![s].pc = "record", ![s].run = q,
                                             ![s].result = "submitted"]
                    \/ /\ Begun(q, c, "good")
                       /\ sub' = [sub EXCEPT ![s].pc = "record", ![s].run = q,
                                             ![s].result = "completed"]
                    \/ /\ Begun(q, c, "running")
                       /\ \E result \in {"failed", "outcome_unknown"} :
                          sub' = [sub EXCEPT ![s].pc = "record", ![s].run = q,
                                             ![s].result = result]
        BY <2>4
      <3> QED BY <2>1, <2>3, <3>1
    <2>5. CASE /\ run' = run
               /\ \E result \in {"failed", "outcome_unknown"} :
                    sub' = [sub EXCEPT ![s].pc = "record", ![s].run = Nobody,
                                       ![s].result = result]
      BY <2>2, <2>5
    <2> QED BY <2>4, <2>5 DEF Call
  <1>4. PICK r : r = [sub[s] EXCEPT !.pc = "record", !.run = q,
                                    !.result = result]
    OBVIOUS
  <1>5. /\ r \in Submitting /\ r.pc = "record" /\ r.on = c /\ r.run = q
        /\ r.result = result /\ result # "none"
    BY <1>1, <1>4 DEF Submitting, Recordings, Terminal
  <1>6. /\ sub'[s] = r /\ \A t \in Submission \ {s} : sub'[t] = sub[t]
        /\ sub' \in [Submission -> Submitting]
    BY <1>1, <1>3, <1>4, <1>5 DEF Called
  <1>7. /\ run' \in [Run -> RunRecord]
        /\ \A d \in Run \ {q} : run'[d] = run[d]
        /\ q \in Run => /\ run[q].of = Nobody /\ run'[q].of = c
                        /\ run[q].state = "unused" /\ run'[q].state # "unused"
    <2>1. CASE q = Nobody /\ run' = run
      BY <1>1, <2>1, NobodyIsNew
    <2>2. ASSUME q \in Run, run[q].state = "unused",
                 NEW state \in {"running", "good"},
                 run' = [run EXCEPT ![q] = [state |-> state, of |-> c,
                                            files |-> TRUE]]
          PROVE  /\ run' \in [Run -> RunRecord]
                 /\ \A d \in Run \ {q} : run'[d] = run[d]
                 /\ run[q].of = Nobody /\ run'[q].of = c
                 /\ run'[q].state # "unused"
      <3>1. PICK d : d = [state |-> state, of |-> c, files |-> TRUE]
        OBVIOUS
      <3>2. /\ d \in RunRecord /\ d.of = c /\ d.state = state
            /\ state # "unused"
        BY <1>1, <3>1 DEF RunRecord
      <3>3. run[q].of = Nobody
        BY <2>2 DEF IInv, Unused
      <3>4. run' = [run EXCEPT ![q] = d]
        BY <2>2, <3>1
      <3> QED BY <1>1, <2>2, <3>2, <3>3, <3>4
    <2> QED BY <1>3, <2>1, <2>2 DEF Called
  <1>8. TypeOK'
    BY <1>1, <1>2, <1>6, <1>7 DEF IInv, TypeOK, AtWork
  <1>9. Submitters'
    <2>1. ASSUME NEW t \in Submission, NEW u \in Submission,
                 sub'[t].on = sub'[u].on, sub'[t].on # Nobody
          PROVE  t = u
      BY <1>1, <1>5, <1>6, <2>1 DEF IInv, Submitters
    <2>2. Submits(s)'
      BY <1>1, <1>3, <1>5, <1>6, <1>7 DEF Submits, Busy, Called
    <2>3. ASSUME NEW t \in Submission \ {s} PROVE Submits(t)'
      <3>1. Submits(t) /\ sub'[t] = sub[t] /\ sub[t] \in Submitting
        BY <1>1, <1>6 DEF IInv, Submitters
      <3>2. sub[t].run # Nobody => sub[t].run \in Run \ {q}
        <4>1. CASE sub[t].run # Nobody
          <5>1. sub[t].pc = "record" /\ sub[t].run \in Run
            BY <3>1, <4>1 DEF Submits, Submitting
          <5>2. run[sub[t].run].of \in Job
            BY <3>1, <4>1, <5>1 DEF Submits, Busy
          <5> QED BY <1>7, <5>1, <5>2, NobodyIsNew
        <4> QED BY <4>1, <3>1 DEF Submitting
      <3> QED BY <1>1, <1>7, <3>1, <3>2, NobodyIsNew DEF Submits, Busy
    <2> QED BY <2>1, <2>2, <2>3 DEF Submitters
  <1>10. OwnRun' /\ CompletedHasArtifact'
    <2>1. ASSUME NEW d \in Job, job[d].run \in Run, run[job[d].run].of = d
          PROVE  run'[job[d].run] = run[job[d].run]
      <3>1. run[job[d].run].of # Nobody
        BY <2>1, NobodyIsNew
      <3>2. job[d].run # q
        BY <1>7, <2>1, <3>1
      <3> QED BY <1>7, <2>1, <3>2
    <2> QED BY <1>1, <2>1 DEF IInv, OwnRun, CompletedHasArtifact
  <1>11. Unused'
    BY <1>1, <1>7, NobodyIsNew DEF IInv, Unused
  <1>12. Pollers' /\ LeaseHeld'
    <2>1. ASSUME NEW p \in Poller, pol[p].pc \in {"poll", "write", "clean"}
          PROVE  run'[pol[p].got.run] = run[pol[p].got.run]
      <3>1. pol[p].got.run \in Run /\ run[pol[p].got.run].of \in Job
        BY <2>1 DEF IInv, TypeOK, Pollers, AtWork
      <3> QED BY <1>7, <3>1, NobodyIsNew
    <2> QED BY <1>1, <2>1 DEF IInv, Pollers, LeaseHeld, AtWork
  <1>13. Accounted'
    <2>1. ASSUME NEW d \in Run, run'[d].of # Nobody
          PROVE  \/ d \in lost
                 \/ \E t \in Submission : sub'[t].pc = "record" /\ sub'[t].run = d
                 \/ job[run'[d].of].status \in Recordings
      <3>1. CASE d = q
        BY <1>5, <1>6, <3>1
      <3>2. CASE d # q
        <4>1. run'[d] = run[d]
          BY <1>7, <3>2
        <4>2. CASE \E t \in Submission : sub[t].pc = "record" /\ sub[t].run = d
          BY <1>1, <1>6, <4>2
        <4> QED BY <2>1, <4>1, <4>2 DEF IInv, Accounted
      <3> QED BY <3>1, <3>2
    <2> QED BY <1>1, <2>1 DEF Accounted
  <1>14. StartedOnce'
    <2>1. ASSUME NEW d \in Run \ {q}, run[d].of = c
          PROVE  d \in lost
      <3>1. ASSUME NEW t \in Submission, sub[t].pc = "record", sub[t].run = d
            PROVE  FALSE
        <4>1. sub[t].on = c
          BY <2>1, <3>1, NobodyIsNew DEF IInv, Submitters, Submits
        <4> QED BY <1>1, <3>1, <4>1
      <3> QED BY <1>1, <2>1, <3>1, NobodyIsNew
           DEF IInv, Accounted, Recordings, Terminal
    <2> QED BY <1>1, <1>7, <2>1 DEF IInv, StartedOnce
  <1> QED BY <1>8, <1>9, <1>10, <1>11, <1>12, <1>13, <1>14 DEF IInv

(* The result is recorded, or the run that was started is lost.             *)
LEMMA RecordHolds ==
    ASSUME IInv, NEW s \in Submission, Record(s)
    PROVE  IInv'
  <1> DEFINE c == sub[s].on
  <1>1. /\ sub \in [Submission -> Submitting] /\ sub[s].pc = "record"
        /\ c \in Job /\ sub[s].result # "none" /\ sub[s] \in Submitting
        /\ job[c].status = "created" /\ job \in [Job -> JobRecord]
        /\ \A t \in Submission \ {s} : sub[t].on # c
        /\ sub[s].run # Nobody => run[sub[s].run].of = c
        /\ sub[s].result = "submitted" => sub[s].run \in Run
        /\ sub[s].result = "completed"
              => sub[s].run \in Run /\ run[sub[s].run].state = "good"
        /\ lost \subseteq Run
        /\ UNCHANGED <<run, lease, pol, slow, late>>
    BY NobodyIsNew DEF Record, IInv, TypeOK, Submitters, Submits, Busy
  <1>2. faults' \in 0 .. MaxFaults
    BY FaultTyped DEF Record, IInv
  <1>3. PICK j : /\ j \in JobRecord /\ j.status = sub[s].result
                 /\ j.status \in {"submitted", "completed"}
                      => j.run \in Run /\ j.run = sub[s].run
                 /\ Recorded(s) = [job EXCEPT ![c] = j]
    <2>1. PICK good \in BOOLEAN :
             good = (sub[s].result \in {"submitted", "completed"})
      <3>1. CASE sub[s].result \in {"submitted", "completed"}
        <4>1. TRUE = (sub[s].result \in {"submitted", "completed"})
          BY <3>1
        <4> QED BY <4>1, Zenon
      <3>2. CASE sub[s].result \notin {"submitted", "completed"}
        <4>1. FALSE = (sub[s].result \in {"submitted", "completed"})
          BY <3>2
        <4> QED BY <4>1, Zenon
      <3> QED BY <3>1, <3>2, Zenon
    <2>2. PICK own \in Run \cup {Nobody} :
             own = IF good THEN sub[s].run ELSE Nobody
      BY <1>1 DEF Submitting
    <2>3. PICK j : j = [status |-> sub[s].result, run |-> own, stamped |-> good]
      OBVIOUS
    <2>4. sub[s].result \in {"absent", "created", "submitted"} \cup Terminal
      BY <1>1 DEF Submitting
    <2>5. /\ j \in JobRecord /\ j.status = sub[s].result
          /\ j.status \in {"submitted", "completed"}
               => j.run \in Run /\ j.run = sub[s].run
      <3>1. j.status = sub[s].result /\ j.run = own
        BY <2>3
      <3>2. j \in JobRecord
        BY <2>1, <2>3, <2>4 DEF JobRecord
      <3> QED BY <1>1, <2>1, <2>2, <3>1, <3>2
    <2> QED BY <2>1, <2>2, <2>3, <2>5 DEF Recorded
  <1>4. PICK r \in Submitting :
           /\ sub' = [sub EXCEPT ![s] = r]
           /\ r.pc = "done" /\ r.on = Nobody /\ r.run = Nobody
           /\ r.result = "none"
    <2>1. Known(sub[s].result) \in {"accepted", "failed", "outcome_unknown"}
      BY <1>1 DEF Known, Submitting, Terminal
    <2> QED BY <2>1, ToldTyped DEF Record
  <1>5. /\ sub'[s] = r /\ \A t \in Submission \ {s} : sub'[t] = sub[t]
        /\ sub' \in [Submission -> Submitting]
    BY <1>1, <1>4
  <1>6. /\ \/ job' = job /\ (sub[s].run # Nobody => sub[s].run \in lost')
           \/ job' = [job EXCEPT ![c] = j]
        /\ lost \subseteq lost' /\ lost' \subseteq Run
    BY <1>1, <1>3 DEF Record, Submitting
  <1>7. /\ job' \in [Job -> JobRecord]
        /\ \A d \in Job \ {c} : job'[d] = job[d]
        /\ job'[c] = job[c] \/ job'[c] = j
        /\ j.status \in Recordings
    BY <1>1, <1>3, <1>6 DEF Submitting, Recordings
  <1>8. TypeOK'
    BY <1>1, <1>2, <1>5, <1>6, <1>7 DEF IInv, TypeOK, AtWork
  <1>9. Submitters'
    <2>1. ASSUME NEW t \in Submission, NEW u \in Submission,
                 sub'[t].on = sub'[u].on, sub'[t].on # Nobody
          PROVE  t = u
      BY <1>1, <1>4, <1>5, <2>1 DEF IInv, Submitters
    <2>2. Submits(s)'
      BY <1>1, <1>4, <1>5 DEF Submits, Busy
    <2>3. ASSUME NEW t \in Submission \ {s} PROVE Submits(t)'
      <3>1. Submits(t) /\ sub[t].on # c
        BY <1>1 DEF IInv, Submitters
      <3>2. /\ sub'[t] = sub[t]
            /\ Busy(t) => sub[t].on \in Job \ {c}
        BY <1>5, <3>1 DEF Submits
      <3> QED BY <1>1, <1>7, <3>1, <3>2 DEF Submits, Busy
    <2> QED BY <2>1, <2>2, <2>3 DEF Submitters
  <1>10. OwnRun' /\ CompletedHasArtifact'
    BY <1>1, <1>3, <1>7, NobodyIsNew DEF IInv, OwnRun, CompletedHasArtifact
  <1>11. StartedOnce' /\ Unused'
    BY <1>1, <1>6 DEF IInv, StartedOnce, Unused
  <1>12. Pollers' /\ LeaseHeld'
    <2>1. \A p \in Poller : AtWork(p) => pol[p].on \in Job
      BY DEF IInv, TypeOK
    <2>2. LeaseHeld'
      BY <1>1 DEF IInv, LeaseHeld, AtWork
    <2>3. \A p \in Poller : AtWork(p) => /\ pol[p].on # c => job'[pol[p].on] = job[pol[p].on]
                                         /\ pol[p].on = c => job'[c] = job[c] \/ job'[c] = j
      BY <1>7, <2>1
    <2>4. Pollers'
      <3> SUFFICES ASSUME NEW p \in Poller
                   PROVE  /\ p \in slow => AtWork(p) /\ pol[p].on \in late
                          /\ pol[p].pc \in {"poll", "write", "clean"}
                                => /\ pol[p].got.run \in Run
                                   /\ run[pol[p].got.run].of = pol[p].on
                                   /\ job'[pol[p].on].status \in Recordings
                          /\ pol[p].pc \in {"poll", "write"} /\ pol[p].on \notin late
                                => job'[pol[p].on].status = "submitted"
                          /\ pol[p].pc = "write" => pol[p].result \in Recordings
                          /\ pol[p].pc = "write" /\ pol[p].result = "completed"
                                => run[pol[p].got.run].state = "good"
        BY <1>1 DEF Pollers, AtWork
      <3> QED BY <1>1, <1>7, <2>1, <2>3 DEF IInv, Pollers, AtWork, Recordings
    <2> QED BY <2>2, <2>4
  <1>13. Accounted'
    <2>1. ASSUME NEW q \in Run, run[q].of # Nobody
          PROVE  \/ q \in lost'
                 \/ \E t \in Submission : sub'[t].pc = "record" /\ sub'[t].run = q
                 \/ job'[run[q].of].status \in Recordings
      <3>1. run[q].of \in Job
        BY <2>1 DEF IInv, TypeOK, RunRecord
      <3>2. ASSUME NEW t \in Submission, sub[t].pc = "record", sub[t].run = q
            PROVE  \/ q \in lost'
                   \/ \E u \in Submission :
                         sub'[u].pc = "record" /\ sub'[u].run = q
                   \/ job'[run[q].of].status \in Recordings
        <4>1. CASE t = s
          <5>1. run[q].of = c
            BY <1>1, <3>2, <4>1, NobodyIsNew
          <5> QED BY <1>1, <1>6, <1>7, <3>2, <4>1, <5>1, NobodyIsNew
        <4>2. CASE t # s
          BY <1>5, <3>2, <4>2
        <4> QED BY <4>1, <4>2
      <3>3. CASE job[run[q].of].status \in Recordings
        BY <1>1, <1>7, <3>1, <3>3 DEF Recordings, Terminal
      <3> QED BY <1>6, <2>1, <3>2, <3>3 DEF IInv, Accounted
    <2> QED BY <1>1, <2>1 DEF Accounted
  <1> QED BY <1>8, <1>9, <1>10, <1>11, <1>12, <1>13 DEF IInv

-----------------------------------------------------------------------------
RunsKept == /\ run' \in [Run -> RunRecord]
            /\ \A r \in Run :
                  /\ run'[r].of = run[r].of
                  /\ run'[r].state = "unused" <=> run[r].state = "unused"
                  /\ run[r].state = "good" => run'[r].state = "good"

(* The provider's own steps: no run changes hands, and none that ended well *)
(* changes at all.                                                          *)
LEMMA RunsMove ==
    ASSUME IInv, RunsKept,
           UNCHANGED <<job, lease, sub, pol, lost, slow, late>>,
           faults' \in 0 .. MaxFaults
    PROVE  IInv'
  <1>1. TypeOK'
    BY DEF IInv, TypeOK, AtWork, RunsKept
  <1>2. Submitters'
    <2>1. ASSUME NEW s \in Submission PROVE Submits(s)'
      <3>1. Submits(s) /\ sub[s] \in Submitting
        BY DEF IInv, Submitters, TypeOK
      <3>2. sub[s].run \in Run \cup {Nobody}
        BY <3>1 DEF Submitting
      <3> QED BY <3>1, <3>2 DEF Submits, Busy, RunsKept
    <2> QED BY <2>1 DEF IInv, Submitters
  <1>3. OwnRun' /\ CompletedHasArtifact'
    <2>1. job \in [Job -> JobRecord]
      BY DEF IInv, TypeOK
    <2> QED BY <2>1 DEF IInv, OwnRun, CompletedHasArtifact, JobRecord, RunsKept
  <1>4. Pollers' /\ LeaseHeld'
    BY DEF IInv, Pollers, LeaseHeld, AtWork, RunsKept
  <1>5. Accounted' /\ StartedOnce' /\ Unused'
    BY DEF IInv, Accounted, StartedOnce, Unused, RunsKept
  <1> QED BY <1>1, <1>2, <1>3, <1>4, <1>5 DEF IInv

LEMMA ProviderHolds ==
    ASSUME IInv, NEW r \in Run, Ends(r) \/ Vanish(r)
    PROVE  IInv'
  <1>1. PICK state \in {"good", "bad", "overdue", "gone"} :
           /\ run' = [run EXCEPT ![r].state = state]
           /\ run[r].state \in {"running", "overdue"}
    BY DEF Ends, Vanish
  <1>2. faults' \in 0 .. MaxFaults
    BY FaultTyped DEF Ends, Vanish, IInv
  <1>3. run \in [Run -> RunRecord]
    BY DEF IInv, TypeOK
  <1>4. PICK d : d = [run[r] EXCEPT !.state = state]
    OBVIOUS
  <1>5. d \in RunRecord /\ d.of = run[r].of /\ d.state = state
    BY <1>3, <1>4 DEF RunRecord
  <1>6. run' = [run EXCEPT ![r] = d]
    BY <1>1, <1>4
  <1> QED BY <1>1, <1>2, <1>3, <1>5, <1>6, RunsMove DEF Ends, Vanish, RunsKept

-----------------------------------------------------------------------------
(* A poller moves on while no job and no run changes; the leases the others *)
(* work under are left alone.                                               *)
LEMMA PollerMoves ==
    ASSUME IInv, NEW p \in Poller, NEW w \in Polling,
           pol' = [pol EXCEPT ![p] = w],
           UNCHANGED <<job, sub, lost, late>>, RunsKept,
           faults' \in 0 .. MaxFaults,
           slow' = slow \/ slow' = slow \ {p},
           p \in slow' => /\ w.pc \in {"read", "poll", "write", "clean", "release"}
                          /\ w.on \in late,
           w.pc \in {"read", "poll", "write", "clean", "release"} => w.on \in Job,
           w.pc \in {"poll", "write", "clean"}
             => /\ w.got.run \in Run /\ run[w.got.run].of = w.on
                /\ job[w.on].status \in Recordings,
           w.pc \in {"poll", "write"} /\ w.on \notin late
             => job[w.on].status = "submitted",
           w.pc = "write" => w.result \in Recordings,
           w.pc = "write" /\ w.result = "completed"
             => run[w.got.run].state = "good",
           lease' \in [Job -> Lease],
           \A q \in Poller \ {p} :
              AtWork(q) /\ q \notin slow => lease'[pol[q].on] = lease[pol[q].on],
           w.pc \in {"read", "poll", "write", "clean", "release"} /\ p \notin slow'
             => lease'[w.on] = [by |-> p, expired |-> FALSE]
    PROVE  IInv'
  <1>1. /\ pol \in [Poller -> Polling] /\ pol'[p] = w
        /\ pol' \in [Poller -> Polling]
        /\ \A q \in Poller \ {p} : pol'[q] = pol[q]
    BY DEF IInv, TypeOK
  <1>2. TypeOK'
    BY <1>1 DEF IInv, TypeOK, AtWork, RunsKept
  <1>3. Submitters' /\ OwnRun' /\ CompletedHasArtifact'
    <2>1. ASSUME NEW s \in Submission PROVE Submits(s)'
      <3>1. Submits(s) /\ sub[s] \in Submitting
        BY DEF IInv, Submitters, TypeOK
      <3>2. sub[s].run \in Run \cup {Nobody}
        BY <3>1 DEF Submitting
      <3> QED BY <3>1, <3>2 DEF Submits, Busy, RunsKept
    <2>2. job \in [Job -> JobRecord]
      BY DEF IInv, TypeOK
    <2> QED BY <2>1, <2>2
          DEF IInv, Submitters, OwnRun, CompletedHasArtifact, JobRecord, RunsKept
  <1>4. Pollers'
    <2>1. ASSUME NEW q \in Poller
          PROVE  /\ q \in slow' => AtWork(q)' /\ pol'[q].on \in late
                 /\ pol'[q].pc \in {"poll", "write", "clean"}
                       => /\ pol'[q].got.run \in Run
                          /\ run'[pol'[q].got.run].of = pol'[q].on
                          /\ job[pol'[q].on].status \in Recordings
                 /\ pol'[q].pc \in {"poll", "write"} /\ pol'[q].on \notin late
                       => job[pol'[q].on].status = "submitted"
                 /\ pol'[q].pc = "write" => pol'[q].result \in Recordings
                 /\ pol'[q].pc = "write" /\ pol'[q].result = "completed"
                       => run'[pol'[q].got.run].state = "good"
      <3>1. CASE q = p
        BY <1>1, <3>1 DEF AtWork, RunsKept
      <3>2. CASE q # p
        BY <1>1, <3>2 DEF AtWork, IInv, Pollers, RunsKept
      <3> QED BY <3>1, <3>2
    <2> QED BY <2>1 DEF Pollers
  <1>5. LeaseHeld'
    <2>1. ASSUME NEW q \in Poller, AtWork(q)', q \notin slow'
          PROVE  lease'[pol'[q].on] = [by |-> q, expired |-> FALSE]
      <3>1. CASE q = p
        BY <1>1, <2>1, <3>1 DEF AtWork
      <3>2. CASE q # p
        <4>1. AtWork(q) /\ q \notin slow /\ pol'[q] = pol[q]
          BY <1>1, <2>1, <3>2 DEF AtWork
        <4> QED BY <3>2, <4>1 DEF IInv, LeaseHeld
      <3> QED BY <3>1, <3>2
    <2> QED BY <2>1 DEF LeaseHeld
  <1>6. Accounted' /\ StartedOnce' /\ Unused'
    BY DEF IInv, Accounted, StartedOnce, Unused, RunsKept
  <1> QED BY <1>2, <1>3, <1>4, <1>5, <1>6 DEF IInv

LEMMA RunsStay == ASSUME TypeOK, UNCHANGED run PROVE RunsKept
  BY DEF TypeOK, RunsKept

LEMMA LeavingTyped ==
    ASSUME TypeOK, NEW p \in Poller
    PROVE  /\ Leaving(p) \in Polling /\ Leaving(p).pc = "release"
           /\ Leaving(p).on = pol[p].on
  <1>1. pol[p] \in Polling /\ NoJob \in JobRecord
    BY DEF TypeOK, NoJob, JobRecord
  <1> QED BY <1>1 DEF Leaving, Polling

LEMMA RestingTyped ==
    /\ Resting \in Polling /\ Resting.pc = "idle"
    /\ \A todo \in SUBSET Job :
          /\ [Resting EXCEPT !.pc = "next", !.todo = todo] \in Polling
          /\ [Resting EXCEPT !.pc = "next", !.todo = todo].pc = "next"
  <1>1. NoJob \in JobRecord
    BY DEF NoJob, JobRecord
  <1> QED BY <1>1 DEF Resting, Polling

(* A poller that is not at work on a job promises nothing.                  *)
LEMMA PollerRests ==
    ASSUME IInv, NEW p \in Poller, NEW w \in Polling, w.pc \in {"idle", "next"},
           pol' = [pol EXCEPT ![p] = w], p \notin slow',
           slow' = slow \/ slow' = slow \ {p},
           UNCHANGED <<job, sub, lost, late>>, RunsKept,
           faults' \in 0 .. MaxFaults,
           lease' \in [Job -> Lease],
           \A q \in Poller \ {p} :
              AtWork(q) /\ q \notin slow => lease'[pol[q].on] = lease[pol[q].on]
    PROVE  IInv'
  <1>1. /\ w.pc \notin {"read", "poll", "write", "clean", "release"}
        /\ w.pc \notin {"poll", "write", "clean"}
        /\ w.pc \notin {"poll", "write"}
        /\ w.pc # "write"
    OBVIOUS
  <1>2. /\ w.pc \in {"read", "poll", "write", "clean", "release"} => w.on \in Job
        /\ w.pc \in {"poll", "write", "clean"}
             => /\ w.got.run \in Run /\ run[w.got.run].of = w.on
                /\ job[w.on].status \in Recordings
        /\ w.pc = "write" => w.result \in Recordings
        /\ w.pc = "write" /\ w.result = "completed"
             => run[w.got.run].state = "good"
    BY <1>1
  <1> QED BY <1>1, <1>2, PollerMoves

LEMMA ListHolds ==
    ASSUME IInv, NEW p \in Poller, List(p)
    PROVE  IInv'
  <1>1. PICK w : w = [pol[p] EXCEPT !.pc = "next", !.todo = Active]
    OBVIOUS
  <1>2. pol[p] \in Polling /\ pol[p].pc = "idle" /\ Active \subseteq Job
    BY DEF List, IInv, TypeOK, Active
  <1>3. w \in Polling /\ w.pc = "next"
    BY <1>1, <1>2 DEF Polling
  <1>4. p \notin slow
    BY <1>2 DEF IInv, Pollers, AtWork
  <1>5. pol' = [pol EXCEPT ![p] = w]
    BY <1>1 DEF List
  <1>6. RunsKept /\ UNCHANGED <<job, sub, lost, late, slow, lease>>
    BY RunsStay DEF List, IInv
  <1>7. faults' \in 0 .. MaxFaults /\ lease' \in [Job -> Lease]
    BY DEF List, IInv, TypeOK
  <1> QED BY <1>3, <1>4, <1>5, <1>6, <1>7, PollerRests

LEMMA AcquireHolds ==
    ASSUME IInv, NEW p \in Poller, Acquire(p)
    PROVE  IInv'
  <1>1. /\ pol[p] \in Polling /\ pol[p].pc = "next" /\ pol[p].todo \subseteq Job
        /\ lease \in [Job -> Lease]
    BY DEF Acquire, IInv, TypeOK, Polling
  <1>2. p \notin slow
    BY <1>1 DEF IInv, Pollers, AtWork
  <1>3. RunsKept /\ UNCHANGED <<job, sub, lost, late, slow>>
    BY RunsStay DEF Acquire, IInv
  <1>4. faults' \in 0 .. MaxFaults
    BY FaultTyped DEF Acquire, IInv
  <1>5. CASE pol' = [pol EXCEPT ![p] = Resting] /\ UNCHANGED lease
    BY <1>1, <1>2, <1>3, <1>4, <1>5, RestingTyped, PollerRests
  <1>6. ASSUME NEW c \in pol[p].todo, UNCHANGED lease,
               pol' = [pol EXCEPT ![p].todo = @ \ {c}]
        PROVE  IInv'
    <2>1. PICK w : w = [pol[p] EXCEPT !.todo = pol[p].todo \ {c}]
      OBVIOUS
    <2>2. w \in Polling /\ w.pc = "next"
      BY <1>1, <2>1 DEF Polling
    <2>3. pol' = [pol EXCEPT ![p] = w]
      BY <1>6, <2>1
    <2> QED BY <1>1, <1>2, <1>3, <1>4, <1>6, <2>2, <2>3, PollerRests
  <1>7. ASSUME NEW c \in pol[p].todo, Free(c),
               lease' = [lease EXCEPT ![c] = [by |-> p, expired |-> FALSE]],
               pol' = [pol EXCEPT ![p].pc = "read", ![p].on = c,
                                  ![p].todo = @ \ {c}]
        PROVE  IInv'
    <2>1. PICK w : w = [pol[p] EXCEPT !.pc = "read", !.on = c,
                                      !.todo = pol[p].todo \ {c}]
      OBVIOUS
    <2>2. w \in Polling /\ w.pc = "read" /\ w.on = c
      BY <1>1, <2>1 DEF Polling
    <2>3. pol' = [pol EXCEPT ![p] = w]
      BY <1>7, <2>1
    <2>4. PICK l : l = [by |-> p, expired |-> FALSE]
      OBVIOUS
    <2>5. /\ lease' \in [Job -> Lease] /\ lease'[c] = l
          /\ \A d \in Job \ {c} : lease'[d] = lease[d]
      BY <1>1, <1>7, <2>4 DEF Lease
    <2>6. ASSUME NEW q \in Poller \ {p}, AtWork(q), q \notin slow
          PROVE  lease'[pol[q].on] = lease[pol[q].on]
      <3>1. /\ lease[pol[q].on] = [by |-> q, expired |-> FALSE]
            /\ pol[q].on \in Job /\ q # Nobody
        BY <2>6, NobodyIsNew DEF IInv, LeaseHeld, TypeOK
      <3>2. pol[q].on # c
        BY <1>7, <3>1 DEF Free
      <3> QED BY <2>5, <3>1, <3>2
    <2> QED BY <1>1, <1>2, <1>3, <1>4, <2>2, <2>3, <2>4, <2>5, <2>6, PollerMoves
  <1> QED BY <1>5, <1>6, <1>7 DEF Acquire

(* A poller that goes on with its job under the lease it has.               *)
LEMMA PollerGoesOn ==
    ASSUME IInv, NEW p \in Poller, NEW w \in Polling, AtWork(p),
           pol' = [pol EXCEPT ![p] = w],
           UNCHANGED <<job, sub, lost, late, slow, lease>>, RunsKept,
           faults' \in 0 .. MaxFaults,
           w.on = pol[p].on,
           w.pc \in {"poll", "write"},
           w.got.run \in Run, run[w.got.run].of = w.on,
           job[w.on].status \in Recordings,
           w.on \notin late => job[w.on].status = "submitted",
           w.pc = "write" => w.result \in Recordings,
           w.pc = "write" /\ w.result = "completed"
             => run[w.got.run].state = "good"
    PROVE  IInv'
  <1>1. /\ w.on \in Job /\ lease \in [Job -> Lease]
        /\ w.pc \in {"read", "poll", "write", "clean", "release"}
    BY DEF IInv, TypeOK
  <1>2. /\ p \in slow => w.on \in late
        /\ p \notin slow => lease[w.on] = [by |-> p, expired |-> FALSE]
    BY DEF IInv, Pollers, LeaseHeld
  <1>3. lease' = lease /\ slow' = slow
    OBVIOUS
  <1>4. /\ lease' \in [Job -> Lease]
        /\ \A q \in Poller \ {p} :
              AtWork(q) /\ q \notin slow => lease'[pol[q].on] = lease[pol[q].on]
        /\ p \notin slow' => lease'[w.on] = [by |-> p, expired |-> FALSE]
        /\ p \in slow' => w.on \in late
    BY <1>1, <1>2, <1>3
  <1> QED BY <1>1, <1>3, <1>4, PollerMoves

LEMMA ReadHolds ==
    ASSUME IInv, NEW p \in Poller, Read(p)
    PROVE  IInv'
  <1> DEFINE c == pol[p].on
  <1>1. /\ pol[p] \in Polling /\ pol[p].pc = "read" /\ AtWork(p)
        /\ c \in Job /\ job[c] \in JobRecord
        /\ lease \in [Job -> Lease]
    BY DEF Read, IInv, TypeOK, AtWork
  <1>2. /\ p \in slow => c \in late
        /\ p \notin slow => lease[c] = [by |-> p, expired |-> FALSE]
    BY <1>1 DEF IInv, Pollers, LeaseHeld
  <1>3. RunsKept /\ UNCHANGED <<job, sub, lost, late, slow, lease>>
    BY RunsStay DEF Read, IInv
  <1>4. faults' \in 0 .. MaxFaults
    BY FaultTyped DEF Read, IInv
  <1>5. CASE pol' = [pol EXCEPT ![p] = Leaving(p)]
    BY <1>1, <1>2, <1>3, <1>4, <1>5, LeavingTyped, PollerMoves DEF IInv
  <1>6. ASSUME job[c].status = "submitted",
               pol' = [pol EXCEPT ![p] = [pol[p] EXCEPT !.pc = "poll",
                                                        !.got = job[c]]]
        PROVE  IInv'
    <2>1. PICK w : w = [pol[p] EXCEPT !.pc = "poll", !.got = job[c]]
      OBVIOUS
    <2>2. /\ w \in Polling /\ w.pc = "poll" /\ w.on = c
          /\ w.got = job[c]
      BY <1>1, <2>1 DEF Polling
    <2>3. pol' = [pol EXCEPT ![p] = w]
      BY <1>6, <2>1
    <2>4. w.got.run \in Run /\ run[w.got.run].of = c
      BY <1>1, <1>6, <2>2 DEF IInv, OwnRun
    <2>5. w.pc # "write" /\ job[w.on].status = "submitted"
          /\ job[w.on].status \in Recordings
      BY <1>6, <2>2 DEF Recordings
    <2> QED BY <1>1, <1>3, <1>4, <2>2, <2>3, <2>4, <2>5, PollerGoesOn
  <1> QED BY <1>5, <1>6 DEF Read

LEMMA PollHolds ==
    ASSUME IInv, NEW p \in Poller, Poll(p)
    PROVE  IInv'
  <1> DEFINE c == pol[p].on
             r == pol[p].got.run
  <1>1. /\ pol[p] \in Polling /\ pol[p].pc = "poll" /\ AtWork(p)
        /\ c \in Job /\ r \in Run /\ run[r].of = c
        /\ job[c].status \in Recordings
        /\ c \notin late => job[c].status = "submitted"
        /\ lease \in [Job -> Lease] /\ run \in [Run -> RunRecord]
    BY DEF Poll, IInv, TypeOK, Pollers, AtWork
  <1>3. RunsKept
    <2>1. CASE run' = [run EXCEPT ![r].state = "gone"] /\ run[r].state = "overdue"
      <3>1. PICK d : d = [run[r] EXCEPT !.state = "gone"]
        OBVIOUS
      <3>2. d \in RunRecord /\ d.of = run[r].of /\ d.state = "gone"
        BY <1>1, <3>1 DEF RunRecord
      <3>3. run' = [run EXCEPT ![r] = d]
        BY <2>1, <3>1
      <3> QED BY <1>1, <2>1, <3>2, <3>3 DEF RunsKept
    <2> QED BY <2>1, RunsStay DEF Poll, IInv
  <1>4. /\ UNCHANGED <<job, sub, lost, late, slow, lease>>
        /\ faults' \in 0 .. MaxFaults
    BY FaultTyped DEF Poll, IInv
  <1>5. PICK result \in Recordings :
           /\ pol' = [pol EXCEPT ![p].pc = "write", ![p].result = result]
           /\ result = "completed" => run[r].state = "good"
    BY <1>1 DEF Poll, Seen, Recordings, Terminal
  <1>6. PICK w : w = [pol[p] EXCEPT !.pc = "write", !.result = result]
    OBVIOUS
  <1>7. /\ w \in Polling /\ w.pc = "write" /\ w.on = c /\ w.got.run = r
        /\ w.result = result
    BY <1>1, <1>6 DEF Polling, Recordings
  <1>8. pol' = [pol EXCEPT ![p] = w]
    BY <1>5, <1>6
  <1>9. /\ w.got.run \in Run /\ run[w.got.run].of = w.on
        /\ job[w.on].status \in Recordings
        /\ w.on \notin late => job[w.on].status = "submitted"
        /\ w.result \in Recordings
        /\ w.result = "completed" => run[w.got.run].state = "good"
    BY <1>1, <1>5, <1>7
  <1> QED BY <1>1, <1>3, <1>4, <1>7, <1>8, <1>9, PollerGoesOn

LEMMA CleanHolds ==
    ASSUME IInv, NEW p \in Poller, Clean(p)
    PROVE  IInv'
  <1> DEFINE c == pol[p].on
             r == pol[p].got.run
  <1>1. /\ pol[p].pc = "clean" /\ AtWork(p)
        /\ c \in Job /\ r \in Run
        /\ lease \in [Job -> Lease] /\ run \in [Run -> RunRecord]
    BY DEF Clean, IInv, TypeOK, Pollers, AtWork
  <1>2. /\ p \in slow => c \in late
        /\ p \notin slow => lease[c] = [by |-> p, expired |-> FALSE]
    BY <1>1 DEF IInv, Pollers, LeaseHeld
  <1>3. RunsKept
    <2>1. CASE run' = [run EXCEPT ![r].files = FALSE]
      <3>1. PICK d : d = [run[r] EXCEPT !.files = FALSE]
        OBVIOUS
      <3>2. d \in RunRecord /\ d.of = run[r].of /\ d.state = run[r].state
        BY <1>1, <3>1 DEF RunRecord
      <3>3. run' = [run EXCEPT ![r] = d]
        BY <2>1, <3>1
      <3> QED BY <1>1, <3>2, <3>3 DEF RunsKept
    <2> QED BY <2>1, RunsStay DEF Clean, IInv
  <1>4. /\ UNCHANGED <<job, sub, lost, late, slow, lease>>
        /\ faults' \in 0 .. MaxFaults
        /\ pol' = [pol EXCEPT ![p] = Leaving(p)]
    BY DEF Clean, IInv, TypeOK
  <1> QED BY <1>1, <1>2, <1>3, <1>4, LeavingTyped, PollerMoves DEF IInv

LEMMA ReleaseHolds ==
    ASSUME IInv, NEW p \in Poller, Release(p)
    PROVE  IInv'
  <1>1. /\ pol[p].pc = "release" /\ AtWork(p) /\ pol[p].on \in Job
        /\ pol[p].todo \in SUBSET Job
        /\ lease \in [Job -> Lease]
    BY DEF Release, IInv, TypeOK, AtWork, Polling
  <1>2. RunsKept /\ UNCHANGED <<job, sub, lost, late>>
    BY RunsStay DEF Release, IInv
  <1>3. faults' \in 0 .. MaxFaults
    BY FaultTyped DEF Release, IInv
  <1>4. PICK w : w = [Resting EXCEPT !.pc = "next", !.todo = pol[p].todo]
    OBVIOUS
  <1>5. /\ w \in Polling /\ w.pc = "next"
        /\ pol' = [pol EXCEPT ![p] = w] /\ slow' = slow \ {p}
    BY <1>1, <1>4, RestingTyped DEF Release
  <1>6. \/ lease' = lease
        \/ /\ lease[pol[p].on].by = p
           /\ lease' = [lease EXCEPT ![pol[p].on] = NoLease]
    BY DEF Release, Released
  <1>7. NoLease \in Lease
    BY DEF NoLease, Lease
  <1>8. lease' \in [Job -> Lease]
    BY <1>1, <1>6, <1>7
  <1>9. ASSUME NEW q \in Poller \ {p}, AtWork(q), q \notin slow
        PROVE  lease'[pol[q].on] = lease[pol[q].on]
    <2>1. lease[pol[q].on] = [by |-> q, expired |-> FALSE] /\ pol[q].on \in Job
      BY <1>9 DEF IInv, LeaseHeld, TypeOK
    <2> QED BY <1>1, <1>6, <2>1
  <1> QED BY <1>2, <1>3, <1>5, <1>8, <1>9, PollerRests

LEMMA PollerDiesHolds ==
    ASSUME IInv, NEW p \in Poller, PollerDies(p)
    PROVE  IInv'
  <1>1. /\ RunsKept /\ UNCHANGED <<job, sub, lost, late, lease>>
        /\ slow' = slow \ {p} /\ pol' = [pol EXCEPT ![p] = Resting]
    BY RunsStay DEF PollerDies, IInv
  <1>2. faults' \in 0 .. MaxFaults /\ lease' \in [Job -> Lease]
    BY FaultTyped DEF PollerDies, IInv, TypeOK
  <1> QED BY <1>1, <1>2, RestingTyped, PollerRests

(* A poller whose lease ran out while it was at work is counted as slow.    *)
LEMMA ExpireHolds ==
    ASSUME IInv, NEW c \in Job, Expire(c)
    PROVE  IInv'
  <1> DEFINE p == lease[c].by
  <1>1. /\ p \in Poller /\ ~lease[c].expired
        /\ lease \in [Job -> Lease]
        /\ UNCHANGED <<job, run, sub, pol, lost>>
    BY DEF Expire, IInv, TypeOK, Lease
  <1>2. faults' \in 0 .. MaxFaults
    BY FaultTyped DEF Expire, IInv
  <1>3. PICK l : l = [lease[c] EXCEPT !.expired = TRUE]
    OBVIOUS
  <1>4. l \in Lease
    BY <1>1, <1>3 DEF Lease
  <1>5. lease' = [lease EXCEPT ![c] = l]
    BY <1>3 DEF Expire
  <1>6. \/ /\ AtWork(p) /\ pol[p].on = c
           /\ slow' = slow \cup {p} /\ late' = late \cup {c}
        \/ /\ ~(AtWork(p) /\ pol[p].on = c)
           /\ slow' = slow /\ late' = late
    BY <1>1 DEF Expire
  <1>7. TypeOK'
    BY <1>1, <1>2, <1>4, <1>5, <1>6 DEF IInv, TypeOK, AtWork
  <1>8. Submitters' /\ OwnRun' /\ CompletedHasArtifact'
    BY <1>1 DEF IInv, Submitters, Submits, Busy, OwnRun, CompletedHasArtifact
  <1>9. Accounted' /\ StartedOnce' /\ Unused'
    BY <1>1 DEF IInv, Accounted, StartedOnce, Unused
  <1>10. Pollers'
    BY <1>1, <1>6 DEF IInv, Pollers, AtWork
  <1>11. LeaseHeld'
    <2>1. ASSUME NEW q \in Poller, AtWork(q), q \notin slow'
          PROVE  lease'[pol[q].on] = [by |-> q, expired |-> FALSE]
      <3>1. /\ lease[pol[q].on] = [by |-> q, expired |-> FALSE]
            /\ pol[q].on \in Job
        BY <1>6, <2>1 DEF IInv, LeaseHeld, TypeOK
      <3>2. CASE pol[q].on = c
        BY <1>6, <2>1, <3>1, <3>2
      <3>3. CASE pol[q].on # c
        BY <1>1, <1>5, <3>1, <3>3
      <3> QED BY <3>2, <3>3
    <2> QED BY <1>1, <2>1 DEF LeaseHeld, AtWork
  <1> QED BY <1>7, <1>8, <1>9, <1>10, <1>11 DEF IInv

-----------------------------------------------------------------------------
(* What a poller is about to write over its job.                            *)
Written(p) == [pol[p].got EXCEPT !.status = pol[p].result]

(* Two pollers can be about to write one job only after a lease ran out.    *)
LEMMA WritesAlone ==
    ASSUME IInv, NEW p \in Poller, NEW q \in Poller, p # q,
           AtWork(p), AtWork(q), pol[p].on = pol[q].on
    PROVE  pol[p].on \in late
  <1> SUFFICES ASSUME pol[p].on \notin late PROVE FALSE
    OBVIOUS
  <1>1. p \notin slow /\ q \notin slow
    BY DEF IInv, Pollers
  <1>2. /\ lease[pol[p].on] = [by |-> p, expired |-> FALSE]
        /\ lease[pol[q].on] = [by |-> q, expired |-> FALSE]
    BY <1>1 DEF IInv, LeaseHeld
  <1> QED BY <1>2

LEMMA WriteHolds ==
    ASSUME IInv, NEW p \in Poller, Write(p)
    PROVE  IInv'
  <1> DEFINE c == pol[p].on
  <1>1. /\ pol \in [Poller -> Polling] /\ pol[p] \in Polling
        /\ pol[p].pc = "write" /\ AtWork(p)
        /\ c \in Job /\ pol[p].got.run \in Run /\ run[pol[p].got.run].of = c
        /\ job[c].status \in Recordings /\ pol[p].result \in Recordings
        /\ pol[p].result = "completed" => run[pol[p].got.run].state = "good"
        /\ job \in [Job -> JobRecord]
        /\ UNCHANGED <<run, lease, sub, lost, slow, late>>
    BY DEF Write, IInv, TypeOK, Pollers, AtWork
  <1>2. faults' \in 0 .. MaxFaults
    BY FaultTyped DEF Write, IInv
  <1>3. PICK j : j = Written(p)
    OBVIOUS
  <1>4. j \in JobRecord /\ j.status = pol[p].result /\ j.run = pol[p].got.run
    BY <1>1, <1>3 DEF Written, JobRecord, Polling, Recordings
  <1>5. job' = job \/ job' = [job EXCEPT ![c] = j]
    BY <1>3 DEF Write, Written
  <1>6. /\ job' \in [Job -> JobRecord]
        /\ \A d \in Job \ {c} : job'[d] = job[d]
        /\ job'[c] = job[c] \/ job'[c] = j
        /\ job'[c].status \in Recordings
    BY <1>1, <1>4, <1>5
  <1>7. PICK w \in Polling :
           /\ pol' = [pol EXCEPT ![p] = w] /\ w.on = c
           /\ w.pc = "release" \/ (w.pc = "clean" /\ w.got = pol[p].got)
    <2>1. CASE pol' = [pol EXCEPT ![p] = Leaving(p)]
      BY <2>1, LeavingTyped DEF IInv
    <2>2. CASE pol' = [pol EXCEPT ![p] = [pol[p] EXCEPT !.pc = "clean"]]
      <3>1. PICK w : w = [pol[p] EXCEPT !.pc = "clean"]
        OBVIOUS
      <3>2. w \in Polling /\ w.on = c /\ w.pc = "clean" /\ w.got = pol[p].got
        BY <1>1, <3>1 DEF Polling
      <3> QED BY <2>2, <3>1, <3>2
    <2> QED BY <2>1, <2>2 DEF Write
  <1>8. /\ pol' \in [Poller -> Polling] /\ pol'[p] = w
        /\ \A q \in Poller \ {p} : pol'[q] = pol[q]
        /\ AtWork(p)'
    BY <1>1, <1>7 DEF AtWork
  <1>9. TypeOK'
    BY <1>1, <1>2, <1>6, <1>7, <1>8 DEF IInv, TypeOK, AtWork
  <1>10. Submitters'
    <2>1. ASSUME NEW t \in Submission PROVE Submits(t)'
      <3>1. Submits(t)
        BY DEF IInv, Submitters
      <3>2. /\ sub[t].pc \in {"gate", "create", "park", "call", "record"}
                 => sub[t].on \in Job \ {c}
        BY <1>1, <3>1 DEF Submits, Busy, Recordings, Terminal
      <3> QED BY <1>1, <1>6, <3>1, <3>2 DEF Submits, Busy
    <2> QED BY <1>1, <2>1 DEF IInv, Submitters
  <1>11. OwnRun' /\ CompletedHasArtifact'
    BY <1>1, <1>4, <1>6, NobodyIsNew DEF IInv, OwnRun, CompletedHasArtifact
  <1>12. StartedOnce' /\ Unused'
    BY <1>1 DEF IInv, StartedOnce, Unused
  <1>13. Accounted'
    BY <1>1, <1>6 DEF IInv, Accounted, TypeOK, RunRecord
  <1>14. LeaseHeld'
    <2>1. ASSUME NEW q \in Poller, AtWork(q)', q \notin slow
          PROVE  lease[pol'[q].on] = [by |-> q, expired |-> FALSE]
      <3>1. AtWork(q) /\ pol'[q].on = pol[q].on
        BY <1>1, <1>7, <1>8, <2>1 DEF AtWork
      <3> QED BY <2>1, <3>1 DEF IInv, LeaseHeld
    <2> QED BY <1>1, <2>1 DEF LeaseHeld
  <1>15. Pollers'
    <2>1. ASSUME NEW q \in Poller
          PROVE  /\ q \in slow => AtWork(q)' /\ pol'[q].on \in late
                 /\ pol'[q].pc \in {"poll", "write", "clean"}
                       => /\ pol'[q].got.run \in Run
                          /\ run[pol'[q].got.run].of = pol'[q].on
                          /\ job'[pol'[q].on].status \in Recordings
                 /\ pol'[q].pc \in {"poll", "write"} /\ pol'[q].on \notin late
                       => job'[pol'[q].on].status = "submitted"
                 /\ pol'[q].pc = "write" => pol'[q].result \in Recordings
                 /\ pol'[q].pc = "write" /\ pol'[q].result = "completed"
                       => run[pol'[q].got.run].state = "good"
      <3>1. CASE q = p
        <4>1. q \in slow => c \in late
          BY <1>1, <3>1 DEF IInv, Pollers
        <4> QED BY <1>1, <1>6, <1>7, <1>8, <3>1, <4>1
      <3>2. CASE q # p
        <4>1. /\ pol'[q] = pol[q] /\ AtWork(q)' = AtWork(q)
              /\ AtWork(q) => pol[q].on \in Job
          BY <1>8, <3>2 DEF AtWork, IInv, TypeOK
        <4>2. AtWork(q) /\ pol[q].on = c => c \in late
          BY <1>1, <3>2, WritesAlone
        <4> QED BY <1>6, <4>1, <4>2 DEF IInv, Pollers, AtWork
      <3> QED BY <3>1, <3>2
    <2> QED BY <1>1, <2>1 DEF Pollers
  <1> QED BY <1>9, <1>10, <1>11, <1>12, <1>13, <1>14, <1>15 DEF IInv

-----------------------------------------------------------------------------
LEMMA NextHolds == ASSUME IInv, [Next]_vars PROVE IInv'
  <1>1. CASE Next
    <2>1. ASSUME NEW s \in Submission,
                 \/ \E c \in Job : Start(s, c)
                 \/ Gate(s) \/ Create(s) \/ Call(s) \/ Record(s)
                 \/ SubmissionDies(s)
          PROVE  IInv'
      BY <2>1, StartHolds, GateHolds, CreateHolds, CallHolds, RecordHolds,
         SubmissionDiesHolds
    <2>2. ASSUME NEW p \in Poller, PollerStep(p) \/ PollerDies(p)
          PROVE  IInv'
      BY <2>2, ListHolds, AcquireHolds, ReadHolds, PollHolds, WriteHolds,
         CleanHolds, ReleaseHolds, PollerDiesHolds DEF PollerStep
    <2> QED BY <1>1, <2>1, <2>2, ProviderHolds, ExpireHolds DEF Next
  <1>2. CASE UNCHANGED vars
    <2>1. /\ UNCHANGED <<job, run, lease, sub, pol, faults, lost, slow, late>>
      BY <1>2 DEF vars
    <2>2. RunsKept /\ faults' \in 0 .. MaxFaults
      BY <2>1, RunsStay DEF IInv, TypeOK
    <2> QED BY <2>1, <2>2, RunsMove
  <1> QED BY <1>1, <1>2

(* What is recorded of a job, where a submission stands with it and which   *)
(* runs are its own always agree, whatever fails and whoever dies.          *)
THEOREM Inductive == Spec => []IInv
  BY InitHolds, NextHolds, PTL DEF Spec

(* Records, runs, leases, calls and pollers keep their shape.               *)
THEOREM TypeCorrect == Spec => []TypeOK
  BY Inductive, PTL DEF IInv

(* submit() starts a contract's work a second time only if the record of    *)
(* the first start was lost.                                                *)
THEOREM NoSecondStart == Spec => []StartedOnce
  BY Inductive, PTL DEF IInv

(* A poller that is in time works under its own lease.                      *)
THEOREM LeaseIsOwn == Spec => []LeaseHeld
  BY Inductive, PTL DEF IInv

(* A completed job has a run of its own that ended well.                    *)
THEOREM CompletedIsGood == Spec => []CompletedHasArtifact
  BY Inductive, PTL DEF IInv

(* A recorded result is overwritten only after a lease ran out.             *)
LEMMA ResultStays ==
    ASSUME IInv, [Next]_vars, NEW c \in Job,
           job[c].status \in Terminal, c \notin late
    PROVE  job'[c].status = job[c].status
  <1>1. job[c].status \notin {"absent", "created", "submitted"}
    BY DEF Terminal
  <1>2. CASE UNCHANGED job
    BY <1>2
  <1>3. ASSUME NEW s \in Submission, Create(s) PROVE job'[c] = job[c]
    <2>1. sub[s].on \in Job /\ job[sub[s].on].status = "absent"
      BY <1>3 DEF Create, IInv, Submitters, Submits, Busy
    <2>2. c # sub[s].on
      BY <1>1, <2>1
    <2> QED BY <1>3, <2>1, <2>2 DEF Create, IInv, TypeOK
  <1>4. ASSUME NEW s \in Submission, Record(s) PROVE job'[c] = job[c]
    <2>1. sub[s].on \in Job /\ job[sub[s].on].status = "created"
      BY <1>4 DEF Record, IInv, Submitters, Submits, Busy
    <2>2. c # sub[s].on
      BY <1>1, <2>1
    <2> QED BY <1>4, <2>1, <2>2 DEF Record, Recorded, IInv, TypeOK
  <1>5. ASSUME NEW p \in Poller, Write(p) PROVE job'[c] = job[c]
    <2>1. /\ pol[p].on \in Job
          /\ pol[p].on \notin late => job[pol[p].on].status = "submitted"
      BY <1>5 DEF Write, IInv, TypeOK, Pollers, AtWork
    <2>2. c # pol[p].on
      BY <1>1, <2>1
    <2> QED BY <1>5, <2>1, <2>2 DEF Write, IInv, TypeOK
  <1>6. ASSUME NEW s \in Submission,
               \/ \E d \in Job : Start(s, d)
               \/ Gate(s) \/ Call(s) \/ SubmissionDies(s)
        PROVE  UNCHANGED job
    BY <1>6 DEF Start, Gate, Call, SubmissionDies
  <1>7. ASSUME NEW p \in Poller,
               \/ List(p) \/ Acquire(p) \/ Read(p) \/ Poll(p) \/ Clean(p)
               \/ Release(p) \/ PollerDies(p)
        PROVE  UNCHANGED job
    BY <1>7 DEF List, Acquire, Read, Poll, Clean, Release, PollerDies
  <1>8. ASSUME \/ \E r \in Run : Ends(r) \/ Vanish(r)
               \/ \E d \in Job : Expire(d)
        PROVE  UNCHANGED job
    BY <1>8 DEF Ends, Vanish, Expire
  <1>9. CASE Next
    BY <1>2, <1>3, <1>4, <1>5, <1>6, <1>7, <1>8, <1>9 DEF Next, PollerStep
  <1>10. CASE UNCHANGED vars
    BY <1>10 DEF vars
  <1> QED BY <1>9, <1>10

(* The result of a job is final while its polls keep to their leases.       *)
THEOREM ResultsStay == Spec => ResultIsFinal
  <1> DEFINE Stays == \A c \in Job :
                         job[c].status \in Terminal /\ c \notin late
                           => job'[c].status = job[c].status
  <1>1. IInv /\ [Next]_vars => [Stays]_vars
    BY ResultStays
  <1> QED BY <1>1, Inductive, PTL DEF Spec, ResultIsFinal
=============================================================================
