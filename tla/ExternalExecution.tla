-------------------------- MODULE ExternalExecution --------------------------
(***************************************************************************)
(* Work that an outside provider carries out after it accepted it:         *)
(* ExternalExecutionBoundary (core/external_execution_boundary.py) over    *)
(* its job records in Airtable, the poll leases in PostgreSQL              *)
(* (core/external_poll_lease.py) and the provider's adapter, with the      *)
(* processes that core/moneyprinterturbo_adapter.py starts.                *)
(*                                                                         *)
(* A submission is one call of submit(); two submissions of one contract   *)
(* never overlap, as approve() holds the contract's lock through the       *)
(* dispatch.  A poller is one instance's scheduler thread; while a         *)
(* deployment replaces an instance there are two.  Every read and write of *)
(* a store and every call of the adapter is a step.                        *)
(***************************************************************************)
EXTENDS Naturals, FiniteSets

CONSTANTS Job,        \* contracts with external work
          Submission, \* calls of submit()
          Poller,     \* scheduler threads
          Run,        \* provider job ids
          Nobody,
          Modes,      \* "async": a run is polled; "sync": submit() is it all
          MaxActive,  \* MPT_MAX_CONCURRENT_EXECUTIONS
          MaxPerDay,  \* MPT_MAX_EXECUTIONS_PER_DAY
          MaxFaults   \* how many things may go wrong

ASSUME NobodyIsNew == Nobody \notin Job \cup Poller \cup Run
ASSUME ModesAreModes == Modes \subseteq {"async", "sync"}
ASSUME LimitsAreNumbers == MaxActive \in Nat /\ MaxPerDay \in Nat
                             /\ MaxFaults \in Nat

VARIABLES job,     \* the durable ExternalExecutionJob of each contract
          run,     \* what the provider does
          lease,   \* the poll lease of each job
          sub,     \* where each submission stands
          pol,     \* where each poller stands
          faults,  \* what went wrong so far
          lost,    \* the runs whose submission was never recorded
          slow,    \* the pollers whose lease ran out while they were at work
          late     \* the jobs it ever happened to

vars == <<job, run, lease, sub, pol, faults, lost, slow, late>>

-----------------------------------------------------------------------------
Terminal == {"completed", "failed", "outcome_unknown"}

JobRecord == [status : {"absent", "created", "submitted"} \cup Terminal,
              run : Run \cup {Nobody},
              stamped : BOOLEAN]         \* submitted or completed today

NoJob == [status |-> "absent", run |-> Nobody, stamped |-> FALSE]

(* "gone": the process ended and left no exit status.                       *)
RunRecord == [state : {"unused", "running", "overdue", "good", "bad", "gone"},
              of : Job \cup {Nobody},
              files : BOOLEAN]           \* its job directory is still there

NoRun == [state |-> "unused", of |-> Nobody, files |-> FALSE]

Lease == [by : Poller \cup {Nobody}, expired : BOOLEAN]

NoLease == [by |-> Nobody, expired |-> FALSE]

Submitting == [pc : {"idle", "gate", "create", "park", "call", "record",
                     "done"},
               on : Job \cup {Nobody},
               run : Run \cup {Nobody},
               result : {"none", "submitted"} \cup Terminal,
               told : {"none", "accepted", "failed", "outcome_unknown"}]

Idle == [pc |-> "idle", on |-> Nobody, run |-> Nobody, result |-> "none",
         told |-> "none"]

Polling == [pc : {"idle", "next", "read", "poll", "write", "clean",
                  "release"},
            on : Job \cup {Nobody},
            todo : SUBSET Job,
            got : JobRecord,             \* the job as it was read
            result : {"none", "submitted"} \cup Terminal]

Resting == [pc |-> "idle", on |-> Nobody, todo |-> {}, got |-> NoJob,
            result |-> "none"]

AtWork(p) == pol[p].pc \in {"read", "poll", "write", "clean", "release"}

Init == /\ job = [c \in Job |-> NoJob]
        /\ run = [r \in Run |-> NoRun]
        /\ lease = [c \in Job |-> NoLease]
        /\ sub = [s \in Submission |-> Idle]
        /\ pol = [p \in Poller |-> Resting]
        /\ faults = 0
        /\ lost = {}
        /\ slow = {}
        /\ late = {}

Fault == faults < MaxFaults /\ faults' = faults + 1

Told(s, t) == [Idle EXCEPT !.pc = "done", !.told = t]

-----------------------------------------------------------------------------
(* submit().                                                                *)

(* Faulty variant of MayCall: an unknown outcome is tried again.            *)
MayCallAgain(status) == status \in {"absent", "created", "outcome_unknown"}

(* Only a job that was never given to the provider, as far as the record    *)
(* says, is.                                                                *)
MayCall(status) == status \in {"absent", "created"}

Known(status) == IF status \in {"submitted", "completed"} THEN "accepted"
                                                          ELSE status

Start(s, c) ==
    /\ sub[s].pc = "idle"
    /\ \A t \in Submission : sub[t].on # c
    /\ \/ /\ MayCall(job[c].status)
          /\ sub' = [sub EXCEPT ![s].pc = "gate", ![s].on = c]
          /\ UNCHANGED faults
       \/ /\ ~MayCall(job[c].status)
          /\ sub' = [sub EXCEPT ![s] = Told(s, Known(job[c].status))]
          /\ UNCHANGED faults
       \/ /\ Fault
          /\ sub' = [sub EXCEPT ![s] = Told(s, "outcome_unknown")]
    /\ UNCHANGED <<job, run, lease, pol, lost, slow, late>>

Active == {c \in Job : job[c].status = "submitted"}
Today == {c \in Job : job[c].stamped}

(* MPTExecutionPolicy.capacity_reason.                                      *)
Full == Cardinality(Active) >= MaxActive \/ Cardinality(Today) >= MaxPerDay

(* Without capacity the job is put on record and left there.                *)
Gate(s) ==
    LET new == job[sub[s].on].status = "absent"
    IN  /\ sub[s].pc = "gate"
        /\ \/ /\ ~Full
              /\ sub' = [sub EXCEPT ![s].pc = IF new THEN "create" ELSE "call"]
              /\ UNCHANGED faults
           \/ /\ Full /\ new
              /\ sub' = [sub EXCEPT ![s].pc = "park"]
              /\ UNCHANGED faults
           \/ /\ Full /\ ~new
              /\ sub' = [sub EXCEPT ![s] = Told(s, "outcome_unknown")]
              /\ UNCHANGED faults
           \/ /\ Fault
              /\ sub' = [sub EXCEPT ![s] = Told(s, "outcome_unknown")]
        /\ UNCHANGED <<job, run, lease, pol, lost, slow, late>>

(* The record comes before the call.                                        *)
Create(s) ==
    LET created == [job EXCEPT ![sub[s].on].status = "created"]
    IN  /\ sub[s].pc \in {"create", "park"}
        /\ \/ /\ job' = created
              /\ sub' = [sub EXCEPT ![s] =
                    IF sub[s].pc = "park" THEN Told(s, "outcome_unknown")
                    ELSE [sub[s] EXCEPT !.pc = "call"]]
              /\ UNCHANGED faults
           \/ /\ Fault
              /\ job' \in {job, created}
              /\ sub' = [sub EXCEPT ![s] = Told(s, "outcome_unknown")]
        /\ UNCHANGED <<run, lease, pol, lost, slow, late>>

Begun(r, c, state) ==
    run' = [run EXCEPT ![r] = [state |-> state, of |-> c, files |-> TRUE]]

(* adapter.submit(): a run is accepted; or done at once; or the request is  *)
(* turned down; or something breaks, before or after the run was started.   *)
Call(s) ==
    LET c == sub[s].on
        called(r, result) == sub' = [sub EXCEPT ![s].pc = "record",
                                                ![s].run = r,
                                                ![s].result = result]
    IN  /\ sub[s].pc = "call"
        /\ \/ \E r \in {r \in Run : run[r].state = "unused"} :
                 \/ /\ "async" \in Modes
                    /\ Begun(r, c, "running")
                    /\ called(r, "submitted")
                    /\ UNCHANGED faults
                 \/ /\ "sync" \in Modes
                    /\ Begun(r, c, "good")
                    /\ called(r, "completed")
                    /\ UNCHANGED faults
                 \/ /\ Fault
                    /\ Begun(r, c, "running")
                    /\ \E result \in {"failed", "outcome_unknown"} :
                          called(r, result)
           \/ /\ called(Nobody, "failed")
              /\ UNCHANGED <<run, faults>>
           \/ /\ Fault
              /\ called(Nobody, "outcome_unknown")
              /\ UNCHANGED run
        /\ UNCHANGED <<job, lease, pol, lost, slow, late>>

Recorded(s) ==
    LET good == sub[s].result \in {"submitted", "completed"}
    IN  [job EXCEPT ![sub[s].on] =
           [status |-> sub[s].result,
            run |-> IF good THEN sub[s].run ELSE Nobody,
            stamped |-> good]]

(* The result is written over the record; the write may fail, or only seem  *)
(* to.                                                                      *)
Record(s) ==
    LET started == {sub[s].run} \ {Nobody}
    IN  /\ sub[s].pc = "record"
        /\ \/ /\ job' = Recorded(s)
              /\ sub' = [sub EXCEPT ![s] = Told(s, Known(sub[s].result))]
              /\ UNCHANGED <<faults, lost>>
           \/ /\ Fault
              /\ job' \in {job, Recorded(s)}
              /\ lost' = IF job' = job THEN lost \cup started ELSE lost
              /\ sub' = [sub EXCEPT ![s] = Told(s, "outcome_unknown")]
        /\ UNCHANGED <<run, lease, pol, slow, late>>

-----------------------------------------------------------------------------
(* The provider.                                                            *)

(* It ends in time, or its deadline passes.                                 *)
Ends(r) ==
    /\ run[r].state = "running"
    /\ \E s \in {"good", "bad", "overdue"} :
          run' = [run EXCEPT ![r].state = s]
    /\ UNCHANGED <<job, lease, sub, pol, faults, lost, slow, late>>

(* Its process dies with its instance.                                      *)
Vanish(r) ==
    /\ run[r].state \in {"running", "overdue"}
    /\ Fault
    /\ run' = [run EXCEPT ![r].state = "gone"]
    /\ UNCHANGED <<job, lease, sub, pol, lost, slow, late>>

-----------------------------------------------------------------------------
(* poll_due().                                                              *)
List(p) ==
    /\ pol[p].pc = "idle"
    /\ Active # {}
    /\ pol' = [pol EXCEPT ![p].pc = "next", ![p].todo = Active]
    /\ UNCHANGED <<job, run, lease, sub, faults, lost, slow, late>>

Free(c) == lease[c].by = Nobody \/ lease[c].expired

(* The lease is taken when there is none or it has expired; else, or when   *)
(* the database does not answer, the job is passed over.                    *)
Acquire(p) ==
    /\ pol[p].pc = "next"
    /\ \/ /\ pol[p].todo = {}
          /\ pol' = [pol EXCEPT ![p] = Resting]
          /\ UNCHANGED <<lease, faults>>
       \/ \E c \in pol[p].todo :
             \/ /\ Free(c)
                /\ lease' = [lease EXCEPT ![c] = [by |-> p, expired |-> FALSE]]
                /\ pol' = [pol EXCEPT ![p].pc = "read", ![p].on = c,
                                      ![p].todo = @ \ {c}]
                /\ UNCHANGED faults
             \/ /\ ~Free(c)
                /\ pol' = [pol EXCEPT ![p].todo = @ \ {c}]
                /\ UNCHANGED <<lease, faults>>
             \/ /\ Fault
                /\ pol' = [pol EXCEPT ![p].todo = @ \ {c}]
                /\ UNCHANGED lease
    /\ UNCHANGED <<job, run, sub, lost, slow, late>>

(* Faulty variant of Leaving: it forgets whose lease it is to give back.     *)
LeavingForgetful(p) == [Resting EXCEPT !.pc = "release"]

Leaving(p) == [pol[p] EXCEPT !.pc = "release", !.got = NoJob,
                              !.result = "none"]

(* Faulty variant of Read: the list is trusted.                             *)
ReadTrusting(p) ==
    /\ pol[p].pc = "read"
    /\ pol' = [pol EXCEPT ![p].pc = "poll", ![p].got = job[pol[p].on]]
    /\ UNCHANGED <<job, run, lease, sub, faults, lost, slow, late>>

(* The job is read again under the lease.                                   *)
Read(p) ==
    LET now == job[pol[p].on]
    IN  /\ pol[p].pc = "read"
        /\ \/ /\ pol' = [pol EXCEPT ![p] =
                    IF now.status = "submitted"
                      THEN [pol[p] EXCEPT !.pc = "poll", !.got = now]
                      ELSE Leaving(p)]
              /\ UNCHANGED faults
           \/ /\ Fault
              /\ pol' = [pol EXCEPT ![p] = Leaving(p)]
        /\ UNCHANGED <<job, run, lease, sub, lost, slow, late>>

(* Faulty variant of Seen: a process without an exit status ended well.     *)
SeenOptimistically(r) ==
    CASE ~run[r].files -> {"outcome_unknown"}
      [] run[r].state \in {"good", "gone"} -> Terminal
      [] run[r].state \in {"bad", "overdue"} -> {"failed"}
      [] OTHER -> {"submitted"}

(* Faulty variant of Seen: a process that is gone may still be at work.     *)
SeenForever(r) ==
    CASE ~run[r].files -> {"outcome_unknown"}
      [] run[r].state = "good" -> Terminal
      [] run[r].state \in {"bad", "overdue"} -> {"failed"}
      [] OTHER -> {"submitted"}

(* What adapter.poll() finds.  The artifact of a run that ended well is     *)
(* validated and put into storage first, which may fail or end uncertain.   *)
Seen(r) ==
    CASE ~run[r].files -> {"outcome_unknown"}
      [] run[r].state = "good" -> Terminal
      [] run[r].state = "gone" -> {"outcome_unknown"}
      [] run[r].state \in {"bad", "overdue"} -> {"failed"}
      [] OTHER -> {"submitted"}

(* A run past its deadline is killed.                                       *)
Poll(p) ==
    LET r == pol[p].got.run
    IN  /\ pol[p].pc = "poll"
        /\ \/ /\ \E result \in Seen(r) :
                    pol' = [pol EXCEPT ![p].pc = "write", ![p].result = result]
              /\ run' = IF run[r].state = "overdue" /\ run[r].files
                          THEN [run EXCEPT ![r].state = "gone"] ELSE run
              /\ UNCHANGED faults
           \/ /\ Fault
              /\ pol' = [pol EXCEPT ![p].pc = "write",
                                    ![p].result = "outcome_unknown"]
              /\ UNCHANGED run
        /\ UNCHANGED <<job, lease, sub, lost, slow, late>>

(* The whole record is written, with what else was read before the poll;    *)
(* neither the lease nor the status is looked at again.                     *)
Write(p) ==
    LET c == pol[p].on
        written == [job EXCEPT ![c] = [pol[p].got EXCEPT
                                         !.status = pol[p].result]]
    IN  /\ pol[p].pc = "write"
        /\ \/ /\ job' = written
              /\ pol' = [pol EXCEPT ![p] =
                    IF pol[p].result = "completed"
                      THEN [pol[p] EXCEPT !.pc = "clean"] ELSE Leaving(p)]
              /\ UNCHANGED faults
           \/ /\ Fault
              /\ job' \in {job, written}
              /\ pol' = [pol EXCEPT ![p] = Leaving(p)]
        /\ UNCHANGED <<run, lease, sub, lost, slow, late>>

(* The job directory goes once the artifact is stored elsewhere.            *)
Clean(p) ==
    /\ pol[p].pc = "clean"
    /\ run' \in {run, [run EXCEPT ![pol[p].got.run].files = FALSE]}
    /\ pol' = [pol EXCEPT ![p] = Leaving(p)]
    /\ UNCHANGED <<job, lease, sub, faults, lost, slow, late>>

(* Faulty variant of Released: whoever's lease it is by now.                *)
ReleasedBlindly(p) == [lease EXCEPT ![pol[p].on] = NoLease]

(* DELETE ... WHERE job_id AND lease_token.                                 *)
Released(p) == IF lease[pol[p].on].by = p
                 THEN [lease EXCEPT ![pol[p].on] = NoLease] ELSE lease

Release(p) ==
    /\ pol[p].pc = "release"
    /\ \/ /\ lease' = Released(p)
          /\ UNCHANGED faults
       \/ /\ Fault
          /\ UNCHANGED lease
    /\ pol' = [pol EXCEPT ![p] = [Resting EXCEPT !.pc = "next",
                                                 !.todo = pol[p].todo]]
    /\ slow' = slow \ {p}
    /\ UNCHANGED <<job, run, sub, lost, late>>

(* 120 seconds pass.  A lease that its holder still works under is a fault; *)
(* one that was left behind simply ends.                                    *)
Expire(c) ==
    LET p == lease[c].by
        working == p # Nobody /\ AtWork(p) /\ pol[p].on = c
    IN  /\ p # Nobody /\ ~lease[c].expired
        /\ lease' = [lease EXCEPT ![c].expired = TRUE]
        /\ IF working
             THEN Fault /\ slow' = slow \cup {p} /\ late' = late \cup {c}
             ELSE UNCHANGED <<faults, slow, late>>
        /\ UNCHANGED <<job, run, sub, pol, lost>>

-----------------------------------------------------------------------------
(* An instance dies in the middle of a submission or of a poll.             *)
SubmissionDies(s) ==
    /\ sub[s].pc \notin {"idle", "done"}
    /\ Fault
    /\ lost' = lost \cup ({sub[s].run} \ {Nobody})
    /\ sub' = [sub EXCEPT ![s] = Told(s, "none")]
    /\ UNCHANGED <<job, run, lease, pol, slow, late>>

PollerDies(p) ==
    /\ pol[p].pc # "idle"
    /\ Fault
    /\ pol' = [pol EXCEPT ![p] = Resting]
    /\ slow' = slow \ {p}
    /\ UNCHANGED <<job, run, lease, sub, lost, late>>

PollerStep(p) == \/ List(p) \/ Acquire(p) \/ Read(p) \/ Poll(p) \/ Write(p)
                 \/ Clean(p) \/ Release(p)

Next == \/ \E s \in Submission : \/ \E c \in Job : Start(s, c)
                                 \/ Gate(s) \/ Create(s) \/ Call(s)
                                 \/ Record(s) \/ SubmissionDies(s)
        \/ \E r \in Run : Ends(r) \/ Vanish(r)
        \/ \E p \in Poller : PollerStep(p) \/ PollerDies(p)
        \/ \E c \in Job : Expire(c)

(* The scheduler polls again and again, deadlines and leases run out.       *)
Fairness == /\ \A p \in Poller : WF_vars(PollerStep(p))
            /\ \A r \in Run : WF_vars(Ends(r))
            /\ \A c \in Job : WF_vars(Expire(c))

Spec == Init /\ [][Next]_vars /\ Fairness

-----------------------------------------------------------------------------
(* Shapes; whoever is at work has a job, and has read it before it polls.   *)
TypeOK == /\ job \in [Job -> JobRecord]
          /\ run \in [Run -> RunRecord]
          /\ lease \in [Job -> Lease]
          /\ sub \in [Submission -> Submitting]
          /\ pol \in [Poller -> Polling]
          /\ faults \in 0 .. MaxFaults
          /\ lost \subseteq Run /\ slow \subseteq Poller /\ late \subseteq Job
          /\ \A p \in Poller : AtWork(p) => pol[p].on \in Job

(* A contract's work is started a second time only if the record of the     *)
(* first start was lost: create-before-submit, and a failed or unknown      *)
(* outcome is never submitted again (ExternalExecutionBoundary.submit).     *)
StartedOnce ==
    \A r, q \in Run :
       run[r].of = run[q].of /\ run[r].of # Nobody /\ r # q
         => r \in lost \/ q \in lost

(* A poller that finished its work in time had the job for itself: its      *)
(* lease is there until it gives it back itself (ExternalPollLease).        *)
LeaseHeld ==
    \A p \in Poller :
       AtWork(p) /\ p \notin slow
         => lease[pol[p].on] = [by |-> p, expired |-> FALSE]

(* The result of a job never changes once it is recorded, unless a poll of  *)
(* it outlived its lease (poll_due writes without looking again).           *)
ResultIsFinal ==
    [][\A c \in Job : job[c].status \in Terminal /\ c \notin late
                        => job'[c].status = job[c].status]_vars

(* A job that is recorded as completed has a run of its own that ended      *)
(* well, late writes and repeated submissions included (completed_job, the  *)
(* artifact guard).                                                         *)
CompletedHasArtifact ==
    \A c \in Job :
       job[c].status = "completed"
         => LET r == job[c].run
            IN  r # Nobody /\ run[r].of = c /\ run[r].state = "good"

(* Every job that was accepted gets a result in the end, whichever poller   *)
(* dies and whatever calls fail, as long as they fail finitely often.       *)
JobsSettle ==
    \A c \in Job : job[c].status = "submitted"
                     ~> job[c].status \in Terminal
=============================================================================
