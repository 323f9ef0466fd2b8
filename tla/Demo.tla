-------------------------------- MODULE Demo ---------------------------------
(***************************************************************************)
(* The demo as a whole: the requests of the board, the status events and   *)
(* pulls, and the cron jobs started by hand (EvoltBatchRun in              *)
(* demo/handlers.go, BatchRunner in demo/batchjobs.go).  A run of a job    *)
(* may have every mock publish a new batch first, of locations and of      *)
(* tariffs; the job, a process of its own, then collects its one kind from *)
(* each partner Evolt is paired with, and is killed at its deadline or     *)
(* with its screen.                                                        *)
(*                                                                         *)
(* What a job does is not under src/: it is modelled from what its summary *)
(* and exit code are taken to mean there.  How a batch is published and    *)
(* walked is modelled in Feed; here a run knows which mocks have published *)
(* one for it that its job has yet to find there.                          *)
(***************************************************************************)
EXTENDS StatusEvent

CONSTANTS
  Jobs,    \* batchJobs: each collects from a table of its own at every mock
  NoJob    \* what a request runs that is no batch run

ASSUME JobAssumption == NoJob \notin Jobs

VARIABLES
  job,     \* the job a run is of
  refresh, \* the mocks it has yet to have publish a batch, in the board's order
  due,     \* those that did so, in the table of its job, and still have it:
           \*   no job has collected it and no reset has replaced it
  listed,  \* the partners its job found Evolt paired with
  left,    \* those of them it has yet to collect from
  failed,  \* those of them its summary counts as failed
  exit     \* the exit code of its job

run == <<job, refresh, due, listed, left, failed, exit>>
vars == <<svars, run>>

Init ==
  /\ StatusInit
  /\ job = [q \in Procs |-> NoJob]
  /\ refresh = [q \in Procs |-> <<>>]
  /\ due = [q \in Procs |-> {}]
  /\ listed = [q \in Procs |-> {}]
  /\ left = [q \in Procs |-> {}]
  /\ failed = [q \in Procs |-> {}]
  /\ exit = [q \in Procs |-> 0]

\* The table of each of these jobs at the mock k has nothing more for any run.
Emptied(k, jobs) == due' = [r \in Procs |-> IF job[r] \in jobs THEN due[r] \ {k} ELSE due[r]]

\* A mock whose data is reset has nothing but what it was seeded with.
Others ==
  \/ \E q \in Procs :
       /\ BoardStep(q)
       /\ IF pc'[q] = "clear" THEN Emptied(Partner(q), Jobs) ELSE UNCHANGED due
       /\ UNCHANGED <<job, refresh, listed, left, failed, exit>>
  \/ StatusStep /\ UNCHANGED run

-----------------------------------------------------------------------------

Still == UNCHANGED <<pairs, started, locals, history, charger, want, pulled>>

EvoltBatchRun(q) ==
  /\ Start(q, "batch")
  /\ \E mocks \in {<<>>, Rows} : refresh' = [refresh EXCEPT ![q] = mocks]
  /\ \E name \in Jobs : job' = [job EXCEPT ![q] = name]
  /\ UNCHANGED <<pairs, locals, history, charger, want, pulled, due, listed, left, failed, exit>>

\* The run is answered and its locals are gone.
BatchReturn(q) ==
  /\ Goto(q, "idle")
  /\ job' = [job EXCEPT ![q] = NoJob]
  /\ refresh' = [refresh EXCEPT ![q] = <<>>]
  /\ due' = [due EXCEPT ![q] = {}]
  /\ listed' = [listed EXCEPT ![q] = {}]
  /\ left' = [left EXCEPT ![q] = {}]
  /\ failed' = [failed EXCEPT ![q] = {}]
  /\ exit' = [exit EXCEPT ![q] = 0]

\* AdminNewBatch at the next mock re-dates the locations and then the tariffs:
\* what it has there for other runs is in the new batch as well.  PLG is first and
\* its failure is the answer; that of a fanout partner, which may have re-dated
\* one table or both, is passed over.
NewBatch(q) ==
  /\ pc[q] = "batch" /\ refresh[q] # <<>>
  /\ \/ /\ \/ due' = [due EXCEPT ![q] = @ \cup {Head(refresh[q])}]
           \/ Head(refresh[q]) # Rows[1] /\ UNCHANGED due
        /\ refresh' = [refresh EXCEPT ![q] = Tail(@)]
        /\ UNCHANGED <<pc, job, listed, left, failed, exit>>
     \/ Head(refresh[q]) = Rows[1] /\ BatchReturn(q)
  /\ Still

\* Run starts the job.  A dry run writes nothing: it has nobody to collect from.
StartJob(q) ==
  /\ pc[q] = "batch" /\ refresh[q] = <<>>
  /\ Goto(q, "job")
  /\ \E dry \in BOOLEAN :
       listed' = [listed EXCEPT ![q] = IF dry THEN {} ELSE {k \in Partners : evolt[k] # NoPair}]
  /\ left' = [left EXCEPT ![q] = listed'[q]]
  /\ UNCHANGED <<job, refresh, due, failed, exit>> /\ Still

\* The job cannot be started, or its process is lost: Run returns an error.
RunFails(q) ==
  /\ pc[q] = "job" \/ (pc[q] = "batch" /\ refresh[q] = <<>>)
  /\ BatchReturn(q) /\ Still

\* The job (external) collects what is new in its table at one partner, or counts
\* the partner as failed and goes on.
Collect(q, k) ==
  /\ pc[q] = "job" /\ k \in left[q]
  /\ left' = [left EXCEPT ![q] = @ \ {k}]
  /\ \/ MockKnows(k) /\ Emptied(k, {job[q]}) /\ UNCHANGED failed
     \/ failed' = [failed EXCEPT ![q] = @ \cup {k}] /\ UNCHANGED due
  /\ UNCHANGED <<pc, job, refresh, listed, exit>> /\ Still

\* Mutant: a job that was killed is answered like one that ended.
KilledIsZero(q) ==
  /\ pc[q] = "job"
  /\ Goto(q, "result")
  /\ left' = [left EXCEPT ![q] = {}]
  /\ UNCHANGED <<job, refresh, due, listed, failed, exit>> /\ Still

\* The job has been through its partners and some did not fail, or it says so
\* ("every partner failed" is one way to); or it is killed at its deadline or with
\* its screen.  That is an ExitError as well, and its code -1 is answered with an
\* ok; it stands for the codes of jobs that break off by themselves, too.
JobEnds(q) ==
  /\ pc[q] = "job"
  /\ Goto(q, "result")
  /\ \/ left[q] = {} /\ (listed[q] = {} \/ listed[q] # failed[q]) /\ UNCHANGED exit
     \/ left[q] = {} /\ exit' = [exit EXCEPT ![q] = 1]
     \/ exit' = [exit EXCEPT ![q] = -1]
  /\ left' = [left EXCEPT ![q] = {}]
  /\ UNCHANGED <<job, refresh, due, listed, failed>> /\ Still

BatchAnswer(q) ==
  /\ pc[q] = "result"
  /\ BatchReturn(q) /\ Still

-----------------------------------------------------------------------------

BatchStep(q) ==
  \/ EvoltBatchRun(q) \/ NewBatch(q) \/ StartJob(q) \/ RunFails(q)
  \/ (\E k \in Partners : Collect(q, k)) \/ JobEnds(q) \/ BatchAnswer(q)

\* The bound is used up, every request answered and every event handled.
Done ==
  /\ started = MaxRequests /\ \A q \in Procs : pc[q] = "idle"
  /\ topic = 0 /\ patching = Idle
  /\ UNCHANGED vars

Next == Others \/ (\E q \in Procs : BatchStep(q)) \/ Done

Spec == Init /\ [][Next]_vars

-----------------------------------------------------------------------------
(* Properties. *)

\* The calls of a request about a partner, and the steps of the other requests.
Calls ==
  {"handshake", "tokens", "outbound", "before", "put", "after", "drop",
   "wipe", "reset", "clear"}
Elsewhere == {"idle", "flip", "produce", "pull", "batch", "job", "result"}
Labels == Calls \cup {"show"} \cup Elsewhere

\* All the demo's variables have the shapes their comments give them: a run has a
\* job from its start to its answer, has mocks to refresh only before it, and its
\* job is left with, and counts as failed, only partners it found.
TypeOK ==
  /\ StatusTypeOK
  /\ pc \in [Procs -> Labels]
  /\ job \in [Procs -> Jobs \cup {NoJob}]
  /\ refresh \in [Procs -> Seq(Partners)]
  /\ {due, listed, left, failed} \subseteq [Procs -> SUBSET Partners]
  /\ exit \in [Procs -> {-1, 0, 1}]
  /\ \A q \in Procs :
       /\ pc[q] \in {"batch", "job", "result"} <=> job[q] # NoJob
       /\ refresh[q] # <<>> => pc[q] = "batch"
       /\ due[q] # {} => job[q] # NoJob
       /\ left[q] # {} => pc[q] = "job"
       /\ left[q] \cup failed[q] \subseteq listed[q] /\ left[q] \cap failed[q] = {}

\* A killed job is never taken for one that ended well: what a mock published for
\* a run, in the table of its job, and still has when the job ends with exit code
\* 0, is of a partner the job did not find paired or counts as failed.  (A dry run
\* finds nobody.)
BatchCollected ==
  \A q \in Procs : pc[q] = "result" /\ exit[q] = 0 =>
    due[q] \cap listed[q] \subseteq failed[q]
=============================================================================
