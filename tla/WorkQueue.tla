------------------------------ MODULE WorkQueue ------------------------------
(***************************************************************************)
(* The thread pool of NetwokDesign/coroutine/server_mulport_epoll.c: the   *)
(* workers, the LIFO list of waiting jobs, and the thread that adds jobs   *)
(* and shuts the pool down.  A critical section of jobs_mutex is one step, *)
(* taken when the mutex is free; the mutex is still a variable because a   *)
(* worker that terminates leaves worker_function without unlocking it.     *)
(* Only heads are ever removed from the job list, so the prev links that   *)
(* LL_ADD leaves unset play no part and the list is a sequence.            *)
(***************************************************************************)
EXTENDS Integers, Sequences, FiniteSets, Functions

CONSTANTS Workers, Jobs, None

(* workqueue_init starts one worker at least. *)
ASSUME WorkersAssumption == Workers # {} /\ None \notin Workers
ASSUME JobsAssumption == None \notin Jobs

VARIABLES
    waiting_jobs,  \* the job list, newest first
    mutex,         \* None, or the worker that exited with jobs_mutex locked
    sleeping,      \* workers in pthread_cond_wait
    terminate,     \* the workers whose terminate flag is set
    pc,            \* each worker: "loop", "run" or "exited"
    job,           \* the job each worker runs, or None
    phase          \* the adding thread: "up", "flag" and "drop" in workqueue_shutdown, "down" after

vars == <<waiting_jobs, mutex, sleeping, terminate, pc, job, phase>>

Init ==
    /\ waiting_jobs = <<>> /\ mutex = None /\ sleeping = {}
    /\ terminate = {}
    /\ pc = [w \in Workers |-> "loop"]
    /\ job = [w \in Workers |-> None]
    /\ phase = "up"

(* A job exists from the malloc before workqueue_add_job to the free at    *)
(* its end; the same address may then be allocated again.                  *)
Live == Range(waiting_jobs) \cup Range(job)

(* pthread_cond_signal: one sleeper, if any, goes back to its loop. *)
Signal == IF sleeping = {} THEN UNCHANGED sleeping
          ELSE \E w \in sleeping : sleeping' = sleeping \ {w}

(* Mutant: the job is linked but nobody is woken. *)
AddJobSilent(j) ==
    /\ phase \in {"up", "down"} /\ mutex = None /\ j \notin Live
    /\ waiting_jobs' = <<j>> \o waiting_jobs
    /\ UNCHANGED <<mutex, sleeping, terminate, pc, job, phase>>

(* workqueue_add_job, by the thread that owns the pool. *)
AddJob(j) ==
    /\ phase \in {"up", "down"} /\ mutex = None /\ j \notin Live
    /\ waiting_jobs' = <<j>> \o waiting_jobs
    /\ Signal
    /\ UNCHANGED <<mutex, terminate, pc, job, phase>>

(* The worker gets jobs_mutex, at the top of its loop or after a wake-up. *)
CanLock(w) == pc[w] = "loop" /\ w \notin sleeping /\ mutex = None

(* Mutant: the job is read but not unlinked. *)
TakeKept(w) ==
    /\ CanLock(w) /\ waiting_jobs # <<>> /\ w \notin terminate
    /\ job' = [job EXCEPT ![w] = Head(waiting_jobs)]
    /\ pc' = [pc EXCEPT ![w] = "run"]
    /\ UNCHANGED <<waiting_jobs, mutex, sleeping, terminate, phase>>

(* The worker takes the newest job and unlocks. *)
Take(w) ==
    /\ CanLock(w) /\ waiting_jobs # <<>> /\ w \notin terminate
    /\ job' = [job EXCEPT ![w] = Head(waiting_jobs)]
    /\ waiting_jobs' = Tail(waiting_jobs)
    /\ pc' = [pc EXCEPT ![w] = "run"]
    /\ UNCHANGED <<mutex, sleeping, terminate, phase>>

(* Mutant: the worker sleeps without looking at the list first. *)
WaitUnchecked(w) ==
    /\ CanLock(w) /\ w \notin terminate
    /\ sleeping' = sleeping \cup {w}
    /\ UNCHANGED <<waiting_jobs, mutex, terminate, pc, job, phase>>

(* No job and not told to stop: wait for a signal. *)
Wait(w) ==
    /\ CanLock(w) /\ waiting_jobs = <<>> /\ w \notin terminate
    /\ sleeping' = sleeping \cup {w}
    /\ UNCHANGED <<waiting_jobs, mutex, terminate, pc, job, phase>>

(* Mutant: the worker unlocks before it leaves. *)
ExitUnlocked(w) ==
    /\ CanLock(w) /\ w \in terminate
    /\ pc' = [pc EXCEPT ![w] = "exited"]
    /\ UNCHANGED <<waiting_jobs, mutex, sleeping, terminate, job, phase>>

(* Told to stop: break, free(worker) and exit, jobs_mutex still locked. *)
Exit(w) ==
    /\ CanLock(w) /\ w \in terminate
    /\ pc' = [pc EXCEPT ![w] = "exited"]
    /\ mutex' = w
    /\ UNCHANGED <<waiting_jobs, sleeping, terminate, job, phase>>

(* The job function returns; it has freed its job. *)
Finish(w) ==
    /\ pc[w] = "run"
    /\ pc' = [pc EXCEPT ![w] = "loop"]
    /\ job' = [job EXCEPT ![w] = None]
    /\ UNCHANGED <<waiting_jobs, mutex, sleeping, terminate, phase>>

(* pthread_cond_wait may return without a signal. *)
SpuriousWakeup(w) ==
    /\ w \in sleeping
    /\ sleeping' = sleeping \ {w}
    /\ UNCHANGED <<waiting_jobs, mutex, terminate, pc, job, phase>>

(* workqueue_shutdown, its unlocked loop: one flag at a time.  (The walk   *)
(* reads worker->next of a worker that may just have been freed; free()    *)
(* leaves that field alone, so the walk goes on.)                          *)
Flag ==
    /\ phase \in {"up", "flag"} /\ terminate # Workers
    /\ \E w \in Workers \ terminate : terminate' = terminate \cup {w}
    /\ phase' = IF terminate' = Workers THEN "drop" ELSE "flag"
    /\ UNCHANGED <<waiting_jobs, mutex, sleeping, pc, job>>

(* workqueue_shutdown, its critical section: drop the jobs and broadcast. *)
Drop ==
    /\ phase = "drop" /\ mutex = None
    /\ waiting_jobs' = <<>>
    /\ sleeping' = {}
    /\ phase' = "down"
    /\ UNCHANGED <<mutex, terminate, pc, job>>

WorkerStep(w) == Take(w) \/ Wait(w) \/ Exit(w) \/ Finish(w)

Next == \/ \E w \in Workers : WorkerStep(w) \/ SpuriousWakeup(w)
        \/ \E j \in Jobs : AddJob(j)
        \/ Flag \/ Drop

Spec == Init /\ [][Next]_vars

(* The scheduler runs every runnable worker, and every job function ends.  *)
(* (EpollServer says when client_job does: JobEnds.)                       *)
FairSpec == Spec /\ \A w \in Workers : WF_vars(WorkerStep(w))
-----------------------------------------------------------------------------
TypeOK ==
    /\ waiting_jobs \in Seq(Jobs)
    /\ mutex \in Workers \cup {None}
    /\ sleeping \subseteq {w \in Workers : pc[w] = "loop"}
    /\ terminate \subseteq Workers
    /\ pc \in [Workers -> {"loop", "run", "exited"}]
    /\ job \in [Workers -> Jobs \cup {None}]
    /\ phase \in {"up", "flag", "drop", "down"}

(* A job is run by one worker and once: it is never on the list twice, on  *)
(* the list while it runs, or run by two workers (client_job frees it).    *)
RunOnce ==
    /\ IsInjective(waiting_jobs)
    /\ \A w \in Workers : job[w] # None =>
         job[w] \notin Range(waiting_jobs) /\ \A v \in Workers \ {w} : job[v] # job[w]

(* One signal per job is enough: while the pool is up, the workers are     *)
(* never all asleep with a job on the list.                                *)
SomeoneAwake == (phase = "up" /\ waiting_jobs # <<>>) => sleeping # Workers

(* If jobs stop arriving and the pool stays up, every job gets its run. *)
Drains ==
    (<>[](phase = "up") /\ <>[][\A j \in Jobs : ~AddJob(j)]_vars)
        => <>[](waiting_jobs = <<>> /\ \A w \in Workers : job[w] = None)

(* worker_function breaks out of its loop with jobs_mutex locked, so a     *)
(* shutdown ends one worker at most, and from then on the mutex is taken   *)
(* for good: the others and the adding thread block on it.                 *)
OneExit ==
    /\ \A w, v \in Workers : (pc[w] = "exited" /\ pc[v] = "exited") => w = v
    /\ \A w \in Workers : pc[w] = "exited" => mutex = w
=============================================================================
