----------------------------- MODULE RetiradaCi ------------------------------
(***************************************************************************)
(* The watcher that redispatches CI jobs starved of a runner               *)
(* (breathe-retirada-ci/src/lib.rs, bin/watch.rs).  It keeps no state: in  *)
(* each pass it learns the threshold from the waits of recent jobs, lists  *)
(* the runs that wait or go on, and for each of their queued jobs asks the *)
(* run history how often the commit was already retried.  One watcher runs *)
(* at a time (the workflow's concurrency group).  Jobs, runners and        *)
(* history are GitHub's and move between any two calls, and a run that was *)
(* dispatched is listed some time later.                                   *)
(***************************************************************************)
EXTENDS Integers, Sequences, FiniteSets

CONSTANTS
    Commits,         \* shas
    Jobs,            \* the jobs of a run that want a runner of the pool
    MaxStarts,       \* bound on runs that others start
    MaxDispatches,   \* bound on a commit's dispatches that are kept apart
    History,         \* runs a listing returns (50; 20 for the waits)
    MaxAutoRetries,  \* max_auto_retries
    Floor,           \* starvation_threshold_secs, in clock steps
    Multiplier,      \* adaptive_multiplier
    LongestWake,     \* the longest wait after which a runner still comes
    MaxCiFaults      \* bound on failed calls

ASSUME RetiradaAssumption ==
    /\ {MaxStarts, MaxDispatches, History, MaxAutoRetries, Floor, Multiplier, LongestWake, MaxCiFaults}
         \subseteq Nat
    /\ Floor > LongestWake /\ Multiplier >= 1 /\ MaxDispatches >= 1
    /\ IsFiniteSet(Commits) /\ IsFiniteSet(Jobs)

\* No wait tells more than this.
AgeCap == IF Floor > Multiplier * LongestWake THEN Floor ELSE Multiplier * LongestWake

VARIABLES
    ciruns,    \* every run so far: [sha, event, auto, pool, listed, jobs]
    watch,     \* the pass: [at, status, threshold, runs, jobs, run]
    honoured,  \* whether the workflow heeds runnerOverride
    cifaults

retirada_vars == <<ciruns, watch, honoured, cifaults>>

Idle == [at |-> "idle", status |-> "queued", threshold |-> Floor, runs |-> {}, jobs |-> {}, run |-> 0]

RetiradaInit == ciruns = <<>> /\ watch = Idle /\ honoured \in BOOLEAN /\ cifaults = 0

\* A run of commit c, its jobs all waiting.
NewRun(c, event, auto, pool) ==
    [sha |-> c, event |-> event, auto |-> auto, pool |-> pool, listed |-> ~auto,
     jobs |-> [j \in Jobs |-> [at |-> "queued", age |-> 0]]]

AllAt(r, at) == \A j \in Jobs : r.jobs[j].at = at

run_status(r) ==
    IF AllAt(r, "done") THEN "completed" ELSE IF AllAt(r, "queued") THEN "queued" ELSE "in_progress"

\* list_runs: the latest of the listed runs that are asked for.
Page(S) ==
    LET listed == {i \in S : ciruns[i].listed}
    IN {i \in listed : Cardinality({k \in listed : k > i}) < History}

list_runs(st) == Page({i \in DOMAIN ciruns : run_status(ciruns[i]) = st})

-----------------------------------------------------------------------------
(***************************************************************************)
(* The decision.                                                           *)
(***************************************************************************)
\* The p95 of the waits, by rank.
Percentile(waits) ==
    LET n    == Cardinality(DOMAIN waits)
        rank == (95 * n + 99) \div 100
        AtMost(v) == Cardinality({i \in DOMAIN waits : waits[i] <= v})
    IN CHOOSE v \in {waits[i] : i \in DOMAIN waits} :
         AtMost(v) >= rank /\ \A i \in DOMAIN waits : waits[i] < v => AtMost(waits[i]) < rank

compute_adaptive_starvation_threshold(waits) ==
    IF DOMAIN waits = {} THEN Floor
    ELSE LET learned == Multiplier * Percentile(waits) IN IF learned > Floor THEN learned ELSE Floor

\* A runner id of 0 is no runner.
runner_actually_assigned(job) == job.at # "queued"

\* Every dispatch of the commit in the history counts, a person's too.
count_prior_auto_retries(sha) ==
    Cardinality({i \in Page(DOMAIN ciruns) : ciruns[i].sha = sha /\ ciruns[i].event = "workflow_dispatch"})

classify_queue_starvation(sha, age, threshold) ==
    /\ age >= threshold
    /\ count_prior_auto_retries(sha) < MaxAutoRetries

-----------------------------------------------------------------------------
(***************************************************************************)
(* A pass.                                                                 *)
(***************************************************************************)
\* run_pass: the threshold from completed runs, then the waiting runs.
BeginPass ==
    /\ watch.at = "idle"
    /\ LET ended == list_runs("completed") \X Jobs
       IN watch' = [Idle EXCEPT !.at = "runs", !.runs = list_runs("queued"),
                      !.threshold = compute_adaptive_starvation_threshold(
                                       [x \in ended |-> ciruns[x[1]].jobs[x[2]].age])]
    /\ UNCHANGED <<ciruns, honoured, cifaults>>

\* list_jobs of the next run; only queued jobs of the pool are looked at.
ListJobs ==
    /\ watch.at = "runs" /\ watch.runs # {}
    /\ LET i == CHOOSE k \in watch.runs : \A l \in watch.runs : l <= k
       IN watch' = [watch EXCEPT !.runs = @ \ {i}, !.at = "jobs", !.run = i,
                      !.jobs = {j \in Jobs : ciruns[i].pool = "spot"
                                             /\ ~runner_actually_assigned(ciruns[i].jobs[j])}]
    /\ UNCHANGED <<ciruns, honoured, cifaults>>

\* The history is read for each job, then the decision; what was listed of the
\* job may be over by then.
Inspect ==
    /\ watch.at = "jobs"
    /\ \E j \in watch.jobs :
         watch' = [watch EXCEPT !.jobs = @ \ {j},
                     !.at = IF classify_queue_starvation(ciruns[watch.run].sha,
                                                         ciruns[watch.run].jobs[j].age, watch.threshold)
                            THEN "dispatch" ELSE "jobs"]
    /\ UNCHANGED <<ciruns, honoured, cifaults>>

AutoRetries(c) == Cardinality({i \in DOMAIN ciruns : ciruns[i].sha = c /\ ciruns[i].auto})

\* GitHub takes the dispatch and lists its run later.  A dispatch beyond the
\* bound is not kept apart from the last one.
dispatch ==
    /\ watch.at = "dispatch"
    /\ LET sha == ciruns[watch.run].sha
       IN ciruns' = IF AutoRetries(sha) < MaxDispatches
                    THEN Append(ciruns, NewRun(sha, "workflow_dispatch", TRUE,
                                               IF honoured THEN "demand" ELSE "spot"))
                    ELSE ciruns
    /\ watch' = [watch EXCEPT !.at = "jobs"]
    /\ UNCHANGED <<honoured, cifaults>>

\* After a run's jobs the next run; after the waiting runs the ones under way.
Proceed ==
    /\ \/ watch.at = "jobs" /\ watch.jobs = {}
         /\ watch' = [watch EXCEPT !.at = "runs"]
       \/ watch.at = "runs" /\ watch.runs = {} /\ watch.status = "queued"
         /\ watch' = [watch EXCEPT !.status = "in_progress", !.runs = list_runs("in_progress")]
       \/ watch.at = "runs" /\ watch.runs = {} /\ watch.status = "in_progress"
         /\ watch' = Idle
    /\ UNCHANGED <<ciruns, honoured, cifaults>>

\* Any failing call ends the loop; the schedule starts the next one.
PassFails ==
    /\ watch.at # "idle" /\ cifaults < MaxCiFaults
    /\ cifaults' = cifaults + 1 /\ watch' = Idle
    /\ UNCHANGED <<ciruns, honoured>>

-----------------------------------------------------------------------------
(***************************************************************************)
(* GitHub.                                                                 *)
(***************************************************************************)
Starts(c, event) ==
    /\ Cardinality({i \in DOMAIN ciruns : ~ciruns[i].auto}) < MaxStarts
    /\ ciruns' = Append(ciruns, NewRun(c, event, FALSE, "spot"))
    /\ UNCHANGED <<watch, honoured, cifaults>>

Appears(i) ==
    /\ ~ciruns[i].listed
    /\ ciruns' = [ciruns EXCEPT ![i].listed = TRUE]
    /\ UNCHANGED <<watch, honoured, cifaults>>

\* A runner comes within the longest wake or not at all, and the job ends.
JobMoves(i, j) ==
    /\ \/ /\ ciruns[i].jobs[j].at = "queued" /\ ciruns[i].jobs[j].age <= LongestWake
          /\ ciruns' = [ciruns EXCEPT ![i].jobs[j].at = "assigned"]
       \/ /\ ciruns[i].jobs[j].at = "assigned"
          /\ ciruns' = [ciruns EXCEPT ![i].jobs[j].at = "done"]
    /\ UNCHANGED <<watch, honoured, cifaults>>

Waits(job) == job.at = "queued" /\ job.age < AgeCap

Clock ==
    /\ \E i \in DOMAIN ciruns, j \in Jobs : Waits(ciruns[i].jobs[j])
    /\ ciruns' = [i \in DOMAIN ciruns |-> [ciruns[i] EXCEPT !.jobs = [j \in Jobs |->
                    IF Waits(@[j]) THEN [@[j] EXCEPT !.age = @ + 1] ELSE @[j]]]]
    /\ UNCHANGED <<watch, honoured, cifaults>>

RetiradaNext ==
    \/ BeginPass \/ ListJobs \/ Inspect \/ dispatch \/ Proceed \/ PassFails \/ Clock
    \/ \E i \in DOMAIN ciruns : Appears(i) \/ \E j \in Jobs : JobMoves(i, j)
    \/ \E c \in Commits, event \in {"push", "workflow_dispatch"} : Starts(c, event)

RetiradaSpec == RetiradaInit /\ [][RetiradaNext]_retirada_vars

-----------------------------------------------------------------------------
\* However passes fail and jobs move while one is under way, a commit is
\* retried no more often than the ceiling allows ("never more than one
\* auto-retry per commit").  The ceiling is read from the listing before each
\* job's dispatch, and the run that was just dispatched for another job of the
\* commit need not be listed yet.
RetriesBounded == \A c \in Commits : AutoRetries(c) <= MaxAutoRetries

\* A job that no runner takes is not left to GitHub's timeout: its commit is
\* retried, or somebody dispatches it.
Starved(c) ==
    \E i \in DOMAIN ciruns, j \in Jobs :
       ciruns[i].sha = c /\ ciruns[i].jobs[j] = [at |-> "queued", age |-> AgeCap]
Retried(c) == \E i \in DOMAIN ciruns : ciruns[i].sha = c /\ ciruns[i].event = "workflow_dispatch"

StarvedRetried == \A c \in Commits : []<>(Starved(c) => Retried(c))
=============================================================================
