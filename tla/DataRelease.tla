---------------------------- MODULE DataRelease -----------------------------
(***************************************************************************)
(* How a new GTFS feed, or a change of the code that builds the database   *)
(* from it, reaches riders (.github/workflows/deployBackend.yml, called by *)
(* main.yml on every push and by updateGTFS.yml every night), composed     *)
(* with the edge cache the answers pass through (module EdgeCache).        *)
(*                                                                         *)
(* A run of the workflow builds the database, compares its feed version    *)
(* with the one the live backend reports, deploys the image unless it is a *)
(* nightly run and nothing changed, and, if the feed changed, deploys the  *)
(* edge worker again with a CACHE_VERSION made of its run id, so that the  *)
(* entries stored so far are never found again.  The deploy job is in a    *)
(* concurrency group: one at a time, at most one waiting.  The job that    *)
(* rotates the version comes after it and is not in the group.             *)
(***************************************************************************)
EXTENDS EdgeCache

CONSTANTS
  Runs,          \* workflow runs: github.run_id
  MaxFeed,       \* bound of the model: feeds CapMetro publishes
  MaxEtl,        \* bound of the model: merges that change what is built
  Failures,      \* whether a step of a run may fail
  Reruns         \* whether somebody may re-run a run that has ended

\* The database: the feed it was built from and the code that built it.
Database == [feed : 0..MaxFeed, etl : 0..MaxEtl]
FirstDatabase == [feed |-> 0, etl |-> 0]

VARIABLES
  feed,          \* the feed CapMetro publishes now
  etl,           \* the code on the main branch now
  run            \* the workflow runs

\* What the edge cache is deployed with: a version per run, after the
\* CACHE_VERSION of wrangler.toml, which is none of the run ids; and what the
\* backend is: a database.
ASSUME DataReleaseAssumption ==
  /\ Versions = Runs \cup {FirstVersion} /\ FirstVersion \notin Runs
  /\ Data = Database /\ FirstData = FirstDatabase
  /\ MaxFeed \in Nat /\ MaxEtl \in Nat
  /\ Reruns \in BOOLEAN

releaseVars == <<now, serving, version, store, req, feed, etl, run>>

Steps == {"none", "queued", "building", "built", "compared", "released",
          "invalidate", "done", "failed", "cancelled"}

\* The commit a run checks out is the one that was on main when it was
\* triggered (github.sha); nightly is only_if_feed_changed.
Run == [step : Steps, nightly : BOOLEAN, etl : 0..MaxEtl, built : Data,
        changed : BOOLEAN]

\* A run of commit c before its first step.
RunOf(c, nightly) ==
  [step |-> "none", nightly |-> nightly, etl |-> c, built |-> FirstData,
   changed |-> FALSE]
NoRun == RunOf(0, FALSE)

ReleaseInit ==
  /\ Init
  /\ feed = 0
  /\ etl = 0
  /\ run = [d \in Runs |-> NoRun]

At(d, step) == run[d].step = step
Goto(d, step) == run' = [run EXCEPT ![d].step = step]

\* The concurrency group deploy-backend.
InGroup(d) == run[d].step \in {"building", "built", "compared", "released"}
\* Mutant: there is no group.
GroupFreeAlways == TRUE
GroupFree == \A d \in Runs : ~InGroup(d)
NobodyWaits == \A d \in Runs : ~At(d, "queued")

(***************************************************************************)
(* A run asks for the group: it starts if the group is free, else it waits *)
(* and cancels whichever run was waiting.  A run asks as soon as it is     *)
(* triggered, so runs enter the group in the order of their triggers.  For *)
(* triggers that come close together GitHub does not promise that: the     *)
(* order is an assumption here, and NoRollback rests on it.                *)
(***************************************************************************)
\* Mutant: a waiting run is not replaced.
EnqueueBehind(d, record) ==
  /\ GroupFree => NobodyWaits
  /\ run' = [e \in Runs |->
       IF e = d THEN [record EXCEPT !.step = IF GroupFree THEN "building" ELSE "queued"]
       ELSE run[e]]
Enqueue(d, record) ==
  /\ GroupFree => NobodyWaits
  /\ run' = [e \in Runs |->
       IF e = d THEN [record EXCEPT !.step = IF GroupFree THEN "building" ELSE "queued"]
       ELSE IF At(e, "queued") THEN [run[e] EXCEPT !.step = "cancelled"]
       ELSE run[e]]

\* CapMetro publishes a feed.
Publish ==
  /\ feed < MaxFeed
  /\ feed' = feed + 1
  /\ UNCHANGED <<vars, etl, run>>

\* A push to main, with or without a change to what the database holds.
Push(d) ==
  /\ At(d, "none")
  /\ etl' \in {etl, etl + 1}
  /\ etl' <= MaxEtl
  /\ Enqueue(d, RunOf(etl', FALSE))
  /\ UNCHANGED <<vars, feed>>

\* The nightly run, or the same workflow dispatched by hand.
Nightly(d) ==
  /\ At(d, "none")
  /\ Enqueue(d, RunOf(etl, TRUE))
  /\ UNCHANGED <<vars, feed, etl>>

\* Somebody re-runs all jobs of a run: it keeps its id and its commit.
Rerun(d) ==
  /\ Reruns
  /\ run[d].step \in {"done", "failed", "cancelled"}
  /\ Enqueue(d, RunOf(run[d].etl, run[d].nightly))
  /\ UNCHANGED <<vars, feed, etl>>

\* The group is free again and the waiting run starts.
Acquire(d) ==
  /\ At(d, "queued")
  /\ GroupFree
  /\ Goto(d, "building")
  /\ UNCHANGED <<vars, feed, etl>>

\* python etl/main.py: downloads the feed of the day.
Build(d) ==
  /\ At(d, "building")
  /\ run' = [run EXCEPT ![d].step = "built",
                        ![d].built = [feed |-> feed, etl |-> run[d].etl]]
  /\ UNCHANGED <<vars, feed, etl>>

(***************************************************************************)
(* Compare with the live feed: the feed version, and nothing else, against *)
(* the one the backend reports; an unreachable backend reads as changed.   *)
(***************************************************************************)
\* Mutant: an unreachable backend reads as unchanged.
CompareUnreachableAsSame(d) ==
  /\ At(d, "built")
  /\ \E changed \in {FALSE, run[d].built.feed # serving.feed} :
       run' = [run EXCEPT ![d].step = "compared", ![d].changed = changed]
  /\ UNCHANGED <<vars, feed, etl>>
Compare(d) ==
  /\ At(d, "built")
  /\ \E changed \in {TRUE, run[d].built.feed # serving.feed} :
       run' = [run EXCEPT ![d].step = "compared", ![d].changed = changed]
  /\ UNCHANGED <<vars, feed, etl>>

\* A nightly run that found nothing new ends here.
Skip(d) ==
  /\ At(d, "compared")
  /\ run[d].nightly /\ ~run[d].changed
  /\ Goto(d, "done")
  /\ UNCHANGED <<vars, feed, etl>>

\* Build and push the image, deploy it to Cloud Run.
Deploy(d) ==
  /\ At(d, "compared")
  /\ ~run[d].nightly \/ run[d].changed
  /\ Release(run[d].built)
  /\ Goto(d, "released")
  /\ UNCHANGED <<feed, etl>>

\* The deploy job ends and leaves the group; the next job needs a changed feed.
EndDeployJob(d) ==
  /\ At(d, "released")
  /\ Goto(d, IF run[d].changed THEN "invalidate" ELSE "done")
  /\ UNCHANGED <<vars, feed, etl>>

\* invalidate-edge-cache: wrangler deploy --var CACHE_VERSION:gtfs-<run_id>.
Invalidate(d) ==
  /\ At(d, "invalidate")
  /\ Rotate(d)
  /\ Goto(d, "done")
  /\ UNCHANGED <<feed, etl>>

\* A step of a run fails, and the jobs that need it do not run.
Fail(d) ==
  /\ Failures
  /\ InGroup(d) \/ At(d, "invalidate")
  /\ Goto(d, "failed")
  /\ UNCHANGED <<vars, feed, etl>>

RunStep(d) ==
  \/ Acquire(d) \/ Build(d) \/ Compare(d) \/ Skip(d)
  \/ Deploy(d) \/ EndDeployJob(d) \/ Invalidate(d)

ReleaseNext ==
  \/ Publish
  \/ \E d \in Runs : Push(d) \/ Nightly(d) \/ Rerun(d)
  \/ \E d \in Runs : RunStep(d) \/ Fail(d)
  \/ WorkerNext /\ UNCHANGED <<feed, etl, run>>

\* A runner takes a waiting job and gets through its steps, or gives up.
Fairness == \A d \in Runs : WF_releaseVars(RunStep(d) \/ Fail(d))

ReleaseSpec == ReleaseInit /\ [][ReleaseNext]_releaseVars
ReleaseFairSpec == ReleaseSpec /\ Fairness

-----------------------------------------------------------------------------
(* Properties *)

\* Every variable holds a value of its kind.
ReleaseTypeOK ==
  /\ TypeOK
  /\ feed \in 0..MaxFeed
  /\ etl \in 0..MaxEtl
  /\ run \in [Runs -> Run]

\* No run is on its way and none has failed.
Settled == \A d \in Runs : run[d].step \in {"none", "done", "cancelled"}

\* The entries requests can hit now.
Current(p) == store[<<p, version>>]
CanHit(p) == Usable(<<p, version>>)

(***************************************************************************)
(* What the rotation of CACHE_VERSION is for: once a release is through,   *)
(* an answer that was produced from an older feed is never found in the    *)
(* cache, although requests that were on their way during the release      *)
(* store their answers whenever they are done.                             *)
(***************************************************************************)
SettledFeedLive ==
  Settled => \A p \in Paths :
               CanHit(p) => Current(p).data.feed = serving.feed

(***************************************************************************)
(* No release takes the backend back to an older feed or older code: a run *)
(* may have built its database long before it deploys it, and only the     *)
(* concurrency group keeps another run from deploying in between.          *)
(***************************************************************************)
NoRollback ==
  [][serving'.feed >= serving.feed /\ serving'.etl >= serving.etl]_releaseVars

\* Every run that is triggered comes to an end: the group is always given
\* back, also when a step fails.
RunsEnd ==
  \A d \in Runs :
    At(d, "queued") \/ InGroup(d) \/ At(d, "invalidate")
      ~> run[d].step \in {"done", "failed", "cancelled"}

=============================================================================
