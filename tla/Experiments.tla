---------------------------- MODULE Experiments -----------------------------
(***************************************************************************)
(* Experiments of one project (agent/domains/coding.py, manifest.py): a    *)
(* tool starts a command as a child process, a watcher task records how it *)
(* ended - in the experiment's state file, in the study of the project and *)
(* in the project's manifest - and copies the metrics file that lies in    *)
(* the project's directory, which all its experiments share.               *)
(***************************************************************************)
EXTENDS Integers, Sequences, FiniteSets, SequencesExt

CONSTANTS Exp,          \* the experiments
          MaxRunning,   \* _MAX_RUNNING_EXPERIMENTS
          StudyMax,     \* records a study keeps (100)
          MaxEvents,    \* bound: commits and bindings of the project
          MaxRestarts   \* bound: restarts of the server

ExperimentsAssumption ==
    /\ MaxRunning \in Nat \ {0} /\ StudyMax \in Nat \ {0}
    /\ MaxEvents \in Nat /\ MaxRestarts \in Nat
    /\ 0 \notin Exp

Ended == {"done", "failed"}

VARIABLES
    state,    \* state.json of each experiment: status, and whose metrics it has
    job,      \* its process: "none", "starting", "live", "ok" or "error"
    watch,    \* _bg_tasks: experiments whose watcher runs
    starting, \* _starting_experiments
    project,  \* the project's directory: the experiment that wrote metrics.json
    card,     \* the manifest: status, last_run
    log,      \* the manifest's changelog
    study,    \* the study's records: experiment, status, whose metrics
    lapses,   \* restarts so far
    events    \* commits and bindings so far

xvars == <<state, job, watch, starting, project, card, log, study, lapses, events>>

Init ==
    /\ state = [e \in Exp |-> [st |-> "none", metrics |-> 0]]
    /\ job = [e \in Exp |-> "none"] /\ watch = {} /\ starting = 0
    /\ project = 0 /\ card = [st |-> "draft", last |-> 0] /\ log = <<>>
    /\ study = <<>> /\ lapses = 0 /\ events = 0

-----------------------------------------------------------------------------
(* The manifest: log_event hands its entry to update_manifest, which first   *)
(* replaces the changelog by it and then appends it. *)

Logged(entry) == <<entry, entry>>

\* Watchers that have not ended, and runs between the check and their watcher.
\* Mutant: runs that wait for their process are not counted.
ActiveWatched == Cardinality(watch)
Active == starting + Cardinality(watch)

-----------------------------------------------------------------------------
(* run_experiment: everything up to the start of the process is one step. *)

RunExperiment(e) ==
    /\ state[e].st = "none" /\ Active < MaxRunning
    /\ state' = [state EXCEPT ![e].st = "running"]
    /\ card' = [st |-> "running", last |-> e] /\ log' = Logged(e)
    /\ starting' = starting + 1 /\ job' = [job EXCEPT ![e] = "starting"]
    /\ UNCHANGED <<watch, project, study, lapses, events>>

\* _spawn: the process runs and is watched, or could not be started (which only
\* the state file says: the tool still answers "running").
Spawned(e) ==
    /\ job[e] = "starting" /\ starting' = starting - 1
    /\ \/ job' = [job EXCEPT ![e] = "live"] /\ watch' = watch \cup {e} /\ state' = state
       \/ /\ job' = [job EXCEPT ![e] = "error"] /\ watch' = watch
          /\ state' = [state EXCEPT ![e].st = "failed"]
    /\ UNCHANGED <<project, card, log, study, lapses, events>>

\* The command at work: it writes metrics.json, it ends.
WritesMetrics(e) ==
    /\ job[e] = "live" /\ project # e /\ project' = e
    /\ UNCHANGED <<state, job, watch, starting, card, log, study, lapses, events>>
Exits(e) ==
    /\ job[e] = "live" /\ \E rc \in {"ok", "error"} : job' = [job EXCEPT ![e] = rc]
    /\ UNCHANGED <<state, watch, starting, project, card, log, study, lapses, events>>

-----------------------------------------------------------------------------
(* _watch, after proc.wait: it runs to its end without an await. *)

Outcome(e) == IF job[e] = "ok" THEN "done" ELSE "failed"

\* _archive_metrics copies what lies in the project's directory; without a file
\* there the experiment's own copy, if any, stays.
Archived(e) == IF project # 0 THEN project ELSE state[e].metrics

\* _study_archive keeps the last records.
Archive(records, r) ==
    LET all == Append(records, r)
    IN  IF Len(all) > StudyMax THEN Tail(all) ELSE all

Watched(e) ==
    /\ e \in watch /\ job[e] \in {"ok", "error"}
    /\ watch' = watch \ {e}
    /\ state' = [state EXCEPT ![e] = [st |-> Outcome(e), metrics |-> Archived(e)]]
    /\ study' = Archive(study, [exp |-> e, st |-> Outcome(e), metrics |-> Archived(e)])
    /\ card' = [st |-> Outcome(e), last |-> e]
    /\ UNCHANGED <<job, starting, project, log, lapses, events>>

-----------------------------------------------------------------------------
(* Other writers of the manifest. *)

\* git_commit, delegate_code_task: an entry of the changelog.
Noted ==
    /\ events < MaxEvents /\ events' = events + 1 /\ log' = Logged(0)
    /\ UNCHANGED <<state, job, watch, starting, project, card, study, lapses>>

\* set_experiment_project: the status is draft again, whatever runs.
Bind ==
    /\ events < MaxEvents /\ events' = events + 1
    /\ card' = [card EXCEPT !.st = "draft"] /\ log' = Logged(0)
    /\ UNCHANGED <<state, job, watch, starting, project, study, lapses>>

\* The server restarts: watchers are gone, a process may outlive them.
Restart ==
    /\ lapses < MaxRestarts /\ lapses' = lapses + 1
    /\ watch' = {} /\ starting' = 0
    /\ \E killed \in SUBSET {e \in Exp : job[e] \in {"starting", "live"}} :
         job' = [e \in Exp |-> IF e \in killed \/ job[e] = "starting" THEN "error" ELSE job[e]]
    /\ UNCHANGED <<state, project, card, log, study, events>>

-----------------------------------------------------------------------------
(* Who reads the records. *)

\* task_registry: the status an experiment has in the list of all tasks.
Listed(e) == CASE state[e].st = "running" -> "running"
               [] state[e].st = "done"    -> "done"
               [] state[e].st = "failed"  -> "failed"
               [] OTHER                   -> "other"

\* _verify_coding_domain: the verdict on the experiments a turn's answers name.
Verdict(named) ==
    IF named = {} THEN "none"
    ELSE IF \A e \in named : state[e].st = "done" THEN "satisfied" ELSE "partial"

-----------------------------------------------------------------------------
Next ==
    \/ \E e \in Exp : RunExperiment(e) \/ Spawned(e) \/ WritesMetrics(e) \/ Exits(e) \/ Watched(e)
    \/ Noted \/ Bind \/ Restart

Spec == Init /\ [][Next]_xvars
\* The event loop starts processes and wakes watchers; commands end.
Fairness == \A e \in Exp : WF_xvars(Spawned(e)) /\ WF_xvars(Exits(e)) /\ WF_xvars(Watched(e))
FairSpec == Spec /\ Fairness

TypeOK ==
    /\ state \in [Exp -> [st : {"none", "running", "done", "failed"}, metrics : Exp \cup {0}]]
    /\ job \in [Exp -> {"none", "starting", "live", "ok", "error"}]
    /\ watch \subseteq Exp /\ starting \in Nat
    /\ project \in Exp \cup {0}
    /\ card.st \in {"draft", "running"} \cup Ended /\ card.last \in Exp \cup {0}
    /\ Len(log) <= 2 /\ Len(study) <= StudyMax
    /\ lapses \in 0..MaxRestarts /\ events \in 0..MaxEvents

Watchable == {e \in Exp : e \in watch \/ job[e] = "starting"}

\* The server never has more experiments on its way than allowed, although a run
\* awaits its process between the check and the moment its watcher counts
\* (coding.py:409-447); and the count of the starting ones is exact.
RunningBounded ==
    /\ Cardinality(Watchable) <= MaxRunning
    /\ starting = Cardinality({e \in Exp : job[e] = "starting"})

\* What a study says of an experiment is what its record says, once; and a verdict
\* of a turn rests on processes that really ended well (coding.py:241-250, plan.py:2152).
RecordsAgree ==
    /\ \A i, j \in DOMAIN study : study[i].exp = study[j].exp => i = j
    /\ \A i \in DOMAIN study : LET e == study[i].exp IN
           state[e].st = study[i].st /\ state[e].metrics = study[i].metrics
    /\ \A named \in SUBSET Exp :
           Verdict(named) = "satisfied" => \A e \in named : job[e] = "ok"

\* An experiment whose server goes on living gets the record of its end.
EndIsRecorded ==
    \A e \in Exp : (e \in watch) ~> (Listed(e) \in Ended \/ lapses > 0)

-----------------------------------------------------------------------------
(* What the documents say and the code does not do. *)

\* coding.py:747: the metrics "written by the command" are parsed on completion.
MetricsAreOwn == \A e \in Exp : state[e].metrics \in {0, e}

\* manifest.py:110: the changelog is appended to, kept and not replaced.
ChangelogKept == [][\A i \in DOMAIN log : Contains(log', log[i])]_log

\* manifest.py:16: the project is running while one of its experiments runs.
CardHonest == (\E e \in Exp : job[e] = "live" /\ e \in watch) => card.st = "running"
=============================================================================
