----------------------------- MODULE PlanExecutor -----------------------------
(***************************************************************************)
(* The executor and the verifier of agent/plan.py over the plan that       *)
(* PlanRepair leaves: steps become ready when their dependencies have been *)
(* answered, checks go first, downloads and ingests a check has made       *)
(* superfluous are skipped, the rest is started in batches whose steps     *)
(* have different schedule keys and awaited together, and a verdict is     *)
(* given on the results.                                                   *)
(*                                                                         *)
(* From one gather to the next the executor does not await, so all of it   *)
(* is one action.  What a step does is abstracted to its outcome, to what  *)
(* it does to the papers on disk and in the library, and to whether it     *)
(* stops to ask for an approval.  The verdict on a document being written, *)
(* which is read from the document, is left out.                           *)
(***************************************************************************)
EXTENDS PlanRepair

CONSTANTS
    Shape,     \* the kinds of step a plan may hold
    Name,      \* what papers are called, in plans and in the library
    Alike,     \* the names _ingest_guard takes for the same: one holds the other
    Finds,     \* the papers match_local_state takes a name to mean
    Shelf,     \* what may be on disk and in the library when the plan starts
    Key,       \* what a step may say that it touches
    Free,      \* the schedule key "" of a read
    Exclusive, \* the schedule key __exclusive__
    None,      \* nothing
    Limit,     \* AGENT_PLAN_MAX_CONCURRENCY
    Domain     \* domains of the turn

\* By target; a step of target "tool" by what the registry says of the tool, one
\* of target "ingest" by its action, "acquire" standing for
\* download_and_ingest.
Brings == {"download", "ingest", "acquire"}
Kind == {"auto", "check", "arxiv", "read", "effect", "unknown", "creator",
         "coder"} \cup Brings

Local == {"absent", "downloaded", "indexed"}

ASSUME ShapeAssumption ==
    /\ Shape # {}
    /\ \A h \in Shape :
          /\ h.kind \in Kind /\ h.gated \in BOOLEAN
          /\ h.paper \in Name \cup {None}  \* the paper it names
          /\ h.given \in Key \cup {None}   \* resource_key, if the model wrote one
          /\ h.arg \in Key \cup {None}     \* _resource_from_args
ASSUME NameAssumption ==
    /\ None \notin Name \cup Key
    /\ Alike \in [Name -> SUBSET Name] /\ Finds \in [Name -> SUBSET Name]
    /\ Shelf \subseteq [Name -> Local]
ASSUME KeyAssumption == Free \notin Key \cup Kind \cup {Exclusive}
ASSUME LimitAssumption == Limit \in Nat \ {0}
ASSUME DomainAssumption == Domain \subseteq {"paper", "coding"}

VARIABLES
    phase,   \* where the turn is
    plan,    \* the shape of each step
    domain,
    result,  \* results, by outcome
    batch,   \* the steps the executor awaits
    out,     \* what those have come to
    retried, \* steps that have had their second attempt
    said,    \* what a check_paper step found
    paper,   \* what is on disk and in the library
    asked,   \* steps that called interrupt() for an approval
    verdict

execVars == <<phase, plan, domain, result, batch, out, retried, said, paper,
              asked, verdict>>
vars == <<planVars, execVars>>

Outcome == {"none", "succeeded", "failed", "skipped"}
Verdict == {"none", "satisfied", "partial", "failed", "no_evidence"}

TypeOK ==
    /\ PlanTypeOK
    /\ phase \in {"plan", "run", "await", "verify", "over"}
    /\ plan \in [Step -> Shape]
    /\ domain \in Domain
    /\ result \in [Step -> Outcome] /\ out \in [Step -> Outcome \ {"skipped"}]
    /\ batch \subseteq live
    /\ retried \subseteq Step /\ asked \subseteq Step
    /\ said \in [Step -> Local \cup {"none"}]
    /\ paper \in [Name -> Local]
    /\ verdict \in Verdict

Init ==
    /\ PlanInit
    /\ phase = "plan"
    /\ plan = [s \in Step |-> CHOOSE h \in Shape : TRUE]
    /\ domain \in Domain
    /\ result = [s \in Step |-> "none"] /\ out = [s \in Step |-> "none"]
    /\ batch = {} /\ retried = {} /\ asked = {}
    /\ said = [s \in Step |-> "none"]
    /\ paper = [n \in Name |-> "absent"] /\ verdict = "none"

-------------------------------------------------------------------------------
(* Scheduling. *)

Answered(s) == result[s] # "none"
Ready(res) == {s \in live : res[s] = "none" /\
                  \A d \in deps[s] : d \in live /\ res[d] # "none"}

\* _step_schedule_key: what the model wrote goes first; a step with effects that
\* names nothing shares a key with the others of its tool or target.
Target(h) == IF h.kind \in Brings THEN "ingest" ELSE h.kind
KeyOf(h) ==
    CASE h.kind = "auto" -> Exclusive
      [] h.kind # "auto" /\ h.given # None -> h.given
      [] h.kind \in {"check", "arxiv", "read"} /\ h.given = None -> Free
      [] h.kind = "unknown" /\ h.given = None -> Exclusive
      [] OTHER -> IF h.arg # None THEN h.arg ELSE Target(h)
KeyAt(s) == KeyOf(plan[s])

Checks(S) == {s \in S : plan[s].kind = "check"}
First(S) == {s \in S : \A t \in S : s <= t}

\* A check that has succeeded under a name like that of the step.
Asked(s, c) ==
    /\ plan[s].kind \in Brings /\ plan[s].paper # None
    /\ plan[c].kind = "check" /\ plan[c].paper \in Alike[plan[s].paper]
    /\ result[c] = "succeeded"

\* Broken: a paper on disk is taken to be in the library.
GuardedLoose(s) == \E c \in live : Asked(s, c) /\ said[c] # "absent"

\* _ingest_guard: such a check has found a paper.
Guarded(s) ==
    \E c \in live :
        /\ Asked(s, c)
        /\ \/ said[c] = "indexed"
           \/ said[c] = "downloaded" /\ plan[s].kind # "ingest"

\* Broken: a lone step is alone only if it comes first.
BatchMixed(S) ==
    {s \in S : Cardinality({t \in S : t <= s}) <= Limit /\
                \/ KeyAt(s) = Free
                \/ \A t \in S : KeyAt(t) = KeyAt(s) => s <= t}

\* _select_schedulable_batch
Batch(S) ==
    LET lone == {s \in S : KeyAt(s) = Exclusive}
        before == {s \in S : \A x \in lone : s < x}
        first == {s \in before :
                    \/ KeyAt(s) = Free
                    \/ \A t \in before : KeyAt(t) = KeyAt(s) => s <= t}
    IN
    IF First(S) \subseteq lone THEN First(S)
    ELSE {s \in first : Cardinality({t \in first : t <= s}) <= Limit}

Await(S) ==
    /\ batch' = S /\ out' = [s \in Step |-> "none"]
    /\ phase' = "await"

\* The first look at the steps themselves, which the repair does not look at.
\* A plan that costs too much is not executed.
Start ==
    /\ phase = "plan" /\ stage = "planned"
    /\ plan' \in [Step -> Shape] /\ paper' \in Shelf
    /\ phase' = IF exceeded THEN "verify" ELSE "run"
    /\ UNCHANGED <<planVars, domain, result, batch, out, retried, said, asked,
                   verdict>>

StartChecks ==
    /\ phase = "run" /\ Checks(Ready(result)) # {}
    /\ Await(Checks(Ready(result)))
    /\ UNCHANGED <<planVars, plan, domain, result, retried, said, paper, asked,
                   verdict>>

\* The superfluous steps are skipped, and the batch is chosen among the steps
\* that are ready after that: among them steps the guard has not seen.
Dispatch ==
    LET res == [s \in Step |->
                  IF s \in Ready(result) /\ Guarded(s) THEN "skipped"
                                                       ELSE result[s]]
    IN
    /\ phase = "run" /\ Ready(result) # {} /\ Checks(Ready(result)) = {}
    /\ result' = res
    /\ IF Ready(res) = {} THEN phase' = "verify" /\ UNCHANGED <<batch, out>>
                          ELSE Await(Batch(Ready(res)))
    /\ UNCHANGED <<planVars, plan, domain, retried, said, paper, asked, verdict>>

\* Nothing is left, or nothing that could ever run.
Stop ==
    /\ phase = "run" /\ Ready(result) = {}
    /\ phase' = "verify"
    /\ UNCHANGED <<planVars, plan, domain, result, batch, out, retried, said,
                   paper, asked, verdict>>

-------------------------------------------------------------------------------
(* The steps of a batch, in any order. *)

Running(s) == phase = "await" /\ s \in batch /\ out[s] = "none"

\* A step that names no paper may bring in any.
Does(s) ==
    LET about == IF plan[s].paper = None THEN Name ELSE {plan[s].paper} IN
    CASE plan[s].kind = "download" ->
           {[paper EXCEPT ![n] = IF @ = "absent" THEN "downloaded" ELSE @] : n \in about}
      [] plan[s].kind \in {"ingest", "acquire"} ->
           {[paper EXCEPT ![n] = "indexed"] : n \in about}
      [] OTHER -> {paper}

\* match_local_state: the best of what is found.
Found(n) ==
    LET states == {paper[p] : p \in IF n = None THEN {} ELSE Finds[n]} IN
    CASE "indexed" \in states -> "indexed"
      [] "indexed" \notin states /\ "downloaded" \in states -> "downloaded"
      [] OTHER -> "absent"

Succeed(s) ==
    /\ Running(s)
    /\ out' = [out EXCEPT ![s] = "succeeded"]
    /\ paper' \in Does(s)
    /\ said' = IF plan[s].kind = "check"
               THEN [said EXCEPT ![s] = Found(plan[s].paper)] ELSE said
    /\ UNCHANGED <<planVars, phase, plan, domain, result, batch, retried, asked,
                   verdict>>

MayRetry(s) == /\ plan[s].kind \in {"check", "read", "effect", "unknown", "creator"}
               /\ s \notin retried

\* A creator that wrote nothing is always run again, a tool only if the error
\* says how: _retry_args_from_error.
Retry(s) ==
    /\ Running(s) /\ MayRetry(s)
    /\ retried' = retried \cup {s}
    /\ UNCHANGED <<planVars, phase, plan, domain, result, batch, out, said,
                   paper, asked, verdict>>

Fail(s) ==
    /\ Running(s) /\ ~(plan[s].kind = "creator" /\ MayRetry(s))
    /\ out' = [out EXCEPT ![s] = "failed"]
    /\ retried' = IF MayRetry(s) THEN retried \cup {s} ELSE retried
    /\ UNCHANGED <<planVars, phase, plan, domain, result, batch, said, paper,
                   asked, verdict>>

\* A side effect that needs an approval raises GraphInterrupt; gather hands it
\* over with the results (return_exceptions=True).
Interrupt(s) ==
    /\ Running(s) /\ plan[s].gated
    /\ out' = [out EXCEPT ![s] = "failed"]
    /\ asked' = asked \cup {s}
    /\ UNCHANGED <<planVars, phase, plan, domain, result, batch, retried, said,
                   paper, verdict>>

Gather ==
    /\ phase = "await" /\ \A s \in batch : out[s] # "none"
    /\ result' = [s \in Step |-> IF s \in batch THEN out[s] ELSE result[s]]
    /\ out' = [s \in Step |-> "none"] /\ batch' = {}
    /\ phase' = "run"
    /\ UNCHANGED <<planVars, plan, domain, retried, said, paper, asked, verdict>>

-------------------------------------------------------------------------------
(* verify_node. *)

Outstanding == {s \in live : result[s] \in {"none", "failed"}}
Evidence == {s \in live : result[s] = "succeeded"}

\* The verdict of the plan alone, refined by the model's, "none" if it gave
\* none: an outstanding step caps it.
Capped(llm) ==
    CASE llm = "none" /\ Outstanding # {} -> "partial"
      [] llm = "none" -> "satisfied"
      [] llm = "no_evidence" -> "partial"
      [] Outstanding # {} -> IF llm = "failed" THEN "failed" ELSE "partial"
      [] OTHER -> llm

\* No model is asked about a paper plan without anything outstanding.
PaperVerdict(llm) ==
    IF Evidence = {} THEN "no_evidence"
    ELSE IF Outstanding = {} THEN "satisfied" ELSE Capped(llm)

\* The experiments that answers refer to, if any, speak for a coding plan:
\* whatever the other steps have come to, it is satisfied if those are done.
CodingVerdicts(llm) ==
    {Capped(llm)} \cup
    (IF \E s \in live : Answered(s) THEN {"satisfied", "partial"} ELSE {})

Verdicts(llm) ==
    CASE live = {} -> {"no_evidence"}
      [] live # {} /\ domain = "paper" -> {PaperVerdict(llm)}
      [] live # {} /\ domain = "coding" -> CodingVerdicts(llm)

Verify(llm) ==
    /\ phase = "verify"
    /\ verdict' \in Verdicts(llm)
    /\ phase' = "over"
    /\ UNCHANGED <<planVars, plan, domain, result, batch, out, retried, said,
                   paper, asked>>

-------------------------------------------------------------------------------
Planning == PlanNext /\ UNCHANGED execVars
Act(s) == Succeed(s) \/ Retry(s) \/ Fail(s) \/ Interrupt(s)
Rest == phase = "over" /\ UNCHANGED vars

Next ==
    \/ Planning \/ Start \/ StartChecks \/ Dispatch \/ Stop
    \/ (\E s \in Step : Act(s))
    \/ Gather \/ (\E llm \in Verdict : Verify(llm)) \/ Rest

Spec == Init /\ [][Next]_vars

-------------------------------------------------------------------------------
(* Properties. *)

\* Every step of a plan that is executed gets an answer, whatever dependencies
\* the model wrote and whatever was dropped to save cost: the executor gives up
\* on steps that can never become ready (plan.py:1027-1030), and no plan makes
\* it do so.
AllAnswered ==
    phase \in {"verify", "over"} /\ ~exceeded => \A s \in live : Answered(s)

\* Steps in flight together, unless they are checks: none is an agent step or an
\* unknown tool, and no two of them with effects name the same document, project,
\* paper or file in the same words, or nothing and are of one kind, or were given
\* one key by the model (executor_node, plan.py:989-992).  What is called by two
\* names, or was given a key of its own, is another resource to the code.
Lone(h) == h.kind = "auto" \/ (h.kind = "unknown" /\ h.given = None)
Effect(h) == h.kind \in {"effect", "creator", "coder"} \cup Brings
Same(g, h) ==
    /\ g.given = h.given
    /\ g.given = None => g.arg = h.arg /\ (g.arg = None => Target(g) = Target(h))
NoOverlap ==
    \A s, t \in batch :
        s # t /\ Running(s) /\ Running(t) /\ Checks({s, t}) # {s, t} =>
            /\ ~Lone(plan[s])
            /\ Effect(plan[s]) /\ Effect(plan[t]) => ~Same(plan[s], plan[t])

\* A step is skipped because of what a check under a name like its own has found
\* and what is still so: some paper of such a name is there, and in the library if
\* the step was to put a paper on disk into it (_ingest_guard, plan.py:1997-2050).
\* It may be another paper than the step is about.
SkipJustified ==
    \A s \in live : result[s] = "skipped" =>
        \E c \in live :
            /\ Asked(s, c)
            /\ \E p \in Finds[plan[c].paper] :
                  /\ paper[p] \in {"downloaded", "indexed"}
                  /\ plan[s].kind = "ingest" => paper[p] = "indexed"

\* A step that a check has made superfluous is started all the same only if it
\* became ready when another step was skipped (plan.py:1054-1092).
GuardAsked ==
    \A s \in batch : Guarded(s) => \E d \in deps[s] : result[d] = "skipped"

GuardSound == SkipJustified /\ GuardAsked

\* The verdict "satisfied" on a plan about papers means that no step failed or
\* was left out and that some step delivered (verify_node, plan.py:2335-2345).
PaperVerdictHonest ==
    verdict = "satisfied" /\ domain = "paper" =>
        /\ \A s \in live : result[s] \in {"succeeded", "skipped"}
        /\ \E s \in live : result[s] = "succeeded"

\* VIOLATED.  "If check_paper has run in the plan and found the paper on disk or
\* in the library, the steps that download or ingest it are skipped" (the
\* docstring of executor_node, plan.py:994-995).
GuardHonoured == \A s \in batch : ~Guarded(s)

\* VIOLATED.  A side effect that asks for an approval waits for it
\* (docs/agent-platform-architecture.md:110): its step is not answered before.
PauseHonoured == \A s \in asked : ~Answered(s)

\* VIOLATED.  A failed or pending step is never covered up by the verdict
\* (agent/README.md:119).
FailureShown == verdict = "satisfied" => Outstanding = {}

-------------------------------------------------------------------------------
(* The invariant the properties rest on. *)

BatchInv ==
    /\ \A s \in batch : result[s] = "none"
    /\ \A s, t \in batch : s # t /\ Checks({s, t}) # {s, t} =>
          /\ KeyAt(s) # Exclusive
          /\ KeyAt(s) # KeyAt(t) \/ KeyAt(s) = Free

\* What a check has found stays true: no step takes a paper away.
SaidInv ==
    \A c \in Step : plan[c].paper # None =>
        /\ said[c] = "indexed" =>
              \E p \in Finds[plan[c].paper] : paper[p] = "indexed"
        /\ said[c] = "downloaded" =>
              \E p \in Finds[plan[c].paper] : paper[p] \in {"downloaded", "indexed"}

PhaseInv ==
    /\ phase # "await" => batch = {}
    /\ phase = "plan" => \A s \in Step : said[s] = "none" /\ result[s] = "none"
    /\ phase # "plan" => stage = "planned"
    /\ phase # "over" => verdict = "none"
    /\ phase \in {"verify", "over"} /\ ~exceeded => Ready(result) = {}

ExecInv ==
    /\ TypeOK /\ RepairInv /\ PhaseInv /\ BatchInv /\ SaidInv
    /\ GuardSound /\ PaperVerdictHonest

-----------------------------------------------------------------------------
\* For TLC: a check, steps it guards though they are for another paper, steps that
\* the model gave one key and that may stop for an approval, and one that runs
\* alone.
Like(kind, name, given, arg, gated) ==
    [kind |-> kind, paper |-> name, given |-> given, arg |-> arg, gated |-> gated]
Shapes == {Like("check", "unet", None, None, FALSE),
           Like("download", "nnunet", None, "paper", FALSE),
           Like("ingest", "nnunet", None, "paper", FALSE),
           Like("creator", None, "doc", None, TRUE),
           Like("auto", None, None, None, FALSE)}

\* "unet" is part of each of the other names; at most one paper is there.
Alikes == [n \in Name |-> IF n = "unet" THEN Name ELSE {n, "unet"}]
OneBook == {f \in [Name -> Local] :
              \A m, n \in Name : m # n => "absent" \in {f[m], f[n]}}
===============================================================================
