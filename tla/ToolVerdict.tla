----------------------------- MODULE ToolVerdict -----------------------------
(***************************************************************************)
(* What one call of a tool comes to, from the declaration of the tool to    *)
(* the step of a plan that reads the answer: the tool's rights and the      *)
(* caller's (core/tool_registry.py, core/policy.py), the arguments, the      *)
(* approval asked for by the node before the round or by the gateway        *)
(* (nodes.py, core/approval.py, tools.py invoke_tool), the journal's row,    *)
(* the attempts (core/tool_gateway.py invoke), the error that a failure is   *)
(* mapped to (core/errors.py), and the same result in four forms: the        *)
(* gateway's, the operation's (core/contracts.py), the text on the wire,     *)
(* and the operation that a plan makes of that text (tool_contract.py).      *)
(* A pure function; the order of the steps of concurrent calls is in         *)
(* ToolGateway, that of a round in Turn.                                     *)
(***************************************************************************)
EXTENDS Integers, Sequences, FiniteSets, SequencesExt

CONSTANTS
    Calls,   \* inputs: [def, role, gate, path, answer, args, row, does]
    MaxTries \* attempts of a call that may be repeated

VARIABLES job, given, made
verdictVars == <<job, given, made>>

-----------------------------------------------------------------------------
(* The declaration: a tool of an MCP server writes unless it says it reads.     *)
\* Mutant: what says nothing reads.
ReadonlyTrusting(d) == d.hint # "no"
Readonly(d) == IF d.mcp THEN d.hint = "yes" ELSE d.hint # "no"
Rights(d) == {IF Readonly(d) THEN "read" ELSE "write"} \cup (IF d.open THEN {"network"} ELSE {})
Effect(d) == ~Readonly(d) \/ d.destroys
Needs(d)  == Effect(d) \/ "write" \in Rights(d)
Granted(role) ==
    CASE role \in {"user", "admin"} -> {"read", "write", "network"}
      [] role = "worker"            -> {"read", "network"}
      [] role = "observer"          -> {"read"}
      [] role \notin {"user", "admin", "worker", "observer"} -> {}
\* Without a context nobody's rights are looked at.
Decide(c) ==
    IF c.role # "none" /\ ~(Rights(c.def) \subseteq Granted(c.role)) THEN "deny"
    ELSE IF Needs(c.def) /\ c.gate THEN "approval" ELSE "allow"

\* Arguments are the fields given, at the top and in an object under one of
\* them; a schema closes every object that declares its fields and is silent.
Undeclared(args, schema) == ~schema.open /\ args \ schema.fields # {}
Invalid(d, args) ==
    \/ d.needed \ args.top # {} \/ Undeclared(args.top, d.top) \/ Undeclared(args.inner, d.inner)
\* The tool that a graph or a plan calls is a model of the top fields and takes
\* no others.
Refused(d, args) == d.needed \ args.top # {} \/ args.top \ d.top.fields # {}

-----------------------------------------------------------------------------
(* Errors are [type, code, retry, effect].                                      *)
Err(type, code, retry, effect) == [type |-> type, code |-> code, retry |-> retry, effect |-> effect]
NoErr == Err("", "", FALSE, "none")

Fleeting == {"tool_timeout", "tool_rate_limited", "tool_unavailable", "transient", "dependency"}
Refusals == {"validation", "authorization", "permission_denied", "policy"}
\* tool_envelope_error: the words that adapters use, and those of the wire.
TypeOf(word) ==
    CASE word \in {"validation", "param_error"}      -> "validation"
      [] word \in {"policy", "approval_required"}    -> "policy"
      [] word \in {"tool_timeout", "timeout"}        -> "tool_timeout"
      [] word \in {"tool_unavailable", "backend_down"} -> "tool_unavailable"
      [] word \in {"tool_rate_limited", "rate_limited"} -> "tool_rate_limited"
      [] word \in {"authorization", "permission_denied", "transient", "dependency", "checkpoint"} -> word
      [] word \in {"protocol_error", "tool_protocol_invalid"} -> "protocol"
      [] word = "tool_crash"                         -> "agent_runtime"
      [] OTHER                                       -> "tool"
CodeOf(word) ==
    CASE word = "approval_required"          -> "APPROVAL_REQUIRED"
      [] TypeOf(word) = "tool_timeout"       -> "TOOL_TIMEOUT"
      [] TypeOf(word) \in {"validation"}     -> "TOOL_ARGS_INVALID"
      [] OTHER                               -> "TOOL_OTHER"
EnvelopeError(word) ==
    Err(TypeOf(word), CodeOf(word), TypeOf(word) \in Fleeting,
        IF TypeOf(word) \in Refusals THEN "no" ELSE "unknown")
OutcomeFor(e) ==
    CASE e.code = "TOOL_TIMEOUT"      -> "timed_out"
      [] e.code = "APPROVAL_REQUIRED" -> "interrupted"
      [] e.code \notin {"TOOL_TIMEOUT", "APPROVAL_REQUIRED"} -> "failed"

-----------------------------------------------------------------------------
(* The gateway: what it answers is [outcome, error, ran], ran the attempts.     *)
Fails(e, ran)      == [outcome |-> OutcomeFor(e), error |-> e, ran |-> ran]
Delivers(o, ran)   == [outcome |-> o, error |-> NoErr, ran |-> ran]
Unsure(d) == IF Effect(d) THEN "unknown" ELSE "none"

\* What an adapter does: [kind, word, outcome, applied].
ErrorOf(d, b) ==
    CASE b.kind = "slow"      -> Err("tool_timeout", "TOOL_TIMEOUT", TRUE, "unknown")
      [] b.kind = "lost"      -> Err("tool_unavailable", "TOOL_UNAVAILABLE", TRUE, "unknown")
      [] b.kind = "raises"    -> Err("tool", "TOOL_EXECUTION_FAILED", FALSE, "unknown")
      [] b.kind = "malformed" -> Err("protocol", "TOOL_PROTOCOL_INVALID", FALSE, Unsure(d))
      [] b.kind = "shape"     -> Err("protocol", "TOOL_OUTPUT_INVALID", FALSE, Unsure(d))
      [] b.kind = "envelope"  -> EnvelopeError(b.word)
Good(b) == b.kind = "answer"
\* Mutant: what may be repeated is decided by the error alone.
AllowedAlways(d) == MaxTries
Allowed(d) == IF Effect(d) \/ ~d.again THEN 1 ELSE MaxTries
\* The attempt that ends the call: the first that is not worth another.
LastTry(c) ==
    LET ends(i) == i >= Allowed(c.def) \/ Good(c.does[i]) \/ ~ErrorOf(c.def, c.does[i]).retry
    IN  CHOOSE i \in 1..MaxTries : ends(i) /\ \A j \in 1..(i - 1) : ~ends(j)
Attempts(c) ==
    LET n == LastTry(c) IN
    IF Good(c.does[n]) THEN Delivers(c.does[n].outcome, n) ELSE Fails(ErrorOf(c.def, c.does[n]), n)

\* The journal's row of the same call, made earlier.
Reserved(c) ==
    CASE c.row = "broken"  -> Fails(Err("checkpoint", "IDEMPOTENCY_STORE_UNAVAILABLE", FALSE, "none"), 0)
      [] c.row = "done"    -> Delivers("succeeded", 0)
      [] c.row = "failed"  -> Fails(Err("validation", "SIDE_EFFECT_PREVIOUSLY_FAILED", FALSE, "no"), 0)
      [] c.row = "unknown" -> Fails(Err("checkpoint", "SIDE_EFFECT_OUTCOME_UNKNOWN", FALSE, "unknown"), 0)
      [] c.row = "running" -> Fails(Err("transient", "IDEMPOTENCY_IN_PROGRESS", TRUE, "none"), 0)
      [] c.row = "none"    -> Attempts(c)
Journalled(c) == IF Effect(c.def) THEN Reserved(c) ELSE Attempts(c)

\* Approvals: a round of the graph asks before it runs, and the gateway takes
\* that for its own; a plan's step leaves it to the gateway; the user's own
\* button has asked; anything else has nobody to ask.
AsksFirst(c) == c.path = "round" /\ c.gate /\ Needs(c.def)
Preapproved(c) == c.path = "button" \/ (AsksFirst(c) /\ c.answer = "yes")
GatewayAsks(c) == Decide(c) = "approval" /\ ~Preapproved(c)
\* Mutant: the gateway runs the call when there is nobody to ask.
InvokeOpen(c) == IF Decide(c) = "deny" THEN Fails(Err("authorization", "TOOL_NOT_PERMITTED", FALSE, "none"), 0)
                 ELSE IF Invalid(c.def, c.args) THEN Fails(Err("validation", "TOOL_ARGS_INVALID", TRUE, "none"), 0)
                 ELSE Journalled(c)
Invoke(c) ==
    IF Decide(c) = "deny" THEN Fails(Err("authorization", "TOOL_NOT_PERMITTED", FALSE, "none"), 0)
    ELSE IF Invalid(c.def, c.args) THEN Fails(Err("validation", "TOOL_ARGS_INVALID", TRUE, "none"), 0)
    ELSE IF GatewayAsks(c) /\ c.path = "alone" THEN Fails(Err("policy", "APPROVAL_REQUIRED", FALSE, "none"), 0)
    ELSE IF GatewayAsks(c) /\ c.answer # "yes" THEN Fails(Err("policy", "APPROVAL_DENIED", FALSE, "none"), 0)
    ELSE Journalled(c)

-----------------------------------------------------------------------------
(* The forms of a result.                                                       *)
NeedsError == {"failed", "timed_out", "cancelled"}
\* OperationResult accepts these, and raises otherwise.
Valid(o) == (o.outcome \in NeedsError) = (o.error # NoErr)
\* ToolCallOutcome.to_operation_result: an approval still to come is no error.
Operation(c, g) ==
    [outcome |-> g.outcome,
     error   |-> IF g.outcome = "interrupted" THEN NoErr
                 ELSE IF g.outcome \in NeedsError /\ g.error = NoErr
                      THEN Err("protocol", "TOOL_PROTOCOL_INVALID", FALSE, "none") ELSE g.error,
     effect  |-> IF g.outcome \in {"succeeded", "partial"} /\ Effect(c.def) THEN "yes"
                 ELSE IF g.outcome = "interrupted" THEN "none" ELSE g.error.effect]
\* to_envelope and parse_tool_result: type and code go with a failure.
Wire(o) == [outcome |-> o.outcome, type |-> o.error.type, code |-> o.error.code, retry |-> o.error.retry]
\* ToolResult.to_operation_result: the type is looked up again, as if it were an
\* adapter's word; code and retry are the ones that came.
Read(w) ==
    LET e == [EnvelopeError(w.type) EXCEPT !.code = IF w.code # "" THEN w.code ELSE @, !.retry = w.retry]
        error == IF w.outcome \in NeedsError THEN e ELSE NoErr
    IN  [outcome |-> w.outcome, error |-> error, effect |-> error.effect]
\* The failures that do not reach the gateway: a refused call, and one that its
\* tool does not take.
NodeError(c) == IF AsksFirst(c) /\ c.answer # "yes" THEN Err("policy", "APPROVAL_DENIED", FALSE, "none")
                ELSE Err("tool_crash", "TOOL_EXECUTION_FAILED", FALSE, "none")
ByNode(c) == \/ AsksFirst(c) /\ c.answer # "yes"
             \/ c.path \in {"round", "step"} /\ Refused(c.def, c.args)

Gateway(c)  == IF ByNode(c) THEN Fails(NodeError(c), 0) ELSE Invoke(c)
Finished(c) ==
    LET g == Gateway(c)
        o == Operation(c, g)
        w == Wire(o)
    IN  [outcome |-> g.outcome, operation |-> o, wire |-> w, read |-> Read(w), ran |-> g.ran,
         asked |-> (IF AsksFirst(c) THEN 1 ELSE 0)
                   + IF ~ByNode(c) /\ Decide(c) = "approval" /\ ~Invalid(c.def, c.args)
                        /\ GatewayAsks(c) /\ c.path # "alone" THEN 1 ELSE 0,
         marked |-> IF w.outcome \in NeedsError THEN "error" ELSE "success",  \* on the node's message
         shown  |-> CASE w.outcome = "succeeded"   -> "success"               \* on the page
                      [] w.outcome \in NeedsError  -> "error"
                      [] w.outcome \in {"partial", "interrupted"} -> w.outcome,
         cached |-> w.outcome = "succeeded"]

\* What a call may be: an adapter answers with a success, and one that refuses in an
\* envelope has applied nothing.
VerdictAssumption ==
    /\ MaxTries \in Nat \ {0}
    /\ \A c \in Calls :
          /\ c.row \in {"none", "done", "failed", "unknown", "running", "broken"}
          /\ \A i \in 1..MaxTries :
                LET b == c.does[i]
                IN  /\ b.kind \in {"slow", "lost", "raises", "malformed", "shape", "envelope", "answer"}
                    /\ b.kind = "answer" => b.outcome \in {"succeeded", "partial"}
                    /\ b.kind = "envelope" /\ TypeOf(b.word) \in Refusals => ~b.applied

VerdictInit == job = "call" /\ given \in Calls /\ made = <<>>
Answer == job = "call" /\ made' = Finished(given) /\ job' = "called" /\ UNCHANGED given
VerdictSpec == VerdictInit /\ [][Answer]_verdictVars

-----------------------------------------------------------------------------
Done == job = "called"
Tried == {given.does[i] : i \in 1..made.ran}

\* A tool that may change something runs only for a caller with the right, with
\* arguments it declares, and after a yes of the user to this call, who is asked
\* no more than once; a call that failed is repeated only if it just reads
\* (policy.py decide, nodes.py _preflight_approvals, consume_preapproved).
ApprovedFirst == Done =>
    /\ made.asked <= 1
    /\ made.ran > 0 =>
          /\ given.role # "none" => Rights(given.def) \subseteq Granted(given.role)
          /\ given.args.top \subseteq given.def.top.fields \/ given.def.top.open
          /\ given.def.mcp /\ given.def.hint # "yes" /\ given.gate =>
                given.path = "button" \/ (made.asked = 1 /\ given.answer = "yes")
    /\ made.ran > 1 => given.def.hint # "no" /\ ~given.def.destroys
                       /\ \A i \in 1..(made.ran - 1) : ~Good(given.does[i])

\* Nobody is told that nothing happened when it did, neither by the gateway nor
\* by what a plan makes of its text, and a success is only told of one
\* (effect_applied: errors.py, tool_gateway.py, tool_contract.py).
EffectTold == Done =>
    LET applied == Effect(given.def) /\ (\E b \in Tried : b.applied)
    IN  /\ applied => /\ made.operation.effect \in {"yes", "unknown"}
                      /\ made.outcome \in NeedsError => made.read.effect = "unknown"
        /\ made.outcome \in {"succeeded", "partial"} =>
              (Effect(given.def) /\ given.row = "done") \/ (\E b \in Tried : Good(b))
        /\ made.shown = "success" \/ made.cached => made.outcome = "succeeded"

\* All four forms tell the same, none is refused by the contract's validator,
\* and a failure keeps its code and whether it may be tried again.
OneVerdict == Done =>
    /\ Valid(made.operation) /\ Valid(made.read)
    /\ Cardinality({made.outcome, made.operation.outcome, made.wire.outcome, made.read.outcome}) = 1
    /\ made.outcome \in NeedsError =>
          /\ made.read.error.code = made.operation.error.code /\ made.read.error.code # ""
          /\ made.read.error.retry = made.operation.error.retry
    /\ (made.marked = "error") = (made.outcome \in NeedsError)

\* Observation, no run checks it: the kind of an error does not survive the
\* second look-up, which does not know half of its own words
\* (errors.py:80-100: "tool", "protocol", "agent_runtime").
KindKept == Done /\ made.outcome \in NeedsError => made.read.error.type = made.operation.error.type
=============================================================================
