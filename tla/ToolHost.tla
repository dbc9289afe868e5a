------------------------------- MODULE ToolHost -------------------------------
(***************************************************************************)
(* How tools come into place and go (agent/tools.py, providers/,           *)
(* agent/graph.py get_agent, web/api/routers/config.py).  The settings of  *)
(* tools, skills and MCP servers are files; a PUT writes them and reloads. *)
(* A build closes the MCP provider of the last build, makes a new one from *)
(* the files, and lists its tools; turns keep the compiled graph, and with *)
(* it the provider it was compiled with.  There is one MCP server, whose   *)
(* session each provider opens when it needs it.                           *)
(***************************************************************************)
EXTENDS Integers, FiniteSets

CONSTANTS Put,        \* requests that write settings and reload the tools
          User,       \* turns, each with one call of an MCP tool
          MaxBuilds,  \* providers
          MaxOpened,  \* sessions
          MaxBreaks   \* sessions the server drops

HostAssumption == /\ MaxBuilds \in Nat /\ MaxOpened \in Nat /\ MaxBreaks \in Nat
                  /\ Put \cap User = {} /\ "free" \notin Put \cup User

VARIABLES
    cfg,      \* version of the files; 0 at start
    bad,      \* versions that cannot be read as JSON
    lock,     \* _build_lock: its holder, or "free"
    built,    \* _built, with _tool_registry and _dispatcher
    cur,      \* the provider of the dispatcher in place; 0 before any
    prev,     \* _prev_mcp_provider
    made,     \* made[p]: the version provider p was made from
    index,    \* providers whose tool index is filled
    sess,     \* sess[p]: the session of provider p, 0 if none
    up,       \* sessions that are open
    breaks,   \* sessions dropped by the server so far
    opened,   \* sessions opened so far
    agent,    \* the provider the compiled graph was built with; 0 if there is no graph
    at,       \* at[k]: where process k is
    wrote,    \* wrote[k]: the version a PUT wrote
    takes,    \* takes[k]: the tool of turn k, "read" (readOnlyHint) or "write"
    holds,    \* holds[k]: the provider of the graph turn k runs
    via,      \* via[k]: the session of the call of turn k
    tries,    \* tries[k]: how often the call was sent
    ends      \* ends[k]: how process k ended

hostVars == <<cfg, bad, lock, built, cur, prev, made, index, sess, up, breaks, opened, agent,
              at, wrote, takes, holds, via, tries, ends>>

Process   == Put \cup User
Provider  == 1..MaxBuilds

HostInit ==
    /\ cfg = 0 /\ bad = {} /\ lock = "free" /\ built = FALSE /\ cur = 0 /\ prev = 0
    /\ made = [p \in Provider |-> 0] /\ index = {} /\ sess = [p \in Provider |-> 0]
    /\ up = {} /\ breaks = 0 /\ opened = 0 /\ agent = 0
    /\ at = [k \in Process |-> "idle"] /\ wrote = [k \in Put |-> 0]
    /\ takes \in [User -> {"read", "write"}] /\ holds = [k \in User |-> 0]
    /\ via = [k \in User |-> 0] /\ tries = [k \in User |-> 0]
    /\ ends = [k \in Process |-> "no"]

Files    == <<cfg, bad, wrote>>
Mcp      == <<index, sess, up, breaks, opened>>
Build    == <<lock, built, cur, prev, made>>
Call     == <<takes, holds, via, tries>>
Goes(k, l) == at' = [at EXCEPT ![k] = l]
Ends(k, e) == Goes(k, "ended") /\ ends' = [ends EXCEPT ![k] = e]

\* A PUT: the files are replaced (a user may as well edit them into something
\* that is not JSON), then the tools in place are taken away under the lock.
Write(k) ==
    /\ at[k] = "idle" /\ Goes(k, "clear")
    /\ cfg' = cfg + 1 /\ wrote' = [wrote EXCEPT ![k] = cfg']
    /\ bad' \in {bad, bad \cup {cfg'}}
    /\ UNCHANGED <<Mcp, Build, Call, agent, ends>>
\* Mutant: it does not wait for a build under way.
ClearUnlocked(k) ==
    /\ at[k] = "clear" /\ Goes(k, "ensure")
    /\ built' = FALSE
    /\ UNCHANGED <<Files, Mcp, lock, cur, prev, made, Call, agent, ends>>
Clear(k) ==
    /\ at[k] = "clear" /\ lock = "free" /\ Goes(k, "ensure")
    /\ built' = FALSE
    /\ UNCHANGED <<Files, Mcp, lock, cur, prev, made, Call, agent, ends>>

\* ensure_tools: whoever holds the lock and finds nothing in place builds.
After(k) == IF k \in Put THEN "invalidate" ELSE "saver"
EnsureBuilt(k) ==
    /\ at[k] = "ensure" /\ built /\ Goes(k, After(k))
    /\ UNCHANGED <<Files, Mcp, Build, Call, agent, ends>>
EnsureLock(k) ==
    /\ at[k] = "ensure" /\ ~built /\ lock = "free"
    /\ lock' = k /\ Goes(k, "locked")
    /\ UNCHANGED <<Files, Mcp, built, cur, prev, made, Call, agent, ends>>
Lose(p) == /\ sess' = [sess EXCEPT ![p] = 0]
           /\ up' = up \ {sess[p]}
ClosePrev(k) ==
    /\ at[k] = "locked" /\ Goes(k, "make")
    /\ IF prev = 0 THEN UNCHANGED Mcp
       ELSE Lose(prev) /\ index' = index \ {prev} /\ UNCHANGED <<breaks, opened>>
    /\ UNCHANGED <<Files, Build, Call, agent, ends>>
Make(k) ==
    /\ at[k] = "make"
    /\ IF cfg \in bad
       THEN /\ lock' = "free" /\ Ends(k, "failed")
            /\ UNCHANGED <<built, cur, prev, made>>
       ELSE /\ prev' = Cardinality({p \in Provider : made[p] # 0}) + 1
            /\ prev' \in Provider /\ made' = [made EXCEPT ![prev'] = cfg + 1]
            /\ Goes(k, "list") /\ UNCHANGED <<lock, built, cur, ends>>
    /\ UNCHANGED <<Files, Mcp, Call, agent>>
\* Listing opens the session; a server that does not answer adds no tools.
Opens(p) == /\ opened < MaxOpened /\ opened' = opened + 1
            /\ sess' = [sess EXCEPT ![p] = opened'] /\ up' = up \cup {opened'}
            /\ UNCHANGED breaks
Discover(p) == \/ Opens(p) /\ index' = index \cup {p}
               \/ UNCHANGED Mcp
Install(k) ==
    /\ at[k] = "list" /\ Discover(prev)
    /\ built' = TRUE /\ cur' = prev /\ lock' = "free" /\ Goes(k, After(k))
    /\ UNCHANGED <<Files, prev, made, Call, agent, ends>>

\* A reload that built drops the compiled graph; one that failed does not.
Invalidate(k) ==
    /\ at[k] = "invalidate" /\ Ends(k, "ok")
    /\ agent' = 0
    /\ UNCHANGED <<Files, Mcp, Build, Call>>

\* get_agent, then prepare_turn, which refuses a turn while no tools are in
\* place.  The graph is compiled after an await, with the tools of that moment.
Begin(k) ==
    /\ at[k] = "idle" /\ Goes(k, IF agent = 0 THEN "ensure" ELSE "start")
    /\ UNCHANGED <<Files, Mcp, Build, Call, agent, ends>>
Compile(k) ==
    /\ at[k] = "saver" /\ Goes(k, "start")
    /\ agent' = IF agent # 0 THEN agent ELSE cur
    /\ UNCHANGED <<Files, Mcp, Build, Call, ends>>
Start(k) ==
    /\ at[k] = "start"
    /\ IF built /\ agent # 0 THEN Goes(k, "call") /\ UNCHANGED ends ELSE Ends(k, "refused")
    /\ holds' = [holds EXCEPT ![k] = agent]
    /\ UNCHANGED <<Files, Mcp, Build, agent, takes, via, tries>>

\* MCPProvider.call_tool: the index is filled again if the provider was closed,
\* the session opened again if it was lost.
Connect(k) ==
    LET p == holds[k]
    IN  /\ at[k] \in {"call", "again"}
        /\ IF p \notin index /\ at[k] = "call"
           THEN /\ Discover(p) /\ UNCHANGED <<via, ends>>
                /\ IF p \in index' THEN UNCHANGED at ELSE Ends(k, "raised")
           ELSE IF sess[p] # 0
                THEN /\ via' = [via EXCEPT ![k] = sess[p]]
                     /\ Goes(k, IF at[k] = "call" THEN "sent" ELSE "resent")
                     /\ UNCHANGED <<Mcp, ends>>
                ELSE Goes(k, IF at[k] = "call" THEN "dial" ELSE "redial")
                     /\ UNCHANGED <<Mcp, via, ends>>
        /\ UNCHANGED <<Files, Build, agent, takes, holds, tries>>
Dial(k) ==
    /\ at[k] \in {"dial", "redial"} /\ Opens(holds[k]) /\ UNCHANGED index
    /\ via' = [via EXCEPT ![k] = opened']
    /\ Goes(k, IF at[k] = "dial" THEN "sent" ELSE "resent")
    /\ UNCHANGED <<Files, Build, agent, takes, holds, tries, ends>>
Answered(k) ==
    /\ at[k] \in {"sent", "resent"} /\ via[k] \in up
    /\ tries' = [tries EXCEPT ![k] = @ + 1] /\ Ends(k, "ok")
    /\ UNCHANGED <<Files, Mcp, Build, agent, takes, holds, via>>
\* A session that is gone: the call may have arrived before.  Only a tool that
\* reads is called again, after the session in place - whichever - was dropped.
Fails(k) ==
    /\ at[k] \in {"sent", "resent"} /\ via[k] \notin up
    /\ tries' = [tries EXCEPT ![k] = @ + 1]
    /\ IF at[k] = "sent" /\ takes[k] = "read"
       THEN Lose(holds[k]) /\ Goes(k, "again") /\ UNCHANGED ends
       ELSE Ends(k, "raised") /\ UNCHANGED <<sess, up>>
    /\ UNCHANGED <<Files, Build, agent, index, breaks, opened, takes, holds, via>>

ServerDrops ==
    /\ breaks < MaxBreaks /\ up # {} /\ breaks' = breaks + 1
    /\ \E s \in up : up' = up \ {s}
    /\ UNCHANGED <<Files, Build, Call, agent, index, sess, opened, at, ends>>

Ensures(k) == EnsureBuilt(k) \/ EnsureLock(k) \/ ClosePrev(k) \/ Make(k) \/ Install(k)
PutStep(k) == Write(k) \/ Clear(k) \/ Ensures(k) \/ Invalidate(k)
UserStep(k) == Begin(k) \/ Ensures(k) \/ Compile(k) \/ Start(k) \/ Connect(k) \/ Dial(k)
               \/ Answered(k) \/ Fails(k)
HostNext == (\E k \in Put : PutStep(k)) \/ (\E k \in User : UserStep(k)) \/ ServerDrops
HostSpec == HostInit /\ [][HostNext]_hostVars

-----------------------------------------------------------------------------
\* When a PUT has answered, the tools in place were made from files at least as
\* new as its own, whoever built them (reload_tools and ensure_tools).
ReloadTakesEffect == \A k \in Put : ends[k] = "ok" /\ built => made[cur] - 1 >= wrote[k]

\* While no reload is under way the next turn runs with the tools in place,
\* unless a reload has failed (get_agent and invalidate_agent_graph).
Reloads == {k \in Put : at[k] \notin {"idle", "clear", "ended"}}
GraphCurrent == built /\ agent # 0 /\ Reloads = {} /\ (\A k \in Put : ends[k] # "failed")
                  => agent = cur

\* A tool that has effects is sent once, one that reads twice at most
\* (MCPProvider.call_tool).
SentAtMost == \A k \in User : tries[k] <= (IF takes[k] = "read" THEN 2 ELSE 1)

\* A turn is refused only while a reload is under way, or after one that failed.
RefusedInReload == \A k \in User : at[k] = "start" /\ ~built =>
    Reloads # {} \/ \E r \in Put : ends[r] = "failed"

\* Observations, not checked by a run: sessions of replaced providers stay open,
\* and a retry drops the session another call has just opened.
NoOrphans == \A s \in up : (\E p \in Provider : sess[p] = s) /\ (built => s = sess[cur])
=============================================================================
