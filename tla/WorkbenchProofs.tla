--------------------------- MODULE WorkbenchProofs ---------------------------
(***************************************************************************)
(* What is kept around the tools and on the page, for every value of the   *)
(* constants of Workbench.                                                 *)
(***************************************************************************)
EXTENDS Workbench, FiniteSetTheorems, SequenceTheorems, WellFoundedInduction, TLAPS

Building == {"locked", "make", "list"}
Failed   == \E k \in Put : ends[k] = "failed"

\* The shape of what the tools in place depend on.
HostTyped ==
    /\ cfg \in Nat /\ built \in BOOLEAN /\ cur \in 0..MaxBuilds /\ prev \in 0..MaxBuilds
    /\ made \in [Host!Provider -> Nat] /\ agent \in 0..MaxBuilds
    /\ at \in [Host!Process -> {"idle", "clear", "ensure", "locked", "make", "list", "invalidate",
         "saver",
                           "start", "call", "again", "sent", "resent", "dial", "redial", "ended"}]
    /\ wrote \in [Put -> Nat] /\ takes \in [HostUser -> {"read", "write"}]
    /\ tries \in [HostUser -> Nat]
         /\ ends \in [Host!Process -> {"no", "ok", "failed", "refused", "raised"}]
    /\ \A k \in Put : at[k] \in {"idle", "clear", "ensure", "invalidate", "ended"} \cup Building
    /\ \A k \in HostUser : at[k] \notin {"clear", "invalidate"}

\* One process builds, with the lock, while nothing is in place; a provider that is
\* in place, or is to be, is the newest, and none is made from files still to come.
Locked ==
    /\ lock \in Host!Process \cup {"free"}
    /\ \A k \in Host!Process : at[k] \in Building <=> lock = k
    /\ lock # "free" => ~built
    /\ built => cur = prev /\ cur # 0
    /\ \A p \in Host!Provider : made[p] # 0 <=> p <= prev
    /\ \A k \in Host!Process : at[k] = "list" => prev # 0

\* What is in place, or is to be, is at least as new as what a request wrote that
\* has taken the tools away.
Fresh ==
    /\ \A k \in Put : wrote[k] <= cfg
    /\ \A k \in Put : at[k] \notin {"idle", "clear"} =>
          /\ built => made[cur] - 1 >= wrote[k]
          /\ \A j \in Host!Process : at[j] = "list" => made[prev] - 1 >= wrote[k]
    /\ \A k \in Put : ends[k] # "no" => at[k] = "ended"

\* Tools that were in place once are in place, or a reload brings them back, or one
\* has failed; the graph is that of the tools in place, but for a reload.
Back    == cur # 0 => \/ built \/ Failed
                      \/ \E k \in Put : at[k] \in {"ensure"} \cup Building
Compiled ==
    /\ agent # 0 => cur # 0
    /\ \A k \in HostUser : at[k] \in {"saver", "start"} => cur # 0
    /\ agent # 0 /\ Host!Reloads = {} /\ ~Failed => agent = cur

\* A call is sent again once, and only if it reads.
Sent ==
    \A k \in HostUser :
       /\ at[k] \notin {"again", "redial", "resent", "ended"} => tries[k] = 0
       /\ at[k] \in {"again", "redial", "resent"} => tries[k] = 1 /\ takes[k] = "read"
       /\ tries[k] <= (IF takes[k] = "read" THEN 2 ELSE 1)

HostInv == HostTyped /\ Locked /\ Fresh /\ Back /\ Compiled /\ Sent

\* The library counts the same in the instance.
LEMMA HostCount == \A S : Host!Cardinality(S) = Cardinality(S)
BY DEF Host!Cardinality, Cardinality

\* Providers are numbered in the order in which they are made.
LEMMA Numbered ==
  ASSUME HostInv
  PROVE  Host!Cardinality({p \in Host!Provider : made[p] # 0}) = prev
<1>1. /\ MaxBuilds \in Nat /\ prev \in 0..MaxBuilds
      /\ \A p \in 1..MaxBuilds : made[p] # 0 <=> p <= prev
  BY WorkbenchAssumption DEF HostInv, HostTyped, Locked, Host!HostAssumption, Host!Provider
<1>2. ASSUME NEW p PROVE p \in {q \in 1..MaxBuilds : made[q] # 0} <=> p \in 1..prev
  BY <1>1
<1>3. {p \in Host!Provider : made[p] # 0} = 1..prev
  BY <1>2 DEF Host!Provider
<1>4. Host!Cardinality(1..prev) = prev
  BY <1>1, FS_Interval, HostCount
<1> QED BY <1>3, <1>4

\* Writing the settings keeps the invariant (agent/tools.py).
LEMMA HostWrite ==
  ASSUME HostInv, NEW k \in Put, Host!Write(k)
  PROVE  HostInv'
<1> USE WorkbenchAssumption DEF HostInv, Host!HostAssumption, Host!Process, Host!Provider,
        Host!Files, Host!Mcp, Host!Build, Host!Call, Host!Write, Host!Goes, Host!Ends, Host!After,
            Host!Lose, Host!Opens, Host!Discover
<1>1. HostTyped'
  BY DEF HostTyped, Locked, Fresh, Back, Compiled, Sent, Building
<1>2. Locked'
  BY DEF HostTyped, Locked, Fresh, Back, Compiled, Sent, Building
<1>3. Fresh'
  BY DEF HostTyped, Locked, Fresh, Back, Compiled, Sent, Building
<1>4. Back'
  BY DEF HostTyped, Locked, Fresh, Back, Compiled, Sent, Building, Failed
<1>5. Compiled'
  BY DEF HostTyped, Locked, Fresh, Back, Compiled, Sent, Failed, Host!Reloads, Building
<1>6. Sent'
  BY DEF HostTyped, Locked, Fresh, Back, Compiled, Sent, Building
<1> QED BY <1>1, <1>2, <1>3, <1>4, <1>5, <1>6

\* Taking the tools out of place keeps it.
LEMMA HostClear ==
  ASSUME HostInv, NEW k \in Put, Host!Clear(k)
  PROVE  HostInv'
<1> USE WorkbenchAssumption DEF HostInv, Host!HostAssumption, Host!Process, Host!Provider,
        Host!Files, Host!Mcp, Host!Build, Host!Call, Host!Clear, Host!Goes, Host!Ends, Host!After,
            Host!Lose, Host!Opens, Host!Discover
<1>1. HostTyped'
  BY DEF HostTyped, Locked, Fresh, Back, Compiled, Sent, Building
<1>2. Locked'
  BY DEF HostTyped, Locked, Fresh, Back, Compiled, Sent, Building
<1>3. Fresh'
  BY DEF HostTyped, Locked, Fresh, Back, Compiled, Sent, Building
<1>4. Back'
  BY DEF HostTyped, Locked, Fresh, Back, Compiled, Sent, Building, Failed
<1>5. Compiled'
  BY DEF HostTyped, Locked, Fresh, Back, Compiled, Sent, Failed, Host!Reloads, Building
<1>6. Sent'
  BY DEF HostTyped, Locked, Fresh, Back, Compiled, Sent, Building
<1> QED BY <1>1, <1>2, <1>3, <1>4, <1>5, <1>6

\* Finding them in place keeps it.
LEMMA HostEnsureBuilt ==
  ASSUME HostInv, NEW k \in Host!Process, Host!EnsureBuilt(k)
  PROVE  HostInv'
<1> USE WorkbenchAssumption DEF HostInv, Host!HostAssumption, Host!Process, Host!Provider,
        Host!Files, Host!Mcp, Host!Build, Host!Call, Host!EnsureBuilt, Host!Goes, Host!Ends,
            Host!After, Host!Lose, Host!Opens, Host!Discover
<1>1. HostTyped'
  BY DEF HostTyped, Locked, Fresh, Back, Compiled, Sent, Building
<1>2. Locked'
  BY DEF HostTyped, Locked, Fresh, Back, Compiled, Sent, Building
<1>3. Fresh'
  BY DEF HostTyped, Locked, Fresh, Back, Compiled, Sent, Building
<1>4. Back'
  BY DEF HostTyped, Locked, Fresh, Back, Compiled, Sent, Building, Failed
<1>5. Compiled'
  BY DEF HostTyped, Locked, Fresh, Back, Compiled, Sent, Failed, Host!Reloads, Building
<1>6. Sent'
  BY DEF HostTyped, Locked, Fresh, Back, Compiled, Sent, Building
<1> QED BY <1>1, <1>2, <1>3, <1>4, <1>5, <1>6

\* Taking the lock to build keeps it.
LEMMA HostEnsureLock ==
  ASSUME HostInv, NEW k \in Host!Process, Host!EnsureLock(k)
  PROVE  HostInv'
<1> USE WorkbenchAssumption DEF HostInv, Host!HostAssumption, Host!Process, Host!Provider,
        Host!Files, Host!Mcp, Host!Build, Host!Call, Host!EnsureLock, Host!Goes, Host!Ends,
            Host!After, Host!Lose, Host!Opens, Host!Discover
<1>1. HostTyped'
  BY DEF HostTyped, Locked, Fresh, Back, Compiled, Sent, Building
<1>2. Locked'
  BY DEF HostTyped, Locked, Fresh, Back, Compiled, Sent, Building
<1>3. Fresh'
  BY DEF HostTyped, Locked, Fresh, Back, Compiled, Sent, Building
<1>4. Back'
  BY DEF HostTyped, Locked, Fresh, Back, Compiled, Sent, Building, Failed
<1>5. Compiled'
  BY DEF HostTyped, Locked, Fresh, Back, Compiled, Sent, Failed, Host!Reloads, Building
<1>6. Sent'
  BY DEF HostTyped, Locked, Fresh, Back, Compiled, Sent, Building
<1> QED BY <1>1, <1>2, <1>3, <1>4, <1>5, <1>6

\* Closing the provider before keeps it.
LEMMA HostClosePrev ==
  ASSUME HostInv, NEW k \in Host!Process, Host!ClosePrev(k)
  PROVE  HostInv'
<1> USE WorkbenchAssumption DEF HostInv, Host!HostAssumption, Host!Process, Host!Provider,
        Host!Files, Host!Mcp, Host!Build, Host!Call, Host!ClosePrev, Host!Goes, Host!Ends,
            Host!After, Host!Lose, Host!Opens, Host!Discover
<1>1. HostTyped'
  BY DEF HostTyped, Locked, Fresh, Back, Compiled, Sent, Building
<1>2. Locked'
  BY DEF HostTyped, Locked, Fresh, Back, Compiled, Sent, Building
<1>3. Fresh'
  BY DEF HostTyped, Locked, Fresh, Back, Compiled, Sent, Building
<1>4. Back'
  BY DEF HostTyped, Locked, Fresh, Back, Compiled, Sent, Building, Failed
<1>5. Compiled'
  BY DEF HostTyped, Locked, Fresh, Back, Compiled, Sent, Failed, Host!Reloads, Building
<1>6. Sent'
  BY DEF HostTyped, Locked, Fresh, Back, Compiled, Sent, Building
<1> QED BY <1>1, <1>2, <1>3, <1>4, <1>5, <1>6

\* Making one from the settings as they are keeps it.
LEMMA HostMake ==
  ASSUME HostInv, NEW k \in Host!Process, Host!Make(k)
  PROVE  HostInv'
<1> USE WorkbenchAssumption DEF HostInv, Host!HostAssumption, Host!Process, Host!Provider,
        Host!Files, Host!Mcp, Host!Build, Host!Call
<1>1. CASE cfg \in bad
  <2>0. /\ lock' = "free" /\ at' = [at EXCEPT ![k] = "ended"]
             /\ ends' = [ends EXCEPT ![k] = "failed"]
        /\ UNCHANGED <<cfg, bad, wrote, built, cur, prev, made, agent, takes, tries>>
             /\ at[k] = "make"
    BY <1>1, Numbered DEF Host!Make, Host!Goes, Host!Ends
  <2>1. HostTyped'
    BY <1>1, <2>0 DEF HostTyped, Locked, Fresh, Back, Compiled, Sent, Building
  <2>2. Locked'
    BY <1>1, <2>0 DEF HostTyped, Locked, Fresh, Back, Compiled, Sent, Building
  <2>3. Fresh'
    BY <1>1, <2>0 DEF HostTyped, Locked, Fresh, Back, Compiled, Sent, Building
  <2>4. Back'
    BY <1>1, <2>0 DEF HostTyped, Locked, Fresh, Back, Compiled, Sent, Building, Failed
  <2>5. Compiled'
    BY <1>1, <2>0 DEF HostTyped, Locked, Fresh, Back, Compiled, Sent, Failed, Host!Reloads, Building
  <2>6. Sent'
    BY <1>1, <2>0 DEF HostTyped, Locked, Fresh, Back, Compiled, Sent, Building
  <2> QED BY <2>1, <2>2, <2>3, <2>4, <2>5, <2>6
<1>2. CASE cfg \notin bad
  <2>0. /\ prev' = prev + 1 /\ prev' \in Host!Provider /\ made' = [made EXCEPT ![prev'] = cfg + 1]
        /\ at' = [at EXCEPT ![k] = "list"] /\ at[k] = "make"
        /\ UNCHANGED <<cfg, bad, wrote, lock, built, cur, agent, takes, tries, ends>>
    BY <1>2, Numbered DEF Host!Make, Host!Goes, Host!Ends
  <2>1. HostTyped'
    BY <1>2, <2>0 DEF HostTyped, Locked, Fresh, Back, Compiled, Sent, Building
  <2>2. Locked'
    BY <1>2, <2>0 DEF HostTyped, Locked, Fresh, Back, Compiled, Sent, Building
  <2>3. Fresh'
    BY <1>2, <2>0 DEF HostTyped, Locked, Fresh, Back, Compiled, Sent, Building
  <2>4. Back'
    BY <1>2, <2>0 DEF HostTyped, Locked, Fresh, Back, Compiled, Sent, Building, Failed
  <2>5. Compiled'
    BY <1>2, <2>0 DEF HostTyped, Locked, Fresh, Back, Compiled, Sent, Failed, Host!Reloads, Building
  <2>6. Sent'
    BY <1>2, <2>0 DEF HostTyped, Locked, Fresh, Back, Compiled, Sent, Building
  <2> QED BY <2>1, <2>2, <2>3, <2>4, <2>5, <2>6
<1> QED BY <1>1, <1>2

\* Putting it in place keeps it.
LEMMA HostInstall ==
  ASSUME HostInv, NEW k \in Host!Process, Host!Install(k)
  PROVE  HostInv'
<1> USE WorkbenchAssumption DEF HostInv, Host!HostAssumption, Host!Process, Host!Provider,
        Host!Files, Host!Mcp, Host!Build, Host!Call, Host!Install, Host!Goes, Host!Ends,
            Host!After, Host!Lose, Host!Opens, Host!Discover
<1>1. HostTyped'
  BY DEF HostTyped, Locked, Fresh, Back, Compiled, Sent, Building
<1>2. Locked'
  BY DEF HostTyped, Locked, Fresh, Back, Compiled, Sent, Building
<1>3. Fresh'
  BY DEF HostTyped, Locked, Fresh, Back, Compiled, Sent, Building
<1>4. Back'
  BY DEF HostTyped, Locked, Fresh, Back, Compiled, Sent, Building, Failed
<1>5. Compiled'
  <2>1. prev # 0 /\ at' = [at EXCEPT ![k] = Host!After(k)] /\ agent' = agent /\ ends' = ends
    BY DEF Locked
  <2>2. (agent # 0 => cur # 0)'
    BY <2>1
  <2>3. (\A j \in HostUser : at[j] \in {"saver", "start"} => cur # 0)'
    BY <2>1
  <2>4. (agent # 0 /\ Host!Reloads = {} /\ ~Failed => agent = cur)'
    <3> SUFFICES ASSUME agent # 0, Host!Reloads' = {}, ~Failed'
                 PROVE  FALSE
      BY <2>1
    <3>1. /\ \A j \in Put : at'[j] = IF j = k THEN Host!After(k) ELSE at[j]
          /\ \A j \in Put : at'[j] \in {"idle", "clear", "ended"}
      BY <2>1 DEF HostTyped, Host!Reloads
    <3>2. k \notin Put
      BY <3>1
    <3>3. \A j \in Put : at[j] \in {"idle", "clear", "ended"}
      BY <3>1, <3>2
    <3>4. ~built /\ cur # 0 /\ ~Failed
      <4>1. at[k] \in Building /\ lock = k /\ lock # "free"
        BY DEF Locked, Building
      <4>2. ends' = ends /\ cur # 0
        BY <2>1 DEF Compiled
      <4>3. ~Failed
        BY <4>2 DEF Failed
      <4> QED BY <4>1, <4>2, <4>3 DEF Locked
    <3> QED BY <3>3, <3>4 DEF Back, Building
  <2> QED BY <2>2, <2>3, <2>4 DEF Compiled
<1>6. Sent'
  BY DEF HostTyped, Locked, Fresh, Back, Compiled, Sent, Building
<1> QED BY <1>1, <1>2, <1>3, <1>4, <1>5, <1>6

\* Dropping the graph keeps it.
LEMMA HostInvalidate ==
  ASSUME HostInv, NEW k \in Put, Host!Invalidate(k)
  PROVE  HostInv'
<1> USE WorkbenchAssumption DEF HostInv, Host!HostAssumption, Host!Process, Host!Provider,
        Host!Files, Host!Mcp, Host!Build, Host!Call, Host!Invalidate, Host!Goes, Host!Ends,
            Host!After, Host!Lose, Host!Opens, Host!Discover
<1>1. HostTyped'
  BY DEF HostTyped, Locked, Fresh, Back, Compiled, Sent, Building
<1>2. Locked'
  BY DEF HostTyped, Locked, Fresh, Back, Compiled, Sent, Building
<1>3. Fresh'
  BY DEF HostTyped, Locked, Fresh, Back, Compiled, Sent, Building
<1>4. Back'
  BY DEF HostTyped, Locked, Fresh, Back, Compiled, Sent, Building, Failed
<1>5. Compiled'
  BY DEF HostTyped, Locked, Fresh, Back, Compiled, Sent, Failed, Host!Reloads, Building
<1>6. Sent'
  BY DEF HostTyped, Locked, Fresh, Back, Compiled, Sent, Building
<1> QED BY <1>1, <1>2, <1>3, <1>4, <1>5, <1>6

\* The start of a turn keeps it.
LEMMA HostBegin ==
  ASSUME HostInv, NEW k \in HostUser, Host!Begin(k)
  PROVE  HostInv'
<1> USE WorkbenchAssumption DEF HostInv, Host!HostAssumption, Host!Process, Host!Provider,
        Host!Files, Host!Mcp, Host!Build, Host!Call, Host!Begin, Host!Goes, Host!Ends, Host!After,
            Host!Lose, Host!Opens, Host!Discover
<1>1. HostTyped'
  BY DEF HostTyped, Locked, Fresh, Back, Compiled, Sent, Building
<1>2. Locked'
  BY DEF HostTyped, Locked, Fresh, Back, Compiled, Sent, Building
<1>3. Fresh'
  BY DEF HostTyped, Locked, Fresh, Back, Compiled, Sent, Building
<1>4. Back'
  BY DEF HostTyped, Locked, Fresh, Back, Compiled, Sent, Building, Failed
<1>5. Compiled'
  BY DEF HostTyped, Locked, Fresh, Back, Compiled, Sent, Failed, Host!Reloads, Building
<1>6. Sent'
  BY DEF HostTyped, Locked, Fresh, Back, Compiled, Sent, Building
<1> QED BY <1>1, <1>2, <1>3, <1>4, <1>5, <1>6

\* Compiling the graph keeps it.
LEMMA HostCompile ==
  ASSUME HostInv, NEW k \in HostUser, Host!Compile(k)
  PROVE  HostInv'
<1> USE WorkbenchAssumption DEF HostInv, Host!HostAssumption, Host!Process, Host!Provider,
        Host!Files, Host!Mcp, Host!Build, Host!Call, Host!Compile, Host!Goes, Host!Ends,
            Host!After, Host!Lose, Host!Opens, Host!Discover
<1>1. HostTyped'
  BY DEF HostTyped, Locked, Fresh, Back, Compiled, Sent, Building
<1>2. Locked'
  BY DEF HostTyped, Locked, Fresh, Back, Compiled, Sent, Building
<1>3. Fresh'
  BY DEF HostTyped, Locked, Fresh, Back, Compiled, Sent, Building
<1>4. Back'
  BY DEF HostTyped, Locked, Fresh, Back, Compiled, Sent, Building, Failed
<1>5. Compiled'
  BY DEF HostTyped, Locked, Fresh, Back, Compiled, Sent, Failed, Host!Reloads, Building
<1>6. Sent'
  BY DEF HostTyped, Locked, Fresh, Back, Compiled, Sent, Building
<1> QED BY <1>1, <1>2, <1>3, <1>4, <1>5, <1>6

\* Running the turn with it keeps it.
LEMMA HostStartTurn ==
  ASSUME HostInv, NEW k \in HostUser, Host!Start(k)
  PROVE  HostInv'
<1> USE WorkbenchAssumption DEF HostInv, Host!HostAssumption, Host!Process, Host!Provider,
        Host!Files, Host!Mcp, Host!Build, Host!Call
<1>1. CASE built /\ agent # 0
  <2>0. /\ at' = [at EXCEPT ![k] = "call"] /\ at[k] = "start"
        /\ UNCHANGED <<cfg, bad, wrote, lock, built, cur, prev, made, agent, takes, tries, ends>>
    BY <1>1 DEF Host!Start, Host!Goes, Host!Ends
  <2>1. HostTyped'
    BY <1>1, <2>0 DEF HostTyped, Locked, Fresh, Back, Compiled, Sent, Building
  <2>2. Locked'
    BY <1>1, <2>0 DEF HostTyped, Locked, Fresh, Back, Compiled, Sent, Building
  <2>3. Fresh'
    BY <1>1, <2>0 DEF HostTyped, Locked, Fresh, Back, Compiled, Sent, Building
  <2>4. Back'
    BY <1>1, <2>0 DEF HostTyped, Locked, Fresh, Back, Compiled, Sent, Building, Failed
  <2>5. Compiled'
    BY <1>1, <2>0 DEF HostTyped, Locked, Fresh, Back, Compiled, Sent, Failed, Host!Reloads, Building
  <2>6. Sent'
    BY <1>1, <2>0 DEF HostTyped, Locked, Fresh, Back, Compiled, Sent, Building
  <2> QED BY <2>1, <2>2, <2>3, <2>4, <2>5, <2>6
<1>2. CASE ~(built /\ agent # 0)
  <2>0. /\ at' = [at EXCEPT ![k] = "ended"] /\ ends' = [ends EXCEPT ![k] = "refused"]
             /\ at[k] = "start"
        /\ UNCHANGED <<cfg, bad, wrote, lock, built, cur, prev, made, agent, takes, tries>>
    BY <1>2 DEF Host!Start, Host!Goes, Host!Ends
  <2>1. HostTyped'
    BY <1>2, <2>0 DEF HostTyped, Locked, Fresh, Back, Compiled, Sent, Building
  <2>2. Locked'
    BY <1>2, <2>0 DEF HostTyped, Locked, Fresh, Back, Compiled, Sent, Building
  <2>3. Fresh'
    BY <1>2, <2>0 DEF HostTyped, Locked, Fresh, Back, Compiled, Sent, Building
  <2>4. Back'
    BY <1>2, <2>0 DEF HostTyped, Locked, Fresh, Back, Compiled, Sent, Building, Failed
  <2>5. Compiled'
    BY <1>2, <2>0 DEF HostTyped, Locked, Fresh, Back, Compiled, Sent, Failed, Host!Reloads, Building
  <2>6. Sent'
    BY <1>2, <2>0 DEF HostTyped, Locked, Fresh, Back, Compiled, Sent, Building
  <2> QED BY <2>1, <2>2, <2>3, <2>4, <2>5, <2>6
<1> QED BY <1>1, <1>2

\* Opening a session keeps it.
LEMMA HostConnect ==
  ASSUME HostInv, NEW k \in HostUser, Host!Connect(k)
  PROVE  HostInv'
<1> USE WorkbenchAssumption DEF HostInv, Host!HostAssumption, Host!Process, Host!Provider,
        Host!Files, Host!Mcp, Host!Build, Host!Call
<1>1. CASE holds[k] \notin index /\ at[k] = "call" /\ holds[k] \in index'
  <2>0. at[k] = "call"
            /\ UNCHANGED <<cfg, bad, wrote, lock, built, cur, prev, made, agent, takes, tries, at,
                 ends>>
    BY <1>1 DEF Host!Connect, Host!Goes, Host!Ends
  <2>1. HostTyped'
    BY <1>1, <2>0 DEF HostTyped, Locked, Fresh, Back, Compiled, Sent, Building
  <2>2. Locked'
    BY <1>1, <2>0 DEF HostTyped, Locked, Fresh, Back, Compiled, Sent, Building
  <2>3. Fresh'
    BY <1>1, <2>0 DEF HostTyped, Locked, Fresh, Back, Compiled, Sent, Building
  <2>4. Back'
    BY <1>1, <2>0 DEF HostTyped, Locked, Fresh, Back, Compiled, Sent, Building, Failed
  <2>5. Compiled'
    BY <1>1, <2>0 DEF HostTyped, Locked, Fresh, Back, Compiled, Sent, Failed, Host!Reloads, Building
  <2>6. Sent'
    BY <1>1, <2>0 DEF HostTyped, Locked, Fresh, Back, Compiled, Sent, Building
  <2> QED BY <2>1, <2>2, <2>3, <2>4, <2>5, <2>6
<1>2. CASE holds[k] \notin index /\ at[k] = "call" /\ holds[k] \notin index'
  <2>0. /\ at' = [at EXCEPT ![k] = "ended"] /\ ends' = [ends EXCEPT ![k] = "raised"]
        /\ UNCHANGED <<cfg, bad, wrote, lock, built, cur, prev, made, agent, takes, tries>>
    BY <1>2 DEF Host!Connect, Host!Goes, Host!Ends
  <2>1. HostTyped'
    BY <1>2, <2>0 DEF HostTyped, Locked, Fresh, Back, Compiled, Sent, Building
  <2>2. Locked'
    BY <1>2, <2>0 DEF HostTyped, Locked, Fresh, Back, Compiled, Sent, Building
  <2>3. Fresh'
    BY <1>2, <2>0 DEF HostTyped, Locked, Fresh, Back, Compiled, Sent, Building
  <2>4. Back'
    BY <1>2, <2>0 DEF HostTyped, Locked, Fresh, Back, Compiled, Sent, Building, Failed
  <2>5. Compiled'
    BY <1>2, <2>0 DEF HostTyped, Locked, Fresh, Back, Compiled, Sent, Failed, Host!Reloads, Building
  <2>6. Sent'
    BY <1>2, <2>0 DEF HostTyped, Locked, Fresh, Back, Compiled, Sent, Building
  <2> QED BY <2>1, <2>2, <2>3, <2>4, <2>5, <2>6
<1>3. CASE ~(holds[k] \notin index /\ at[k] = "call") /\ sess[holds[k]] # 0
  <2>0. /\ at' = [at EXCEPT ![k] = IF at[k] = "call" THEN "sent" ELSE "resent"]
             /\ at[k] \in {"call", "again"}
        /\ UNCHANGED <<cfg, bad, wrote, lock, built, cur, prev, made, agent, takes, tries, ends>>
    BY <1>3 DEF Host!Connect, Host!Goes, Host!Ends
  <2>1. HostTyped'
    BY <1>3, <2>0 DEF HostTyped, Locked, Fresh, Back, Compiled, Sent, Building
  <2>2. Locked'
    BY <1>3, <2>0 DEF HostTyped, Locked, Fresh, Back, Compiled, Sent, Building
  <2>3. Fresh'
    BY <1>3, <2>0 DEF HostTyped, Locked, Fresh, Back, Compiled, Sent, Building
  <2>4. Back'
    BY <1>3, <2>0 DEF HostTyped, Locked, Fresh, Back, Compiled, Sent, Building, Failed
  <2>5. Compiled'
    BY <1>3, <2>0 DEF HostTyped, Locked, Fresh, Back, Compiled, Sent, Failed, Host!Reloads, Building
  <2>6. Sent'
    BY <1>3, <2>0 DEF HostTyped, Locked, Fresh, Back, Compiled, Sent, Building
  <2> QED BY <2>1, <2>2, <2>3, <2>4, <2>5, <2>6
<1>4. CASE ~(holds[k] \notin index /\ at[k] = "call") /\ sess[holds[k]] = 0
  <2>0. /\ at' = [at EXCEPT ![k] = IF at[k] = "call" THEN "dial" ELSE "redial"]
             /\ at[k] \in {"call", "again"}
        /\ UNCHANGED <<cfg, bad, wrote, lock, built, cur, prev, made, agent, takes, tries, ends>>
    BY <1>4 DEF Host!Connect, Host!Goes, Host!Ends
  <2>1. HostTyped'
    BY <1>4, <2>0 DEF HostTyped, Locked, Fresh, Back, Compiled, Sent, Building
  <2>2. Locked'
    BY <1>4, <2>0 DEF HostTyped, Locked, Fresh, Back, Compiled, Sent, Building
  <2>3. Fresh'
    BY <1>4, <2>0 DEF HostTyped, Locked, Fresh, Back, Compiled, Sent, Building
  <2>4. Back'
    BY <1>4, <2>0 DEF HostTyped, Locked, Fresh, Back, Compiled, Sent, Building, Failed
  <2>5. Compiled'
    BY <1>4, <2>0 DEF HostTyped, Locked, Fresh, Back, Compiled, Sent, Failed, Host!Reloads, Building
  <2>6. Sent'
    BY <1>4, <2>0 DEF HostTyped, Locked, Fresh, Back, Compiled, Sent, Building
  <2> QED BY <2>1, <2>2, <2>3, <2>4, <2>5, <2>6
<1> QED BY <1>1, <1>2, <1>3, <1>4

\* Dialling again keeps it.
LEMMA HostDial ==
  ASSUME HostInv, NEW k \in HostUser, Host!Dial(k)
  PROVE  HostInv'
<1> USE WorkbenchAssumption DEF HostInv, Host!HostAssumption, Host!Process, Host!Provider,
        Host!Files, Host!Mcp, Host!Build, Host!Call, Host!Dial, Host!Goes, Host!Ends, Host!After,
            Host!Lose, Host!Opens, Host!Discover
<1>1. HostTyped'
  BY DEF HostTyped, Locked, Fresh, Back, Compiled, Sent, Building
<1>2. Locked'
  BY DEF HostTyped, Locked, Fresh, Back, Compiled, Sent, Building
<1>3. Fresh'
  BY DEF HostTyped, Locked, Fresh, Back, Compiled, Sent, Building
<1>4. Back'
  BY DEF HostTyped, Locked, Fresh, Back, Compiled, Sent, Building, Failed
<1>5. Compiled'
  BY DEF HostTyped, Locked, Fresh, Back, Compiled, Sent, Failed, Host!Reloads, Building
<1>6. Sent'
  BY DEF HostTyped, Locked, Fresh, Back, Compiled, Sent, Building
<1> QED BY <1>1, <1>2, <1>3, <1>4, <1>5, <1>6

\* An answer keeps it.
LEMMA HostAnswered ==
  ASSUME HostInv, NEW k \in HostUser, Host!Answered(k)
  PROVE  HostInv'
<1> USE WorkbenchAssumption DEF HostInv, Host!HostAssumption, Host!Process, Host!Provider,
        Host!Files, Host!Mcp, Host!Build, Host!Call, Host!Answered, Host!Goes, Host!Ends,
            Host!After, Host!Lose, Host!Opens, Host!Discover
<1>1. HostTyped'
  BY DEF HostTyped, Locked, Fresh, Back, Compiled, Sent, Building
<1>2. Locked'
  BY DEF HostTyped, Locked, Fresh, Back, Compiled, Sent, Building
<1>3. Fresh'
  BY DEF HostTyped, Locked, Fresh, Back, Compiled, Sent, Building
<1>4. Back'
  BY DEF HostTyped, Locked, Fresh, Back, Compiled, Sent, Building, Failed
<1>5. Compiled'
  BY DEF HostTyped, Locked, Fresh, Back, Compiled, Sent, Failed, Host!Reloads, Building
<1>6. Sent'
  BY DEF HostTyped, Locked, Fresh, Back, Compiled, Sent, Building
<1> QED BY <1>1, <1>2, <1>3, <1>4, <1>5, <1>6

\* A failure keeps it, and a call with effects is not sent again.
LEMMA HostFails ==
  ASSUME HostInv, NEW k \in HostUser, Host!Fails(k)
  PROVE  HostInv'
<1> USE WorkbenchAssumption DEF HostInv, Host!HostAssumption, Host!Process, Host!Provider,
        Host!Files, Host!Mcp, Host!Build, Host!Call
<1>1. CASE at[k] = "sent" /\ takes[k] = "read"
  <2>0. /\ at' = [at EXCEPT ![k] = "again"] /\ tries' = [tries EXCEPT ![k] = @ + 1]
        /\ UNCHANGED <<cfg, bad, wrote, lock, built, cur, prev, made, agent, takes, ends>>
    BY <1>1 DEF Host!Fails, Host!Goes, Host!Ends
  <2>1. HostTyped'
    BY <1>1, <2>0 DEF HostTyped, Locked, Fresh, Back, Compiled, Sent, Building
  <2>2. Locked'
    BY <1>1, <2>0 DEF HostTyped, Locked, Fresh, Back, Compiled, Sent, Building
  <2>3. Fresh'
    BY <1>1, <2>0 DEF HostTyped, Locked, Fresh, Back, Compiled, Sent, Building
  <2>4. Back'
    BY <1>1, <2>0 DEF HostTyped, Locked, Fresh, Back, Compiled, Sent, Building, Failed
  <2>5. Compiled'
    BY <1>1, <2>0 DEF HostTyped, Locked, Fresh, Back, Compiled, Sent, Failed, Host!Reloads, Building
  <2>6. Sent'
    BY <1>1, <2>0 DEF HostTyped, Locked, Fresh, Back, Compiled, Sent, Building
  <2> QED BY <2>1, <2>2, <2>3, <2>4, <2>5, <2>6
<1>2. CASE ~(at[k] = "sent" /\ takes[k] = "read")
  <2>0. /\ at' = [at EXCEPT ![k] = "ended"] /\ ends' = [ends EXCEPT ![k] = "raised"]
        /\ tries' = [tries EXCEPT ![k] = @ + 1] /\ at[k] \in {"sent", "resent"}
        /\ UNCHANGED <<cfg, bad, wrote, lock, built, cur, prev, made, agent, takes>>
    BY <1>2 DEF Host!Fails, Host!Goes, Host!Ends
  <2>1. HostTyped'
    BY <1>2, <2>0 DEF HostTyped, Locked, Fresh, Back, Compiled, Sent, Building
  <2>2. Locked'
    BY <1>2, <2>0 DEF HostTyped, Locked, Fresh, Back, Compiled, Sent, Building
  <2>3. Fresh'
    BY <1>2, <2>0 DEF HostTyped, Locked, Fresh, Back, Compiled, Sent, Building
  <2>4. Back'
    BY <1>2, <2>0 DEF HostTyped, Locked, Fresh, Back, Compiled, Sent, Building, Failed
  <2>5. Compiled'
    BY <1>2, <2>0 DEF HostTyped, Locked, Fresh, Back, Compiled, Sent, Failed, Host!Reloads, Building
  <2>6. Sent'
    BY <1>2, <2>0 DEF HostTyped, Locked, Fresh, Back, Compiled, Sent, Building
  <2> QED BY <2>1, <2>2, <2>3, <2>4, <2>5, <2>6
<1> QED BY <1>1, <1>2

\* It holds of the tools at the start.
LEMMA HostStart == Host!HostInit => HostInv
<1> USE WorkbenchAssumption DEF Host!HostInit, Host!HostAssumption, Host!Process, Host!Provider
<1>1. Host!HostInit => HostTyped
  <2> SUFFICES ASSUME Host!HostInit PROVE HostTyped
    OBVIOUS
  <2>1. cfg \in Nat /\ cur \in 0..MaxBuilds /\ prev \in 0..MaxBuilds /\ agent \in 0..MaxBuilds
    OBVIOUS
  <2>3. made \in [Host!Provider -> Nat] /\ wrote \in [Put -> Nat] /\ tries \in [HostUser -> Nat]
    OBVIOUS
  <2>2. \A k \in Host!Process : at[k] = "idle" /\ ends[k] = "no"
    OBVIOUS
  <2> QED BY <2>1, <2>2, <2>3 DEF HostTyped, Building
<1>2. Host!HostInit => Locked /\ Fresh
  BY DEF Locked, Fresh, Building
<1>3. Host!HostInit => Back /\ Compiled /\ Sent
  BY DEF Back, Compiled, Sent
<1> QED BY <1>1, <1>2, <1>3 DEF HostInv

\* Every step keeps it.
LEMMA HostStep == HostInv /\ (Host!HostNext \/ UNCHANGED Host!hostVars) => HostInv'
<1> SUFFICES ASSUME HostInv, (Host!HostNext \/ UNCHANGED Host!hostVars) PROVE HostInv'
  OBVIOUS
<1>1. ASSUME NEW k \in Host!Process, Host!Ensures(k) PROVE HostInv'
  BY <1>1, HostEnsureBuilt, HostEnsureLock, HostClosePrev, HostMake, HostInstall DEF Host!Ensures
<1>2. ASSUME NEW k \in Put, Host!PutStep(k) PROVE HostInv'
  BY <1>1, <1>2, HostWrite, HostClear, HostInvalidate DEF Host!PutStep, Host!Process
<1>3. ASSUME NEW k \in HostUser, Host!UserStep(k) PROVE HostInv'
  BY <1>1, <1>3, HostBegin, HostCompile, HostStartTurn, HostConnect, HostDial, HostAnswered,
     HostFails
     DEF Host!UserStep, Host!Process
<1>4. CASE Host!ServerDrops \/ UNCHANGED Host!hostVars
  <2>1. UNCHANGED <<cfg, lock, built, cur, prev, made, agent, at, wrote, takes, tries, ends>>
    BY <1>4 DEF Host!ServerDrops, Host!hostVars, Host!Files, Host!Build, Host!Call
  <2> QED BY <2>1 DEF HostInv, HostTyped, Locked, Fresh, Back, Compiled, Sent, Building, Failed,
          Host!Reloads
<1> QED BY <1>2, <1>3, <1>4 DEF Host!HostNext

\* What the tools promise follows from it.
LEMMA HostKept == HostInv
    => Host!ReloadTakesEffect /\ Host!GraphCurrent /\ Host!SentAtMost /\ Host!RefusedInReload
<1> SUFFICES ASSUME HostInv PROVE Host!ReloadTakesEffect /\ Host!GraphCurrent /\ Host!SentAtMost
        /\ Host!RefusedInReload
  OBVIOUS
<1> USE WorkbenchAssumption DEF HostInv, Host!HostAssumption, Host!Process
<1>1. Host!ReloadTakesEffect
  BY DEF Host!ReloadTakesEffect, HostTyped, Fresh
<1>2. Host!GraphCurrent
  BY DEF Host!GraphCurrent, Compiled, Failed
<1>3. Host!SentAtMost
  BY DEF Host!SentAtMost, Sent
<1>4. Host!RefusedInReload
  BY DEF Host!RefusedInReload, Compiled, Back, Failed, Host!Reloads, Building, HostTyped
<1> QED BY <1>1, <1>2, <1>3, <1>4

-----------------------------------------------------------------------------

\* The tries of a call are counted from one.
LEMMA FirstOf ==
  ASSUME NEW n \in Nat \ {0}, NEW T \in SUBSET (1..n), T # {}
  PROVE  \E i \in T : \A j \in 1..(i - 1) : j \notin T
<1>1. IsWellFoundedOn(OpToRel(<, Nat), Nat)
  BY NatLessThanWellFounded
<1>2. T \subseteq Nat
  OBVIOUS
<1>3. \E i \in T : \A j \in T : ~(<<j, i>> \in OpToRel(<, Nat))
  BY <1>1, <1>2, WFMin
<1>4. PICK i \in T : \A j \in T : ~(<<j, i>> \in OpToRel(<, Nat))
  BY <1>3
<1>5. \A j \in T : ~(j < i)
  BY <1>2, <1>4 DEF OpToRel
<1> QED BY <1>2, <1>5

\* The attempt that over a call is the first that is good or not worth another.
LEMMA LastTryFacts ==
  ASSUME NEW c \in Calls
  PROVE  /\ Called!LastTry(c) \in 1..MaxTries
         /\ \A i \in 1..(Called!LastTry(c) - 1) : i < Called!Allowed(c.def)
              /\ ~Called!Good(c.does[i])
<1> DEFINE over(i) == i >= Called!Allowed(c.def) \/ Called!Good(c.does[i])
        \/ ~Called!ErrorOf(c.def, c.does[i]).retry
           T == {i \in 1..MaxTries : over(i)}
<1>1. Called!LastTry(c) = CHOOSE i \in 1..MaxTries : over(i) /\ \A j \in 1..(i - 1) : ~over(j)
  BY DEF Called!LastTry
<1>2. MaxTries \in Nat \ {0} /\ Called!Allowed(c.def) \in 1..MaxTries
  BY WorkbenchAssumption DEF Called!VerdictAssumption, Called!Allowed
<1>3. over(MaxTries)
  BY <1>2
<1> HIDE DEF over
<1>4. T # {}
  BY <1>2, <1>3
<1>5. PICK i \in T : \A j \in 1..(i - 1) : j \notin T
  BY <1>2, <1>4, FirstOf
<1>6. \E k \in 1..MaxTries : over(k) /\ \A j \in 1..(k - 1) : ~over(j)
  BY <1>2, <1>5
<1>7. Called!LastTry(c) \in 1..MaxTries /\ \A j \in 1..(Called!LastTry(c) - 1) : ~over(j)
  BY <1>1, <1>6
<1>8. ASSUME NEW j \in 1..(Called!LastTry(c) - 1) PROVE j < Called!Allowed(c.def)
          /\ ~Called!Good(c.does[j])
  <2>1. ~(j >= Called!Allowed(c.def)) /\ ~Called!Good(c.does[j])
    BY <1>7, <1>8 DEF over
  <2> QED BY <1>2, <1>7, <2>1
<1> QED BY <1>7, <1>8

\* A word of an error that is no refusal is not taken for one when it is read again.
LEMMA WordRead ==
  ASSUME NEW w, Called!TypeOf(w) \notin Called!Refusals
  PROVE  Called!TypeOf(Called!TypeOf(w)) \notin Called!Refusals
      /\ Called!CodeOf(w) # "APPROVAL_REQUIRED"
BY DEF Called!TypeOf, Called!CodeOf, Called!Refusals

\* A word for a failure has a type and a code.
LEMMA WordKept == \A w : Called!TypeOf(w) # "" /\ Called!CodeOf(w) # ""
BY DEF Called!TypeOf, Called!CodeOf

\* No error has neither.
LEMMA NoErrWords == Called!NoErr.type = "" /\ Called!NoErr.code = ""
BY DEF Called!NoErr, Called!Err

\* An error told again differs in what was changed only.
LEMMA ErrChanged ==
  ASSUME NEW t, NEW k, NEW r, NEW f, NEW a, NEW b
  PROVE  LET x == [Called!Err(t, k, r, f) EXCEPT !.code = a, !.retry = b]
         IN  x.type = t /\ x.code = a /\ x.retry = b /\ x.effect = f
BY DEF Called!Err

\* The envelope of a failure is an error record.
LEMMA EnvelopeIs == \A w : \E t, k, r, f : Called!EnvelopeError(w) = Called!Err(t, k, r, f)
BY Zenon DEF Called!EnvelopeError

AdapterKinds == {"slow", "lost", "raises", "malformed", "shape", "envelope", "answer"}

\* The error of an attempt is one, and leaves open what has happened.
LEMMA ErrorFacts ==
  ASSUME NEW d, NEW b, b.kind \in AdapterKinds, ~Called!Good(b)
  PROVE  LET e == Called!ErrorOf(d, b)
         IN  /\ e.type # "" /\ e.code # ""
             /\ Called!Effect(d)
                  /\ (b.kind = "envelope" => Called!TypeOf(b.word) \notin Called!Refusals)
                  => /\ e.effect = "unknown" /\ e.code # "APPROVAL_REQUIRED"
                     /\ Called!TypeOf(e.type) \notin Called!Refusals
<1>1. CASE b.kind = "envelope"
  <2>1. Called!ErrorOf(d, b) = Called!EnvelopeError(b.word)
    BY <1>1 DEF Called!ErrorOf
  <2>2. Called!ErrorOf(d, b) = Called!Err(Called!TypeOf(b.word), Called!CodeOf(b.word),
            Called!TypeOf(b.word) \in Called!Fleeting,
                            IF Called!TypeOf(b.word) \in Called!Refusals THEN "no" ELSE "unknown")
    BY <2>1 DEF Called!EnvelopeError
  <2>3. Called!TypeOf(b.word) \notin Called!Refusals
           => Called!TypeOf(Called!TypeOf(b.word)) \notin Called!Refusals
               /\ Called!CodeOf(b.word) # "APPROVAL_REQUIRED"
    BY WordRead
  <2>4. Called!TypeOf(b.word) # "" /\ Called!CodeOf(b.word) # ""
    BY WordKept
  <2> DEFINE e == Called!ErrorOf(d, b)
  <2>5. /\ e.type = Called!TypeOf(b.word) /\ e.code = Called!CodeOf(b.word)
        /\ e.effect = IF Called!TypeOf(b.word) \in Called!Refusals THEN "no" ELSE "unknown"
    BY <2>2 DEF Called!Err
  <2> HIDE DEF e
  <2>6. /\ e.type # "" /\ e.code # ""
        /\ Called!TypeOf(b.word) \notin Called!Refusals
              => e.effect = "unknown" /\ e.code # "APPROVAL_REQUIRED"
                  /\ Called!TypeOf(e.type) \notin Called!Refusals
    BY <2>3, <2>4, <2>5
  <2> QED BY <1>1, <2>6 DEF e
<1>2. CASE b.kind # "envelope"
  <2>1. /\ Called!TypeOf("tool_timeout") \notin Called!Refusals
             /\ Called!TypeOf("tool_unavailable") \notin Called!Refusals
        /\ Called!TypeOf("tool") \notin Called!Refusals
             /\ Called!TypeOf("protocol") \notin Called!Refusals
    BY DEF Called!TypeOf, Called!Refusals
  <2> QED BY <1>2, <2>1 DEF Called!ErrorOf, Called!Err, AdapterKinds, Called!Good, Called!Unsure
<1> QED BY <1>1, <1>2

\* What the gateway may say of a call: that it is done, after an attempt that was good
\* or by the journal, or an error that leaves open what an attempt has applied; and a
\* call that failed is repeated if it only reads.
Succeeds(c, g) ==
    /\ g.outcome \in {"succeeded", "partial"} /\ g.error = Called!NoErr
    /\ (Called!Effect(c.def) /\ c.row = "done")
         \/ (g.ran \in 1..MaxTries /\ Called!Good(c.does[g.ran]))
Errs(c, g) ==
    LET e == g.error
    IN  /\ g.outcome = Called!OutcomeFor(e) /\ e.type # "" /\ e.code # ""
        /\ Called!Effect(c.def) /\ (\E i \in 1..g.ran : c.does[i].applied)
             => e.effect = "unknown" /\ e.code # "APPROVAL_REQUIRED"
                 /\ Called!TypeOf(e.type) \notin Called!Refusals
Repeated(c, g) ==
    /\ g.ran \in 0..MaxTries
    /\ g.ran > 1 => /\ Called!Readonly(c.def) /\ ~c.def.destroys
                    /\ \A i \in 1..(g.ran - 1) : ~Called!Good(c.does[i])
Says(c, g) == (Succeeds(c, g) \/ Errs(c, g)) /\ Repeated(c, g)

\* The shape of a call and of what is kept of it.
LEMMA CallFacts ==
  ASSUME NEW c \in Calls
  PROVE  /\ MaxTries \in Nat \ {0}
         /\ c.row \in {"none", "done", "failed", "unknown", "running", "broken"}
         /\ \A i \in 1..MaxTries :
               /\ c.does[i].kind \in AdapterKinds
               /\ Called!Good(c.does[i]) => c.does[i].outcome \in {"succeeded", "partial"}
               /\ c.does[i].kind = "envelope"
                    /\ Called!TypeOf(c.does[i].word) \in Called!Refusals => ~c.does[i].applied
BY WorkbenchAssumption DEF Called!VerdictAssumption, AdapterKinds, Called!Good

\* What the attempts end with says what was done.
LEMMA AttemptsSay == ASSUME NEW c \in Calls PROVE Says(c, Called!Attempts(c))
<1> DEFINE n == Called!LastTry(c)
           b == c.does[n]
           e == Called!ErrorOf(c.def, b)
           g == Called!Attempts(c)
<1>1. n \in 1..MaxTries /\ \A i \in 1..(n - 1) : i < Called!Allowed(c.def)
          /\ ~Called!Good(c.does[i])
  BY LastTryFacts
<1>2. MaxTries \in Nat \ {0}
  BY CallFacts
<1>3. /\ Called!Good(b) => g = Called!Delivers(b.outcome, n)
      /\ ~Called!Good(b) => g = Called!Fails(e, n)
  BY DEF Called!Attempts
<1>4. /\ b.kind \in AdapterKinds /\ (Called!Good(b) => b.outcome \in {"succeeded", "partial"})
      /\ b.kind = "envelope" /\ Called!TypeOf(b.word) \in Called!Refusals => ~b.applied
  BY <1>1, CallFacts
<1> HIDE DEF n, b, g
<1>5. g.ran = n
  BY <1>3 DEF Called!Delivers, Called!Fails
<1>6. Called!Effect(c.def) \/ ~c.def.again => n = 1
  BY <1>1, <1>2 DEF Called!Allowed
<1>7. Repeated(c, g)
  <2>1. n > 1 => Called!Readonly(c.def) /\ ~c.def.destroys
    BY <1>6 DEF Called!Effect
  <2> QED BY <1>1, <1>2, <1>5, <2>1 DEF Repeated
<1>8. CASE Called!Good(b)
  <2>1. g.error = Called!NoErr /\ g.outcome = b.outcome
    BY <1>3, <1>8 DEF Called!Delivers
  <2>3. g.ran \in 1..MaxTries /\ Called!Good(c.does[g.ran])
    BY <1>1, <1>5, <1>8 DEF b
  <2>2. Succeeds(c, g)
    BY <1>4, <1>8, <2>1, <2>3 DEF Succeeds
  <2> QED BY <1>7, <2>2 DEF Says, g
<1>9. CASE ~Called!Good(b)
  <2>1. g.error = e /\ g.outcome = Called!OutcomeFor(e)
    BY <1>3, <1>9 DEF Called!Fails
  <2>2. /\ e.type # "" /\ e.code # ""
        /\ Called!Effect(c.def)
             /\ (b.kind = "envelope" => Called!TypeOf(b.word) \notin Called!Refusals)
             => /\ e.effect = "unknown" /\ e.code # "APPROVAL_REQUIRED"
                     /\ Called!TypeOf(e.type) \notin Called!Refusals
    BY <1>4, <1>9, ErrorFacts
  <2>3. Called!Effect(c.def) /\ (\E i \in 1..n : c.does[i].applied) => b.applied
    BY <1>1, <1>6 DEF b
  <2>4. Called!Effect(c.def) /\ (\E i \in 1..n : c.does[i].applied)
          => e.effect = "unknown" /\ e.code # "APPROVAL_REQUIRED"
              /\ Called!TypeOf(e.type) \notin Called!Refusals
    BY <1>4, <2>2, <2>3
  <2> HIDE DEF e
  <2>6. g.error.type # "" /\ g.error.code # ""
    BY <2>1, <2>2
  <2>7. Called!Effect(c.def) /\ (\E i \in 1..g.ran : c.does[i].applied)
          => /\ g.error.effect = "unknown" /\ g.error.code # "APPROVAL_REQUIRED"
             /\ Called!TypeOf(g.error.type) \notin Called!Refusals
    BY <1>5, <2>1, <2>4
  <2>5. Errs(c, g)
    BY <2>1, <2>6, <2>7 DEF Errs
  <2> QED BY <1>7, <2>5 DEF Says, g
<1> QED BY <1>8, <1>9

\* A refusal without an attempt.
Refuses(g) ==
    LET e == g.error
    IN  g.ran = 0 /\ g.outcome = Called!OutcomeFor(e) /\ e.type # "" /\ e.code # ""

\* A refusal is an error that was not sent.
LEMMA Refusal ==
  ASSUME NEW t, NEW k, NEW r, NEW f, t # "", k # ""
  PROVE  Refuses(Called!Fails(Called!Err(t, k, r, f), 0))
BY DEF Refuses, Called!Fails, Called!Err

\* It says so.
LEMMA RefusalSays ==
  ASSUME NEW c \in Calls, NEW g, Refuses(g)
  PROVE  Says(c, g)
<1>1. g.ran = 0 /\ MaxTries \in Nat \ {0}
  BY CallFacts DEF Refuses
<1>2. ~\E i \in 1..g.ran : c.does[i].applied
  BY <1>1
<1>3. Errs(c, g)
  BY <1>1, <1>2 DEF Errs, Refuses
<1>4. Repeated(c, g)
  BY <1>1 DEF Repeated
<1> QED BY <1>3, <1>4 DEF Says

\* What the journal answers says what was done.
LEMMA JournalledSays == ASSUME NEW c \in Calls PROVE Says(c, Called!Journalled(c))
<1>1. CASE ~Called!Effect(c.def) \/ c.row = "none"
  <2>1. Called!Journalled(c) = Called!Attempts(c)
    BY <1>1 DEF Called!Journalled, Called!Reserved
  <2> QED BY <2>1, AttemptsSay
<1>2. CASE Called!Effect(c.def) /\ c.row = "done"
  <2> DEFINE g == Called!Delivers("succeeded", 0)
  <2>1. Called!Journalled(c) = g
    BY <1>2 DEF Called!Journalled, Called!Reserved
  <2>2. g.outcome = "succeeded" /\ g.ran = 0 /\ g.error = Called!NoErr /\ MaxTries \in Nat
    BY CallFacts DEF Called!Delivers
  <2>3. Succeeds(c, g) /\ Repeated(c, g)
    BY <1>2, <2>2 DEF Succeeds, Repeated
  <2> QED BY <2>1, <2>3 DEF Says
<1>3. CASE Called!Effect(c.def) /\ c.row \in {"failed", "unknown", "running", "broken"}
  <2>1. Refuses(Called!Reserved(c))
    BY <1>3, Refusal DEF Called!Reserved
  <2>2. Called!Journalled(c) = Called!Reserved(c)
    BY <1>3 DEF Called!Journalled
  <2> QED BY <2>1, <2>2, RefusalSays
<1> QED BY <1>1, <1>2, <1>3, CallFacts

\* The gateway's answer to a call that reaches it.
LEMMA InvokeSays ==
  ASSUME NEW c \in Calls
  PROVE  /\ Says(c, Called!Invoke(c))
         /\ Called!Invoke(c).ran > 0 =>
               /\ Called!Decide(c) # "deny" /\ ~Called!Invalid(c.def, c.args)
               /\ Called!GatewayAsks(c) => c.path # "alone" /\ c.answer = "yes"
<1>1. CASE /\ Called!Decide(c) # "deny" /\ ~Called!Invalid(c.def, c.args)
           /\ Called!GatewayAsks(c) => c.path # "alone" /\ c.answer = "yes"
  <2>1. Called!Invoke(c) = Called!Journalled(c)
    BY <1>1 DEF Called!Invoke
  <2> QED BY <1>1, <2>1, JournalledSays
<1>2. CASE ~(/\ Called!Decide(c) # "deny" /\ ~Called!Invalid(c.def, c.args)
             /\ Called!GatewayAsks(c) => c.path # "alone" /\ c.answer = "yes")
  <2>2. Refuses(Called!Invoke(c))
    BY <1>2, Refusal DEF Called!Invoke
  <2>3. Called!Invoke(c).ran = 0
    BY <2>2 DEF Refuses
  <2> QED BY <2>2, <2>3, RefusalSays
<1> QED BY <1>1, <1>2

\* The answer to a call, and who was asks before an attempt of it.
LEMMA GatewaySays ==
  ASSUME NEW c \in Calls
  PROVE  /\ Says(c, Called!Gateway(c))
         /\ Called!Gateway(c).ran > 0 =>
               /\ ~Called!ByNode(c) /\ Called!Decide(c) # "deny" /\ ~Called!Invalid(c.def, c.args)
               /\ Called!GatewayAsks(c) => c.path # "alone" /\ c.answer = "yes"
<1>1. CASE Called!ByNode(c)
  <2>1. Refuses(Called!Gateway(c))
    BY <1>1, Refusal DEF Called!Gateway, Called!NodeError
  <2>2. Called!Gateway(c).ran = 0
    BY <2>1 DEF Refuses
  <2> QED BY <2>1, <2>2, RefusalSays
<1>2. CASE ~Called!ByNode(c)
  BY <1>2, InvokeSays DEF Called!Gateway
<1> QED BY <1>1, <1>2

VerdictInv == /\ job \in {"call", "called"} /\ given \in Calls
              /\ job = "called" => result = Called!Finished(given)

\* The forms of an answer, one by one.
LEMMA Forms ==
  ASSUME NEW c \in Calls
  PROVE  LET g == Called!Gateway(c)
             m == Called!Finished(c)
         IN  /\ m.outcome = g.outcome /\ m.ran = g.ran
             /\ m.operation = Called!Operation(c, g) /\ m.wire = Called!Wire(m.operation)
                  /\ m.read = Called!Read(m.wire)
             /\ m.operation.outcome = g.outcome /\ m.wire.outcome = g.outcome
             /\ m.read.outcome = g.outcome
             /\ m.asked = (IF Called!AsksFirst(c) THEN 1 ELSE 0)
                          + IF ~Called!ByNode(c) /\ Called!Decide(c) = "approval"
                              /\ ~Called!Invalid(c.def, c.args)
                               /\ Called!GatewayAsks(c) /\ c.path # "alone" THEN 1 ELSE 0
             /\ m.marked = IF g.outcome \in Called!NeedsError THEN "error" ELSE "success"
             /\ m.shown = "success" \/ m.cached => g.outcome = "succeeded"
<1> DEFINE g == Called!Gateway(c)
           o == Called!Operation(c, g)
           w == Called!Wire(o)
           rd == Called!Read(w)
           asks == (IF Called!AsksFirst(c) THEN 1 ELSE 0)
                    + IF ~Called!ByNode(c) /\ Called!Decide(c) = "approval"
                        /\ ~Called!Invalid(c.def, c.args)
                         /\ Called!GatewayAsks(c) /\ c.path # "alone" THEN 1 ELSE 0
           marks == IF w.outcome \in Called!NeedsError THEN "error" ELSE "success"
           displays == CASE w.outcome = "succeeded"   -> "success"
                      [] w.outcome \in Called!NeedsError  -> "error"
                      [] w.outcome \in {"partial", "interrupted"} -> w.outcome
           keeps == w.outcome = "succeeded"
<1>1. o.outcome = g.outcome
  BY DEF Called!Operation
<1>2. w.outcome = g.outcome
  BY <1>1 DEF Called!Wire
<1>3. rd.outcome = g.outcome
  BY <1>2 DEF Called!Read
<1>5. g.outcome \in {"succeeded", "partial", "timed_out", "interrupted", "failed"}
  <2>1. Says(c, g)
    BY GatewaySays
  <2> HIDE DEF g
  <2>2. CASE Succeeds(c, g)
    BY <2>2 DEF Succeeds
  <2>3. CASE Errs(c, g)
    <3>1. g.outcome = Called!OutcomeFor(g.error)
      BY <2>3 DEF Errs
    <3> QED BY <3>1 DEF Called!OutcomeFor
  <2> QED BY <2>1, <2>2, <2>3 DEF Says
<1>4. Called!Finished(c) =
        [outcome |-> g.outcome, operation |-> o, wire |-> w, read |-> rd, ran |-> g.ran,
         asked |-> asks, marked |-> marks, shown |-> displays, cached |-> keeps]
  BY DEF Called!Finished
<1> DEFINE m == Called!Finished(c)
<1>6. w = Called!Wire(o) /\ rd = Called!Read(w)
  OBVIOUS
<1>7. displays = "success" \/ keeps => w.outcome = "succeeded"
  <2> HIDE DEF w
  <2> QED BY <1>2, <1>5 DEF Called!NeedsError
<1>8. marks = IF g.outcome \in Called!NeedsError THEN "error" ELSE "success"
  BY <1>2
<1> HIDE DEF g, o, w, rd, asks, marks, displays, keeps
<1>9. /\ m.outcome = g.outcome /\ m.ran = g.ran
      /\ m.operation = o /\ m.wire = w /\ m.read = rd
      /\ m.marked = marks /\ m.asked = asks
  BY <1>4
<1>10. m.shown = displays /\ m.cached = keeps
  BY <1>4
<1> HIDE DEF m
<1> QED BY <1>1, <1>2, <1>3, <1>6, <1>7, <1>8, <1>9, <1>10 DEF m, g, o, asks

\* What follows of the verdict: rights and approval first.
LEMMA VerdictApproved == ASSUME VerdictInv PROVE Called!ApprovedFirst
<1> SUFFICES ASSUME Called!Done PROVE Called!ApprovedFirst
  BY DEF Called!ApprovedFirst
<1> DEFINE c == given
           g == Called!Gateway(c)
<1>1. c \in Calls /\ result = Called!Finished(c)
  BY DEF VerdictInv, Called!Done
<1>2. /\ result.ran = g.ran
      /\ result.asked = (IF Called!AsksFirst(c) THEN 1 ELSE 0)
                      + IF ~Called!ByNode(c) /\ Called!Decide(c) = "approval"
                          /\ ~Called!Invalid(c.def, c.args)
                           /\ Called!GatewayAsks(c) /\ c.path # "alone" THEN 1 ELSE 0
  BY <1>1, Forms
<1>3. /\ Says(c, g)
      /\ g.ran > 0 =>
            /\ ~Called!ByNode(c) /\ Called!Decide(c) # "deny" /\ ~Called!Invalid(c.def, c.args)
            /\ Called!GatewayAsks(c) => c.path # "alone" /\ c.answer = "yes"
  BY <1>1, GatewaySays
<1> HIDE DEF c, g
<1>4. result.asked <= 1
  BY <1>2 DEF Called!ByNode, Called!GatewayAsks, Called!Preapproved
<1>5. ASSUME result.ran > 0
      PROVE  /\ c.role # "none" => Called!Rights(c.def) \subseteq Called!Granted(c.role)
             /\ c.args.top \subseteq c.def.top.fields \/ c.def.top.open
  BY <1>2, <1>3, <1>5 DEF Called!Decide, Called!Invalid, Called!Undeclared
<1>6. ASSUME result.ran > 0, c.def.mcp, c.def.hint # "yes", c.gate
      PROVE  c.path = "button" \/ (result.asked = 1 /\ c.answer = "yes")
  <2>1. Called!Needs(c.def)
    BY <1>6 DEF Called!Needs, Called!Effect, Called!Readonly
  <2>2. Called!Decide(c) = "approval" /\ ~Called!ByNode(c) /\ ~Called!Invalid(c.def, c.args)
    BY <1>2, <1>3, <1>6, <2>1 DEF Called!Decide
  <2>3. CASE Called!Preapproved(c)
    BY <1>2, <2>2, <2>3 DEF Called!Preapproved, Called!GatewayAsks
  <2>4. CASE ~Called!Preapproved(c)
    <3>1. Called!GatewayAsks(c) /\ c.path # "alone" /\ c.answer = "yes"
      BY <1>2, <1>3, <1>6, <2>2, <2>4 DEF Called!GatewayAsks
    <3>2. ~Called!AsksFirst(c)
      BY <2>4, <3>1 DEF Called!Preapproved
    <3> QED BY <1>2, <2>2, <3>1, <3>2
  <2> QED BY <2>3, <2>4
<1>7. ASSUME result.ran > 1
      PROVE  c.def.hint # "no" /\ ~c.def.destroys
          /\ \A i \in 1..(result.ran - 1) : ~Called!Good(c.does[i])
  <2>1. Called!Readonly(c.def) /\ ~c.def.destroys
            /\ \A i \in 1..(g.ran - 1) : ~Called!Good(c.does[i])
    BY <1>2, <1>3, <1>7 DEF Says, Repeated
  <2> QED BY <1>2, <2>1 DEF Called!Readonly
<1> QED BY <1>4, <1>5, <1>6, <1>7 DEF c, Called!ApprovedFirst

\* An effect is told.
LEMMA VerdictTold == ASSUME VerdictInv PROVE Called!EffectTold
<1> SUFFICES ASSUME Called!Done PROVE Called!EffectTold
  BY DEF Called!EffectTold
<1> DEFINE c == given
           g == Called!Gateway(c)
<1>1. c \in Calls /\ result = Called!Finished(c)
  BY DEF VerdictInv, Called!Done
<1>2. /\ result.ran = g.ran /\ result.outcome = g.outcome
      /\ result.operation = Called!Operation(c, g) /\ result.wire = Called!Wire(result.operation)
      /\ result.read = Called!Read(result.wire) /\ result.wire.outcome = g.outcome
      /\ result.shown = "success" \/ result.cached => g.outcome = "succeeded"
  BY <1>1, Forms
<1>3. Says(c, g)
  BY <1>1, GatewaySays
<1>4. Called!Tried = {c.does[i] : i \in 1..g.ran}
  BY <1>2 DEF Called!Tried
<1> HIDE DEF c, g
<1>5. g.outcome \in {"succeeded", "partial"} => Succeeds(c, g)
  <2>1. Errs(c, g) => g.outcome \notin {"succeeded", "partial"}
    BY DEF Errs, Called!OutcomeFor
  <2> QED BY <1>3, <2>1 DEF Says
<1>6. g.outcome \in {"succeeded", "partial"}
        => (Called!Effect(c.def) /\ c.row = "done") \/ (\E b \in Called!Tried : Called!Good(b))
  <2>1. g.ran \in 1..MaxTries => g.ran \in 1..g.ran
    BY <1>1, CallFacts
  <2> QED BY <1>4, <1>5, <2>1 DEF Succeeds
<1>7. ASSUME Called!Effect(c.def), \E b \in Called!Tried : b.applied
      PROVE  /\ result.operation.effect \in {"yes", "unknown"}
             /\ g.outcome \in Called!NeedsError => result.read.effect = "unknown"
  <2>1. CASE Succeeds(c, g)
    <3>1. g.outcome \in {"succeeded", "partial"}
      BY <2>1 DEF Succeeds
    <3> QED BY <1>2, <1>7, <3>1 DEF Called!Operation, Called!NeedsError
  <2>2. CASE Errs(c, g)
    <3> DEFINE e == g.error
    <3>1. e.effect = "unknown" /\ e.code # "APPROVAL_REQUIRED"
              /\ Called!TypeOf(e.type) \notin Called!Refusals
      BY <1>4, <1>7, <2>2 DEF Errs
    <3>2. g.outcome = Called!OutcomeFor(e) /\ e.type # "" /\ e.code # ""
      BY <2>2 DEF Errs
    <3>3. g.outcome \in Called!NeedsError
              /\ g.outcome \notin {"succeeded", "partial", "interrupted"} /\ e # Called!NoErr
      BY <3>1, <3>2, NoErrWords DEF Called!OutcomeFor, Called!NeedsError
    <3>4. result.operation.error = e /\ result.operation.effect = "unknown"
      BY <1>2, <3>1, <3>3 DEF Called!Operation
    <3>5. result.wire.type = e.type
      BY <1>2, <3>4 DEF Called!Wire
    <3>6. result.read.effect = Called!EnvelopeError(result.wire.type).effect
      BY <1>2, <3>3 DEF Called!Read, Called!EnvelopeError, Called!Err
    <3>7. Called!EnvelopeError(result.wire.type).effect = "unknown"
      BY <3>1, <3>5 DEF Called!EnvelopeError, Called!Err
    <3> QED BY <3>4, <3>6, <3>7
  <2> QED BY <1>3, <2>1, <2>2 DEF Says
<1> QED BY <1>2, <1>6, <1>7 DEF c, Called!EffectTold

\* The library counts the same in the instance.
LEMMA CalledCount == \A S : Called!Cardinality(S) = Cardinality(S)
BY DEF Called!Cardinality, Cardinality

\* The forms of a verdict agree.
LEMMA VerdictOne == ASSUME VerdictInv PROVE Called!OneVerdict
<1> SUFFICES ASSUME Called!Done PROVE Called!OneVerdict
  BY DEF Called!OneVerdict
<1> DEFINE c == given
           g == Called!Gateway(c)
           o == result.operation
           w == result.wire
           rd == result.read
<1>1. c \in Calls /\ result = Called!Finished(c)
  BY DEF VerdictInv, Called!Done
<1>2. /\ result.outcome = g.outcome
      /\ o = Called!Operation(c, g) /\ w = Called!Wire(o) /\ rd = Called!Read(w)
      /\ o.outcome = g.outcome /\ w.outcome = g.outcome /\ rd.outcome = g.outcome
      /\ result.marked = IF g.outcome \in Called!NeedsError THEN "error" ELSE "success"
  BY <1>1, Forms
<1>3. Says(c, g)
  BY <1>1, GatewaySays
<1> HIDE DEF c, g, o, w, rd
<1>4. Called!Cardinality({result.outcome, o.outcome, w.outcome, rd.outcome}) = 1
  <2>1. {result.outcome, o.outcome, w.outcome, rd.outcome} = {g.outcome}
    BY <1>2
  <2> QED BY <2>1, FS_Singleton, CalledCount
<1>5. /\ g.outcome \notin Called!NeedsError => o.error = Called!NoErr /\ rd.error = Called!NoErr
      /\ g.outcome \in Called!NeedsError
           => o.error = g.error /\ g.error.type # "" /\ g.error.code # ""
  <2>1. CASE Succeeds(c, g)
    <3>1. g.outcome \in {"succeeded", "partial"} /\ g.error = Called!NoErr
      BY <2>1 DEF Succeeds
    <3> QED BY <1>2, <3>1 DEF Called!Operation, Called!Read, Called!NeedsError
  <2>2. CASE Errs(c, g)
    <3>1. g.outcome = Called!OutcomeFor(g.error) /\ g.error.type # "" /\ g.error.code # ""
      BY <2>2 DEF Errs
    <3>2. g.error # Called!NoErr
      BY <3>1, NoErrWords
    <3>3. g.outcome \notin Called!NeedsError => g.outcome = "interrupted"
      BY <3>1 DEF Called!OutcomeFor, Called!NeedsError
    <3> QED BY <1>2, <3>1, <3>2, <3>3 DEF Called!Operation, Called!Read, Called!NeedsError
  <2> QED BY <1>3, <2>1, <2>2 DEF Says
<1>6. ASSUME g.outcome \in Called!NeedsError
      PROVE  /\ rd.error.code = o.error.code /\ o.error.code # "" /\ rd.error.retry = o.error.retry
             /\ o.error # Called!NoErr /\ rd.error # Called!NoErr
  <2>1. w.type = g.error.type /\ w.code = g.error.code /\ w.retry = o.error.retry
    BY <1>2, <1>5, <1>6 DEF Called!Wire
  <2>2. rd.error = [Called!EnvelopeError(w.type) EXCEPT !.code = IF w.code # "" THEN w.code ELSE @,
            !.retry = w.retry]
    BY <1>2, <1>6 DEF Called!Read
  <2>3. rd.error.code = w.code /\ rd.error.retry = w.retry
    <3>1. PICK t, k, r, f : Called!EnvelopeError(w.type) = Called!Err(t, k, r, f)
      BY EnvelopeIs
    <3>2. w.code # ""
      BY <1>5, <1>6, <2>1
    <3>3. rd.error = [Called!Err(t, k, r, f) EXCEPT !.code = w.code, !.retry = w.retry]
      BY <2>2, <3>1, <3>2
    <3> QED BY <3>3, ErrChanged
  <2>4. o.error # Called!NoErr /\ rd.error # Called!NoErr
    BY <1>5, <1>6, <2>1, <2>3, NoErrWords
  <2>5. rd.error.code = o.error.code /\ o.error.code # ""
    BY <1>5, <1>6, <2>1, <2>3
  <2>6. rd.error.retry = o.error.retry
    BY <2>1, <2>3
  <2> QED BY <2>4, <2>5, <2>6
<1>7. Called!Valid(o) /\ Called!Valid(rd)
  <2>1. (o.outcome \in Called!NeedsError) <=> (o.error # Called!NoErr)
    BY <1>2, <1>5, <1>6
  <2>2. (rd.outcome \in Called!NeedsError) <=> (rd.error # Called!NoErr)
    BY <1>2, <1>5, <1>6
  <2>3. Called!Valid(o)
    BY <2>1, SMT DEF Called!Valid
  <2>4. Called!Valid(rd)
    BY <2>2, SMT DEF Called!Valid
  <2> QED BY <2>3, <2>4
<1>8. (result.marked = "error") = (result.outcome \in Called!NeedsError)
  BY <1>2
<1> QED BY <1>2, <1>4, <1>6, <1>7, <1>8 DEF o, w, rd, Called!OneVerdict

\* The verdicts at the start.
LEMMA VerdictStart == Called!VerdictInit => VerdictInv
BY DEF Called!VerdictInit, VerdictInv

\* A call that is answered.
LEMMA VerdictStep == VerdictInv /\ (Called!Answer \/ UNCHANGED Called!verdictVars) => VerdictInv'
BY DEF VerdictInv, Called!Answer, Called!verdictVars

-----------------------------------------------------------------------------
PageCard == [id : Talk!Id, text : Nat, status : {"streaming", "complete", "aborted"}, approval : BOOLEAN]

\* The shape of the page, of what is stored, and of what the server has sent.
PageTyped ==
    /\ shown \in Seq(PageCard) /\ disk \in [Talk!Thread -> Seq(PageCard)]
    /\ loads \in Seq(Seq(PageCard)) /\ Len(loads) <= 1
    /\ home \in Seq(Talk!Thread) /\ said \in Seq(Nat) /\ Len(said) = Len(home) /\ Len(home) <= MaxMsgs
    /\ active \in Talk!Thread \cup {Talk!NoThread} /\ streaming \in BOOLEAN
    /\ order \in Seq(Talk!Thread) /\ dead \subseteq Talk!Thread
    /\ missed \subseteq Talk!Id /\ whole \subseteq Talk!Id /\ wiped \subseteq Talk!Thread
    /\ \A o \in open : o[1] \in DOMAIN home

\* The threads are numbered as they are made, and each is listed once until it is deleted.
Listed == Talk!Range(order)
ThreadsNumbered ==
    /\ \A m, n \in DOMAIN order : order[m] = order[n] => m = n
    /\ Listed \cap dead = {}
    /\ \A t \in Listed \cup dead : t <= Len(order) + Cardinality(dead)
    /\ \A n \in DOMAIN home : home[n] \in Listed \cup dead
    /\ active # Talk!NoThread => active \in Listed
    /\ active = Talk!NoThread => shown = <<>> /\ loads = <<>>

\* The messages of a thread: what a click is about to show, or else what is stored.
Of(t) == IF loads # <<>> /\ t = active THEN Head(loads) ELSE disk[t]

\* A thread has its own messages, in their order, each as the server sent it unless
\* some of it came while it was away.
Own(t, cards) ==
    /\ \A n \in DOMAIN cards : /\ cards[n].id \in DOMAIN home /\ home[cards[n].id] = t
                               /\ cards[n].id \notin missed => cards[n].text = said[cards[n].id]
    /\ \A n \in DOMAIN cards : \A m \in 1..(n - 1) : cards[m].id < cards[n].id
Kept ==
    /\ \A t \in Listed : Own(t, Of(t))
    /\ \A i \in whole : /\ i \in DOMAIN home
                        /\ home[i] \in Listed \ wiped => \E n \in DOMAIN Of(home[i]) : Of(home[i])[n].id = i
    /\ active # Talk!NoThread => shown = disk[active]
    /\ \A n \in DOMAIN shown : shown[n].id \in DOMAIN home

PageInv == PageTyped /\ ThreadsNumbered /\ Kept

\* The library counts the same in the instance.
LEMMA TalkCount == \A S : Talk!Cardinality(S) = Cardinality(S)
BY DEF Talk!Cardinality, Cardinality

\* The bounds are numbers.
LEMMA Bounds == MaxMsgs \in Nat /\ Threads \in Nat /\ MaxText \in Nat
BY WorkbenchAssumption DEF Talk!ThreadsAssumption

Hows == {"same", "ended", "failed", "broken", "asked", "pending", "decided"}

\* What an event makes of a card leaves its message and its text.
LEMMA EditKeeps ==
  ASSUME NEW m \in PageCard, NEW how \in Hows
  PROVE  Talk!Edit(m, how) \in PageCard /\ Talk!Edit(m, how).id = m.id /\ Talk!Edit(m, how).text = m.text
BY DEF Talk!Edit, PageCard, Hows

\* The threads of the list are threads.
LEMMA ListedThreads ==
  ASSUME PageTyped
  PROVE  Listed \subseteq Talk!Thread /\ Talk!NoThread \notin Talk!Thread
<1>1. Listed \subseteq Talk!Thread
  BY DEF PageTyped, Listed, Talk!Range
<1>2. Talk!NoThread \notin Talk!Thread
  BY DEF Talk!NoThread, Talk!Thread
<1> QED BY <1>1, <1>2

\* The messages of a thread are cards.
LEMMA OfCards ==
  ASSUME PageTyped, ThreadsNumbered, NEW t \in Talk!Thread
  PROVE  Of(t) \in Seq(PageCard) /\ (loads # <<>> /\ t = active => Head(loads) \in Seq(PageCard))
<1>1. loads # <<>> => Head(loads) \in Seq(PageCard)
  BY DEF PageTyped
<1>2. disk[t] \in Seq(PageCard)
  BY DEF PageTyped
<1> QED BY <1>1, <1>2 DEF Of

\* What was sent of each message is counted.
LEMMA SaidTexts ==
  ASSUME PageInv
  PROVE  /\ said \in Seq(Nat) /\ DOMAIN said = DOMAIN home
         /\ \A h \in DOMAIN home : said[h] \in Nat /\ h \in Talk!Id
<1>1. said \in Seq(Nat) /\ Len(said) = Len(home) /\ Len(home) <= MaxMsgs /\ home \in Seq(Talk!Thread)
  BY DEF PageInv, PageTyped
<1>2. DOMAIN said = 1..Len(home) /\ DOMAIN home = 1..Len(home) /\ Len(home) \in Nat
  BY <1>1
<1>3. \A h \in DOMAIN home : said[h] \in Nat
  BY <1>1, <1>2
<1>4. \A h \in DOMAIN home : h \in Talk!Id
  BY <1>1, <1>2, Bounds DEF Talk!Id
<1> QED BY <1>1, <1>2, <1>3, <1>4

\* One more piece of one message.
LEMMA TextMore ==
  ASSUME NEW q \in Seq(Nat), NEW i \in DOMAIN q, NEW k \in 0..1
  PROVE  /\ [q EXCEPT ![i] = @ + k] \in Seq(Nat)
         /\ Len([q EXCEPT ![i] = @ + k]) = Len(q)
         /\ \A j \in DOMAIN q : [q EXCEPT ![i] = @ + k][j] = q[j] + IF j = i THEN k ELSE 0
OBVIOUS

\* Events change cards of the page, never which they are, and a piece of text is one
\* more for a card that is there; while a click is under way it is a message missed.
LEMMA EventKept ==
  ASSUME PageInv, UNCHANGED <<order, active, loads, dead, home, wiped>>,
         NEW i \in DOMAIN home, NEW k \in 0..1,
         shown' \in Seq(PageCard), Len(shown') = Len(shown),
         \A n \in DOMAIN shown : /\ shown'[n].id = shown[n].id
                                 /\ shown'[n].text = shown[n].text + (IF shown[n].id = i THEN k ELSE 0),
         Talk!Save(active, shown'), said' = [said EXCEPT ![i] = @ + k],
         missed' = IF k > 0 /\ (loads # <<>> \/ ~Talk!OnPage(i)) THEN missed \cup {i} ELSE missed,
         whole' = whole \/ (loads = <<>> /\ Talk!OnPage(i) /\ whole' = whole \cup {i}),
         \A o \in open' : o[1] \in DOMAIN home, streaming' \in BOOLEAN
  PROVE  PageInv'
<1> USE DEF PageInv
<1>1. i \in Talk!Id /\ i \in DOMAIN said /\ said[i] \in Nat /\ DOMAIN said = DOMAIN home
  BY SaidTexts
<1>13. \A h \in DOMAIN home : said[h] \in Nat
  BY SaidTexts
<1>2. /\ said' \in Seq(Nat) /\ Len(said') = Len(said)
      /\ \A j \in DOMAIN home : said'[j] = said[j] + IF j = i THEN k ELSE 0
  BY <1>1, SaidTexts, TextMore
<1>3. /\ disk' \in [Talk!Thread -> Seq(PageCard)]
      /\ \A t \in Talk!Thread : t # active => disk'[t] = disk[t]
      /\ active # Talk!NoThread => disk'[active] = shown'
  BY DEF PageTyped, Talk!Save, Talk!NoThread
<1>4. PageTyped'
  <2>1. missed' \subseteq Talk!Id /\ whole' \subseteq Talk!Id
    BY <1>1 DEF PageTyped
  <2> QED BY <1>2, <1>3, <2>1 DEF PageTyped
<1>5. ThreadsNumbered'
  <2>1. active = Talk!NoThread => shown' = <<>>
    <3>1. active = Talk!NoThread => Len(shown) = 0
      BY DEF ThreadsNumbered
    <3> QED BY <3>1
  <2> QED BY <2>1 DEF ThreadsNumbered, Listed, Talk!Range
<1>6. ASSUME NEW t \in Listed, ~(loads = <<>> /\ t = active)
      PROVE  Of(t)' = Of(t) /\ (i \notin missed' => ~\E n \in DOMAIN Of(t) : Of(t)[n].id = i /\ k = 1)
  <2>1. t \in Talk!Thread
    BY ListedThreads
  <2>2. Of(t)' = Of(t)
    BY <1>3, <1>6, <2>1 DEF Of
  <2>3. ASSUME NEW n \in DOMAIN Of(t), Of(t)[n].id = i, k = 1 PROVE i \in missed'
    <3>1. home[i] = t
      BY <2>3 DEF Kept, Own
    <3>2. CASE loads # <<>>
      BY <2>3, <3>2
    <3>3. CASE loads = <<>>
      <4>1. t # active
        BY <1>6, <3>3
      <4>2. ~Talk!OnPage(i)
        <5> SUFFICES ASSUME NEW m \in DOMAIN shown, shown[m].id = i PROVE FALSE
          BY DEF Talk!OnPage
        <5>1. active # Talk!NoThread
          BY DEF ThreadsNumbered
        <5>2. shown = Of(active) /\ active \in Listed
          BY <3>3, <5>1 DEF Kept, Of, ThreadsNumbered
        <5>3. home[i] = active
          BY <5>2 DEF Kept, Own
        <5> QED BY <3>1, <4>1, <5>3
      <4> QED BY <2>3, <4>2
    <3> QED BY <3>2, <3>3
  <2> QED BY <2>2, <2>3
<1>7. missed \subseteq missed'
  OBVIOUS
<1>8. Listed' = Listed
  BY DEF Listed, Talk!Range
<1>9. ASSUME loads = <<>>, active # Talk!NoThread PROVE Of(active) = shown /\ Of(active)' = shown' /\ active \in Listed
  BY <1>3, <1>9 DEF Of, Kept, ThreadsNumbered
<1>10. ASSUME NEW t \in Listed PROVE Own(t, Of(t))'
  <2>1. Own(t, Of(t))
    BY DEF Kept
  <2>2. CASE ~(loads = <<>> /\ t = active)
    <3>1. Of(t)' = Of(t) /\ (i \notin missed' => ~\E n \in DOMAIN Of(t) : Of(t)[n].id = i /\ k = 1)
      BY <1>6, <2>2
    <3>2. ASSUME NEW n \in DOMAIN Of(t), Of(t)[n].id \notin missed'
          PROVE  Of(t)[n].text = said'[Of(t)[n].id]
      <4>1. Of(t)[n].id \in DOMAIN home /\ Of(t)[n].text = said[Of(t)[n].id] /\ said[Of(t)[n].id] \in Nat
        <5>1. Of(t)[n].id \notin missed
          BY <1>7, <3>2
        <5>2. Of(t)[n].id \in DOMAIN home /\ Of(t)[n].text = said[Of(t)[n].id]
          BY <2>1, <5>1 DEF Own
        <5>3. \A h \in DOMAIN home : said[h] \in Nat
          BY <1>13
        <5> QED BY <5>2, <5>3
      <4>2. ~(Of(t)[n].id = i /\ k = 1)
        BY <3>1, <3>2
      <4> QED BY <1>2, <4>1, <4>2
    <3> QED BY <2>1, <3>1, <3>2 DEF Own
  <2>3. CASE loads = <<>> /\ t = active
    <3>1. t # Talk!NoThread
      BY ListedThreads
    <3>2. Of(t) = shown /\ Of(t)' = shown'
      BY <1>9, <2>3, <3>1
    <3>3. DOMAIN shown' = DOMAIN shown
      BY DEF PageTyped
    <3>4. ASSUME NEW n \in DOMAIN shown, shown[n].id \notin missed'
          PROVE  shown'[n].text = said'[shown[n].id]
      <4>1. shown[n].id \in DOMAIN home /\ shown[n].text = said[shown[n].id]
        BY <1>7, <2>1, <3>2, <3>4 DEF Own
      <4> QED BY <1>2, <4>1
    <3>5. \A n \in DOMAIN shown : \A m \in 1..(n - 1) : shown'[m].id < shown'[n].id
      <4> SUFFICES ASSUME NEW n \in DOMAIN shown, NEW m \in 1..(n - 1) PROVE shown'[m].id < shown'[n].id
        OBVIOUS
      <4>1. m \in DOMAIN shown /\ shown[m].id < shown[n].id
        BY <2>1, <3>2 DEF Own, PageTyped
      <4> QED BY <4>1
    <3> QED BY <2>1, <3>2, <3>3, <3>4, <3>5 DEF Own
  <2> QED BY <2>2, <2>3
<1>11. ASSUME NEW j \in whole', NEW t, j \in DOMAIN home => t = home[j]
       PROVE  /\ j \in DOMAIN home
              /\ t \in Listed \ wiped => \E n \in DOMAIN Of(t)' : Of(t)'[n].id = j
  <2>1. CASE j \in whole
    <3>1. /\ j \in DOMAIN home
          /\ t \in Listed \ wiped => \E n \in DOMAIN Of(t) : Of(t)[n].id = j
      <4>1. /\ j \in DOMAIN home
            /\ home[j] \in Listed \ wiped => \E n \in DOMAIN Of(home[j]) : Of(home[j])[n].id = j
        BY <2>1 DEF Kept
      <4> QED BY <1>11, <4>1
    <3>2. ASSUME t \in Listed
          PROVE  /\ DOMAIN Of(t)' = DOMAIN Of(t)
                 /\ \A n \in DOMAIN Of(t) : Of(t)'[n].id = Of(t)[n].id
      <4>1. CASE ~(loads = <<>> /\ t = active)
        BY <1>6, <3>2, <4>1
      <4>2. CASE loads = <<>> /\ t = active
        <5>1. active # Talk!NoThread
          BY <3>2, <4>2, ListedThreads
        <5>2. DOMAIN shown' = DOMAIN shown
          BY DEF PageTyped
        <5> QED BY <1>9, <4>2, <5>1, <5>2
      <4> QED BY <4>1, <4>2
    <3> QED BY <3>1, <3>2
  <2>2. CASE j \notin whole
    <3>1. loads = <<>> /\ Talk!OnPage(i) /\ j = i
      BY <2>2
    <3>2. active # Talk!NoThread
      BY <3>1 DEF ThreadsNumbered, Talk!OnPage
    <3>3. PICK n \in DOMAIN shown : shown[n].id = i
      BY <3>1 DEF Talk!OnPage
    <3>4. home[i] = active
      BY <1>9, <3>1, <3>2, <3>3 DEF Kept, Own
    <3>5. DOMAIN shown' = DOMAIN shown
      BY DEF PageTyped
    <3>6. j \in DOMAIN home /\ t = active /\ Of(t)' = shown'
      BY <1>9, <1>11, <3>1, <3>2, <3>4
    <3>7. n \in DOMAIN shown' /\ shown'[n].id = j
      BY <3>1, <3>3, <3>5
    <3> QED BY <3>6, <3>7
  <2> QED BY <2>1, <2>2
<1>12. Kept'
  <2>1. active' # Talk!NoThread => shown' = disk'[active']
    BY <1>3
  <2>5. DOMAIN shown' = DOMAIN shown
    BY DEF PageTyped
  <2>2. \A n \in DOMAIN shown' : shown'[n].id \in DOMAIN home'
    BY <2>5 DEF Kept
  <2>3. \A t \in Listed' : Own(t, Of(t))'
    BY <1>8, <1>10
  <2>4. ASSUME NEW j \in whole'
        PROVE  /\ j \in DOMAIN home'
               /\ home'[j] \in Listed' \ wiped' => \E n \in DOMAIN Of(home[j])' : Of(home[j])'[n].id = j
    <3> DEFINE t == home[j]
    <3>1. /\ j \in DOMAIN home
          /\ t \in Listed \ wiped => \E n \in DOMAIN Of(t)' : Of(t)'[n].id = j
      BY <1>11
    <3> QED BY <1>8, <3>1
  <2> QED BY <2>1, <2>2, <2>3, <2>4 DEF Kept
<1> QED BY <1>4, <1>5, <1>12


\* What comes for a message, as EventKept takes it.
LEMMA ArriveFacts ==
  ASSUME PageTyped, NEW i \in DOMAIN home, NEW k \in 0..1, NEW how \in Hows, Talk!Arrives(i, k, how)
  PROVE  /\ shown' \in Seq(PageCard) /\ Len(shown') = Len(shown)
         /\ \A n \in DOMAIN shown : /\ shown'[n].id = shown[n].id
                                    /\ shown'[n].text = shown[n].text + (IF shown[n].id = i THEN k ELSE 0)
         /\ Talk!Save(active, shown') /\ said' = [said EXCEPT ![i] = @ + k]
         /\ missed' = IF k > 0 /\ (loads # <<>> \/ ~Talk!OnPage(i)) THEN missed \cup {i} ELSE missed
<1> DEFINE new(n) == IF shown[n].id = i THEN [Talk!Edit(shown[n], how) EXCEPT !.text = @ + k] ELSE shown[n]
<1>1. shown' = [n \in DOMAIN shown |-> new(n)] /\ Talk!Save(active, shown')
  BY DEF Talk!Arrives, Talk!Show
<1>2. ASSUME NEW n \in DOMAIN shown
      PROVE  /\ new(n) \in PageCard /\ new(n).id = shown[n].id
             /\ new(n).text = shown[n].text + (IF shown[n].id = i THEN k ELSE 0)
  <2>1. shown[n] \in PageCard
    BY DEF PageTyped
  <2>2. /\ Talk!Edit(shown[n], how) \in PageCard /\ Talk!Edit(shown[n], how).id = shown[n].id
        /\ Talk!Edit(shown[n], how).text = shown[n].text
    BY <2>1, EditKeeps
  <2> QED BY <2>1, <2>2 DEF PageCard
<1> HIDE DEF new
<1>3. shown' \in Seq(PageCard) /\ Len(shown') = Len(shown) /\ \A n \in DOMAIN shown : shown'[n] = new(n)
  <2>1. DOMAIN shown = 1..Len(shown) /\ Len(shown) \in Nat
    BY DEF PageTyped
  <2>2. shown' = [n \in 1..Len(shown) |-> new(n)] /\ \A n \in 1..Len(shown) : new(n) \in PageCard
    BY <1>1, <1>2, <2>1
  <2> QED BY <2>1, <2>2
<1> QED BY <1>1, <1>2, <1>3 DEF Talk!Arrives

\* A piece of text keeps the invariant of the page.
LEMMA TokenKept ==
  ASSUME PageInv, NEW i \in DOMAIN home, Talk!Token(i)
  PROVE  PageInv'
<1>1. "same" \in Hows /\ Talk!Arrives(i, 1, "same") /\ PageTyped
  BY DEF Hows, Talk!Token, PageInv
<1>2. /\ UNCHANGED <<order, active, loads, dead, home, wiped, streaming, open, whole>>
      /\ streaming' \in BOOLEAN /\ \A o \in open' : o[1] \in DOMAIN home
  BY DEF Talk!Token, Talk!Quiet, PageInv, PageTyped
<1> QED BY <1>1, <1>2, ArriveFacts, EventKept

\* So does the last event of a stream, whatever it says.
LEMMA LastKept ==
  ASSUME PageInv, NEW i \in DOMAIN home, NEW k \in 0..1, NEW how \in Hows, NEW kind,
         Talk!Arrives(i, k, how), Talk!Over(i, kind), Talk!Quiet
  PROVE  PageInv'
<1>1. \A o \in open' : o[1] \in DOMAIN home
  BY DEF Talk!Over, PageInv, PageTyped
<1>2. streaming' \in BOOLEAN /\ (whole' = whole \/ (loads = <<>> /\ Talk!OnPage(i) /\ whole' = whole \cup {i}))
  BY DEF Talk!Over
<1> QED BY <1>1, <1>2, ArriveFacts, EventKept DEF Talk!Quiet, PageInv

\* Ends, failures and resumed turns are such events.
LEMMA EndsKept ==
  ASSUME PageInv, NEW i \in DOMAIN home, Talk!Done(i) \/ Talk!Error(i) \/ Talk!Resumed(i)
  PROVE  PageInv'
<1>1. {"ended", "pending", "failed", "broken", "asked"} \subseteq Hows
  BY DEF Hows
<1>2. CASE Talk!Done(i)
  BY <1>1, <1>2, LastKept DEF Talk!Done
<1>3. CASE Talk!Error(i)
  BY <1>1, <1>3, LastKept DEF Talk!Error
<1>4. CASE Talk!Resumed(i)
  BY <1>1, <1>4, LastKept DEF Talk!Resumed
<1> QED BY <1>2, <1>3, <1>4

\* Requests come and go without the page.
LEMMA StillKept ==
  ASSUME PageInv,
         UNCHANGED <<order, active, shown, disk, loads, dead, home, said, missed, whole, wiped>>,
         \A o \in open' : o[1] \in DOMAIN home, streaming' \in BOOLEAN
  PROVE  PageInv'
BY DEF PageInv, PageTyped, ThreadsNumbered, Kept, Listed, Own, Of

\* A change of one card that leaves its message and its text.
LEMMA CardKept ==
  ASSUME PageInv, UNCHANGED <<order, active, loads, dead, home, wiped, said, missed, whole>>,
         shown' \in Seq(PageCard), Len(shown') = Len(shown),
         \A n \in DOMAIN shown : shown'[n].id = shown[n].id /\ shown'[n].text = shown[n].text,
         Talk!Save(active, shown'), \A o \in open' : o[1] \in DOMAIN home, streaming' \in BOOLEAN
  PROVE  PageInv'
<1>1. CASE shown = <<>>
  <2>1. Len(shown) = 0
    BY <1>1
  <2>2. shown' = <<>>
    BY <2>1
  <2>3. disk' = disk
    <3>1. CASE active = Talk!NoThread
      BY <3>1 DEF Talk!Save
    <3>2. CASE active # Talk!NoThread
      <4>1. disk[active] = <<>> /\ disk \in [Talk!Thread -> Seq(PageCard)]
        BY <1>1, <3>2 DEF PageInv, Kept, PageTyped
      <4> QED BY <2>2, <3>2, <4>1 DEF Talk!Save
    <3> QED BY <3>1, <3>2
  <2> QED BY <1>1, <2>2, <2>3, StillKept
<1>2. CASE shown # <<>>
  <2>1. 1 \in DOMAIN shown
    <3>1. shown \in Seq(PageCard)
      BY DEF PageInv, PageTyped
    <3> QED BY <1>2, <3>1
  <2>2. /\ home \in Seq(Talk!Thread) /\ said \in Seq(Nat) /\ Len(said) = Len(home)
        /\ \A n \in DOMAIN shown : shown[n].id \in DOMAIN home
    BY DEF PageInv, PageTyped, Kept
  <2> DEFINE i == shown[1].id
  <2>3. i \in DOMAIN home
    BY <2>1, <2>2
  <2> HIDE DEF i
  <2>4. i \in DOMAIN said /\ said[i] \in Nat
    BY <2>2, <2>3
  <2>5. said' = [said EXCEPT ![i] = @ + 0]
    BY <2>2, <2>4
  <2>6. \A n \in DOMAIN shown : shown'[n].text = shown[n].text + (IF shown[n].id = i THEN 0 ELSE 0)
    <3> SUFFICES ASSUME NEW n \in DOMAIN shown PROVE shown'[n].text = shown[n].text + 0
      OBVIOUS
    <3>1. shown[n] \in PageCard
      BY DEF PageInv, PageTyped
    <3> QED BY <3>1 DEF PageCard
  <2>7. /\ missed' = IF 0 > 0 /\ (loads # <<>> \/ ~Talk!OnPage(i)) THEN missed \cup {i} ELSE missed
        /\ 0 \in 0..1
    OBVIOUS
  <2> QED BY <2>3, <2>5, <2>6, <2>7, EventKept
<1> QED BY <1>1, <1>2

\* Stopping keeps it.
LEMMA StopKept == ASSUME PageInv, Talk!Stop PROVE PageInv'
<1> DEFINE running == {n \in DOMAIN shown : shown[n].status = "streaming"}
<1>1. /\ UNCHANGED <<order, active, loads, dead, home, wiped, said, missed, whole>>
      /\ \A o \in open' : o[1] \in DOMAIN home
      /\ streaming' \in BOOLEAN
  BY DEF Talk!Stop, PageInv, PageTyped, Talk!Past
<1>2. CASE running = {}
  BY <1>1, <1>2, StillKept DEF Talk!Stop
<1>3. CASE running # {}
  <2>1. PICK n : shown' = [shown EXCEPT ![n].status = "aborted"] /\ Talk!Save(active, shown')
    BY <1>3 DEF Talk!Stop, Talk!Show
  <2>2. shown \in Seq(PageCard)
    BY DEF PageInv, PageTyped
  <2>3. /\ shown' \in Seq(PageCard) /\ Len(shown') = Len(shown)
        /\ \A k \in DOMAIN shown : shown'[k].id = shown[k].id /\ shown'[k].text = shown[k].text
    <3>1. \A k \in DOMAIN shown : shown[k] \in PageCard
      BY <2>2
    <3>2. \A k \in DOMAIN shown : /\ shown'[k] \in PageCard
            /\ shown'[k].id = shown[k].id /\ shown'[k].text = shown[k].text
      BY <2>1, <3>1 DEF PageCard
    <3>3. DOMAIN shown' = DOMAIN shown /\ DOMAIN shown = 1..Len(shown) /\ Len(shown) \in Nat
      BY <2>1, <2>2
    <3>4. shown' = [k \in 1..Len(shown) |-> shown'[k]]
      BY <2>1, <3>3
    <3> QED BY <3>2, <3>3, <3>4
  <2> QED BY <1>1, <2>1, <2>3, CardKept
<1> QED BY <1>2, <1>3

\* Deciding on an approval keeps it.
LEMMA DecideKept == ASSUME PageInv, NEW i \in DOMAIN home, Talk!Decide(i) PROVE PageInv'
<1>1. /\ UNCHANGED <<order, active, loads, dead, home, wiped, said, missed, whole>>
      /\ \A o \in open' : o[1] \in DOMAIN home
      /\ streaming' \in BOOLEAN
  BY DEF Talk!Decide, PageInv, PageTyped, Talk!Past
<1>2. shown' = Talk!Edited(i, "decided") /\ Talk!Save(active, shown')
  BY DEF Talk!Decide, Talk!Show
<1>3. shown \in Seq(PageCard) /\ "decided" \in Hows
  BY DEF PageInv, PageTyped, Hows
<1> DEFINE new(n) == IF shown[n].id = i THEN Talk!Edit(shown[n], "decided") ELSE shown[n]
<1>4. \A n \in DOMAIN shown : new(n) \in PageCard /\ new(n).id = shown[n].id /\ new(n).text = shown[n].text
  BY <1>3, EditKeeps
<1>5. shown' = [n \in DOMAIN shown |-> new(n)]
  BY <1>2 DEF Talk!Edited
<1> HIDE DEF new
<1>6. DOMAIN shown = 1..Len(shown) /\ Len(shown) \in Nat
  BY <1>3
<1>7. shown' = [n \in 1..Len(shown) |-> new(n)] /\ \A n \in 1..Len(shown) : new(n) \in PageCard
  BY <1>4, <1>5, <1>6
<1>8. /\ shown' \in Seq(PageCard) /\ Len(shown') = Len(shown)
      /\ \A n \in DOMAIN shown : shown'[n].id = shown[n].id /\ shown'[n].text = shown[n].text
  BY <1>4, <1>6, <1>7
<1> QED BY <1>1, <1>2, <1>8, CardKept

\* A connection that ends keeps it.
LEMMA CeasesKept == ASSUME PageInv, NEW i \in DOMAIN home, Talk!Ceases(i) PROVE PageInv'
<1>1. \A o \in open' : o[1] \in DOMAIN home
  BY DEF Talk!Ceases, PageInv, PageTyped
<1>2. streaming' \in BOOLEAN
  BY DEF Talk!Ceases, PageInv, PageTyped
<1>3. UNCHANGED <<order, active, shown, disk, loads, dead, home, said, missed, whole, wiped>>
  BY DEF Talk!Ceases, Talk!Quiet
<1> QED BY <1>1, <1>2, <1>3, StillKept


\* The user waits for what a click is about to show.
LEMMA UserWaits == Talk!User => loads = <<>>
BY WorkbenchAssumption DEF Talk!User

\* A list with one more, and without one.
LEMMA ListMore ==
  ASSUME NEW S, NEW s \in Seq(S), NEW e \in S
  PROVE  /\ <<e>> \o s \in Seq(S) /\ Len(<<e>> \o s) = Len(s) + 1
         /\ (<<e>> \o s)[1] = e /\ \A n \in 1..Len(s) : (<<e>> \o s)[n + 1] = s[n]
         /\ Talk!Range(<<e>> \o s) = Talk!Range(s) \cup {e}
<1> DEFINE r == <<e>> \o s
<1>1. /\ r \in Seq(S) /\ Len(r) = Len(s) + 1 /\ r[1] = e
      /\ \A n \in 1..Len(s) : r[n + 1] = s[n]
  OBVIOUS
<1> HIDE DEF r
<1>2. Talk!Range(r) \subseteq Talk!Range(s) \cup {e}
  <2> SUFFICES ASSUME NEW n \in DOMAIN r, n # 1 PROVE r[n] \in Talk!Range(s)
    BY <1>1 DEF Talk!Range
  <2>1. n - 1 \in 1..Len(s) /\ r[(n - 1) + 1] = s[n - 1] /\ (n - 1) + 1 = n
    BY <1>1
  <2>2. n - 1 \in DOMAIN s /\ r[n] = s[n - 1]
    BY <2>1
  <2> QED BY <2>2 DEF Talk!Range
<1>3. Talk!Range(s) \cup {e} \subseteq Talk!Range(r)
  <2>1. e \in Talk!Range(r)
    BY <1>1 DEF Talk!Range
  <2>2. ASSUME NEW n \in DOMAIN s PROVE s[n] \in Talk!Range(r)
    <3>1. n + 1 \in DOMAIN r /\ r[n + 1] = s[n]
      BY <1>1
    <3> QED BY <3>1 DEF Talk!Range
  <2> QED BY <2>1, <2>2 DEF Talk!Range
<1> QED BY <1>1, <1>2, <1>3 DEF r

\* What is deleted can be counted.
LEMMA DeadCount == ASSUME PageTyped PROVE IsFiniteSet(dead) /\ Cardinality(dead) \in Nat
<1>1. IsFiniteSet(1..Threads)
  BY Bounds, FS_Interval
<1>2. dead \subseteq 1..Threads
  BY DEF PageTyped, Talk!Thread
<1>3. IsFiniteSet(dead)
  BY <1>1, <1>2, FS_Subset
<1> QED BY <1>3, FS_CardinalityType

\* A new thread keeps it.
LEMMA CreateKept == ASSUME PageInv, NEW t \in Talk!Thread, Talk!Create(t) PROVE PageInv'
<1> USE DEF PageInv
<1>1. loads = <<>> /\ loads' = <<>>
  BY UserWaits DEF Talk!Create, Talk!Click
<1>2. /\ t = Len(order) + Cardinality(dead) + 1 /\ order' = <<t>> \o order /\ active' = t
      /\ shown' = <<>> /\ disk' = [disk EXCEPT ![t] = <<>>]
      /\ UNCHANGED <<streaming, open, dead, home, said, missed, whole, wiped>>
  BY TalkCount DEF Talk!Create, Talk!Save, Talk!Past, Talk!NoThread, Talk!Thread
<1>3. /\ order' \in Seq(Talk!Thread) /\ Listed' = Listed \cup {t} /\ Len(order') = Len(order) + 1
      /\ order'[1] = t /\ \A n \in 1..Len(order) : order'[n + 1] = order[n]
  BY <1>2, ListMore DEF PageTyped, Listed
<1>4. Len(order) \in Nat /\ Cardinality(dead) \in Nat
  <2>1. Len(order) \in Nat
    BY DEF PageTyped
  <2> QED BY <2>1, DeadCount
<1>5. t \notin Listed \cup dead
  BY <1>2, <1>4 DEF ThreadsNumbered
<1>6. PageTyped'
  <2>1. <<>> \in Seq(PageCard) /\ Len(<<>>) = 0
    OBVIOUS
  <2>2. disk' \in [Talk!Thread -> Seq(PageCard)]
    BY <1>2, <2>1 DEF PageTyped
  <2> QED BY <1>1, <1>2, <1>3, <2>1, <2>2 DEF PageTyped
<1>7. ThreadsNumbered'
  <2>1. ASSUME NEW m \in DOMAIN order', NEW n \in DOMAIN order', order'[m] = order'[n] PROVE m = n
    <3>1. order \in Seq(Talk!Thread) /\ DOMAIN order' = 1..(Len(order) + 1)
      BY <1>3 DEF PageTyped
    <3>2. \A k \in DOMAIN order' : k # 1 => k - 1 \in DOMAIN order /\ order'[k] = order[k - 1]
      <4> SUFFICES ASSUME NEW k \in DOMAIN order', k # 1 PROVE k - 1 \in DOMAIN order /\ order'[k] = order[k - 1]
        OBVIOUS
      <4>1. k - 1 \in 1..Len(order) /\ k = (k - 1) + 1
        BY <1>4, <3>1
      <4> QED BY <1>3, <3>1, <4>1
    <3>3. \A k \in DOMAIN order : order[k] # t
      BY <1>5 DEF Listed, Talk!Range
    <3>4. CASE m = 1 \/ n = 1
      BY <1>3, <2>1, <3>2, <3>3, <3>4
    <3>5. CASE m # 1 /\ n # 1
      <4>1. m - 1 \in DOMAIN order /\ n - 1 \in DOMAIN order /\ order[m - 1] = order[n - 1]
        BY <2>1, <3>2, <3>5
      <4>2. m - 1 = n - 1
        BY <4>1 DEF ThreadsNumbered
      <4> QED BY <3>1, <4>2
    <3> QED BY <3>4, <3>5
  <2>2. Listed' \cap dead' = {}
    BY <1>2, <1>3, <1>5 DEF ThreadsNumbered
  <2>3. \A u \in Listed' \cup dead' : u <= Len(order') + Cardinality(dead')
    <3> SUFFICES ASSUME NEW u \in Listed \cup dead \cup {t} PROVE u <= Len(order) + 1 + Cardinality(dead)
      BY <1>2, <1>3
    <3>1. CASE u \in Listed \cup dead
      <4>1. u <= Len(order) + Cardinality(dead)
        BY <3>1 DEF ThreadsNumbered
      <4>2. Listed \subseteq Talk!Thread /\ dead \subseteq Talk!Thread /\ Talk!Thread \subseteq Nat
        BY ListedThreads DEF PageTyped, Talk!Thread
      <4>3. u \in Nat
        BY <3>1, <4>2
      <4> QED BY <1>4, <4>1, <4>3
    <3>2. CASE u = t
      BY <1>2, <1>4, <3>2
    <3> QED BY <3>1, <3>2
  <2>4. \A n \in DOMAIN home' : home'[n] \in Listed' \cup dead'
    BY <1>2, <1>3 DEF ThreadsNumbered
  <2>5. active' # Talk!NoThread /\ active' \in Listed'
    BY <1>2, <1>3, ListedThreads
  <2> QED BY <2>1, <2>2, <2>3, <2>4, <2>5 DEF ThreadsNumbered
<1>8. /\ Of(t)' = <<>>
      /\ \A u \in Listed : Of(u)' = Of(u)
  BY <1>1, <1>2, <1>5, ListedThreads DEF Of, PageTyped
<1>9. Kept'
  <2>1. ASSUME NEW u \in Listed' PROVE Own(u, Of(u))'
    <3>1. CASE u = t
      BY <1>8, <3>1 DEF Own
    <3>2. CASE u \in Listed
      BY <1>2, <1>8, <3>2 DEF Kept, Own
    <3> QED BY <1>3, <3>1, <3>2
  <2>2. ASSUME NEW i \in whole'
        PROVE  /\ i \in DOMAIN home'
               /\ home'[i] \in Listed' \ wiped' => \E n \in DOMAIN Of(home[i])' : Of(home[i])'[n].id = i
    <3>1. /\ i \in DOMAIN home
          /\ home[i] \in Listed \ wiped => \E n \in DOMAIN Of(home[i]) : Of(home[i])[n].id = i
      BY <1>2 DEF Kept
    <3>2. home[i] # t
      BY <1>5, <3>1 DEF ThreadsNumbered
    <3> DEFINE u == home[i]
    <3>3. u' = u
      BY <1>2
    <3>4. u \in Listed => Of(home[i])' = Of(u)
      BY <1>1, <1>2, <3>2, ListedThreads DEF Of, PageTyped
    <3> QED BY <1>2, <1>3, <3>1, <3>2, <3>4
  <2>3. shown' = disk'[active'] /\ DOMAIN shown' = {}
    BY <1>2 DEF PageTyped
  <2> QED BY <2>1, <2>2, <2>3 DEF Kept
<1> QED BY <1>6, <1>7, <1>9


\* Where what is stored stays, or stands in what a click is about to show, the
\* messages of the threads are kept.
LEMMA StoredKept ==
  ASSUME PageInv, UNCHANGED <<order, dead, home, said, missed, whole, wiped>>,
         \A u \in Listed : Of(u)' = Of(u),
         shown' \in Seq(PageCard), disk' \in [Talk!Thread -> Seq(PageCard)],
         loads' \in Seq(Seq(PageCard)), Len(loads') <= 1,
         active' \in Listed, streaming' \in BOOLEAN, \A o \in open' : o[1] \in DOMAIN home,
         shown' = disk'[active'], \A n \in DOMAIN shown' : shown'[n].id \in DOMAIN home
  PROVE  PageInv'
<1> USE DEF PageInv
<1>1. Listed' = Listed /\ Listed \subseteq Talk!Thread /\ Talk!NoThread \notin Talk!Thread
  BY ListedThreads DEF Listed, Talk!Range
<1>2. PageTyped'
  BY <1>1 DEF PageTyped
<1>3. ThreadsNumbered'
  BY <1>1 DEF ThreadsNumbered
<1>4. Kept'
  <2>1. ASSUME NEW u \in Listed PROVE Own(u, Of(u))'
    BY <2>1 DEF Kept, Own
  <2>2. ASSUME NEW i \in whole
        PROVE  /\ i \in DOMAIN home
               /\ home[i] \in Listed \ wiped => \E n \in DOMAIN Of(home[i])' : Of(home[i])'[n].id = i
    <3>1. /\ i \in DOMAIN home
          /\ home[i] \in Listed \ wiped => \E n \in DOMAIN Of(home[i]) : Of(home[i])[n].id = i
      BY DEF Kept
    <3> DEFINE u == home[i]
    <3>2. u \in Listed => Of(u)' = Of(u)
      BY <1>1, <2>2
    <3> QED BY <3>1, <3>2
  <2> QED BY <1>1, <2>1, <2>2 DEF Kept
<1> QED BY <1>2, <1>3, <1>4

\* A click on a thread keeps it.
LEMMA SwitchKept == ASSUME PageInv, NEW t \in Talk!Thread, Talk!Switch(t) PROVE PageInv'
<1> USE DEF PageInv
<1>1. loads = <<>> /\ t \in Listed
  BY UserWaits DEF Talk!Switch, Talk!Click, Listed
<1>2. Listed \subseteq Talk!Thread /\ Talk!NoThread \notin Talk!Thread
  BY ListedThreads
<1>3. /\ disk \in [Talk!Thread -> Seq(PageCard)] /\ shown \in Seq(PageCard)
      /\ streaming \in BOOLEAN /\ \A o \in open : o[1] \in DOMAIN home
      /\ \A n \in DOMAIN shown : shown[n].id \in DOMAIN home
  BY DEF PageTyped, Kept
<1>4. loads' \in Seq(Seq(PageCard)) /\ Len(loads') <= 1 /\ loads' # <<>> /\ Head(loads') = disk[t]
  <2>1. loads' = Append(<<>>, disk[t]) /\ disk[t] \in Seq(PageCard)
    BY <1>1, <1>3 DEF Talk!Switch
  <2> QED BY <2>1
<1>5. /\ active' = t /\ shown' = shown
      /\ UNCHANGED <<order, streaming, open, dead, home, said, missed, whole, wiped>>
  BY DEF Talk!Switch, Talk!Past
<1>6. /\ disk' \in [Talk!Thread -> Seq(PageCard)] /\ disk'[t] = shown
      /\ \A u \in Talk!Thread : u # t => disk'[u] = disk[u]
  <2>1. CASE t = active
    <3>1. shown = disk[t] /\ disk' = disk
      BY <1>2, <2>1 DEF Talk!Switch, Kept
    <3> QED BY <1>3, <3>1
  <2>2. CASE t # active
    <3>1. disk' = [disk EXCEPT ![t] = shown]
      BY <1>2, <2>2 DEF Talk!Switch, Talk!Save
    <3> QED BY <1>3, <3>1
  <2> QED BY <2>1, <2>2
<1>7. ASSUME NEW u \in Listed PROVE Of(u)' = Of(u)
  <2>1. Of(u) = disk[u]
    BY <1>1 DEF Of
  <2>2. CASE u = t
    BY <1>4, <1>5, <2>1, <2>2 DEF Of
  <2>3. CASE u # t
    BY <1>2, <1>5, <1>6, <2>1, <2>3 DEF Of
  <2> QED BY <2>2, <2>3
<1> QED BY <1>1, <1>3, <1>4, <1>5, <1>6, <1>7, StoredKept

\* The timer that shows what the click asked for keeps it.
LEMMA TimerKept == ASSUME PageInv, Talk!Timer PROVE PageInv'
<1> USE DEF PageInv
<1>1. loads # <<>> /\ active # Talk!NoThread /\ active \in Listed
  BY DEF Talk!Timer, ThreadsNumbered
<1>2. Listed \subseteq Talk!Thread /\ Talk!NoThread \notin Talk!Thread
  BY ListedThreads
<1>3. loads \in Seq(Seq(PageCard)) /\ Len(loads) <= 1 /\ disk \in [Talk!Thread -> Seq(PageCard)]
  BY DEF PageTyped
<1>4. Len(loads) = 1 /\ Head(loads) \in Seq(PageCard)
  <2>1. Head(loads) \in Seq(PageCard)
    BY <1>1, <1>3
  <2> DEFINE n == Len(loads)
  <2>2. n \in Nat /\ n # 0 /\ n <= 1
    BY <1>1, <1>3
  <2> HIDE DEF n
  <2>3. n = 1
    BY <2>2
  <2> QED BY <2>1, <2>3 DEF n
<1>5. loads' = Tail(loads)
  BY DEF Talk!Timer
<1>6. loads' = <<>> /\ loads' \in Seq(Seq(PageCard)) /\ Len(loads') <= 1
  <2>1. loads' \in Seq(Seq(PageCard)) /\ Len(loads') = 0
    BY <1>1, <1>3, <1>4, <1>5
  <2> QED BY <2>1
<1>7. /\ shown' = Head(loads) /\ disk' = [disk EXCEPT ![active] = Head(loads)]
      /\ UNCHANGED <<order, active, streaming, open, dead, home, said, missed, whole, wiped>>
  BY <1>1 DEF Talk!Timer, Talk!Show, Talk!Save, Talk!Past
<1>8. streaming \in BOOLEAN /\ \A o \in open : o[1] \in DOMAIN home
  BY DEF PageTyped
<1>9. /\ disk' \in [Talk!Thread -> Seq(PageCard)] /\ disk'[active] = Head(loads)
      /\ \A u \in Talk!Thread : u # active => disk'[u] = disk[u]
  BY <1>1, <1>2, <1>3, <1>4, <1>7
<1>10. ASSUME NEW u \in Listed PROVE Of(u)' = Of(u)
  <2>1. Of(u)' = disk'[u]
    BY <1>6 DEF Of
  <2>2. CASE u = active
    BY <1>1, <1>9, <2>1, <2>2 DEF Of
  <2>3. CASE u # active
    BY <1>2, <1>9, <2>1, <2>3 DEF Of
  <2> QED BY <2>2, <2>3
<1>11. \A n \in DOMAIN Head(loads) : Head(loads)[n].id \in DOMAIN home
  <2>1. Of(active) = Head(loads) /\ Own(active, Of(active))
    BY <1>1 DEF Of, Kept
  <2> QED BY <2>1 DEF Own
<1> QED BY <1>1, <1>4, <1>6, <1>7, <1>8, <1>9, <1>10, <1>11, StoredKept

\* A reload keeps it.
LEMMA ReloadKept == ASSUME PageInv, Talk!Reload PROVE PageInv'
<1> USE DEF PageInv
<1>1. loads = <<>> /\ loads' = <<>>
  BY UserWaits DEF Talk!Reload, Talk!Click
<1>2. /\ order # <<>> /\ active' = order[1] /\ shown' = disk[order[1]] /\ disk' = disk
      /\ streaming' = FALSE /\ open' = {}
      /\ UNCHANGED <<order, dead, home, said, missed, whole, wiped>>
  BY DEF Talk!Reload, Talk!Past
<1>3. active' \in Listed
  <2>1. order \in Seq(Talk!Thread)
    BY DEF PageTyped
  <2>2. 1 \in DOMAIN order
    BY <1>2, <2>1
  <2> QED BY <1>2, <2>2 DEF Listed, Talk!Range
<1>4. Listed \subseteq Talk!Thread
  BY ListedThreads
<1>5. disk \in [Talk!Thread -> Seq(PageCard)] /\ loads \in Seq(Seq(PageCard)) /\ Len(loads) <= 1
  BY DEF PageTyped
<1>6. ASSUME NEW u \in Listed PROVE Of(u)' = Of(u) /\ Of(u) = disk[u]
  BY <1>1, <1>2 DEF Of
<1>7. \A n \in DOMAIN shown' : shown'[n].id \in DOMAIN home
  <2> DEFINE u == order[1]
  <2>1. u \in Listed /\ shown' = disk[u]
    BY <1>2, <1>3
  <2>2. Own(u, disk[u])
    BY <1>6, <2>1 DEF Kept
  <2> QED BY <2>1, <2>2 DEF Own
<1>8. shown' \in Seq(PageCard) /\ shown' = disk'[active'] /\ disk' \in [Talk!Thread -> Seq(PageCard)]
  BY <1>2, <1>3, <1>4, <1>5
<1>9. loads' \in Seq(Seq(PageCard)) /\ Len(loads') <= 1
  BY <1>1, <1>5
<1>10. streaming' \in BOOLEAN /\ \A o \in open' : o[1] \in DOMAIN home
  BY <1>2
<1> QED BY <1>2, <1>3, <1>6, <1>7, <1>8, <1>9, <1>10, StoredKept


\* Sending keeps it.
LEMMA SendKept == ASSUME PageInv, Talk!Send PROVE PageInv'
<1> USE DEF PageInv
<1> DEFINE i == Len(home) + 1
           new == Append(shown, Talk!Message(i))
<1>1. loads = <<>> /\ loads' = loads
  BY UserWaits DEF Talk!Send
<1>2. /\ active # Talk!NoThread /\ i \in Talk!Id
      /\ home' = Append(home, active) /\ said' = Append(said, 0)
      /\ shown' = new /\ disk' = [disk EXCEPT ![active] = new] /\ streaming' = TRUE
      /\ open' = open \cup {<<i, "chat">>}
      /\ UNCHANGED <<order, active, dead, missed, whole, wiped>>
  BY DEF Talk!Send, Talk!Show, Talk!Save
<1>3. active \in Listed /\ Listed \subseteq Talk!Thread
  BY <1>2, ListedThreads DEF ThreadsNumbered
<1>4. /\ home \in Seq(Talk!Thread) /\ said \in Seq(Nat) /\ Len(said) = Len(home)
      /\ shown \in Seq(PageCard) /\ disk \in [Talk!Thread -> Seq(PageCard)]
  BY DEF PageTyped
<1>5. /\ home' \in Seq(Talk!Thread) /\ Len(home') = i /\ home'[i] = active
      /\ \A n \in DOMAIN home : n \in DOMAIN home' /\ home'[n] = home[n] /\ n < i
      /\ DOMAIN home' = DOMAIN home \cup {i}
  BY <1>2, <1>3, <1>4
<1>6. /\ said' \in Seq(Nat) /\ Len(said') = i /\ said'[i] = 0
      /\ \A n \in DOMAIN home : said'[n] = said[n]
  BY <1>2, <1>4
<1>7. Talk!Message(i) \in PageCard /\ Talk!Message(i).id = i /\ Talk!Message(i).text = 0
  BY <1>2 DEF Talk!Message, PageCard
<1> DEFINE m == Talk!Message(i)
<1>8. /\ shown' \in Seq(PageCard) /\ Len(shown') = Len(shown) + 1 /\ shown'[Len(shown) + 1] = m
      /\ \A n \in DOMAIN shown : shown'[n] = shown[n]
      /\ DOMAIN shown' = 1..(Len(shown) + 1) /\ DOMAIN shown = 1..Len(shown) /\ Len(shown) \in Nat
  BY <1>2, <1>4, <1>7
<1>9. /\ disk' \in [Talk!Thread -> Seq(PageCard)] /\ disk'[active] = shown'
      /\ \A u \in Talk!Thread : u # active => disk'[u] = disk[u]
  BY <1>2, <1>3, <1>4, <1>8
<1>10. i \in Nat /\ i <= MaxMsgs
  BY <1>2, Bounds DEF Talk!Id
<1>14. \A n \in DOMAIN shown : shown[n].id \in DOMAIN home
  BY DEF Kept
<1> HIDE DEF i, m, new
<1>11. PageTyped'
  <2>1. \A o \in open' : o[1] \in DOMAIN home'
    BY <1>2, <1>5 DEF PageTyped
  <2>2. Len(said') = Len(home') /\ Len(home') <= MaxMsgs
    BY <1>5, <1>6, <1>10
  <2> QED BY <1>1, <1>2, <1>5, <1>6, <1>8, <1>9, <2>1, <2>2 DEF PageTyped
<1>15. Listed' = Listed
  BY <1>2 DEF Listed, Talk!Range
<1>12. ThreadsNumbered'
  <2>1. \A n \in DOMAIN home' : home'[n] \in Listed' \cup dead'
    BY <1>2, <1>3, <1>5, <1>15 DEF ThreadsNumbered
  <2> QED BY <1>2, <1>15, <2>1 DEF ThreadsNumbered
<1>13. Kept'
  <2>1. Of(active) = shown /\ Of(active)' = shown'
    BY <1>1, <1>2, <1>9 DEF Of, Kept
  <2>2. ASSUME NEW u \in Listed, u # active PROVE Of(u) = disk[u] /\ Of(u)' = disk[u]
    BY <1>1, <1>3, <1>9, <2>2 DEF Of
  <2>3. ASSUME NEW u \in Listed PROVE Own(u, Of(u))'
    <3>1. Own(u, Of(u))
      BY DEF Kept
    <3>2. CASE u # active
      <4>1. Of(u)' = Of(u)
        BY <2>2, <3>2
      <4> QED BY <1>2, <1>5, <1>6, <3>1, <4>1 DEF Own
    <3>3. CASE u = active
      <4>1. Own(u, shown)
        BY <2>1, <3>1, <3>3
      <4>2. ASSUME NEW n \in DOMAIN shown'
            PROVE  /\ shown'[n].id \in DOMAIN home' /\ home'[shown'[n].id] = u
                   /\ shown'[n].id \notin missed => shown'[n].text = said'[shown'[n].id]
        <5>1. CASE n = Len(shown) + 1
          <6>1. shown'[n] = m /\ m.id = i /\ m.text = 0
            BY <1>7, <1>8, <5>1 DEF m
          <6> QED BY <1>5, <1>6, <3>3, <6>1
        <5>2. CASE n # Len(shown) + 1
          <6>1. n \in DOMAIN shown /\ shown'[n] = shown[n]
            BY <1>8, <5>2
          <6>2. /\ shown[n].id \in DOMAIN home /\ home[shown[n].id] = u
                /\ shown[n].id \notin missed => shown[n].text = said[shown[n].id]
            BY <4>1, <6>1 DEF Own
          <6> QED BY <1>5, <1>6, <6>1, <6>2
        <5> QED BY <5>1, <5>2
      <4>3. ASSUME NEW n \in DOMAIN shown', NEW k \in 1..(n - 1) PROVE shown'[k].id < shown'[n].id
        <5>1. k \in DOMAIN shown /\ shown'[k] = shown[k]
          BY <1>8
        <5>2. CASE n = Len(shown) + 1
          <6>1. shown'[n].id = i
            BY <1>7, <1>8, <5>2 DEF m
          <6>2. shown[k].id \in DOMAIN home
            BY <1>14, <5>1
          <6> QED BY <1>5, <5>1, <6>1, <6>2
        <5>3. CASE n # Len(shown) + 1
          <6>1. n \in DOMAIN shown /\ shown'[n] = shown[n]
            BY <1>8, <5>3
          <6> QED BY <4>1, <5>1, <6>1 DEF Own
        <5> QED BY <5>2, <5>3
      <4>4. Own(active, shown)'
        BY <1>2, <3>3, <4>2, <4>3 DEF Own
      <4> QED BY <1>2, <2>1, <3>3, <4>4
    <3> QED BY <3>2, <3>3
  <2>4. ASSUME NEW j \in whole, NEW t, j \in DOMAIN home => t = home[j]
        PROVE  /\ j \in DOMAIN home /\ j \in DOMAIN home' /\ home'[j] = home[j]
               /\ t \in Listed \ wiped => \E n \in DOMAIN Of(t)' : Of(t)'[n].id = j
    <3>1. /\ j \in DOMAIN home
          /\ t \in Listed \ wiped => \E n \in DOMAIN Of(t) : Of(t)[n].id = j
      <4>1. /\ j \in DOMAIN home
            /\ home[j] \in Listed \ wiped => \E n \in DOMAIN Of(home[j]) : Of(home[j])[n].id = j
        BY DEF Kept
      <4> QED BY <2>4, <4>1
    <3>2. home'[j] = home[j] /\ j \in DOMAIN home'
      BY <1>5, <3>1
    <3>3. ASSUME t \in Listed \ wiped PROVE \E n \in DOMAIN Of(t)' : Of(t)'[n].id = j
      <4>1. PICK n \in DOMAIN Of(t) : Of(t)[n].id = j
        BY <3>1, <3>3
      <4>2. CASE t # active
        <5>1. Of(t)' = Of(t)
          BY <2>2, <3>3, <4>2
        <5> QED BY <4>1, <5>1
      <4>3. CASE t = active
        <5>1. n \in DOMAIN shown /\ shown[n].id = j
          BY <2>1, <4>1, <4>3
        <5>2. n \in DOMAIN shown' /\ shown'[n].id = j
          BY <1>8, <5>1
        <5>3. Of(t)' = shown'
          BY <1>2, <2>1, <4>3
        <5> QED BY <5>2, <5>3
      <4> QED BY <4>2, <4>3
    <3> QED BY <3>1, <3>2, <3>3
  <2>7. ASSUME NEW j \in whole'
        PROVE  /\ j \in DOMAIN home'
               /\ home'[j] \in Listed' \ wiped' => \E n \in DOMAIN Of(home[j])' : Of(home[j])'[n].id = j
    <3> DEFINE t == home[j]
    <3>1. /\ j \in DOMAIN home' /\ home'[j] = t
          /\ t \in Listed \ wiped => \E n \in DOMAIN disk'[t] : disk'[t][n].id = j
      BY <1>1, <1>2, <2>4 DEF Of
    <3> QED BY <1>1, <1>2, <1>15, <3>1 DEF Of
  <2>5. active' # Talk!NoThread => shown' = disk'[active']
    BY <1>2, <1>9
  <2>6. \A n \in DOMAIN shown' : shown'[n].id \in DOMAIN home'
    <3> SUFFICES ASSUME NEW n \in DOMAIN shown' PROVE shown'[n].id \in DOMAIN home'
      OBVIOUS
    <3>1. CASE n = Len(shown) + 1
      BY <1>5, <1>7, <1>8, <3>1 DEF m
    <3>2. CASE n # Len(shown) + 1
      <4>1. n \in DOMAIN shown /\ shown'[n] = shown[n]
        BY <1>8, <3>2
      <4> QED BY <1>5, <1>14, <4>1
    <3> QED BY <3>1, <3>2
  <2> QED BY <1>2, <1>15, <2>3, <2>5, <2>6, <2>7 DEF Kept
<1> QED BY <1>11, <1>12, <1>13


\* A part of a list.
LEMMA Slice ==
  ASSUME NEW S, NEW s \in Seq(S), NEW a \in Nat, NEW b \in Nat, 1 <= a, a <= b + 1, b <= Len(s)
  PROVE  /\ SubSeq(s, a, b) \in Seq(S) /\ Len(SubSeq(s, a, b)) = b + 1 - a
         /\ \A n \in 1..(b + 1 - a) : SubSeq(s, a, b)[n] = s[a + n - 1]
<1> DEFINE q == SubSeq(s, a, b)
<1>1. a \in Int /\ b \in Int
  OBVIOUS
<1>2. \A i \in a..b : s[i] \in S
  <2> SUFFICES ASSUME NEW i \in a..b PROVE s[i] \in S
    OBVIOUS
  <2>1. i \in 1..Len(s)
    OBVIOUS
  <2> QED BY <2>1
<1>3. /\ q \in Seq(S) /\ Len(q) = IF a <= b THEN b - a + 1 ELSE 0
      /\ \A i \in 1..(b - a + 1) : q[i] = s[a + i - 1]
  BY <1>1, <1>2, SubSeqProperties
<1> HIDE DEF q
<1>4. b - a + 1 = b + 1 - a /\ (IF a <= b THEN b - a + 1 ELSE 0) = b + 1 - a
  OBVIOUS
<1> QED BY <1>3, <1>4 DEF q

\* A list without one of its members.
LEMMA ListLess ==
  ASSUME NEW S, NEW s \in Seq(S), NEW k \in DOMAIN s, \A m, n \in DOMAIN s : s[m] = s[n] => m = n
  PROVE  /\ Talk!RemoveAt(s, k) \in Seq(S) /\ Len(Talk!RemoveAt(s, k)) = Len(s) - 1
         /\ Talk!Range(Talk!RemoveAt(s, k)) = Talk!Range(s) \ {s[k]}
         /\ \A m, n \in DOMAIN Talk!RemoveAt(s, k) : Talk!RemoveAt(s, k)[m] = Talk!RemoveAt(s, k)[n] => m = n
<1> DEFINE L == Len(s)
           e == s[k]
           a == SubSeq(s, 1, k - 1)
           b == SubSeq(s, k + 1, L)
           r == Talk!RemoveAt(s, k)
<1>2. L \in Nat /\ DOMAIN s = 1..L /\ k \in 1..L
  OBVIOUS
<1>1. \A m, n \in 1..L : s[m] = s[n] => m = n
  BY <1>2
<1>3. r = a \o b
  BY DEF Talk!RemoveAt
<1>4. a \in Seq(S) /\ Len(a) = k - 1 /\ \A n \in 1..(k - 1) : a[n] = s[n]
  <2>1. k - 1 \in Nat /\ 1 <= (k - 1) + 1 /\ k - 1 <= Len(s) /\ (k - 1) + 1 - 1 = k - 1
    BY <1>2
  <2>2. /\ a \in Seq(S) /\ Len(a) = (k - 1) + 1 - 1
        /\ \A n \in 1..((k - 1) + 1 - 1) : a[n] = s[1 + n - 1]
    BY <2>1, Slice
  <2> HIDE DEF a
  <2>3. \A n \in 1..(k - 1) : 1 + n - 1 = n
    OBVIOUS
  <2> QED BY <2>1, <2>2, <2>3
<1>5. b \in Seq(S) /\ Len(b) = L - k /\ \A n \in 1..(L - k) : b[n] = s[k + n]
  <2>1. k + 1 \in Nat /\ L \in Nat /\ 1 <= k + 1 /\ k + 1 <= L + 1 /\ L + 1 - (k + 1) = L - k
    BY <1>2
  <2>2. /\ b \in Seq(S) /\ Len(b) = L + 1 - (k + 1)
        /\ \A n \in 1..(L + 1 - (k + 1)) : b[n] = s[(k + 1) + n - 1]
    BY <2>1, Slice
  <2> HIDE DEF b
  <2>3. \A n \in 1..(L - k) : (k + 1) + n - 1 = k + n
    BY <1>2
  <2> QED BY <2>1, <2>2, <2>3
<1> HIDE DEF a, b, r, e, L
<1>6. /\ r \in Seq(S) /\ Len(r) = L - 1
      /\ \A n \in 1..(L - 1) : r[n] = IF n < k THEN s[n] ELSE s[n + 1]
  <2>1. r \in Seq(S) /\ Len(r) = Len(a) + Len(b)
    <3>1. a \in Seq(S) /\ b \in Seq(S)
      BY <1>4, <1>5
    <3> QED BY <3>1, <1>3, ConcatProperties
  <2>4. r \in Seq(S) /\ Len(r) = L - 1
    BY <1>2, <1>4, <1>5, <2>1
  <2>5. ASSUME NEW n \in 1..(L - 1) PROVE r[n] = IF n < k THEN s[n] ELSE s[n + 1]
    <3>1. CASE n < k
      <4>1. n \in 1..(k - 1) /\ r[n] = a[n]
        BY <1>2, <1>3, <1>4, <1>5, <3>1
      <4> QED BY <1>4, <3>1, <4>1
    <3>2. CASE ~(n < k)
      <4> DEFINE i == n - (k - 1)
      <4>1. i \in 1..(L - k) /\ k + i = n + 1
        BY <1>2, <3>2
      <4>2. r[n] = b[i]
        BY <1>2, <1>3, <1>4, <1>5, <3>2
      <4> HIDE DEF i
      <4> QED BY <1>5, <3>2, <4>1, <4>2
    <3> QED BY <3>1, <3>2
  <2> QED BY <2>4, <2>5
<1>7. DOMAIN r = 1..(L - 1)
  BY <1>2, <1>6
<1>8. \A m, n \in DOMAIN r : r[m] = r[n] => m = n
  <2> SUFFICES ASSUME NEW m \in 1..(L - 1), NEW n \in 1..(L - 1), r[m] = r[n] PROVE m = n
    BY <1>7
  <2> DEFINE p(i) == IF i < k THEN i ELSE i + 1
  <2>1. /\ p(m) \in 1..L /\ p(n) \in 1..L
        /\ p(m) = p(n) => m = n
    BY <1>2
  <2>2. r[m] = s[p(m)] /\ r[n] = s[p(n)]
    BY <1>6
  <2> HIDE DEF p
  <2> QED BY <1>2, <2>1, <2>2
<1>9. ASSUME NEW n \in 1..(L - 1) PROVE r[n] \in Talk!Range(s) /\ r[n] # e
  <2> DEFINE i == IF n < k THEN n ELSE n + 1
  <2>1. i \in 1..L /\ i # k
    BY <1>2
  <2>2. r[n] = s[i]
    BY <1>6
  <2> HIDE DEF i
  <2>3. s[i] # s[k]
    BY <1>1, <1>2, <2>1
  <2>4. s[i] \in Talk!Range(s)
    BY <1>2, <2>1 DEF Talk!Range
  <2> QED BY <2>2, <2>3, <2>4 DEF e
<1>10. ASSUME NEW i \in 1..L, s[i] # e PROVE s[i] \in Talk!Range(r)
  <2> DEFINE n == IF i < k THEN i ELSE i - 1
  <2>1. i # k
    BY <1>10 DEF e
  <2>2. n \in 1..(L - 1) /\ (n < k => n = i) /\ (~(n < k) => n + 1 = i)
    BY <1>2, <2>1
  <2> HIDE DEF n
  <2>3. r[n] = s[i]
    BY <1>6, <2>2
  <2> QED BY <1>7, <2>2, <2>3 DEF Talk!Range
<1>11. Talk!Range(r) = Talk!Range(s) \ {e}
  <2>1. ASSUME NEW x \in Talk!Range(r) PROVE x \in Talk!Range(s) \ {e}
    BY <1>7, <1>9, <2>1 DEF Talk!Range
  <2>2. ASSUME NEW x \in Talk!Range(s), x # e PROVE x \in Talk!Range(r)
    BY <1>2, <1>10, <2>2 DEF Talk!Range
  <2> QED BY <2>1, <2>2
<1> QED BY <1>6, <1>8, <1>11 DEF r, L, e

\* One more thread that is deleted, and one less in the list.
LEMMA DeadMore ==
  ASSUME PageTyped, NEW t \in Talk!Thread, t \notin dead
  PROVE  Cardinality(dead \cup {t}) = Cardinality(dead) + 1
BY DeadCount, FS_AddElement


\* Deleting a thread keeps it.
LEMMA DeleteKept == ASSUME PageInv, NEW t \in Talk!Thread, Talk!Delete(t) PROVE PageInv'
<1> USE DEF PageInv
<1> DEFINE k == CHOOSE n \in DOMAIN order : order[n] = t
           next == IF order' = <<>> THEN Talk!NoThread ELSE order'[1]
<1>1. loads = <<>> /\ loads' = <<>> /\ t \in Listed
  BY UserWaits DEF Talk!Delete, Talk!Click, Listed
<1>2. /\ order' = Talk!RemoveAt(order, k) /\ dead' = dead \cup {t}
      /\ UNCHANGED <<streaming, open, home, said, missed, whole>>
  BY DEF Talk!Delete
<1>3. IF t # active
      THEN disk' = [disk EXCEPT ![t] = <<>>] /\ UNCHANGED <<active, shown, wiped>>
      ELSE /\ active' = next /\ shown' = <<>>
           /\ disk' = [u \in Talk!Thread |-> IF u \in {t, next} THEN <<>> ELSE disk[u]]
           /\ wiped' = wiped \cup ({next} \ {Talk!NoThread})
  BY DEF Talk!Delete
<1>4. k \in DOMAIN order /\ order[k] = t
  BY <1>1 DEF Listed, Talk!Range
<1> HIDE DEF k
<1>5. /\ order' \in Seq(Talk!Thread) /\ Len(order') = Len(order) - 1 /\ Listed' = Listed \ {t}
      /\ \A m, n \in DOMAIN order' : order'[m] = order'[n] => m = n
  <2>1. order \in Seq(Talk!Thread) /\ \A m, n \in DOMAIN order : order[m] = order[n] => m = n
    BY DEF PageTyped, ThreadsNumbered
  <2> QED BY <1>2, <1>4, <2>1, ListLess DEF Listed
<1>6. Listed \subseteq Talk!Thread /\ Talk!NoThread \notin Talk!Thread
  BY ListedThreads
<1>7. t \notin dead /\ Cardinality(dead') = Cardinality(dead) + 1
  BY <1>1, <1>2, DeadMore DEF ThreadsNumbered
<1>8. Listed' \cup dead' = Listed \cup dead
  BY <1>1, <1>2, <1>5
<1>9. /\ next # Talk!NoThread => next \in Listed'
      /\ next \in Talk!Thread \cup {Talk!NoThread}
  <2>1. CASE order' = <<>>
    BY <2>1
  <2>2. CASE order' # <<>>
    <3>1. 1 \in DOMAIN order'
      BY <1>5, <2>2
    <3> QED BY <1>5, <1>6, <2>2, <3>1 DEF Listed, Talk!Range
  <2> QED BY <2>1, <2>2
<1> HIDE DEF next
<1>10. disk \in [Talk!Thread -> Seq(PageCard)] /\ shown \in Seq(PageCard) /\ <<>> \in Seq(PageCard)
  BY DEF PageTyped
<1>11. /\ disk' \in [Talk!Thread -> Seq(PageCard)]
       /\ \A u \in Listed' \ wiped' : disk'[u] = disk[u]
       /\ \A u \in Listed' : disk'[u] = disk[u] \/ disk'[u] = <<>>
  <2>1. CASE t # active
    <3>1. disk' = [disk EXCEPT ![t] = <<>>]
      BY <1>3, <2>1
    <3> QED BY <1>5, <1>6, <1>10, <3>1
  <2>2. CASE t = active
    <3>1. /\ disk' = [u \in Talk!Thread |-> IF u \in {t, next} THEN <<>> ELSE disk[u]]
          /\ wiped' = wiped \cup ({next} \ {Talk!NoThread})
      BY <1>3, <2>2
    <3> QED BY <1>5, <1>6, <1>10, <3>1
  <2> QED BY <2>1, <2>2
<1>12. active' # Talk!NoThread => active' \in Listed' /\ shown' = disk'[active']
  <2>1. CASE t # active
    <3>1. /\ active' = active /\ shown' = shown
          /\ active # Talk!NoThread => active \in Listed /\ shown = disk[active]
      BY <1>3, <2>1 DEF ThreadsNumbered, Kept
    <3>2. disk' = [disk EXCEPT ![t] = <<>>]
      BY <1>3, <2>1
    <3> QED BY <1>5, <1>6, <1>10, <2>1, <3>1, <3>2
  <2>2. CASE t = active
    <3>1. /\ active' = next /\ shown' = <<>>
          /\ disk' = [u \in Talk!Thread |-> IF u \in {t, next} THEN <<>> ELSE disk[u]]
      BY <1>3, <2>2
    <3> QED BY <1>9, <3>1
  <2> QED BY <2>1, <2>2
<1>13. /\ active' \in Talk!Thread \cup {Talk!NoThread} /\ shown' \in Seq(PageCard) /\ wiped' \subseteq Talk!Thread
       /\ wiped \subseteq wiped'
       /\ shown' = shown \/ shown' = <<>>
  <2>1. active \in Talk!Thread \cup {Talk!NoThread} /\ wiped \subseteq Talk!Thread
    BY DEF PageTyped
  <2> QED BY <1>3, <1>9, <1>10, <2>1
<1>14. active' = Talk!NoThread => shown' = <<>>
  <2>1. CASE t # active
    BY <1>3, <2>1 DEF ThreadsNumbered
  <2>2. CASE t = active
    BY <1>3, <2>2
  <2> QED BY <2>1, <2>2
<1>15. PageTyped'
  <2>1. loads' \in Seq(Seq(PageCard)) /\ Len(loads') <= 1
    BY <1>1 DEF PageTyped
  <2>2. dead' \subseteq Talk!Thread /\ missed' \subseteq Talk!Id /\ whole' \subseteq Talk!Id
    BY <1>2 DEF PageTyped
  <2> QED BY <1>2, <1>5, <1>11, <1>13, <2>1, <2>2 DEF PageTyped
<1>16. ThreadsNumbered'
  <2>1. Listed' \cap dead' = {}
    BY <1>2, <1>5 DEF ThreadsNumbered
  <2>2. Len(order') + Cardinality(dead') = Len(order) + Cardinality(dead)
    <3>1. Len(order) \in Nat /\ Cardinality(dead) \in Nat
      BY DeadCount DEF PageTyped
    <3> QED BY <1>5, <1>7, <3>1
  <2>3. \A u \in Listed' \cup dead' : u <= Len(order') + Cardinality(dead')
    BY <1>8, <2>2 DEF ThreadsNumbered
  <2>4. \A n \in DOMAIN home' : home'[n] \in Listed' \cup dead'
    BY <1>2, <1>8 DEF ThreadsNumbered
  <2> QED BY <1>1, <1>5, <1>12, <1>14, <2>1, <2>3, <2>4 DEF ThreadsNumbered
<1>17. Kept'
  <2>1. ASSUME NEW u \in Listed' PROVE Own(u, Of(u))'
    <3>1. Of(u) = disk[u] /\ Of(u)' = disk'[u] /\ u \in Listed
      BY <1>1, <1>5 DEF Of
    <3>2. CASE disk'[u] = disk[u]
      <4>1. Own(u, Of(u))
        BY <3>1 DEF Kept
      <4> QED BY <1>2, <3>1, <3>2, <4>1 DEF Own
    <3>3. CASE disk'[u] = <<>>
      BY <3>1, <3>3 DEF Own
    <3> QED BY <1>11, <3>2, <3>3
  <2>2. ASSUME NEW i \in whole'
        PROVE  /\ i \in DOMAIN home'
               /\ home'[i] \in Listed' \ wiped' => \E n \in DOMAIN Of(home[i])' : Of(home[i])'[n].id = i
    <3> DEFINE u == home[i]
    <3>1. /\ i \in DOMAIN home
          /\ u \in Listed \ wiped => \E n \in DOMAIN disk[u] : disk[u][n].id = i
      BY <1>1, <1>2 DEF Kept, Of
    <3>2. u \in Listed' \ wiped' => \E n \in DOMAIN disk'[u] : disk'[u][n].id = i
      BY <1>5, <1>11, <1>13, <3>1
    <3> QED BY <1>1, <1>2, <3>1, <3>2 DEF Of
  <2>3. \A n \in DOMAIN shown' : shown'[n].id \in DOMAIN home'
    BY <1>2, <1>13 DEF Kept
  <2> QED BY <1>12, <2>1, <2>2, <2>3 DEF Kept
<1> QED BY <1>15, <1>16, <1>17

\* An empty page is right.
LEMMA PageStart == Talk!ThreadsInit => PageInv
<1> SUFFICES ASSUME Talk!ThreadsInit PROVE PageInv
  OBVIOUS
<1> USE DEF Talk!ThreadsInit
<1>1. /\ <<>> \in Seq(PageCard) /\ <<>> \in Seq(Seq(PageCard)) /\ <<>> \in Seq(Talk!Thread) /\ <<>> \in Seq(Nat)
      /\ Len(<<>>) = 0
  OBVIOUS
<1>2. PageTyped
  <2>1. disk \in [Talk!Thread -> Seq(PageCard)]
    BY <1>1
  <2>2. shown \in Seq(PageCard) /\ order \in Seq(Talk!Thread)
    BY <1>1
  <2>3. loads \in Seq(Seq(PageCard)) /\ Len(loads) <= 1
    BY <1>1
  <2>4. home \in Seq(Talk!Thread) /\ said \in Seq(Nat) /\ Len(said) = Len(home)
    BY <1>1
  <2>5. Len(home) <= MaxMsgs
    BY <1>1, Bounds
  <2>6. /\ active \in Talk!Thread \cup {Talk!NoThread} /\ streaming \in BOOLEAN /\ dead \subseteq Talk!Thread
        /\ missed \subseteq Talk!Id /\ whole \subseteq Talk!Id /\ wiped \subseteq Talk!Thread
        /\ \A o \in open : o[1] \in DOMAIN home
    OBVIOUS
  <2> QED BY <2>1, <2>2, <2>3, <2>4, <2>5, <2>6 DEF PageTyped
<1>3. Listed = {} /\ DOMAIN home = {} /\ DOMAIN order = {}
  BY <1>1 DEF Listed, Talk!Range
<1>4. ThreadsNumbered
  BY <1>3 DEF ThreadsNumbered
<1>5. Kept
  BY <1>3, <1>1 DEF Kept
<1> QED BY <1>2, <1>4, <1>5 DEF PageInv

\* No step of the page breaks it.
LEMMA PageStep == PageInv /\ (Talk!ThreadsNext \/ UNCHANGED Talk!threadVars) => PageInv'
<1> SUFFICES ASSUME PageInv, (Talk!ThreadsNext \/ UNCHANGED Talk!threadVars) PROVE PageInv'
  OBVIOUS
<1>1. ASSUME NEW t \in Talk!Thread, Talk!Create(t) \/ Talk!Switch(t) \/ Talk!Delete(t) PROVE PageInv'
  BY <1>1, CreateKept, SwitchKept, DeleteKept
<1>2. ASSUME NEW i \in DOMAIN home,
             Talk!Token(i) \/ Talk!Done(i) \/ Talk!Error(i) \/ Talk!Ceases(i) \/ Talk!Decide(i) \/ Talk!Resumed(i)
      PROVE  PageInv'
  BY <1>2, TokenKept, EndsKept, CeasesKept, DecideKept
<1>3. CASE Talk!Timer \/ Talk!Send \/ Talk!Stop \/ Talk!Reload
  BY <1>3, TimerKept, SendKept, StopKept, ReloadKept
<1>4. CASE UNCHANGED Talk!threadVars
  <2>1. \A o \in open' : o[1] \in DOMAIN home
    BY <1>4 DEF Talk!threadVars, PageInv, PageTyped
  <2> QED BY <1>4, <2>1, StillKept DEF Talk!threadVars, PageInv, PageTyped
<1> QED BY <1>1, <1>2, <1>3, <1>4 DEF Talk!ThreadsNext

\* Without a click under way, what is stored is what the threads have.
LEMMA PageTells == PageInv => Talk!NoCrosstalk /\ Talk!MessagesKept
<1> SUFFICES ASSUME PageInv, loads = <<>> PROVE Talk!NoCrosstalk /\ Talk!MessagesKept
  BY DEF Talk!NoCrosstalk, Talk!MessagesKept
<1> USE DEF PageInv
<1>1. \A t : Of(t) = disk[t]
  BY DEF Of
<1>2. Talk!NoCrosstalk
  <2>1. ASSUME NEW t \in Talk!Range(order), NEW n \in DOMAIN disk[t]
        PROVE  home[disk[t][n].id] = t /\ \A m \in 1..n - 1 : disk[t][m].id < disk[t][n].id
    BY <1>1, <2>1 DEF Kept, Listed, Own
  <2> QED BY <2>1 DEF Talk!NoCrosstalk, Kept
<1>3. Talk!MessagesKept
  <2> SUFFICES ASSUME NEW i \in whole \ missed, home[i] \in Talk!Range(order) \ wiped
               PROVE  \E n \in DOMAIN disk[home[i]] :
                         disk[home[i]][n].id = i /\ disk[home[i]][n].text = said[i]
    BY DEF Talk!MessagesKept
  <2> DEFINE t == home[i]
  <2>1. PICK n \in DOMAIN disk[t] : disk[t][n].id = i
    BY <1>1 DEF Kept, Listed
  <2>2. disk[t][n].text = said[i]
    BY <1>1, <2>1 DEF Kept, Listed, Own
  <2> QED BY <2>1, <2>2
<1> QED BY <1>2, <1>3


-----------------------------------------------------------------------------
\* The cards: those of steps, on top or under another, and those with children.
Kid     == [id : StepId, ended : Nat, kids : {<<>>}]
StepCard == [id : StepId, ended : Nat, kids : Seq(Kid)]

\* A step has one card, on top or under its parent, with the status of its last end;
\* it is on top only while its parent is not.
Placed ==
    /\ sent \in [StepId -> Nat] /\ steps \in Seq(StepCard)
    /\ \A m, n \in DOMAIN steps : steps[m].id = steps[n].id => m = n
    /\ \A m, n \in DOMAIN steps : ParentOf[steps[n].id] # steps[m].id
    /\ \A n \in DOMAIN steps : \A k, l \in DOMAIN steps[n].kids :
         steps[n].kids[k].id = steps[n].kids[l].id => k = l
    /\ \A n \in DOMAIN steps : \A k \in DOMAIN steps[n].kids :
         ParentOf[steps[n].kids[k].id] = steps[n].id
Ended ==
    /\ \A n \in DOMAIN steps : steps[n].ended = sent[steps[n].id] \div 2
    /\ \A n \in DOMAIN steps : \A k \in DOMAIN steps[n].kids :
         steps[n].kids[k].ended = sent[steps[n].kids[k].id] \div 2
    /\ \A s \in StepId : sent[s] > 0 <=> Talk!Found(s)
TreeInv == Placed /\ Ended

\* The recursion of Among: one step of it, and the function that meets it up to n.
Taken(cards, S, n, q) == IF cards[n].id \in S THEN Append(q, cards[n]) ELSE q
Runs(h, cards, S, n)  == h = [i \in 0..n |-> IF i = 0 THEN <<>> ELSE Taken(cards, S, i, h[i - 1])]

\* What holds of the cards q chosen among the first n.
Chosen(q, cards, S, n) ==
    /\ \A k \in 1..Len(q) : \E m \in 1..n : cards[m] = q[k] /\ q[k].id \in S
    /\ \A m \in 1..n : cards[m].id \in S => \E k \in 1..Len(q) : q[k] = cards[m]
    /\ \A k, l \in 1..Len(q) : q[k].id = q[l].id => k = l

\* A set of numbers has a least one.
LEMMA LeastOf ==
  ASSUME NEW T, T \subseteq Nat, T # {}
  PROVE  \E i \in T : \A j \in T : i <= j
<1>1. IsWellFoundedOn(OpToRel(<, Nat), Nat)
  BY NatLessThanWellFounded
<1>2. PICK i \in T : \A j \in T : ~(<<j, i>> \in OpToRel(<, Nat))
  BY <1>1, WFMin
<1>3. \A j \in T : ~(j < i)
  BY <1>2 DEF OpToRel
<1> QED BY <1>3

\* The recursion of Among has a function that meets it.
LEMMA AmongRuns ==
  ASSUME NEW cards, NEW S, NEW L \in Nat, L = Len(cards)
  PROVE  \E h : Talk!Among(cards, S) = h[L] /\ Runs(h, cards, S, L)
<1>2. ASSUME NEW n \in 0..L, \A m \in 0..L : m < n => \E h : Runs(h, cards, S, m)
      PROVE  \E h : Runs(h, cards, S, n)
  <2>2. CASE n = 0
    <3> DEFINE g == [i \in 0..0 |-> <<>>]
    <3>1. g = [i \in 0..0 |-> IF i = 0 THEN <<>> ELSE Taken(cards, S, i, g[i - 1])]
      OBVIOUS
    <3>2. Runs(g, cards, S, 0)
      BY <3>1 DEF Runs
    <3> QED BY <2>2, <3>2
  <2>3. CASE n # 0
    <3>1. n - 1 \in 0..L /\ n - 1 < n /\ n \in 1..L
      BY <2>3
    <3>2. PICK h : Runs(h, cards, S, n - 1)
      BY <3>1, <1>2
    <3> DEFINE g == [i \in 0..n |-> IF i = n THEN Taken(cards, S, n, h[n - 1]) ELSE h[i]]
    <3>3. ASSUME NEW i \in 0..n PROVE g[i] = IF i = 0 THEN <<>> ELSE Taken(cards, S, i, g[i - 1])
      <4>1. CASE i = n
        <5>1. g[i - 1] = h[n - 1] /\ i # 0
          BY <3>1, <4>1
        <5> QED BY <4>1, <5>1
      <4>2. CASE i # n
        <5>1. i \in 0..(n - 1) /\ g[i] = h[i] /\ (i # 0 => i - 1 \in 0..n /\ g[i - 1] = h[i - 1])
          BY <3>1, <4>2
        <5>2. h[i] = IF i = 0 THEN <<>> ELSE Taken(cards, S, i, h[i - 1])
          BY <3>2, <5>1 DEF Runs
        <5> QED BY <5>1, <5>2
      <4> QED BY <4>1, <4>2
    <3>4. Runs(g, cards, S, n)
      BY <3>3 DEF Runs
    <3> QED BY <3>4
  <2> QED BY <2>2, <2>3
<1> DEFINE B == {n \in 0..L : ~\E h : Runs(h, cards, S, n)}
<1>3. B = {}
  <2> SUFFICES ASSUME B # {} PROVE FALSE
    OBVIOUS
  <2>1. B \subseteq Nat
    OBVIOUS
  <2>2. PICK n \in B : \A m \in B : n <= m
    <3> HIDE DEF B
    <3> QED BY <2>1, LeastOf
  <2>3. n \in 0..L /\ ~\E h : Runs(h, cards, S, n)
    OBVIOUS
  <2>4. ASSUME NEW m \in 0..L, m < n PROVE \E h : Runs(h, cards, S, m)
    <3>1. m \notin B
      <4> HIDE DEF B
      <4> QED BY <2>1, <2>2, <2>4
    <3> QED BY <3>1
  <2> QED BY <2>3, <2>4, <1>2
<1>4. L \in 0..L
  OBVIOUS
<1>5. PICK f : Runs(f, cards, S, L)
  BY <1>3, <1>4
<1> DEFINE first == CHOOSE h : Runs(h, cards, S, L)
<1>6. Runs(first, cards, S, L)
  BY <1>5
<1>7. Talk!Among(cards, S) = first[L]
  BY DEF Talk!Among, Runs, Taken
<1> QED BY <1>6, <1>7

\* One more card.
LEMMA TakenOne ==
  ASSUME NEW T, NEW cards \in Seq(T), NEW S, NEW n \in 1..Len(cards), NEW q \in Seq(T),
         \A k, l \in DOMAIN cards : cards[k].id = cards[l].id => k = l,
         Chosen(q, cards, S, n - 1)
  PROVE  Taken(cards, S, n, q) \in Seq(T) /\ Chosen(Taken(cards, S, n, q), cards, S, n)
<1> DEFINE r == Append(q, cards[n])
           b == Len(q)
           L == Len(cards)
<1>1. /\ r \in Seq(T) /\ Len(r) = b + 1 /\ b \in Nat /\ r[b + 1] = cards[n] /\ cards[n] \in T
      /\ \A k \in 1..b : r[k] = q[k]
  OBVIOUS
<1>2. L \in Nat /\ n \in 1..L /\ DOMAIN cards = 1..L
  OBVIOUS
<1>3. CASE cards[n].id \notin S
  <2>1. Taken(cards, S, n, q) = q
    BY <1>3 DEF Taken
  <2> HIDE DEF L
  <2>2. \A m \in 1..n : m = n \/ m \in 1..(n - 1)
    BY <1>2
  <2>3. \A m \in 1..(n - 1) : m \in 1..n
    BY <1>2
  <2>4. Chosen(q, cards, S, n)
    BY <2>2, <2>3, <1>3 DEF Chosen
  <2> QED BY <2>1, <2>4
<1>4. CASE cards[n].id \in S
  <2>1. Taken(cards, S, n, q) = r
    BY <1>4 DEF Taken
  <2> HIDE DEF L, r
  <2>2. \A m \in 1..n : m = n \/ m \in 1..(n - 1)
    BY <1>2
  <2>3. \A m \in 1..(n - 1) : m \in 1..n /\ m \in 1..L /\ m # n
    BY <1>2
  <2>5. n \in 1..n /\ n \in 1..L
    BY <1>2
  <2> DEFINE e == Len(r)
  <2>6. e = b + 1
    BY <1>1
  <2> HIDE DEF b, e
  <2>7. \A k \in 1..e : k = b + 1 \/ k \in 1..b
    BY <1>1, <2>6
  <2>8. (\A k \in 1..b : k \in 1..e /\ k # b + 1) /\ b + 1 \in 1..e
    BY <1>1, <2>6
  <2>9. \A k \in 1..b : \E m \in 1..(n - 1) : cards[m] = q[k] /\ q[k].id \in S
    BY DEF Chosen, b
  <2>10. \A m \in 1..(n - 1) : cards[m].id \in S => \E k \in 1..b : q[k] = cards[m]
    BY DEF Chosen, b
  <2>11. \A k, l \in 1..b : q[k].id = q[l].id => k = l
    BY DEF Chosen, b
  <2>12. \A k \in 1..e : \E m \in 1..n : cards[m] = r[k] /\ r[k].id \in S
    BY <1>1, <2>3, <2>5, <2>7, <2>9, <1>4
  <2>13. \A m \in 1..n : cards[m].id \in S => \E k \in 1..e : r[k] = cards[m]
    BY <1>1, <2>2, <2>8, <2>10
  <2>14. \A k \in 1..b : q[k].id # cards[n].id
    BY <2>9, <2>3, <2>5, <1>2
  <2>15. \A k, l \in 1..e : r[k].id = r[l].id => k = l
    BY <2>14, <2>11, <2>7, <1>1
  <2>16. Chosen(r, cards, S, n)
    BY <2>12, <2>13, <2>15 DEF Chosen, e
  <2> QED BY <2>1, <2>16, <1>1
<1> QED BY <1>3, <1>4

\* Among(cards, S) has the cards with an id in S, each once.
LEMMA AmongFacts ==
  ASSUME NEW T, NEW cards \in Seq(T), NEW S,
         \A k, l \in DOMAIN cards : cards[k].id = cards[l].id => k = l
  PROVE  Talk!Among(cards, S) \in Seq(T) /\ Chosen(Talk!Among(cards, S), cards, S, Len(cards))
<1> DEFINE L == Len(cards)
<1>1. L \in Nat
  OBVIOUS
<1>2. PICK h : Talk!Among(cards, S) = h[L] /\ Runs(h, cards, S, L)
  BY <1>1, AmongRuns
<1> DEFINE Good(n) == h[n] \in Seq(T) /\ Chosen(h[n], cards, S, n)
           B == {n \in 0..L : ~Good(n)}
<1>3. h[0] = <<>> /\ \A n \in 1..L : h[n] = Taken(cards, S, n, h[n - 1])
  <2> HIDE DEF L
  <2>1. 0 \in 0..L /\ \A n \in 1..L : n \in 0..L /\ n # 0
    BY <1>1
  <2> QED BY <1>2, <2>1 DEF Runs
<1>4. Good(0)
  <2>1. <<>> \in Seq(T) /\ Len(<<>>) = 0
    OBVIOUS
  <2>2. Chosen(<<>>, cards, S, 0)
    BY <2>1 DEF Chosen
  <2> QED BY <2>1, <2>2, <1>3
<1>5. ASSUME NEW n \in 1..L, Good(n - 1) PROVE Good(n)
  <2>1. n \in 1..Len(cards) /\ h[n - 1] \in Seq(T) /\ Chosen(h[n - 1], cards, S, n - 1)
    BY <1>5
  <2>2. Taken(cards, S, n, h[n - 1]) \in Seq(T) /\ Chosen(Taken(cards, S, n, h[n - 1]), cards, S, n)
    BY <2>1, TakenOne
  <2> QED BY <1>3, <2>2
<1>6. B = {}
  <2> SUFFICES ASSUME B # {} PROVE FALSE
    OBVIOUS
  <2> HIDE DEF Good, L
  <2>1. B \subseteq Nat
    BY <1>1
  <2>2. PICK n \in B : \A m \in B : n <= m
    <3> HIDE DEF B
    <3> QED BY <2>1, LeastOf
  <2>3. n \in 0..L /\ ~Good(n)
    OBVIOUS
  <2>4. n \in 1..L /\ n - 1 \in 0..L /\ n - 1 < n
    BY <1>1, <1>4, <2>3
  <2>5. n - 1 \notin B
    <3> HIDE DEF B
    <3> QED BY <2>1, <2>2, <2>4
  <2> QED BY <2>3, <2>4, <2>5, <1>5
<1>7. L \in 0..L
  BY <1>1
<1>8. Good(L)
  <2> HIDE DEF Good
  <2> QED BY <1>6, <1>7
<1> QED BY <1>2, <1>8


\* Two of a step's events make one end.
LEMMA Halves ==
  ASSUME NEW e \in Nat
  PROVE  /\ e \div 2 \in Nat /\ (e + 1) \div 2 \in Nat
         /\ (e % 2 = 0 => (e + 1) \div 2 = e \div 2)
         /\ 1 \div 2 = 0
  OBVIOUS

\* A parent is a step of its own, and has no parent.
LEMMA TwoLevels ==
  ASSUME NEW s \in StepId, NEW p \in StepId, ParentOf[s] = p
  PROVE  ParentOf[p] = NoParent /\ p # s /\ NoParent \notin StepId
<1> QED BY WorkbenchAssumption DEF Talk!TreeAssumption

\* The cards there are, one by one.
LEMMA PlacedCards ==
  ASSUME Placed, NEW n \in DOMAIN steps
  PROVE  /\ steps[n].id \in StepId /\ steps[n].ended \in Nat /\ steps[n].kids \in Seq(Kid)
         /\ steps[n] \in StepCard
         /\ \A k \in DOMAIN steps[n].kids : steps[n].kids[k] \in Kid
<1>1. steps[n] \in StepCard
  BY DEF Placed
<1>2. steps[n].kids \in Seq(Kid)
  BY <1>1 DEF StepCard
<1> QED BY <1>1, <1>2 DEF StepCard

\* The events of other steps.
LEMMA EventCounts ==
  ASSUME Placed, NEW s \in StepId, Talk!Event(s)
  PROVE  /\ sent' \in [StepId -> Nat] /\ sent[s] \in Nat /\ sent'[s] = sent[s] + 1
         /\ \A t \in StepId : t # s => sent'[t] = sent[t]
         /\ \A t \in StepId : sent[t] \in Nat
  BY DEF Talk!Event, Placed

\* An event of a step whose card is there and ends no more often than before.
LEMMA AgainKept ==
  ASSUME TreeInv, NEW s \in StepId, Talk!Event(s), sent[s] % 2 = 0, Talk!Found(s)
  PROVE  TreeInv'
<1>1. steps' = steps
  BY DEF Talk!Event, Talk!Insert
<1>2. Placed
  BY DEF TreeInv
<1> DEFINE e == sent[s]
<1>3. /\ sent' \in [StepId -> Nat] /\ e \in Nat /\ sent'[s] = e + 1
      /\ \A t \in StepId : t # s => sent'[t] = sent[t]
      /\ \A t \in StepId : sent[t] \in Nat
  BY <1>2, EventCounts
<1>4. \A t \in StepId : sent'[t] \div 2 = sent[t] \div 2
  BY <1>3, Halves
<1>5. \A t \in StepId : sent'[t] > 0 <=> (sent[t] > 0 \/ t = s)
  BY <1>3
<1>6. Placed'
  BY <1>1, <1>2, <1>3 DEF Placed
<1>7. (\A n \in DOMAIN steps : steps[n].ended = sent[steps[n].id] \div 2)'
  <2>1. \A n \in DOMAIN steps : steps[n].ended = sent[steps[n].id] \div 2
    BY DEF TreeInv, Ended
  <2>2. \A n \in DOMAIN steps : steps[n].id \in StepId
    BY <1>2, PlacedCards
  <2> QED BY <1>1, <1>4, <2>1, <2>2
<1>8. (\A n \in DOMAIN steps : \A k \in DOMAIN steps[n].kids :
         steps[n].kids[k].ended = sent[steps[n].kids[k].id] \div 2)'
  <2>1. \A n \in DOMAIN steps : \A k \in DOMAIN steps[n].kids :
         steps[n].kids[k].ended = sent[steps[n].kids[k].id] \div 2
    BY DEF TreeInv, Ended
  <2>2. \A n \in DOMAIN steps : \A k \in DOMAIN steps[n].kids : steps[n].kids[k].id \in StepId
    BY <1>2, PlacedCards DEF Kid
  <2> QED BY <1>1, <1>4, <2>1, <2>2
<1>9. \A t \in StepId : Talk!Found(t)' <=> Talk!Found(t)
  BY <1>1 DEF Talk!Found
<1>10. (\A t \in StepId : sent[t] > 0 <=> Talk!Found(t))'
  BY <1>5, <1>9 DEF TreeInv, Ended
<1> QED BY <1>6, <1>7, <1>8, <1>10 DEF TreeInv, Ended

\* Cards numbered from 1 are a sequence of cards.
LEMMA NumberedCards ==
  ASSUME NEW m \in Nat, NEW c, NEW D, D = 1..m, c = [k \in D |-> c[k]], \A k \in D : c[k] \in Kid
  PROVE  c \in Seq(Kid)
OBVIOUS

\* What Patch makes of the cards.
LEMMA PatchFacts ==
  ASSUME Placed, NEW s \in StepId, NEW end \in Nat
  PROVE  /\ Talk!Patch(s, end) \in Seq(StepCard) /\ DOMAIN Talk!Patch(s, end) = DOMAIN steps
         /\ \A n \in DOMAIN steps :
              /\ Talk!Patch(s, end)[n].id = steps[n].id
              /\ Talk!Patch(s, end)[n].ended = IF steps[n].id = s THEN end ELSE steps[n].ended
              /\ DOMAIN Talk!Patch(s, end)[n].kids = DOMAIN steps[n].kids
              /\ \A k \in DOMAIN steps[n].kids :
                   /\ Talk!Patch(s, end)[n].kids[k].id = steps[n].kids[k].id
                   /\ Talk!Patch(s, end)[n].kids[k].ended =
                        IF steps[n].kids[k].id = s THEN end ELSE steps[n].kids[k].ended
<1> DEFINE new == Talk!Patch(s, end)
<1>1. DOMAIN new = DOMAIN steps
  BY DEF Talk!Patch
<1>2. ASSUME NEW n \in DOMAIN steps
      PROVE  /\ new[n] \in StepCard
             /\ new[n].id = steps[n].id
             /\ new[n].ended = IF steps[n].id = s THEN end ELSE steps[n].ended
             /\ DOMAIN new[n].kids = DOMAIN steps[n].kids
             /\ \A k \in DOMAIN steps[n].kids :
                  /\ new[n].kids[k].id = steps[n].kids[k].id
                  /\ new[n].kids[k].ended =
                       IF steps[n].kids[k].id = s THEN end ELSE steps[n].kids[k].ended
  <2>1. /\ steps[n].id \in StepId /\ steps[n].ended \in Nat /\ steps[n].kids \in Seq(Kid)
        /\ steps[n] \in StepCard
        /\ \A k \in DOMAIN steps[n].kids : steps[n].kids[k] \in Kid
    BY PlacedCards
  <2>2. CASE steps[n].id = s
    <3>1. new[n] = [steps[n] EXCEPT !.ended = end]
      BY <2>2 DEF Talk!Patch
    <3>2. ASSUME NEW k \in DOMAIN steps[n].kids PROVE steps[n].kids[k].id # s
      <4>1. ParentOf[steps[n].kids[k].id] = s /\ steps[n].kids[k].id \in StepId
        BY <2>1, <2>2 DEF Placed, Kid
      <4> QED BY <4>1, TwoLevels
    <3> QED BY <2>1, <2>2, <3>1, <3>2 DEF StepCard
  <2>3. CASE steps[n].id # s
    <3> DEFINE old == steps[n].kids
               cards == Talk!Patched(old, s, end)
    <3>1. new[n] = [steps[n] EXCEPT !.kids = cards]
      BY <2>3 DEF Talk!Patch
    <3>2. DOMAIN cards = DOMAIN old
      BY DEF Talk!Patched
    <3>3. ASSUME NEW k \in DOMAIN old
          PROVE  /\ cards[k] \in Kid /\ cards[k].id = old[k].id
                 /\ cards[k].ended = IF old[k].id = s THEN end ELSE old[k].ended
      <4>1. cards[k] = IF old[k].id = s THEN [old[k] EXCEPT !.ended = end] ELSE old[k]
        BY DEF Talk!Patched
      <4> QED BY <2>1, <4>1 DEF Kid
    <3>4. cards \in Seq(Kid)
      <4>1. cards = [k \in DOMAIN old |-> cards[k]]
        BY DEF Talk!Patched
      <4>2. Len(old) \in Nat /\ DOMAIN old = 1..Len(old)
        BY <2>1
      <4> HIDE DEF cards
      <4> QED BY <4>1, <4>2, <3>3, NumberedCards
    <3> HIDE DEF cards
    <3> QED BY <2>1, <2>3, <3>1, <3>2, <3>3, <3>4 DEF StepCard
  <2> HIDE DEF new
  <2> QED BY <2>2, <2>3
<1>3. new \in Seq(StepCard)
  <2>1. new = [n \in 1..Len(steps) |-> new[n]] /\ Len(steps) \in Nat
    BY DEF Talk!Patch, Placed
  <2>2. \A n \in 1..Len(steps) : new[n] \in StepCard
    <3>1. \A n \in 1..Len(steps) : n \in DOMAIN steps
      BY DEF Placed
    <3> HIDE DEF new
    <3> QED BY <3>1, <1>2
  <2> HIDE DEF new
  <2> QED BY <2>1, <2>2
<1> HIDE DEF new
<1>4. QED BY <1>1, <1>2, <1>3 DEF new

\* The end of a step.
LEMMA PatchKept ==
  ASSUME TreeInv, NEW s \in StepId, Talk!Event(s), sent[s] % 2 # 0
  PROVE  TreeInv'
<1>1. Placed
  BY DEF TreeInv
<1> DEFINE end == sent'[s] \div 2
<1>2. /\ sent' \in [StepId -> Nat] /\ sent[s] \in Nat /\ sent'[s] = sent[s] + 1
      /\ \A t \in StepId : t # s => sent'[t] = sent[t]
      /\ \A t \in StepId : sent[t] \in Nat
  BY <1>1, EventCounts
<1>3. end \in Nat
  BY <1>2, Halves
<1>4. steps' = Talk!Patch(s, end)
  BY DEF Talk!Event
<1>5. sent[s] > 0
  BY <1>2
<1>6. \A t \in StepId : sent'[t] > 0 <=> sent[t] > 0
  BY <1>2, <1>5
<1>7. \A t \in StepId : sent'[t] \div 2 = IF t = s THEN end ELSE sent[t] \div 2
  BY <1>2
<1> HIDE DEF end
<1>8. /\ steps' \in Seq(StepCard) /\ DOMAIN steps' = DOMAIN steps
      /\ \A n \in DOMAIN steps :
              /\ steps'[n].id = steps[n].id
              /\ steps'[n].ended = IF steps[n].id = s THEN end ELSE steps[n].ended
              /\ DOMAIN steps'[n].kids = DOMAIN steps[n].kids
              /\ \A k \in DOMAIN steps[n].kids :
                   /\ steps'[n].kids[k].id = steps[n].kids[k].id
                   /\ steps'[n].kids[k].ended =
                        IF steps[n].kids[k].id = s THEN end ELSE steps[n].kids[k].ended
  BY <1>1, <1>3, <1>4, PatchFacts
<1>9. \A n \in DOMAIN steps : /\ steps[n].id \in StepId
                              /\ \A k \in DOMAIN steps[n].kids : steps[n].kids[k].id \in StepId
  BY <1>1, PlacedCards DEF Kid
<1>10. Placed'
  <2>1. sent' \in [StepId -> Nat] /\ steps' \in Seq(StepCard)
    BY <1>2, <1>8
  <2>2. (\A m, n \in DOMAIN steps : steps[m].id = steps[n].id => m = n)'
    BY <1>1, <1>8 DEF Placed
  <2>3. (\A m, n \in DOMAIN steps : ParentOf[steps[n].id] # steps[m].id)'
    BY <1>1, <1>8 DEF Placed
  <2>4. (\A n \in DOMAIN steps : \A k, l \in DOMAIN steps[n].kids :
           steps[n].kids[k].id = steps[n].kids[l].id => k = l)'
    <3>1. \A n \in DOMAIN steps : \A k, l \in DOMAIN steps[n].kids :
             steps[n].kids[k].id = steps[n].kids[l].id => k = l
      BY <1>1 DEF Placed
    <3>2. \A n \in DOMAIN steps : /\ DOMAIN steps'[n].kids = DOMAIN steps[n].kids
                                  /\ \A k \in DOMAIN steps[n].kids :
                                        steps'[n].kids[k].id = steps[n].kids[k].id
      BY <1>8
    <3>3. DOMAIN steps' = DOMAIN steps
      BY <1>8
    <3> QED BY <3>1, <3>2, <3>3
  <2>5. (\A n \in DOMAIN steps : \A k \in DOMAIN steps[n].kids :
           ParentOf[steps[n].kids[k].id] = steps[n].id)'
    BY <1>1, <1>8, SMTT(30) DEF Placed
  <2> QED BY <2>1, <2>2, <2>3, <2>4, <2>5 DEF Placed
<1>11. Ended'
  <2>1. (\A n \in DOMAIN steps : steps[n].ended = sent[steps[n].id] \div 2)'
    BY <1>7, <1>8, <1>9 DEF TreeInv, Ended
  <2>2. (\A n \in DOMAIN steps : \A k \in DOMAIN steps[n].kids :
           steps[n].kids[k].ended = sent[steps[n].kids[k].id] \div 2)'
    BY <1>7, <1>8, <1>9 DEF TreeInv, Ended
  <2>3. \A t \in StepId : Talk!Found(t)' <=> Talk!Found(t)
    BY <1>8, SMTT(30) DEF Talk!Found
  <2>4. (\A t \in StepId : sent[t] > 0 <=> Talk!Found(t))'
    BY <1>6, <2>3 DEF TreeInv, Ended
  <2> QED BY <2>1, <2>2, <2>4 DEF Ended
<1> QED BY <1>10, <1>11 DEF TreeInv


\* The first event of a step.
LEMMA FirstCounts ==
  ASSUME TreeInv, NEW s \in StepId, Talk!Event(s), sent[s] % 2 = 0, ~Talk!Found(s)
  PROVE  /\ sent' \in [StepId -> Nat] /\ steps' = Talk!Insert(s)
         /\ \A t \in StepId : sent'[t] \div 2 = sent[t] \div 2
         /\ \A t \in StepId : sent'[t] > 0 <=> (sent[t] > 0 \/ t = s)
         /\ sent'[s] \div 2 = 0
<1> DEFINE e == sent[s]
<1>1. /\ sent' \in [StepId -> Nat] /\ e \in Nat /\ sent'[s] = e + 1
      /\ \A t \in StepId : t # s => sent'[t] = sent[t]
      /\ \A t \in StepId : sent[t] \in Nat
  BY EventCounts DEF TreeInv
<1>2. ~(e > 0)
  BY DEF TreeInv, Ended
<1>3. e = 0
  BY <1>1, <1>2
<1>4. \A t \in StepId : sent'[t] \div 2 = sent[t] \div 2
  BY <1>1, Halves
<1>5. \A t \in StepId : sent'[t] > 0 <=> (sent[t] > 0 \/ t = s)
  BY <1>1
<1>6. sent'[s] \div 2 = 0
  BY <1>1, <1>3, Halves
<1>7. steps' = Talk!Insert(s)
  BY DEF Talk!Event
<1> QED BY <1>1, <1>4, <1>5, <1>6, <1>7

\* The card of a step that begins.
LEMMA NewCard ==
  ASSUME NEW s \in StepId
  PROVE  Talk!Card(s) \in Kid /\ Talk!Card(s).id = s /\ Talk!Card(s).ended = 0 /\ Talk!Card(s).kids = <<>>
BY DEF Talk!Card, Kid

\* A child goes to its parent.
LEMMA UnderKept ==
  ASSUME TreeInv, NEW s \in StepId, Talk!Event(s), sent[s] % 2 = 0, ~Talk!Found(s),
         \E n \in DOMAIN steps : steps[n].id = ParentOf[s]
  PROVE  TreeInv'
<1> DEFINE parents == {n \in DOMAIN steps : steps[n].id = ParentOf[s]}
           p == CHOOSE n \in parents : TRUE
           old == steps[p].kids
           b == Len(old)
           kids == Append(old, Talk!Card(s))
<1>1. Placed
  BY DEF TreeInv
<1>2. /\ sent' \in [StepId -> Nat] /\ steps' = Talk!Insert(s)
      /\ \A t \in StepId : sent'[t] \div 2 = sent[t] \div 2
      /\ \A t \in StepId : sent'[t] > 0 <=> (sent[t] > 0 \/ t = s)
      /\ sent'[s] \div 2 = 0
  BY FirstCounts
<1>3. p \in DOMAIN steps /\ steps[p].id = ParentOf[s]
  OBVIOUS
<1>4. steps' = [steps EXCEPT ![p].kids = kids]
  BY <1>2 DEF Talk!Insert
<1> HIDE DEF p
<1>5. /\ steps[p].id \in StepId /\ steps[p].ended \in Nat /\ old \in Seq(Kid) /\ steps[p] \in StepCard
  BY <1>1, <1>3, PlacedCards
<1>6. Talk!Card(s) \in Kid /\ Talk!Card(s).id = s /\ Talk!Card(s).ended = 0
  BY NewCard
<1>7. /\ kids \in Seq(Kid) /\ b \in Nat /\ DOMAIN old = 1..b /\ DOMAIN kids = 1..(b + 1)
      /\ kids[b + 1] = Talk!Card(s) /\ \A k \in 1..b : kids[k] = old[k]
  BY <1>5, <1>6
<1>8. /\ DOMAIN steps' = DOMAIN steps
      /\ \A n \in DOMAIN steps : n # p => steps'[n] = steps[n]
      /\ steps'[p] = [steps[p] EXCEPT !.kids = kids]
  BY <1>3, <1>4
<1> HIDE DEF kids
<1>9. /\ steps'[p] \in StepCard /\ steps'[p].id = steps[p].id /\ steps'[p].ended = steps[p].ended
      /\ steps'[p].kids = kids
  BY <1>5, <1>7, <1>8 DEF StepCard
<1>10. steps' \in Seq(StepCard)
  <2> DEFINE g == [steps EXCEPT ![p].kids = kids]
  <2>4. g = [n \in DOMAIN steps |-> g[n]]
    OBVIOUS
  <2>5. Len(steps) \in Nat /\ DOMAIN steps = 1..Len(steps)
    BY <1>1 DEF Placed
  <2>1. steps' = [n \in 1..Len(steps) |-> steps'[n]] /\ Len(steps) \in Nat /\ DOMAIN steps = 1..Len(steps)
    <3> HIDE DEF g
    <3>1. steps' = g
      BY <1>4 DEF g
    <3> QED BY <2>4, <2>5, <3>1
  <2>2. \A n \in DOMAIN steps : steps[n] \in StepCard
    BY <1>1, PlacedCards
  <2>3. \A n \in DOMAIN steps : steps'[n] \in StepCard
    BY <2>2, <1>8, <1>9
  <2> QED BY <2>1, <2>3
<1>11. \A n \in DOMAIN steps : steps'[n].id = steps[n].id /\ steps'[n].ended = steps[n].ended
  BY <1>8, <1>9
<1>12. \A n \in DOMAIN steps : /\ steps[n].id \in StepId /\ steps[n].id # s
                               /\ \A k \in DOMAIN steps[n].kids : /\ steps[n].kids[k].id \in StepId
                                                                  /\ steps[n].kids[k].id # s
  BY <1>1, PlacedCards DEF Kid, Talk!Found
<1>13. b + 1 \in 1..(b + 1) /\ \A k \in 1..(b + 1) : k \in 1..b \/ k = b + 1
  BY <1>7
<1>14. \A k \in 1..b : k \in 1..(b + 1)
  BY <1>7
<1> HIDE DEF b
<1>15. Placed'
  <2>1. (\A m, n \in DOMAIN steps : steps[m].id = steps[n].id => m = n)'
    BY <1>1, <1>8, <1>11 DEF Placed
  <2>2. (\A m, n \in DOMAIN steps : ParentOf[steps[n].id] # steps[m].id)'
    BY <1>1, <1>8, <1>11 DEF Placed
  <2>3. \A k, l \in DOMAIN old : old[k].id = old[l].id => k = l
    BY <1>1, <1>3 DEF Placed
  <2>4. \A k \in DOMAIN old : old[k].id # s /\ ParentOf[old[k].id] = steps[p].id
    BY <1>1, <1>3, <1>12 DEF Placed
  <2> HIDE DEF old
  <2>5. \A k, l \in DOMAIN kids : kids[k].id = kids[l].id => k = l
    BY <2>3, <2>4, <1>6, <1>7, <1>13
  <2>6. \A k \in DOMAIN kids : ParentOf[kids[k].id] = steps[p].id
    BY <2>4, <1>3, <1>6, <1>7, <1>13
  <2>7. (\A n \in DOMAIN steps : \A k, l \in DOMAIN steps[n].kids :
           steps[n].kids[k].id = steps[n].kids[l].id => k = l)'
    <3> SUFFICES ASSUME NEW n \in DOMAIN steps', NEW k \in DOMAIN steps'[n].kids,
                        NEW l \in DOMAIN steps'[n].kids,
                        steps'[n].kids[k].id = steps'[n].kids[l].id
                 PROVE  k = l
      OBVIOUS
    <3>1. CASE n = p
      BY <3>1, <1>9, <2>5
    <3>2. CASE n # p
      <4>1. n \in DOMAIN steps /\ steps'[n] = steps[n]
        BY <1>8, <3>2
      <4> QED BY <4>1, <1>1 DEF Placed
    <3> QED BY <3>1, <3>2
  <2>8. (\A n \in DOMAIN steps : \A k \in DOMAIN steps[n].kids :
           ParentOf[steps[n].kids[k].id] = steps[n].id)'
    <3> SUFFICES ASSUME NEW n \in DOMAIN steps', NEW k \in DOMAIN steps'[n].kids
                 PROVE  ParentOf[steps'[n].kids[k].id] = steps'[n].id
      OBVIOUS
    <3>1. CASE n = p
      BY <3>1, <1>9, <2>6
    <3>2. CASE n # p
      <4>1. n \in DOMAIN steps /\ steps'[n] = steps[n]
        BY <1>8, <3>2
      <4> QED BY <4>1, <1>1 DEF Placed
    <3> QED BY <3>1, <3>2
  <2> QED BY <1>2, <1>10, <2>1, <2>2, <2>7, <2>8 DEF Placed
<1>16. Ended'
  <2>1. (\A n \in DOMAIN steps : steps[n].ended = sent[steps[n].id] \div 2)'
    BY <1>2, <1>8, <1>11, <1>12 DEF TreeInv, Ended
  <2>2. \A k \in DOMAIN old : old[k].ended = sent[old[k].id] \div 2 /\ old[k].id \in StepId
    BY <1>3, <1>12 DEF TreeInv, Ended
  <2>3. \A n \in DOMAIN steps : \A k \in DOMAIN steps[n].kids :
           steps[n].kids[k].ended = sent[steps[n].kids[k].id] \div 2
    BY DEF TreeInv, Ended
  <2>4. \A t \in StepId : sent[t] > 0 <=> Talk!Found(t)
    BY DEF TreeInv, Ended
  <2>5. ASSUME NEW t \in StepId PROVE Talk!Found(t)' <=> (Talk!Found(t) \/ t = s)
    <3>1. ASSUME Talk!Found(t) PROVE Talk!Found(t)'
      <4>1. PICK n \in DOMAIN steps : steps[n].id = t \/ \E k \in DOMAIN steps[n].kids : steps[n].kids[k].id = t
        BY <3>1 DEF Talk!Found
      <4>2. n = p => \A k \in DOMAIN old : k \in DOMAIN kids /\ kids[k] = old[k]
        BY <1>7, <1>14
      <4>3. \/ steps'[n].id = t
            \/ \E k \in DOMAIN steps'[n].kids : steps'[n].kids[k].id = t
        <5>1. CASE n = p /\ steps[n].id # t
          <6>1. PICK k \in DOMAIN old : old[k].id = t
            BY <4>1, <5>1
          <6>2. k \in DOMAIN kids /\ kids[k].id = t
            BY <4>2, <5>1, <6>1
          <6> QED BY <5>1, <6>2, <1>9
        <5>2. CASE n # p /\ steps[n].id # t
          BY <4>1, <5>2, <1>8
        <5> QED BY <5>1, <5>2, <1>11
      <4> QED BY <4>1, <4>3, <1>8 DEF Talk!Found
    <3>2. ASSUME t = s PROVE Talk!Found(t)'
      <4>1. b + 1 \in DOMAIN steps'[p].kids /\ steps'[p].kids[b + 1].id = t
        BY <1>6, <1>7, <1>9, <1>13, <3>2
      <4> QED BY <4>1, <1>3, <1>8 DEF Talk!Found
    <3>3. ASSUME Talk!Found(t)' PROVE Talk!Found(t) \/ t = s
      <4>1. PICK n \in DOMAIN steps' : \/ steps'[n].id = t
                                       \/ \E k \in DOMAIN steps'[n].kids : steps'[n].kids[k].id = t
        BY <3>3 DEF Talk!Found
      <4>2. n \in DOMAIN steps
        BY <4>1, <1>8
      <4>3. CASE steps'[n].id = t
        BY <4>2, <4>3, <1>11 DEF Talk!Found
      <4>4. CASE n # p
        BY <4>1, <4>2, <4>4, <1>8 DEF Talk!Found
      <4>5. CASE n = p /\ \E k \in DOMAIN kids : kids[k].id = t
        <5>1. PICK k \in DOMAIN kids : kids[k].id = t
          BY <4>5
        <5>2. k = b + 1 \/ (k \in DOMAIN old /\ kids[k] = old[k])
          BY <5>1, <1>7, <1>13
        <5>3. CASE k = b + 1
          BY <5>1, <5>3, <1>6, <1>7
        <5>4. CASE k \in DOMAIN old /\ kids[k] = old[k]
          <6>1. \E l \in DOMAIN steps[p].kids : steps[p].kids[l].id = t
            BY <5>1, <5>4
          <6> QED BY <6>1, <1>3 DEF Talk!Found
        <5> QED BY <5>2, <5>3, <5>4
      <4> QED BY <4>1, <4>3, <4>4, <4>5, <1>9
    <3> QED BY <3>1, <3>2, <3>3
  <2> HIDE DEF old
  <2>6. \A k \in DOMAIN kids : kids[k].ended = sent'[kids[k].id] \div 2
    BY <2>2, <1>2, <1>6, <1>7, <1>13, SMTT(30)
  <2>7. (\A n \in DOMAIN steps : \A k \in DOMAIN steps[n].kids :
         steps[n].kids[k].ended = sent[steps[n].kids[k].id] \div 2)'
    <3> SUFFICES ASSUME NEW n \in DOMAIN steps', NEW k \in DOMAIN steps'[n].kids
                 PROVE  steps'[n].kids[k].ended = sent'[steps'[n].kids[k].id] \div 2
      OBVIOUS
    <3>1. CASE n = p
      BY <3>1, <1>9, <2>6
    <3>2. CASE n # p
      <4>1. n \in DOMAIN steps /\ steps'[n] = steps[n]
        BY <1>8, <3>2
      <4> QED BY <4>1, <2>3, <1>2, <1>12
    <3> QED BY <3>1, <3>2
  <2>8. (\A t \in StepId : sent[t] > 0 <=> Talk!Found(t))'
    BY <2>4, <2>5, <1>2
  <2> QED BY <2>1, <2>7, <2>8 DEF Ended
<1> QED BY <1>15, <1>16 DEF TreeInv


\* The cards that stay on top, and those that go under the new one, which have no
\* children themselves.
LEMMA WaitingCards ==
  ASSUME Placed, NEW s \in StepId, NEW mine, mine = {c \in StepId : ParentOf[c] = s}
  PROVE  /\ Talk!Among(steps, StepId \ mine) \in Seq(StepCard)
         /\ Chosen(Talk!Among(steps, StepId \ mine), steps, StepId \ mine, Len(steps))
         /\ Talk!Among(steps, mine) \in Seq(Kid)
         /\ Chosen(Talk!Among(steps, mine), steps, mine, Len(steps))
<1> DEFINE q == Talk!Among(steps, mine)
           b == Len(q)
           L == Len(steps)
<1>1. steps \in Seq(StepCard) /\ \A k, l \in DOMAIN steps : steps[k].id = steps[l].id => k = l
  BY DEF Placed
<1>2. /\ Talk!Among(steps, StepId \ mine) \in Seq(StepCard)
      /\ Chosen(Talk!Among(steps, StepId \ mine), steps, StepId \ mine, Len(steps))
  BY <1>1, AmongFacts
<1>3. q \in Seq(StepCard) /\ Chosen(q, steps, mine, L)
  BY <1>1, AmongFacts
<1>4. DOMAIN steps = 1..L
  BY <1>1
<1>5. ASSUME NEW n \in 1..L, steps[n].id \in mine PROVE steps[n] \in Kid
  <2>1. /\ steps[n].id \in StepId /\ steps[n].ended \in Nat /\ steps[n].kids \in Seq(Kid)
        /\ steps[n] \in StepCard
        /\ \A k \in DOMAIN steps[n].kids : steps[n].kids[k] \in Kid
    BY <1>4, PlacedCards
  <2>2. ASSUME NEW k \in DOMAIN steps[n].kids PROVE FALSE
    <3>1. steps[n].kids[k].id \in StepId /\ ParentOf[steps[n].kids[k].id] = steps[n].id
      BY <2>1, <1>4 DEF Placed, Kid
    <3>2. ParentOf[steps[n].id] = NoParent /\ NoParent \notin StepId
      BY <3>1, <2>1, TwoLevels
    <3> QED BY <3>2, <1>5
  <2>3. steps[n].kids = <<>>
    <3> DEFINE c == steps[n].kids
    <3>1. c \in Seq(Kid) /\ \A k \in DOMAIN c : FALSE
      BY <2>1, <2>2
    <3> HIDE DEF c
    <3>2. c = <<>>
      <4>1. Len(c) \in Nat /\ DOMAIN c = 1..Len(c)
        BY <3>1
      <4>2. Len(c) = 0
        <5> SUFFICES ASSUME Len(c) # 0 PROVE FALSE
          OBVIOUS
        <5>1. 1 \in DOMAIN c
          BY <4>1
        <5> QED BY <5>1, <3>1
      <4> QED BY <3>1, <4>2
    <3> QED BY <3>2 DEF c
  <2> QED BY <2>1, <2>3 DEF StepCard, Kid
<1> HIDE DEF q
<1>6. b \in Nat /\ DOMAIN q = 1..b /\ q = [k \in 1..b |-> q[k]]
  BY <1>3
<1>7. \A k \in 1..b : \E m \in 1..L : steps[m] = q[k] /\ q[k].id \in mine
  BY <1>3 DEF Chosen
<1> HIDE DEF L
<1>8. \A k \in 1..b : q[k] \in Kid
  BY <1>5, <1>7
<1> HIDE DEF b
<1>9. q \in Seq(Kid)
  BY <1>6, <1>8
<1> QED BY <1>2, <1>3, <1>9 DEF q, L

\* A step with no parent there goes on top, with the children that wait for it.
LEMMA TopKept ==
  ASSUME TreeInv, NEW s \in StepId, Talk!Event(s), sent[s] % 2 = 0, ~Talk!Found(s),
         ~\E n \in DOMAIN steps : steps[n].id = ParentOf[s]
  PROVE  TreeInv'
<1> DEFINE mine == {c \in StepId : ParentOf[c] = s}
           top  == Talk!Among(steps, StepId \ mine)
           kids == Talk!Among(steps, mine)
           card == [Talk!Card(s) EXCEPT !.kids = kids]
           L == Len(steps)
           a == Len(top)
           b == Len(kids)
<1>1. Placed
  BY DEF TreeInv
<1>2. /\ sent' \in [StepId -> Nat] /\ steps' = Talk!Insert(s)
      /\ \A t \in StepId : sent'[t] \div 2 = sent[t] \div 2
      /\ \A t \in StepId : sent'[t] > 0 <=> (sent[t] > 0 \/ t = s)
      /\ sent'[s] \div 2 = 0
  BY FirstCounts
<1>3. steps' = Append(top, card)
  BY <1>2 DEF Talk!Insert
<1>4. /\ top \in Seq(StepCard) /\ Chosen(top, steps, StepId \ mine, L)
      /\ kids \in Seq(Kid) /\ Chosen(kids, steps, mine, L)
  BY <1>1, WaitingCards
<1> HIDE DEF top, kids
<1>5. card \in StepCard /\ card.id = s /\ card.ended = 0 /\ card.kids = kids
  BY <1>4 DEF Talk!Card, StepCard
<1> HIDE DEF card
<1>6. /\ steps' \in Seq(StepCard) /\ a \in Nat /\ DOMAIN steps' = 1..(a + 1) /\ DOMAIN top = 1..a
      /\ steps'[a + 1] = card /\ \A n \in 1..a : steps'[n] = top[n]
  BY <1>3, <1>4, <1>5
<1>7. L \in Nat /\ DOMAIN steps = 1..L /\ b \in Nat /\ DOMAIN kids = 1..b
  BY <1>1, <1>4 DEF Placed
<1>8. /\ \A k \in 1..a : \E m \in 1..L : steps[m] = top[k] /\ top[k].id \in StepId \ mine
      /\ \A m \in 1..L : steps[m].id \in StepId \ mine => \E k \in 1..a : top[k] = steps[m]
      /\ \A k, l \in 1..a : top[k].id = top[l].id => k = l
  BY <1>4 DEF Chosen
<1>9. /\ \A k \in 1..b : \E m \in 1..L : steps[m] = kids[k] /\ kids[k].id \in mine
      /\ \A m \in 1..L : steps[m].id \in mine => \E k \in 1..b : kids[k] = steps[m]
      /\ \A k, l \in 1..b : kids[k].id = kids[l].id => k = l
  BY <1>4 DEF Chosen
<1>10. a + 1 \in 1..(a + 1) /\ \A n \in 1..(a + 1) : n = a + 1 \/ n \in 1..a
  BY <1>6
<1>11. \A n \in 1..a : n \in 1..(a + 1)
  BY <1>6
<1>12. \A n \in 1..L : /\ steps[n].id \in StepId /\ steps[n].id # s
                       /\ \A k \in DOMAIN steps[n].kids : /\ steps[n].kids[k].id \in StepId
                                                          /\ steps[n].kids[k].id # s
  BY <1>1, <1>7, PlacedCards DEF Kid, Talk!Found
<1>13. \A k \in 1..b : kids[k].kids = <<>>
  <2>1. \A k \in DOMAIN kids : kids[k] \in Kid
    BY <1>4
  <2> HIDE DEF b
  <2>2. \A k \in 1..b : kids[k] \in Kid
    BY <2>1, <1>7
  <2> QED BY <2>2 DEF Kid
<1> HIDE DEF L, a, b
<1>14. Placed'
  <2>1. \A k \in 1..a : top[k].id # s
    BY <1>8, <1>12
  <2>2. (\A m, n \in DOMAIN steps : steps[m].id = steps[n].id => m = n)'
    <3> SUFFICES ASSUME NEW m \in 1..(a + 1), NEW n \in 1..(a + 1), steps'[m].id = steps'[n].id
                 PROVE  m = n
      BY <1>6
    <3>1. \A k \in 1..a : steps'[k] = top[k] /\ top[k].id # steps'[a + 1].id
      BY <2>1, <1>5, <1>6
    <3>2. \A k, l \in 1..a : top[k].id = top[l].id => k = l
      BY <1>8
    <3>3. CASE m \in 1..a /\ n \in 1..a
      BY <3>1, <3>2, <3>3
    <3>4. CASE m = a + 1 \/ n = a + 1
      BY <3>1, <3>4, <1>10
    <3> QED BY <3>3, <3>4, <1>10
  <2>3. (\A m, n \in DOMAIN steps : ParentOf[steps[n].id] # steps[m].id)'
    <3> SUFFICES ASSUME NEW m \in 1..(a + 1), NEW n \in 1..(a + 1) 
                 PROVE  ParentOf[steps'[n].id] # steps'[m].id
      BY <1>6
    <3>1. CASE m \in 1..a /\ n \in 1..a
      <4>1. PICK i \in 1..L : steps[i] = top[m]
        BY <3>1, <1>8
      <4>2. PICK j \in 1..L : steps[j] = top[n]
        BY <3>1, <1>8
      <4>3. ParentOf[steps[j].id] # steps[i].id
        BY <1>1, <1>7 DEF Placed
      <4> QED BY <4>1, <4>2, <4>3, <3>1, <1>6
    <3>2. CASE m = a + 1 /\ n \in 1..a
      <4>1. ParentOf[top[n].id] # s
        BY <3>2, <1>8
      <4> QED BY <4>1, <3>2, <1>5, <1>6
    <3>3. CASE m \in 1..a /\ n = a + 1
      <4>1. PICK i \in 1..L : steps[i] = top[m]
        BY <3>3, <1>8
      <4>2. ParentOf[s] # steps[i].id
        BY <1>7
      <4> QED BY <4>1, <4>2, <3>3, <1>5, <1>6
    <3>4. CASE m = a + 1 /\ n = a + 1
      <4>1. ParentOf[s] # s
        BY TwoLevels
      <4> QED BY <4>1, <3>4, <1>5, <1>6
    <3> QED BY <3>1, <3>2, <3>3, <3>4, <1>10
  <2>4. (\A n \in DOMAIN steps : \A k, l \in DOMAIN steps[n].kids :
           steps[n].kids[k].id = steps[n].kids[l].id => k = l)'
    <3> SUFFICES ASSUME NEW n \in 1..(a + 1), NEW k \in DOMAIN steps'[n].kids,
                        NEW l \in DOMAIN steps'[n].kids,
                        steps'[n].kids[k].id = steps'[n].kids[l].id
                 PROVE  k = l
      BY <1>6
    <3>1. CASE n = a + 1
      <4>1. steps'[n].kids = kids
        BY <3>1, <1>5, <1>6
      <4> QED BY <4>1, <1>7, <1>9
    <3>2. CASE n \in 1..a
      <4>1. PICK i \in 1..L : steps[i] = steps'[n]
        <5>1. \E i \in 1..L : steps[i] = top[n]
          BY <3>2, <1>8
        <5>2. steps'[n] = top[n]
          BY <3>2, <1>6
        <5> QED BY <5>1, <5>2
      <4> QED BY <4>1, <1>1, <1>7 DEF Placed
    <3> QED BY <3>1, <3>2, <1>10
  <2>5. (\A n \in DOMAIN steps : \A k \in DOMAIN steps[n].kids :
           ParentOf[steps[n].kids[k].id] = steps[n].id)'
    <3> SUFFICES ASSUME NEW n \in 1..(a + 1), NEW k \in DOMAIN steps'[n].kids
                 PROVE  ParentOf[steps'[n].kids[k].id] = steps'[n].id
      BY <1>6
    <3>1. CASE n = a + 1
      <4>1. steps'[n].kids = kids /\ steps'[n].id = s
        BY <3>1, <1>5, <1>6
      <4> QED BY <4>1, <1>7, <1>9
    <3>2. CASE n \in 1..a
      <4>1. PICK i \in 1..L : steps[i] = steps'[n]
        <5>1. \E i \in 1..L : steps[i] = top[n]
          BY <3>2, <1>8
        <5>2. steps'[n] = top[n]
          BY <3>2, <1>6
        <5> QED BY <5>1, <5>2
      <4> QED BY <4>1, <1>1, <1>7 DEF Placed
    <3> QED BY <3>1, <3>2, <1>10
  <2> QED BY <1>2, <1>6, <2>2, <2>3, <2>4, <2>5 DEF Placed
<1>15. Ended'
  <2>1. \A n \in 1..L : /\ steps[n].ended = sent'[steps[n].id] \div 2
                        /\ \A k \in DOMAIN steps[n].kids :
                             steps[n].kids[k].ended = sent'[steps[n].kids[k].id] \div 2
    <3> SUFFICES ASSUME NEW n \in 1..L
                 PROVE  /\ steps[n].ended = sent'[steps[n].id] \div 2
                        /\ \A k \in DOMAIN steps[n].kids :
                             steps[n].kids[k].ended = sent'[steps[n].kids[k].id] \div 2
      OBVIOUS
    <3>1. /\ steps[n].ended = sent[steps[n].id] \div 2
          /\ \A k \in DOMAIN steps[n].kids :
                             steps[n].kids[k].ended = sent[steps[n].kids[k].id] \div 2
      BY <1>7 DEF TreeInv, Ended
    <3> QED BY <3>1, <1>2, <1>12
  <2>2. (\A n \in DOMAIN steps : steps[n].ended = sent[steps[n].id] \div 2)'
    <3> SUFFICES ASSUME NEW n \in 1..(a + 1) PROVE steps'[n].ended = sent'[steps'[n].id] \div 2
      BY <1>6
    <3>1. CASE n = a + 1
      BY <3>1, <1>2, <1>5, <1>6
    <3>2. CASE n \in 1..a
      BY <3>2, <2>1, <1>6, <1>8
    <3> QED BY <3>1, <3>2, <1>10
  <2>3. (\A n \in DOMAIN steps : \A k \in DOMAIN steps[n].kids :
           steps[n].kids[k].ended = sent[steps[n].kids[k].id] \div 2)'
    <3> SUFFICES ASSUME NEW n \in 1..(a + 1), NEW k \in DOMAIN steps'[n].kids
                 PROVE  steps'[n].kids[k].ended = sent'[steps'[n].kids[k].id] \div 2
      BY <1>6
    <3>1. CASE n = a + 1
      <4>1. steps'[n].kids = kids
        BY <3>1, <1>5, <1>6
      <4>2. k \in 1..b /\ steps'[n].kids[k] = kids[k]
        BY <4>1, <1>7
      <4>3. PICK m \in 1..L : steps[m] = kids[k]
        BY <4>2, <1>9
      <4> QED BY <4>2, <4>3, <2>1
    <3>2. CASE n \in 1..a
      <4>1. PICK i \in 1..L : steps[i] = steps'[n]
        <5>1. \E i \in 1..L : steps[i] = top[n]
          BY <3>2, <1>8
        <5>2. steps'[n] = top[n]
          BY <3>2, <1>6
        <5> QED BY <5>1, <5>2
      <4> QED BY <4>1, <2>1
    <3> QED BY <3>1, <3>2, <1>10
  <2>4. ASSUME NEW t \in StepId PROVE Talk!Found(t)' <=> (Talk!Found(t) \/ t = s)
    <3>1. ASSUME Talk!Found(t) PROVE Talk!Found(t)'
      <4>1. PICK n \in 1..L : steps[n].id = t \/ \E k \in DOMAIN steps[n].kids : steps[n].kids[k].id = t
        BY <3>1, <1>7 DEF Talk!Found
      <4>2. CASE steps[n].id \notin mine
        <5>1. PICK k \in 1..a : top[k] = steps[n]
          BY <4>2, <1>8, <1>12
        <5>2. k \in DOMAIN steps' /\ steps'[k] = steps[n]
          BY <5>1, <1>6, <1>11
        <5> QED BY <4>1, <5>2 DEF Talk!Found
      <4>3. CASE steps[n].id \in mine
        <5>1. PICK k \in 1..b : kids[k] = steps[n]
          BY <4>3, <1>9
        <5>2. steps[n].kids = <<>>
          BY <5>1, <1>13
        <5>3. steps[n].id = t
          BY <4>1, <5>2
        <5>4. a + 1 \in DOMAIN steps' /\ steps'[a + 1].kids = kids /\ k \in DOMAIN kids
          BY <1>5, <1>6, <1>7, <1>10
        <5> QED BY <5>1, <5>3, <5>4 DEF Talk!Found
      <4> QED BY <4>2, <4>3
    <3>2. ASSUME t = s PROVE Talk!Found(t)'
      <4>1. a + 1 \in DOMAIN steps' /\ steps'[a + 1].id = s
        BY <1>5, <1>6, <1>10
      <4> QED BY <4>1, <3>2 DEF Talk!Found
    <3>3. ASSUME Talk!Found(t)' PROVE Talk!Found(t) \/ t = s
      <4>1. PICK n \in 1..(a + 1) : \/ steps'[n].id = t
                                    \/ \E k \in DOMAIN steps'[n].kids : steps'[n].kids[k].id = t
        BY <3>3, <1>6 DEF Talk!Found
      <4>2. CASE n \in 1..a
        <5>1. PICK i \in 1..L : steps[i] = steps'[n]
          <6>1. \E i \in 1..L : steps[i] = top[n]
            BY <4>2, <1>8
          <6>2. steps'[n] = top[n]
            BY <4>2, <1>6
          <6> QED BY <6>1, <6>2
        <5> QED BY <4>1, <5>1, <1>7 DEF Talk!Found
      <4>3. CASE n = a + 1
        <5>1. steps'[n].kids = kids /\ steps'[n].id = s
          BY <4>3, <1>5, <1>6
        <5>2. ASSUME NEW k \in 1..b, kids[k].id = t PROVE Talk!Found(t)
          <6>1. PICK i \in 1..L : steps[i] = kids[k]
            BY <1>9
          <6> QED BY <5>2, <6>1, <1>7 DEF Talk!Found
        <5> QED BY <4>1, <5>1, <5>2, <1>7
      <4> QED BY <4>2, <4>3, <1>10
    <3> QED BY <3>1, <3>2, <3>3
  <2>5. \A t \in StepId : sent[t] > 0 <=> Talk!Found(t)
    BY DEF TreeInv, Ended
  <2>6. (\A t \in StepId : sent[t] > 0 <=> Talk!Found(t))'
    BY <2>4, <2>5, <1>2
  <2> QED BY <2>2, <2>3, <2>6 DEF Ended
<1> QED BY <1>14, <1>15 DEF TreeInv

\* No step has come yet.
LEMMA TreeStart == Talk!TreeInit => TreeInv
<1> SUFFICES ASSUME Talk!TreeInit PROVE TreeInv
  OBVIOUS
<1>1. sent \in [StepId -> Nat] /\ steps = <<>> /\ \A s \in StepId : sent[s] = 0
  BY DEF Talk!TreeInit
<1>2. <<>> \in Seq(StepCard) /\ DOMAIN steps = {}
  BY <1>1
<1>3. Placed
  BY <1>1, <1>2 DEF Placed
<1>4. \A s \in StepId : ~Talk!Found(s) /\ ~(sent[s] > 0)
  BY <1>1, <1>2 DEF Talk!Found
<1>5. Ended
  BY <1>2, <1>4 DEF Ended
<1> QED BY <1>3, <1>5 DEF TreeInv

\* Every event keeps them.
LEMMA TreeStep == TreeInv /\ (Talk!TreeNext \/ UNCHANGED Talk!treeVars) => TreeInv'
<1> SUFFICES ASSUME TreeInv, Talk!TreeNext \/ UNCHANGED Talk!treeVars PROVE TreeInv'
  OBVIOUS
<1>1. CASE Talk!TreeNext
  <2>1. PICK s \in StepId : Talk!Event(s)
    BY <1>1 DEF Talk!TreeNext
  <2>2. CASE sent[s] % 2 # 0
    BY <2>1, <2>2, PatchKept
  <2>3. CASE sent[s] % 2 = 0 /\ Talk!Found(s)
    BY <2>1, <2>3, AgainKept
  <2>4. CASE sent[s] % 2 = 0 /\ ~Talk!Found(s) /\ \E n \in DOMAIN steps : steps[n].id = ParentOf[s]
    BY <2>1, <2>4, UnderKept
  <2>5. CASE sent[s] % 2 = 0 /\ ~Talk!Found(s) /\ ~\E n \in DOMAIN steps : steps[n].id = ParentOf[s]
    BY <2>1, <2>5, TopKept
  <2> QED BY <2>2, <2>3, <2>4, <2>5
<1>2. CASE UNCHANGED Talk!treeVars
  <2>1. steps' = steps /\ sent' = sent
    BY <1>2 DEF Talk!treeVars
  <2>2. \A s \in StepId : Talk!Found(s)' <=> Talk!Found(s)
    BY <2>1 DEF Talk!Found
  <2>3. Placed'
    BY <2>1 DEF TreeInv, Placed
  <2>4. Ended'
    BY <2>1, <2>2 DEF TreeInv, Ended
  <2> QED BY <2>3, <2>4 DEF TreeInv
<1> QED BY <1>1, <1>2


\* The place of a card.
LEMMA PlaceOf ==
  ASSUME Placed, NEW p \in Talk!Places
  PROVE  /\ p[1] \in DOMAIN steps /\ p = <<p[1], p[2]>>
         /\ \/ p[2] = 0 /\ Talk!At(p) = steps[p[1]]
            \/ /\ p[2] # 0 /\ p[2] \in DOMAIN steps[p[1]].kids
               /\ Talk!At(p) = steps[p[1]].kids[p[2]]
<1>1. CASE p \in {<<n, 0>> : n \in DOMAIN steps}
  BY <1>1 DEF Talk!At
<1>2. CASE \E n \in DOMAIN steps : p \in {<<n, m>> : m \in DOMAIN steps[n].kids}
  <2>1. PICK n \in DOMAIN steps : p \in {<<n, m>> : m \in DOMAIN steps[n].kids}
    BY <1>2
  <2>2. PICK m \in DOMAIN steps[n].kids : p = <<n, m>>
    BY <2>1
  <2>3. m # 0
    <3>1. steps[n].kids \in Seq(Kid)
      BY PlacedCards
    <3> QED BY <3>1
  <2> QED BY <2>2, <2>3 DEF Talk!At
<1> QED BY <1>1, <1>2 DEF Talk!Places

\* What the page is to show of the steps.
LEMMA TreeTells == TreeInv => Talk!StepsInPlace
<1> SUFFICES ASSUME TreeInv PROVE Talk!StepsInPlace
  OBVIOUS
<1>1. Placed
  BY DEF TreeInv
<1>2. \A n \in DOMAIN steps : /\ steps[n].id \in StepId
                              /\ \A k \in DOMAIN steps[n].kids : steps[n].kids[k].id \in StepId
  BY <1>1, PlacedCards DEF Kid
<1>3. \A t \in StepId : sent[t] > 0 <=> Talk!Found(t)
  BY DEF TreeInv, Ended
<1>4. NoParent \notin StepId /\ \A s \in StepId : ParentOf[s] \in StepId \cup {NoParent}
  BY WorkbenchAssumption DEF Talk!TreeAssumption
<1>5. \A n \in DOMAIN steps : \A k \in DOMAIN steps[n].kids :
         /\ ParentOf[steps[n].kids[k].id] = steps[n].id
         /\ ParentOf[steps[n].id] = NoParent
  <2>1. \A n \in DOMAIN steps : \A k \in DOMAIN steps[n].kids :
         ParentOf[steps[n].kids[k].id] = steps[n].id
    BY <1>1 DEF Placed
  <2> QED BY <2>1, <1>2, TwoLevels
<1>6. ASSUME NEW s \in StepId, Talk!Came(s)
      PROVE  \E p \in Talk!Places : /\ Talk!At(p).id = s /\ Talk!At(p).ended = sent[s] \div 2
                               /\ Talk!Under(p) = IF Talk!Came(ParentOf[s]) THEN ParentOf[s] ELSE NoParent
  <2>1. PICK n \in DOMAIN steps : steps[n].id = s \/ \E k \in DOMAIN steps[n].kids : steps[n].kids[k].id = s
    BY <1>3, <1>6 DEF Talk!Came, Talk!Found
  <2>2. CASE steps[n].id = s
    <3> DEFINE p == <<n, 0>>
    <3>1. p \in Talk!Places /\ Talk!At(p) = steps[n] /\ Talk!Under(p) = NoParent
      BY DEF Talk!Places, Talk!At, Talk!Under
    <3>2. steps[n].ended = sent[s] \div 2
      BY <2>2 DEF TreeInv, Ended
    <3>3. ~Talk!Came(ParentOf[s])
      <4> SUFFICES ASSUME Talk!Came(ParentOf[s]) PROVE FALSE
        OBVIOUS
      <4>1. ParentOf[s] \in StepId /\ sent[ParentOf[s]] > 0
        BY <1>4 DEF Talk!Came
      <4>2. Talk!Found(ParentOf[s])
        BY <4>1, <1>3
      <4>3. PICK m \in DOMAIN steps : \/ steps[m].id = ParentOf[s]
                                      \/ \E k \in DOMAIN steps[m].kids : steps[m].kids[k].id = ParentOf[s]
        BY <4>2 DEF Talk!Found
      <4>4. CASE steps[m].id = ParentOf[s]
        BY <4>4, <2>2, <1>1 DEF Placed
      <4>5. CASE \E k \in DOMAIN steps[m].kids : steps[m].kids[k].id = ParentOf[s]
        <5>1. ParentOf[ParentOf[s]] \in StepId
          BY <4>5, <1>5, <1>2
        <5>2. ParentOf[ParentOf[s]] = NoParent
          BY <4>1, TwoLevels
        <5> QED BY <5>1, <5>2, <1>4
      <4> QED BY <4>3, <4>4, <4>5
    <3> QED BY <2>2, <3>1, <3>2, <3>3
  <2>3. CASE \E k \in DOMAIN steps[n].kids : steps[n].kids[k].id = s
    <3>1. PICK k \in DOMAIN steps[n].kids : steps[n].kids[k].id = s
      BY <2>3
    <3> DEFINE p == <<n, k>>
    <3>2. k # 0
      <4>1. steps[n].kids \in Seq(Kid)
        BY <1>1, PlacedCards
      <4> QED BY <4>1
    <3>3. p \in Talk!Places /\ Talk!At(p) = steps[n].kids[k] /\ Talk!Under(p) = steps[n].id
      BY <3>2 DEF Talk!Places, Talk!At, Talk!Under
    <3>4. steps[n].kids[k].ended = sent[s] \div 2
      BY <3>1 DEF TreeInv, Ended
    <3>5. ParentOf[s] = steps[n].id
      BY <3>1, <1>5
    <3>6. Talk!Found(steps[n].id)
      BY DEF Talk!Found
    <3>7. Talk!Came(ParentOf[s])
      BY <3>5, <3>6, <1>2, <1>3, <1>4 DEF Talk!Came
    <3> QED BY <3>1, <3>3, <3>4, <3>5, <3>7
  <2> QED BY <2>1, <2>2, <2>3
<1>7. ASSUME NEW p \in Talk!Places PROVE Talk!Came(Talk!At(p).id)
  <2>1. /\ p[1] \in DOMAIN steps
        /\ \/ p[2] = 0 /\ Talk!At(p) = steps[p[1]]
           \/ p[2] \in DOMAIN steps[p[1]].kids /\ Talk!At(p) = steps[p[1]].kids[p[2]]
    BY <1>1, PlaceOf
  <2>2. Talk!At(p).id \in StepId
    BY <2>1, <1>2
  <2>3. Talk!Found(Talk!At(p).id)
    BY <2>1 DEF Talk!Found
  <2> QED BY <2>2, <2>3, <1>3, <1>4 DEF Talk!Came
<1>8. ASSUME NEW p \in Talk!Places, NEW q \in Talk!Places, Talk!At(p).id = Talk!At(q).id PROVE p = q
  <2>1. /\ p[1] \in DOMAIN steps /\ p = <<p[1], p[2]>>
        /\ \/ p[2] = 0 /\ Talk!At(p) = steps[p[1]]
           \/ p[2] # 0 /\ p[2] \in DOMAIN steps[p[1]].kids /\ Talk!At(p) = steps[p[1]].kids[p[2]]
    BY <1>1, PlaceOf
  <2>2. /\ q[1] \in DOMAIN steps /\ q = <<q[1], q[2]>>
        /\ \/ q[2] = 0 /\ Talk!At(q) = steps[q[1]]
           \/ q[2] # 0 /\ q[2] \in DOMAIN steps[q[1]].kids /\ Talk!At(q) = steps[q[1]].kids[q[2]]
    BY <1>1, PlaceOf
  <2> DEFINE a == p[1]
             b == q[1]
             k == p[2]
             l == q[2]
             x == Talk!At(p)
             y == Talk!At(q)
  <2>3. x.id = y.id
    BY <1>8
  <2> HIDE DEF a, b, k, l, x, y
  <2>4. /\ a \in DOMAIN steps /\ p = <<a, k>>
        /\ (k = 0 /\ x = steps[a]) \/ (k # 0 /\ k \in DOMAIN steps[a].kids /\ x = steps[a].kids[k])
    BY <2>1 DEF a, k, x
  <2>5. /\ b \in DOMAIN steps /\ q = <<b, l>>
        /\ (l = 0 /\ y = steps[b]) \/ (l # 0 /\ l \in DOMAIN steps[b].kids /\ y = steps[b].kids[l])
    BY <2>2 DEF b, l, y
  <2>6. CASE k = 0 /\ l = 0
    <3>1. a = b
      BY <2>3, <2>4, <2>5, <2>6, <1>1 DEF Placed
    <3> QED BY <3>1, <2>4, <2>5, <2>6
  <2>7. CASE k = 0 /\ l # 0
    <3>1. ParentOf[steps[a].id] = steps[b].id
      BY <2>3, <2>4, <2>5, <2>7, <1>5
    <3> QED BY <3>1, <2>4, <2>5, <1>1 DEF Placed
  <2>8. CASE k # 0 /\ l = 0
    <3>1. ParentOf[steps[b].id] = steps[a].id
      BY <2>3, <2>4, <2>5, <2>8, <1>5
    <3> QED BY <3>1, <2>4, <2>5, <1>1 DEF Placed
  <2>9. CASE k # 0 /\ l # 0
    <3>1. x = steps[a].kids[k] /\ k \in DOMAIN steps[a].kids
          /\ y = steps[b].kids[l] /\ l \in DOMAIN steps[b].kids
      BY <2>4, <2>5, <2>9
    <3>2. steps[a].id = ParentOf[x.id] /\ steps[b].id = ParentOf[y.id]
      BY <3>1, <2>4, <2>5, <1>5
    <3>3. a = b
      BY <3>2, <2>3, <2>4, <2>5, <1>1 DEF Placed
    <3>4. k = l
      BY <3>1, <3>3, <2>3, <2>4, <1>1 DEF Placed
    <3> QED BY <3>3, <3>4, <2>4, <2>5
  <2> QED BY <2>6, <2>7, <2>8, <2>9
<1> QED BY <1>6, <1>7, <1>8 DEF Talk!StepsInPlace


-----------------------------------------------------------------------------
\* The tools and the verdicts, each under its own specification, keep their promises
\* (agent/tools.py, providers/mcp_provider.py, core/policy.py, core/tool_gateway.py).
THEOREM HostSoundHolds == Host!HostSpec /\ Called!VerdictSpec => []HostSound
<1>1. HostInv /\ VerdictInv => HostSound
  BY HostKept, VerdictApproved, VerdictTold, VerdictOne DEF HostSound
<1>2. HostInv /\ [Host!HostNext]_(Host!hostVars) => HostInv'
  BY HostStep
<1>3. VerdictInv /\ [Called!Answer]_(Called!verdictVars) => VerdictInv'
  BY VerdictStep
<1> QED BY <1>1, <1>2, <1>3, HostStart, VerdictStart, PTL DEF Host!HostSpec, Called!VerdictSpec

\* The page, its conversations and their steps each under their own specification,
\* keeps what it is to keep (web/frontend/src/renderer/src/App.tsx, state.ts).
THEOREM PageKeptHolds == Talk!ThreadsSpec /\ Talk!TreeSpec => []PageKept
<1>1. PageInv /\ TreeInv => PageKept
  BY PageTells, TreeTells DEF PageKept
<1>2. PageInv /\ [Talk!ThreadsNext]_(Talk!threadVars) => PageInv'
  BY PageStep
<1>3. TreeInv /\ [Talk!TreeNext]_(Talk!treeVars) => TreeInv'
  BY TreeStep
<1> QED BY <1>1, <1>2, <1>3, PageStart, TreeStart, PTL DEF Talk!ThreadsSpec, Talk!TreeSpec
=============================================================================
