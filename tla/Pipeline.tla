------------------------------ MODULE Pipeline ------------------------------
(***************************************************************************)
(* The two graph algorithms, step by step: finalize and topo, which accept *)
(* or refuse a pipeline document, and the loop of advance, which is run on *)
(* the jobs of an accepted one.  They are compared with what the other     *)
(* modules take for granted: that graphs have no cycle, and that the loop  *)
(* arrives at the least set of Dag.  A document is its jobs in the order   *)
(* of their declaration, each a name and the names it needs; the checks of *)
(* a single job's image, steps, timeout and resources are left out.        *)
(***************************************************************************)
EXTENDS Naturals, Sequences, FiniteSets, FiniteSetsExt

CONSTANTS
  Names,    \* names of jobs
  NumJobs,  \* jobs of a document
  MaxNeeds  \* bound: needs of a job

ASSUME PipelineAssumption == NumJobs \in Nat \ {0} /\ MaxNeeds \in Nat

VARIABLES
  name, needs,  \* the document
  phase,           \* "finalize", "topo", "refused", "accepted", "advance", "settled"
  indeg, ready, out,  \* of topo
  st,           \* states of the jobs
  start,        \* history: the states advance was called with
  at, changed   \* of the loop of advance

doc == <<name, needs>>
topoVars == <<indeg, ready, out>>
loopVars == <<st, start, at, changed>>
pipelineVars == <<doc, phase, topoVars, loopVars>>

Decl == 1..NumJobs
Dead == {"failed", "cancelled", "skipped"}

PipelineInit ==
  /\ name \in [Decl -> Names \cup {""}]
  /\ needs \in [Decl -> UNION {[1..k -> Names] : k \in 0..MaxNeeds}]
  /\ phase = "finalize"
  /\ indeg = [i \in Decl |-> 0] /\ ready = {} /\ out = <<>>
  /\ st = [i \in Decl |-> "pending"] /\ start = st /\ at = 0 /\ changed = FALSE
-----------------------------------------------------------------------------
\* byName holds the first job of a name.
byName(n) == Min({i \in Decl : name[i] = n})

\* Wrong form for the mutation runs: needs are not checked for repetition.
BadNeedsRepeat(i) ==
  \E k \in DOMAIN needs[i] :
    \/ needs[i][k] = name[i]
    \/ \A j \in Decl : name[j] # needs[i][k]

\* Has job i a need that is itself, repeated or unknown.
BadNeeds(i) ==
  \E k \in DOMAIN needs[i] :
    \/ needs[i][k] = name[i]
    \/ \E l \in 1..k - 1 : needs[i][l] = needs[i][k]
    \/ \A j \in Decl : name[j] # needs[i][k]

\* finalize reports a problem, or topo begins with the jobs that need nothing.
finalize ==
  /\ phase = "finalize"
  /\ IF \/ \E i \in Decl : name[i] = "" \/ byName(name[i]) # i
        \/ \E i \in Decl : name[i] # "" /\ byName(name[i]) = i /\ BadNeeds(i)
       THEN phase' = "refused" /\ UNCHANGED topoVars
       ELSE /\ phase' = "topo"
            /\ indeg' = [i \in Decl |-> Len(needs[i])]
            /\ ready' = {i \in Decl : needs[i] = <<>>}
            /\ UNCHANGED out
  /\ UNCHANGED <<doc, loopVars>>

NeedsOf(i) == {byName(needs[i][k]) : k \in DOMAIN needs[i]}

\* The ready job that was declared first goes out, and its dependents have one need
\* less.  When none is ready, all are out or there is a cycle.
topo ==
  /\ phase = "topo"
  /\ \/ /\ ready # {}
        /\ LET n == Min(ready)
               deps(i) == {k \in DOMAIN needs[i] : needs[i][k] = name[n]}
               left == [i \in Decl |-> indeg[i] - Cardinality(deps(i))]
           IN  /\ out' = Append(out, n)
               /\ indeg' = left
               /\ ready' = (ready \ {n}) \cup {i \in Decl : deps(i) # {} /\ left[i] = 0}
        /\ UNCHANGED phase
     \/ /\ ready = {}
        /\ phase' = IF Len(out) = NumJobs THEN "accepted" ELSE "refused"
        /\ UNCHANGED topoVars
  /\ UNCHANGED <<doc, loopVars>>
-----------------------------------------------------------------------------
\* Job states a run can be in when advance is called: pending jobs are as they were,
\* what has started was behind needs that succeeded.
Possible(s) ==
  \A i \in Decl :
    /\ s[i] \in {"queued", "running", "succeeded", "failed"} => \A n \in NeedsOf(i) : s[n] = "succeeded"
    /\ s[i] = "skipped" => \E n \in NeedsOf(i) : s[n] \in Dead

Called ==
  /\ phase = "accepted"
  /\ \E s \in [Decl -> {"pending", "queued", "running", "succeeded"} \cup Dead] :
       Possible(s) /\ st' = s /\ start' = s
  /\ phase' = "advance" /\ at' = 1 /\ changed' = FALSE
  /\ UNCHANGED <<doc, topoVars>>

\* Wrong form for the mutation runs: a pass that changed something is the last.
OnePass == FALSE

\* Does another pass follow.
Again == changed

\* The loop comes to a job; at the end of a pass it starts over if one has changed.
advance ==
  /\ phase = "advance"
  /\ \/ /\ at <= NumJobs
        /\ LET blocked == \E n \in NeedsOf(at) : st[n] \in Dead
               waiting == \E n \in NeedsOf(at) : st[n] \notin Dead \cup {"succeeded"}
               moves == st[at] = "pending" /\ (blocked \/ ~waiting)
           IN  /\ st' = IF moves THEN [st EXCEPT ![at] = IF blocked THEN "skipped" ELSE "queued"] ELSE st
               /\ changed' = (changed \/ moves)
        /\ at' = at + 1
        /\ UNCHANGED <<phase, start>>
     \/ /\ at > NumJobs
        /\ IF Again THEN at' = 1 /\ changed' = FALSE /\ UNCHANGED phase
                    ELSE phase' = "settled" /\ UNCHANGED <<at, changed>>
        /\ UNCHANGED <<st, start>>
  /\ UNCHANGED <<doc, topoVars>>

PipelineNext == finalize \/ topo \/ Called \/ advance

PipelineSpec == PipelineInit /\ [][PipelineNext]_pipelineVars
-----------------------------------------------------------------------------
\* A document is accepted if and only if its names are distinct and not empty, the
\* needs of a job are distinct other jobs, and there is no cycle; and then the order
\* found has every job once and after its needs.
AcceptsExactlyDags ==
  LET valid == /\ \A i, j \in Decl : name[i] = name[j] => i = j
               /\ \A i \in Decl : name[i] # ""
               /\ \A i \in Decl, k, l \in 1..MaxNeeds :
                    k \in DOMAIN needs[i] /\ l \in DOMAIN needs[i] /\ k # l => needs[i][k] # needs[i][l]
               /\ \A i \in Decl : \A k \in DOMAIN needs[i] : \E j \in Decl : name[j] = needs[i][k]
      acyclic == \A S \in SUBSET Decl : S # {} => \E i \in S : NeedsOf(i) \cap S = {}
  IN  /\ phase = "refused" => ~(valid /\ acyclic)
      /\ phase = "accepted" =>
           /\ valid /\ acyclic /\ Len(out) = NumJobs
           /\ \A i \in Decl : \A n \in NeedsOf(i) :
                \E k, l \in Decl : k < l /\ out[k] = n /\ out[l] = i

\* The loop of advance arrives at what Dag states: it skips the least set of pending
\* jobs closed under "a need is over without success, or skipped", and queues the
\* pending jobs whose needs all succeeded.
AdvanceIsLeast ==
  phase = "settled" =>
    LET pending == {i \in Decl : start[i] = "pending"}
        closed(S) == \A i \in pending : (\E n \in NeedsOf(i) : start[n] \in Dead \/ n \in S) => i \in S
        skips == {i \in pending : \A S \in SUBSET pending : closed(S) => i \in S}
    IN  st = [i \in Decl |->
                IF i \in skips THEN "skipped"
                ELSE IF i \in pending /\ \A n \in NeedsOf(i) : start[n] = "succeeded" THEN "queued"
                ELSE start[i]]
=============================================================================
