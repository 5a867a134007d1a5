---------------------------- MODULE StreamResources ----------------------------
(* StreamResourceManager and its guards: a job object, a process and a count   *)
(* of failed health checks for every stream id, under one mutex, so that each  *)
(* call is one step; the count of active streams is read without it.           *)
EXTENDS Integers, FiniteSets

CONSTANTS Guards,       \* StreamResourceGuard objects
          StreamIds,    \* the ids they are made with
          Processes,    \* player processes
          MaxFailures   \* failing checks that declare a process dead (10 in the code)

None == "none"

\* What the constants must be; the module that instantiates this one assumes it.
ResourceAssumption == MaxFailures \in Nat \ {0} /\ None \notin Processes

VARIABLES
  guard,     \* the id a living guard was made with, or None
  jobs,      \* ids that have a job object
  member,    \* the process in the job of an id, or None: a job takes one
  process,   \* stream_processes_: the process of an id, or None
  failures,  \* stream_health_failures_
  active,    \* active_streams_
  alive,     \* processes that run
  spared     \* healthy verdicts on a process since it died

vars == << guard, jobs, member, process, failures, active, alive, spared >>

\* Mutant: an id that is there already is counted again.
CreateGuardCounting(g, id) ==
  /\ guard[g] = None /\ guard' = [guard EXCEPT ![g] = id]
  /\ jobs' = jobs \cup {id}
  /\ active' = active + 1
  /\ UNCHANGED << member, process, failures, alive, spared >>

\* CreateStreamResources: an id that is there already is not counted again.
CreateGuard(g, id) ==
  /\ guard[g] = None /\ guard' = [guard EXCEPT ![g] = id]
  /\ jobs' = jobs \cup {id}
  /\ active' = IF id \in jobs THEN active ELSE active + 1
  /\ UNCHANGED << member, process, failures, alive, spared >>

\* AssignProcessToStream: the process is entered before it is put into the job,
\* and stays entered when that fails.
AssignProcess(g, p) ==
  /\ guard[g] \in jobs /\ p \in alive
  /\ \A id \in StreamIds \ {guard[g]} : process[id] # p   \* started for this stream
  /\ process' = [process EXCEPT ![guard[g]] = p]
  /\ \/ member[guard[g]] \notin alive /\ member' = [member EXCEPT ![guard[g]] = p]
     \/ UNCHANGED member
  /\ UNCHANGED << guard, jobs, failures, active, alive, spared >>

\* IsProcessGenuinelyRunning: the exit code, then the handle itself.
IsProcessGenuinelyRunning(p) == p \in alive

\* Mutant: a process that was spared starts over.
CheckHealthForgiving(g) ==
  /\ guard[g] # None /\ process[guard[g]] # None
  /\ LET id == guard[g]
         n == failures[id] + 1
         ok == IsProcessGenuinelyRunning(process[id])
     IN  /\ failures' = [failures EXCEPT ![id] = IF ok \/ n < MaxFailures THEN 0 ELSE n]
         /\ spared' = [spared EXCEPT ![process[id]] = IF ~ok /\ n < MaxFailures THEN @ + 1 ELSE @]
  /\ UNCHANGED << guard, jobs, member, process, active, alive >>

\* IsStreamProcessHealthy: a failing check is a healthy verdict until there have
\* been MaxFailures in a row.
CheckHealth(g) ==
  /\ guard[g] # None /\ process[guard[g]] # None
  /\ LET id == guard[g]
         n == failures[id] + 1
         ok == IsProcessGenuinelyRunning(process[id])
     IN  /\ ok \/ failures[id] < MaxFailures     \* bound: counting stops there
         /\ failures' = [failures EXCEPT ![id] = IF ok THEN 0 ELSE n]
         /\ spared' = [spared EXCEPT ![process[id]] = IF ~ok /\ n < MaxFailures THEN @ + 1 ELSE @]
  /\ UNCHANGED << guard, jobs, member, process, active, alive >>

\* CleanupStreamResources: the process is terminated, the job too, and the count
\* goes down whether or not the id was there, but not below zero.
DestroyGuard(g) ==
  /\ guard[g] # None /\ guard' = [guard EXCEPT ![g] = None]
  /\ LET id == guard[g]
     IN  /\ alive' = alive \ {process[id], member[id]}
         /\ member' = [member EXCEPT ![id] = None]
         /\ process' = [process EXCEPT ![id] = None]
         /\ jobs' = jobs \ {id}
         /\ failures' = [failures EXCEPT ![id] = 0]
  /\ active' = IF active > 0 THEN active - 1 ELSE 0
  /\ UNCHANGED spared

ProcessDies(p) ==
  /\ p \in alive /\ alive' = alive \ {p}
  /\ UNCHANGED << guard, jobs, member, process, failures, active, spared >>

Next ==
  \/ \E g \in Guards :
       \/ \E id \in StreamIds : CreateGuard(g, id)
       \/ \E p \in Processes : AssignProcess(g, p)
       \/ CheckHealth(g) \/ DestroyGuard(g)
  \/ \E p \in Processes : ProcessDies(p)

Init ==
  /\ guard = [g \in Guards |-> None] /\ jobs = {} /\ active = 0
  /\ member = [id \in StreamIds |-> None] /\ process = [id \in StreamIds |-> None]
  /\ failures = [id \in StreamIds |-> 0]
  /\ alive = Processes /\ spared = [p \in Processes |-> 0]

Spec == Init /\ [][Next]_vars

(* ------------------------- the inductive invariant ------------------------ *)

TypeOK ==
  /\ guard \in [Guards -> StreamIds \cup {None}]
  /\ jobs \subseteq StreamIds /\ IsFiniteSet(jobs)
  /\ member \in [StreamIds -> Processes \cup {None}]
  /\ process \in [StreamIds -> Processes \cup {None}]
  /\ failures \in [StreamIds -> 0 .. MaxFailures]
  /\ active \in Nat
  /\ alive \subseteq Processes
  /\ spared \in [Processes -> 0 .. MaxFailures - 1]

\* A process is entered for one stream only, and the failing checks of a stream
\* include all those that spared the process entered for it.
SparedAreFailures ==
  /\ \A p \in alive : spared[p] = 0
  /\ \A id \in StreamIds, p \in Processes : process[id] = p => spared[p] <= failures[id]
  /\ \A id1, id2 \in StreamIds :
       process[id1] = process[id2] /\ process[id1] # None => id1 = id2

(* ------------------------------ properties ------------------------------- *)

\* A process that has died is called healthy fewer than MaxFailures times,
\* whatever checks, assignments and new guards of the stream come in between.
ToleranceBounded == \A p \in Processes : spared[p] < MaxFailures

\* The count never exceeds the streams that have resources, although guards may
\* share an id and a clean-up counts down for an id that is already gone.
NeverOvercounts == active <= Cardinality(jobs)

\* What every step keeps: the types, the bounds and what the bounds rest on.
ResourcesInv == TypeOK /\ SparedAreFailures /\ NeverOvercounts

\* Both, for the resources of all streams together.
ResourcesSound == ToleranceBounded /\ NeverOvercounts
==============================================================================
