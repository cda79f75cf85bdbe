------------------------ MODULE ProcessRunner_proofs ------------------------
(***************************************************************************)
(* Proofs about ProcessRunner, for every number of commands.               *)
(*                                                                         *)
(* The inductive invariant IInv says where in run_cmd the main thread can  *)
(* be while processes of a run exist and while ACTIVE_GROUP is set.  What  *)
(* the properties rest on is the handoff: a child that waits for its       *)
(* acknowledgement has a main thread that waits in spawn, and an           *)
(* acknowledgement exists only after the group was published (Handed).     *)
(***************************************************************************)
EXTENDS ProcessRunner, TLAPS

\* A child between fork and exec.
PreExec == {"forked", "unowned", "joined", "reported"}

\* The scope of the current run stands from NewScope to DropScope.
Scoped == main.pc # "idle" => main.run \in Run /\ tree[main.run].guardian # "reaped"

\* ACTIVE_GROUP names the current run, from the handoff to its end.
Published ==
    active # 0 =>
        active = main.run
        /\ main.pc \in {"spawn", "finish", "finish_failed", "supervise", "wait", "join"}

\* spawn does not return while the child is on its way to exec; a run that has not come to
\* its spawn has no child; and only a command that was executed has a background job.
Launched ==
    \A r \in Run :
        /\ tree[r].child \in PreExec => r = main.run /\ main.pc = "spawn"
        /\ (r > main.run \/ (r = main.run /\ main.pc \in {"scope", "scoped"}))
              => tree[r].child = "none"
        /\ tree[r].child \in PreExec \cup {"none", "failed"} => tree[r].job = "none"

\* The coordinator acknowledges what it has published.
Handed ==
    /\ coord # "none" => main.run \in Run
    /\ main.pc \in {"scope", "scoped"} => coord = "none" /\ ~acked
    /\ (main.pc \in {"spawn", "finish"} /\ (acked \/ coord = "ack")) => active = main.run

\* Whatever is in the group of a run belongs to the current run and is supervised.
Supervised ==
    \A r \in Run :
        (tree[r].child = "running" \/ tree[r].job \in JobInGroup)
            => r = main.run /\ main.pc \in {"spawn", "finish", "supervise"}

\* The inductive invariant.
IInv == TypeOK /\ Scoped /\ Published /\ Launched /\ Handed /\ Supervised /\ Cancellable

----------------------------------------------------------------------------
(* Updates of the main thread and of the processes of one run.             *)

Pcs == Launching \cup {"idle", "supervise", "wait", "join", "drop"}

GuardianStates == {"none", "new", "ready", "dead", "reaped"}

ChildStates == {"none", "forked", "unowned", "joined", "reported", "running", "escaped",
                "failed", "dead", "reaped"}

JobStates == {"none", "loud", "quiet", "escaped", "dead"}

\* The processes of r are now in these states, those of the other runs as before.
Changed(r, guardian, child, job) ==
    /\ tree' \in [Run -> Processes]
    /\ \A q \in Run \ {r} : tree'[q] = tree[q]
    /\ tree'[r].guardian = guardian /\ tree'[r].child = child /\ tree'[r].job = job

\* Goto changes the place of the main thread only.
LEMMA GotoMoves ==
    ASSUME main \in MainThread, NEW pc \in Pcs, Goto(pc)
    PROVE  main' \in MainThread /\ main'.pc = pc /\ main'.run = main.run
  BY DEF Goto, MainThread, Pcs

\* A new record for one run.
LEMMA RecordChanges ==
    ASSUME tree \in [Run -> Processes], NEW r \in Run, NEW n \in Processes,
           tree' = [tree EXCEPT ![r] = n]
    PROVE  Changed(r, n.guardian, n.child, n.job)
  BY DEF Changed

\* Another state of the guardian.
LEMMA GuardianChanges ==
    ASSUME tree \in [Run -> Processes], NEW r \in Run, NEW state \in GuardianStates,
           Becomes(r, "guardian", state) \/ tree' = [tree EXCEPT ![r].guardian = state]
    PROVE  Changed(r, state, tree[r].child, tree[r].job)
<1> DEFINE p == tree[r]
           n == [p EXCEPT !.guardian = state]
<1>1. p \in Processes
  OBVIOUS
<1>2. tree' = [tree EXCEPT ![r] = n]
  BY DEF Becomes
<1> HIDE DEF p
<1>3. n \in Processes /\ n.guardian = state /\ n.child = p.child /\ n.job = p.job
  BY <1>1 DEF Processes, GuardianStates
<1> HIDE DEF n
<1>4. QED
  BY <1>2, <1>3, RecordChanges DEF p

\* Another state of the child.
LEMMA ChildChanges ==
    ASSUME tree \in [Run -> Processes], NEW r \in Run, NEW state \in ChildStates,
           Becomes(r, "child", state) \/ tree' = [tree EXCEPT ![r].child = state]
    PROVE  Changed(r, tree[r].guardian, state, tree[r].job)
<1> DEFINE p == tree[r]
           n == [p EXCEPT !.child = state]
<1>1. p \in Processes
  OBVIOUS
<1>2. tree' = [tree EXCEPT ![r] = n]
  BY DEF Becomes
<1> HIDE DEF p
<1>3. n \in Processes /\ n.guardian = p.guardian /\ n.child = state /\ n.job = p.job
  BY <1>1 DEF Processes, ChildStates
<1> HIDE DEF n
<1>4. QED
  BY <1>2, <1>3, RecordChanges DEF p

\* Another state of the job.
LEMMA JobChanges ==
    ASSUME tree \in [Run -> Processes], NEW r \in Run, NEW state \in JobStates,
           Becomes(r, "job", state)
    PROVE  Changed(r, tree[r].guardian, tree[r].child, state)
<1> DEFINE p == tree[r]
           n == [p EXCEPT !.job = state]
<1>1. p \in Processes
  OBVIOUS
<1>2. tree' = [tree EXCEPT ![r] = n]
  BY DEF Becomes
<1> HIDE DEF p
<1>3. n \in Processes /\ n.guardian = p.guardian /\ n.child = p.child /\ n.job = state
  BY <1>1 DEF Processes, JobStates
<1> HIDE DEF n
<1>4. QED
  BY <1>2, <1>3, RecordChanges DEF p

\* Another state of the inner scope.
LEMMA InnerChanges ==
    ASSUME tree \in [Run -> Processes], NEW r \in Run, NEW state \in {"live", "dead"},
           Becomes(r, "inner", state)
    PROVE  Changed(r, tree[r].guardian, tree[r].child, tree[r].job)
<1> DEFINE p == tree[r]
           n == [p EXCEPT !.inner = state]
<1>1. p \in Processes
  OBVIOUS
<1>2. tree' = [tree EXCEPT ![r] = n]
  BY DEF Becomes
<1> HIDE DEF p
<1>3. n \in Processes /\ n.guardian = p.guardian /\ n.child = p.child /\ n.job = p.job
  BY <1>1 DEF Processes
<1> HIDE DEF n
<1>4. QED
  BY <1>2, <1>3, RecordChanges DEF p

\* Signals to the group of a run: SIGKILL, SIGKILL with the end of the scope, SIGTERM.
LEMMA KillChanges ==
    ASSUME tree \in [Run -> Processes], NEW r \in Run, tree' = KillGroup(r)
    PROVE  Changed(r, Killed(tree[r].guardian, {"ready"}),
                      Killed(tree[r].child, ChildInGroup), Killed(tree[r].job, JobInGroup))
<1> DEFINE p == tree[r]
           g == Killed(p.guardian, {"ready"})
           c == Killed(p.child, ChildInGroup)
           j == Killed(p.job, JobInGroup)
           n == [p EXCEPT !.guardian = g, !.child = c, !.job = j]
<1>1. g \in GuardianStates /\ c \in ChildStates /\ j \in JobStates
  BY DEF Killed, Processes, GuardianStates, ChildStates, JobStates
<1>2. p \in Processes /\ tree' = [tree EXCEPT ![r] = n]
  BY DEF KillGroup
<1> HIDE DEF p, g, c, j
<1>3. n \in Processes /\ n.guardian = g /\ n.child = c /\ n.job = j
  BY <1>1, <1>2 DEF Processes, GuardianStates, ChildStates, JobStates
<1> HIDE DEF n
<1>4. QED
  BY <1>2, <1>3, RecordChanges DEF p, g, c, j

LEMMA DropChanges ==
    ASSUME tree \in [Run -> Processes], NEW r \in Run,
           tree' = [KillGroup(r) EXCEPT ![r].guardian = "reaped"]
    PROVE  Changed(r, "reaped", Killed(tree[r].child, ChildInGroup),
                      Killed(tree[r].job, JobInGroup))
<1> DEFINE p == tree[r]
           g == Killed(p.guardian, {"ready"})
           c == Killed(p.child, ChildInGroup)
           j == Killed(p.job, JobInGroup)
           n == [p EXCEPT !.guardian = g, !.child = c, !.job = j]
           m == [n EXCEPT !.guardian = "reaped"]
<1>1. g \in GuardianStates /\ c \in ChildStates /\ j \in JobStates
  BY DEF Killed, Processes, GuardianStates, ChildStates, JobStates
<1>2. p \in Processes /\ KillGroup(r) = [tree EXCEPT ![r] = n]
  BY DEF KillGroup
<1> HIDE DEF p, g, c, j
<1>3. m \in Processes /\ m.guardian = "reaped" /\ m.child = c /\ m.job = j
  BY <1>1, <1>2 DEF Processes, GuardianStates, ChildStates, JobStates
<1>4. tree' = [[tree EXCEPT ![r] = n] EXCEPT ![r] = m]
  <2>1. [tree EXCEPT ![r] = n][r] = n
    OBVIOUS
  <2>2. QED
    BY <1>2, <2>1
<1> HIDE DEF n
<1>5. tree' = [tree EXCEPT ![r] = m]
  <2> HIDE DEF m
  <2>1. QED
    BY <1>4
<1> HIDE DEF m
<1>6. QED
  BY <1>3, <1>5, RecordChanges DEF p, c, j

LEMMA TermChanges ==
    ASSUME tree \in [Run -> Processes], NEW r \in Run, tree' \in TermGroup(r)
    PROVE  \E child \in {tree[r].child, Killed(tree[r].child, ChildInGroup)},
              job \in {tree[r].job, Killed(tree[r].job, JobInGroup)} :
                 Changed(r, tree[r].guardian, child, job)
<1>1. PICK c \in {tree[r].child, Killed(tree[r].child, ChildInGroup)},
           j \in {tree[r].job, Killed(tree[r].job, JobInGroup)} :
              tree' = [tree EXCEPT ![r].child = c, ![r].job = j]
  BY DEF TermGroup
<1> DEFINE p == tree[r]
           n == [p EXCEPT !.child = c, !.job = j]
<1>2. c \in ChildStates /\ j \in JobStates
  BY DEF Killed, Processes, ChildStates, JobStates
<1>3. p \in Processes /\ tree' = [tree EXCEPT ![r] = n]
  BY <1>1
<1> HIDE DEF p
<1>4. n \in Processes /\ n.guardian = p.guardian /\ n.child = c /\ n.job = j
  BY <1>2, <1>3 DEF Processes, ChildStates, JobStates
<1> HIDE DEF n
<1>5. Changed(r, p.guardian, c, j)
  BY <1>3, <1>4, RecordChanges
<1>6. QED
  BY <1>5 DEF p
----------------------------------------------------------------------------
(* Steps of the processes, which leave the worker's own state alone.       *)

\* The parts of the invariant that relate the processes to the worker.
Related == Scoped /\ Published /\ Launched /\ Handed /\ Supervised /\ Cancellable

\* Processes of a run may end, go on towards exec, be executed once acknowledged, or start a
\* job as a command.
LEMMA ProcessesKeep ==
    ASSUME IInv, NEW r \in Run, NEW g, NEW c, NEW j, Changed(r, g, c, j),
           UNCHANGED <<main, active, coord, acked>>,
           g = "reaped" => tree[r].guardian = "reaped",
           c = "none" <=> tree[r].child = "none",
           c \in PreExec => tree[r].child \in PreExec,
           c = "running" => tree[r].child = "running" \/ (tree[r].child = "reported" /\ acked),
           c \in PreExec \cup {"none", "failed"} => j = "none",
           j \in JobInGroup => tree[r].job \in JobInGroup \/ tree[r].child = "running"
    PROVE  Related'
<1>1. Scoped' /\ Published' /\ Handed'
  BY DEF IInv, Changed, Scoped, Published, Handed
<1>2. Launched'
  BY DEF IInv, Changed, Launched
<1>3. Supervised'
  BY DEF IInv, Changed, Launched, Supervised, PreExec
<1>4. Cancellable'
  BY DEF IInv, Changed, Launched, Handed, Cancellable, PreExec
<1>5. QED
  BY <1>1, <1>2, <1>3, <1>4 DEF Related

\* A signal to the group of a run keeps the relations.
LEMMA KillKeeps ==
    ASSUME IInv, NEW r \in Run, tree' = KillGroup(r), UNCHANGED <<main, active, coord, acked>>
    PROVE  Related' /\ tree' \in [Run -> Processes]
<1>1. Changed(r, Killed(tree[r].guardian, {"ready"}), Killed(tree[r].child, ChildInGroup),
                 Killed(tree[r].job, JobInGroup))
  BY KillChanges DEF IInv, TypeOK
<1>2. Related'
  BY <1>1, ProcessesKeep
     DEF Killed, ChildInGroup, JobInGroup, PreExec, IInv, Launched
<1>3. QED
  BY <1>1, <1>2 DEF Changed

\* So does SIGTERM.
LEMMA TermKeeps ==
    ASSUME IInv, NEW r \in Run, tree' \in TermGroup(r), UNCHANGED <<main, active, coord, acked>>
    PROVE  Related' /\ tree' \in [Run -> Processes]
<1>1. PICK c \in {tree[r].child, Killed(tree[r].child, ChildInGroup)},
           j \in {tree[r].job, Killed(tree[r].job, JobInGroup)} :
              Changed(r, tree[r].guardian, c, j)
  BY TermChanges DEF IInv, TypeOK
<1>2. Related'
  BY <1>1, ProcessesKeep
     DEF Killed, ChildInGroup, JobInGroup, PreExec, IInv, Launched
<1>3. QED
  BY <1>1, <1>2 DEF Changed

\* TypeOK after a step that changes only the processes.
LEMMA TreeTyped ==
    ASSUME TypeOK, tree' \in [Run -> Processes],
           UNCHANGED <<main, alive, active, coord, acked, clock, termed, drained, handler>>
    PROVE  TypeOK'
  BY DEF TypeOK

\* The guardian.
LEMMA GuardianStep ==
    ASSUME IInv, NEW r \in Run, Guardian(r)
    PROVE  IInv'
<1>1. CASE GuardianStart(r)
  <2>1. PICK state \in {"ready", "dead"} : Becomes(r, "guardian", state)
    BY <1>1 DEF GuardianStart
  <2>2. Changed(r, state, tree[r].child, tree[r].job)
    BY <2>1, GuardianChanges DEF IInv, TypeOK, GuardianStates
  <2>3. Related'
    BY <2>1, <2>2, ProcessesKeep DEF Becomes, IInv, Launched, PreExec
  <2>4. TypeOK'
    BY <2>1, <2>2, TreeTyped DEF Becomes, Changed, IInv
  <2>5. QED
    BY <2>3, <2>4 DEF IInv, Related
<1>2. CASE GuardianEof(r)
  <2>1. Related' /\ tree' \in [Run -> Processes]
    BY <1>2, KillKeeps DEF GuardianEof
  <2>2. TypeOK'
    BY <1>2, <2>1, TreeTyped DEF GuardianEof, IInv
  <2>3. QED
    BY <2>1, <2>2 DEF IInv, Related
<1>3. QED
  BY <1>1, <1>2 DEF Guardian

\* A child that takes a new state.
LEMMA ChildStep ==
    ASSUME IInv, NEW r \in Run, NEW state \in ChildStates \ {"none"},
           Becomes(r, "child", state), tree[r].child # "none",
           state \in PreExec => tree[r].child \in PreExec,
           state = "running" => tree[r].child = "reported" /\ acked,
           state = "failed" => tree[r].child \in PreExec
    PROVE  IInv'
<1>1. Changed(r, tree[r].guardian, state, tree[r].job)
  BY ChildChanges DEF IInv, TypeOK
<1>2. Related'
  BY <1>1, ProcessesKeep DEF Becomes, IInv, Launched
<1>3. TypeOK'
  BY <1>1, TreeTyped DEF Becomes, Changed, IInv
<1>4. QED
  BY <1>2, <1>3 DEF IInv, Related

\* The child on its way to exec.
LEMMA LaunchStep ==
    ASSUME IInv, NEW r \in Run, Launch(r)
    PROVE  IInv'
<1> USE DEF PreExec, ChildStates
<1>1. CASE ChildUnown(r)
  BY <1>1, ChildStep DEF ChildUnown
<1>2. CASE ChildJoin(r)
  BY <1>2, ChildStep DEF ChildJoin
<1>3. CASE ChildReport(r)
  BY <1>3, ChildStep DEF ChildReport
<1>4. CASE ChildAborts(r)
  BY <1>4, ChildStep DEF ChildAborts
<1>5. CASE ChildExec(r)
  BY <1>5, ChildStep DEF ChildExec
<1>6. QED
  BY <1>1, <1>2, <1>3, <1>4, <1>5 DEF Launch

\* A job that takes a new state: it is that of a command.
LEMMA JobStep ==
    ASSUME IInv, NEW r \in Run, NEW state \in JobStates \ {"none"}, Becomes(r, "job", state),
           tree[r].child = "running" \/ tree[r].job # "none",
           state \in JobInGroup => tree[r].child = "running" \/ tree[r].job \in JobInGroup
    PROVE  IInv'
<1>1. Changed(r, tree[r].guardian, tree[r].child, state)
  BY JobChanges DEF IInv, TypeOK
<1>2. tree[r].child \notin PreExec \cup {"none", "failed"}
  BY DEF IInv, Launched, PreExec
<1>3. Related'
  BY <1>1, <1>2, ProcessesKeep DEF Becomes
<1>4. TypeOK'
  BY <1>1, TreeTyped DEF Becomes, Changed, IInv
<1>5. QED
  BY <1>3, <1>4 DEF IInv, Related

\* The inner scope is not looked at.
LEMMA InnerStep ==
    ASSUME IInv, NEW r \in Run, NEW state \in {"live", "dead"}, Becomes(r, "inner", state)
    PROVE  IInv'
<1>1. Changed(r, tree[r].guardian, tree[r].child, tree[r].job)
  BY InnerChanges DEF IInv, TypeOK
<1>2. Related'
  BY <1>1, ProcessesKeep DEF Becomes, IInv, Launched
<1>3. TypeOK'
  BY <1>1, TreeTyped DEF Becomes, Changed, IInv
<1>4. QED
  BY <1>2, <1>3 DEF IInv, Related

\* The command and its job.
LEMMA CommandStep ==
    ASSUME IInv, NEW r \in Run, ChildRuns(r) \/ JobRuns(r) \/ InnerEof(r)
    PROVE  IInv'
<1>1. CASE ChildRuns(r)
  <2>1. CASE tree[r].child \in {"running", "escaped"} /\ Becomes(r, "child", "dead")
    BY <2>1, ChildStep DEF PreExec, ChildStates
  <2>2. CASE tree[r].child = "running" /\ Becomes(r, "child", "escaped")
    BY <2>2, ChildStep DEF PreExec, ChildStates
  <2>3. CASE /\ tree[r].child = "running" /\ tree[r].job = "none"
             /\ \E state \in JobInGroup : Becomes(r, "job", state)
    BY <2>3, JobStep DEF JobInGroup, JobStates
  <2>4. QED
    BY <1>1, <2>1, <2>2, <2>3 DEF ChildRuns
<1>2. CASE JobRuns(r)
  <2>1. CASE tree[r].job \in JobInGroup \cup {"escaped"} /\ Becomes(r, "job", "dead")
    BY <2>1, JobStep DEF JobInGroup, JobStates
  <2>2. CASE tree[r].job = "loud" /\ Becomes(r, "job", "escaped")
    BY <2>2, JobStep DEF JobInGroup, JobStates
  <2>3. CASE Becomes(r, "inner", "live")
    BY <2>3, InnerStep
  <2>4. QED
    BY <1>2, <2>1, <2>2, <2>3 DEF JobRuns
<1>3. CASE InnerEof(r)
  BY <1>3, InnerStep DEF InnerEof
<1>4. QED
  BY <1>1, <1>2, <1>3
----------------------------------------------------------------------------
(* Steps of the worker.                                                    *)

\* A step of the main thread within a run that leaves everything else in place.
LEMMA MoveKeeps ==
    ASSUME IInv, NEW pc \in Pcs \ {"idle", "scope"}, Goto(pc), main.pc # "idle",
           pc = "scoped" => main.pc = "scope",
           pc = "spawn" => main.pc = "spawn",
           pc = "finish" => main.pc = "spawn",
           pc = "finish_failed" => main.pc = "spawn",
           pc = "supervise" => main.pc = "finish" /\ active = main.run,
           pc \in {"scoped", "wait", "join", "drop", "finish_failed"} =>
               \A r \in Run : tree[r].child # "running" /\ tree[r].job \notin JobInGroup,
           pc = "drop" => active = 0,
           main.pc = "spawn" => tree[main.run].child \notin PreExec,
           UNCHANGED <<active, coord, acked, tree>>
    PROVE  Related' /\ main' \in MainThread
<1>1. main' \in MainThread /\ main'.pc = pc /\ main'.run = main.run
  BY GotoMoves DEF IInv, TypeOK
<1>2. Scoped' /\ Cancellable'
  BY <1>1 DEF IInv, Scoped, Cancellable
<1>3. Published'
  BY <1>1 DEF IInv, Published, Pcs, Launching
<1>4. Launched'
  BY <1>1 DEF IInv, Launched, Scoped
<1>5. Handed'
  BY <1>1 DEF IInv, Handed
<1>6. Supervised'
  BY <1>1 DEF IInv, Supervised, Pcs, Launching
<1>7. QED
  BY <1>1, <1>2, <1>3, <1>4, <1>5, <1>6 DEF Related
\* A scope is opened: no earlier run has anything left in its group.
LEMMA NewScopeStep == IInv /\ NewScope => IInv'
<1> SUFFICES ASSUME IInv, NewScope PROVE IInv'
  OBVIOUS
<1>1. main' \in MainThread /\ main'.pc = "scope" /\ main'.run = main.run + 1 /\ main'.run \in Run
  BY RunAssumption DEF IInv, TypeOK, NewScope, At, MainThread, Launching, Run
<1>2. Changed(main'.run, "new", tree[main'.run].child, tree[main'.run].job)
  BY <1>1, GuardianChanges DEF IInv, TypeOK, NewScope, GuardianStates
<1>3. TypeOK'
  BY <1>1, <1>2 DEF IInv, TypeOK, NewScope, Changed
<1>4. active' = 0 /\ main.pc = "idle"
  BY DEF IInv, Published, NewScope, At
<1>5. Scoped' /\ Published' /\ Handed'
  BY <1>1, <1>2, <1>4 DEF Scoped, Published, Handed, Changed, NewScope
<1>6. Launched'
  BY <1>1, <1>2, <1>4 DEF IInv, TypeOK, MainThread, Launched, Changed, Run, PreExec
<1>7. Supervised' /\ Cancellable'
  BY <1>1, <1>2, <1>4 DEF IInv, Supervised, Cancellable, Changed
<1>8. QED
  BY <1>3, <1>5, <1>6, <1>7 DEF IInv

\* Its guardian reported, or preparations failed.
LEMMA ScopeStep == IInv /\ (ScopeReady \/ PrepareFails) => IInv'
<1> SUFFICES ASSUME IInv, ScopeReady \/ PrepareFails PROVE IInv'
  OBVIOUS
<1>1. PICK pc \in {"scoped", "drop"} :
         Goto(pc) /\ main.pc \in {"scope", "scoped"} /\ (pc = "scoped" => main.pc = "scope")
  BY DEF ScopeReady, PrepareFails, At
<1>2. active = 0
  BY <1>1 DEF IInv, Published
<1>3. \A r \in Run : tree[r].child # "running" /\ tree[r].job \notin JobInGroup
  BY <1>1 DEF IInv, Supervised
<1>4. Related' /\ main' \in MainThread
  BY <1>1, <1>2, <1>3, MoveKeeps DEF ScopeReady, PrepareFails, Pcs, Launching
<1>5. TypeOK'
  BY <1>4 DEF IInv, TypeOK, ScopeReady, PrepareFails
<1>6. QED
  BY <1>4, <1>5 DEF IInv, Related

\* The child is forked; the coordinator has acknowledged nothing yet.
LEMMA SpawnStep == IInv /\ Spawn => IInv'
<1> SUFFICES ASSUME IInv, Spawn PROVE IInv'
  OBVIOUS
<1> DEFINE m == main.run
<1>1. main' \in MainThread /\ main'.pc = "spawn" /\ main'.run = m /\ m \in Run /\ main.pc = "scoped"
  BY GotoMoves DEF IInv, TypeOK, Spawn, At, Pcs, Launching, Scoped
<1>2. Changed(m, tree[m].guardian, "forked", tree[m].job)
  BY <1>1, ChildChanges DEF IInv, TypeOK, Spawn, ChildStates
<1>3. TypeOK'
  BY <1>1, <1>2 DEF IInv, TypeOK, Spawn, Changed
<1>4. active' = 0 /\ ~acked' /\ coord' = "read"
  BY <1>1 DEF IInv, Published, Handed, Spawn
<1>5. Scoped' /\ Published' /\ Handed'
  BY <1>1, <1>2, <1>4 DEF IInv, Scoped, Published, Handed, Changed
<1>6. Launched'
  BY <1>1, <1>2 DEF IInv, Launched, Changed, PreExec, Run, TypeOK, MainThread
<1>7. Supervised' /\ Cancellable'
  BY <1>1, <1>2, <1>4 DEF IInv, Supervised, Cancellable, Changed
<1>8. QED
  BY <1>3, <1>5, <1>6, <1>7 DEF IInv

\* spawn returned an error: the child never ran and is reaped.
LEMMA SpawnFailedStep ==
    ASSUME IInv, main.pc = "spawn", Child = "failed", Goto("finish_failed"),
           tree' = [tree EXCEPT ![main.run].child = "reaped"],
           UNCHANGED <<alive, active, coord, acked, clock, termed, drained, handler>>
    PROVE  IInv'
<1> DEFINE m == main.run
<1>1. main' \in MainThread /\ main'.pc = "finish_failed" /\ main'.run = m /\ m \in Run
  BY GotoMoves DEF IInv, TypeOK, Pcs, Launching, Scoped
<1>2. Changed(m, tree[m].guardian, "reaped", tree[m].job)
  BY <1>1, ChildChanges DEF IInv, TypeOK, ChildStates
<1>3. tree[m].job = "none" /\ tree[m].child = "failed"
  BY <1>1 DEF IInv, Launched, Child
<1>4. TypeOK'
  BY <1>1, <1>2 DEF IInv, TypeOK, Changed
<1>5. Scoped' /\ Published' /\ Handed'
  BY <1>1, <1>2 DEF IInv, Scoped, Published, Handed, Changed
<1>6. Launched'
  BY <1>1, <1>2, <1>3 DEF IInv, Launched, Changed, PreExec
<1>7. Supervised' /\ Cancellable'
  BY <1>1, <1>2, <1>3 DEF IInv, Supervised, Cancellable, Changed, JobInGroup
<1>8. QED
  BY <1>4, <1>5, <1>6, <1>7 DEF IInv

\* spawn returned.
LEMMA SpawnedStep == IInv /\ Spawned => IInv'
<1> SUFFICES ASSUME IInv, Spawned PROVE IInv'
  OBVIOUS
<1>1. CASE Child = "failed"
  BY <1>1, SpawnFailedStep DEF Spawned, At
<1>2. CASE Child \in {"running", "escaped", "dead"}
  <2>1. Goto("finish") /\ main.pc = "spawn" /\ UNCHANGED tree
    BY <1>2 DEF Spawned, At
  <2>2. Related' /\ main' \in MainThread
    BY <1>2, <2>1, MoveKeeps DEF Spawned, Pcs, Launching, Child, PreExec
  <2>3. TypeOK'
    BY <2>1, <2>2 DEF IInv, TypeOK, Spawned
  <2>4. QED
    BY <2>2, <2>3 DEF IInv, Related
<1>3. QED
  BY <1>1, <1>2 DEF Spawned

\* The slot is cleared, or set to the group, when the coordinator has ended.
LEMMA FinishStep == IInv /\ (FinishFailed \/ Register) => IInv'
<1> SUFFICES ASSUME IInv, FinishFailed \/ Register PROVE IInv'
  OBVIOUS
<1>1. CASE FinishFailed
  <2>1. main' \in MainThread /\ main'.pc = "drop" /\ main'.run = main.run /\ main.pc = "finish_failed"
    BY <1>1, GotoMoves DEF IInv, TypeOK, FinishFailed, At, Pcs, Launching
  <2>2. TypeOK'
    BY <1>1, <2>1, RunAssumption DEF IInv, TypeOK, FinishFailed
  <2>3. QED
    BY <1>1, <2>1, <2>2 DEF IInv, FinishFailed, Scoped, Published, Launched, Handed, Supervised, Cancellable
<1>2. CASE Register
  <2>1. main' \in MainThread /\ main'.pc = "supervise" /\ main'.run = main.run /\ main.pc = "finish"
    BY <1>2, GotoMoves DEF IInv, TypeOK, Register, At, Pcs, Launching
  <2>2. TypeOK'
    BY <1>2, <2>1 DEF IInv, TypeOK, Register, MainThread
  <2>3. QED
    BY <1>2, <2>1, <2>2 DEF IInv, Register, Scoped, Published, Launched, Handed, Supervised, Cancellable
<1>3. QED
  BY <1>1, <1>2

\* supervise ends by killing the group: nothing in it is left to be cancelled.
LEMMA KilledStep ==
    ASSUME IInv, main.pc = "supervise", tree' = KillGroup(main.run), Goto("wait"),
           UNCHANGED <<alive, active, coord, acked, clock, termed, drained, handler>>
    PROVE  IInv'
<1> DEFINE m == main.run
<1>1. main' \in MainThread /\ main'.pc = "wait" /\ main'.run = m /\ m \in Run
  BY GotoMoves DEF IInv, TypeOK, Pcs, Scoped
<1>2. Changed(m, Killed(tree[m].guardian, {"ready"}), Killed(tree[m].child, ChildInGroup),
                 Killed(tree[m].job, JobInGroup))
  BY <1>1, KillChanges DEF IInv, TypeOK
<1>3. TypeOK'
  BY <1>1, <1>2 DEF IInv, TypeOK, Changed
<1>4. Scoped' /\ Published' /\ Handed'
  BY <1>1, <1>2 DEF IInv, Scoped, Published, Handed, Changed, Killed
<1>5. Launched'
  BY <1>1, <1>2 DEF IInv, Launched, Changed, Killed, PreExec, ChildInGroup, JobInGroup
<1>6. Supervised' /\ Cancellable'
  BY <1>1, <1>2 DEF IInv, Supervised, Cancellable, Changed, Killed, ChildInGroup, JobInGroup
<1>7. QED
  BY <1>3, <1>4, <1>5, <1>6 DEF IInv

\* The loop of supervise.
LEMMA SuperviseStep ==
    IInv /\ (SuperviseDone \/ SuperviseTerm \/ SuperviseEscalate \/ SuperviseError) => IInv'
<1> SUFFICES ASSUME IInv,
                    SuperviseDone \/ SuperviseTerm \/ SuperviseEscalate \/ SuperviseError
             PROVE  IInv'
  OBVIOUS
<1>1. CASE SuperviseDone \/ SuperviseEscalate \/ SuperviseError
  BY <1>1, KilledStep DEF SuperviseDone, SuperviseEscalate, SuperviseError, At
<1>2. CASE SuperviseTerm
  <2>1. main.run \in Run
    BY <1>2 DEF IInv, Scoped, SuperviseTerm, At
  <2>2. Related' /\ tree' \in [Run -> Processes]
    BY <1>2, <2>1, TermKeeps DEF SuperviseTerm
  <2>3. TypeOK'
    BY <1>2, <2>2 DEF IInv, TypeOK, SuperviseTerm
  <2>4. QED
    BY <2>2, <2>3 DEF IInv, Related
<1>3. QED
  BY <1>1, <1>2

\* The child is reaped, the slot cleared and the scope dropped.
LEMMA EndStep == IInv /\ (Wait \/ Unregister \/ DropScope) => IInv'
<1> SUFFICES ASSUME IInv, Wait \/ Unregister \/ DropScope PROVE IInv'
  OBVIOUS
<1> DEFINE m == main.run
<1>1. CASE Wait
  <2>1. main' \in MainThread /\ main'.pc = "join" /\ main'.run = m /\ m \in Run /\ main.pc = "wait"
    BY <1>1, GotoMoves DEF IInv, TypeOK, Wait, At, Pcs, Scoped
  <2>2. Changed(m, tree[m].guardian, "reaped", tree[m].job)
    BY <1>1, <2>1, ChildChanges DEF IInv, TypeOK, Wait, ChildStates
  <2>3. TypeOK'
    BY <1>1, <2>1, <2>2 DEF IInv, TypeOK, Wait, Changed
  <2>4. Scoped' /\ Published' /\ Handed'
    BY <1>1, <2>1, <2>2 DEF IInv, Scoped, Published, Handed, Changed, Wait
  <2>5. Launched'
    BY <2>1, <2>2 DEF IInv, Launched, Changed, PreExec, Run
  <2>6. Supervised' /\ Cancellable'
    BY <1>1, <2>1, <2>2 DEF IInv, Supervised, Cancellable, Changed, Wait
  <2>7. QED
    BY <2>3, <2>4, <2>5, <2>6 DEF IInv
<1>2. CASE Unregister
  <2>1. main' \in MainThread /\ main'.pc = "drop" /\ main'.run = m /\ main.pc = "join"
    BY <1>2, GotoMoves DEF IInv, TypeOK, Unregister, At, Pcs
  <2>2. active' = 0
    BY <1>2, <2>1 DEF IInv, Published, Unregister
  <2>3. TypeOK'
    BY <1>2, <2>1, <2>2, RunAssumption DEF IInv, TypeOK, Unregister
  <2>4. QED
    BY <1>2, <2>1, <2>2, <2>3 DEF IInv, Unregister, Scoped, Published, Launched, Handed, Supervised, Cancellable
<1>3. CASE DropScope
  <2>1. main' \in MainThread /\ main'.pc = "idle" /\ main'.run = m /\ m \in Run /\ main.pc = "drop"
    BY <1>3, GotoMoves DEF IInv, TypeOK, DropScope, At, Pcs, Scoped
  <2>2. Changed(m, "reaped", Killed(tree[m].child, ChildInGroup), Killed(tree[m].job, JobInGroup))
    BY <1>3, <2>1, DropChanges DEF IInv, TypeOK, DropScope
  <2>3. TypeOK'
    BY <1>3, <2>1, <2>2 DEF IInv, TypeOK, DropScope, Changed
  <2>4. active' = 0
    BY <1>3, <2>1 DEF IInv, Published, DropScope
  <2>5. Scoped' /\ Published' /\ Handed'
    BY <2>1, <2>4 DEF Scoped, Published, Handed
  <2>6. Launched'
    BY <2>1, <2>2 DEF IInv, Launched, Changed, Killed, PreExec, ChildInGroup, JobInGroup
  <2>7. Supervised' /\ Cancellable'
    BY <2>1, <2>2, <2>4 DEF IInv, Supervised, Cancellable, Changed, Killed, ChildInGroup, JobInGroup
  <2>8. QED
    BY <2>3, <2>5, <2>6, <2>7 DEF IInv
<1>4. QED
  BY <1>1, <1>2, <1>3

\* The coordinator publishes the group of a child that has reported, while spawn waits.
LEMMA CoordinatorStep == IInv /\ Coordinator => IInv'
<1> SUFFICES ASSUME IInv, Coordinator PROVE IInv'
  OBVIOUS
<1>1. CASE CoordPublish
  <2>1. main.run \in Run
    BY <1>1 DEF IInv, Handed, CoordPublish
  <2>2. main.pc = "spawn"
    BY <1>1, <2>1 DEF IInv, Launched, CoordPublish, Child, PreExec
  <2>3. TypeOK'
    BY <1>1 DEF IInv, TypeOK, MainThread, CoordPublish
  <2>4. active = 0 \/ active = main.run
    BY DEF IInv, Published
  <2>5. QED
    BY <1>1, <2>1, <2>2, <2>3, <2>4
       DEF IInv, CoordPublish, Scoped, Published, Launched, Handed, Supervised, Cancellable
<1>2. CASE CoordAck
  <2>1. TypeOK'
    BY <1>2 DEF IInv, TypeOK, CoordAck
  <2>2. QED
    BY <1>2, <2>1 DEF IInv, CoordAck, Scoped, Published, Launched, Handed, Supervised, Cancellable
<1>3. CASE CoordEof
  <2>1. TypeOK'
    BY <1>3 DEF IInv, TypeOK, CoordEof
  <2>2. QED
    BY <1>3, <2>1 DEF IInv, CoordEof, Scoped, Published, Launched, Handed, Supervised, Cancellable
<1>4. QED
  BY <1>1, <1>2, <1>3 DEF Coordinator

\* Readers, deadlines, the handler and the death of the worker.
LEMMA OtherStep ==
    IInv /\ (Drain \/ Tick \/ HandlerLoad \/ Handler \/ WorkerKilled) => IInv'
<1> SUFFICES ASSUME IInv, Drain \/ Tick \/ HandlerLoad \/ Handler \/ WorkerKilled PROVE IInv'
  OBVIOUS
<1>1. CASE HandlerKill /\ handler.group # 0
  <2>1. handler.group \in Run
    BY <1>1, RunAssumption DEF IInv, TypeOK, Run
  <2>2. Related' /\ tree' \in [Run -> Processes]
    BY <1>1, <2>1, KillKeeps DEF HandlerKill
  <2>3. TypeOK'
    BY <1>1, <2>2 DEF IInv, TypeOK, HandlerKill
  <2>4. QED
    BY <2>2, <2>3 DEF IInv, Related
<1>2. CASE ~HandlerKill \/ handler.group = 0
  <2>1. UNCHANGED <<main, active, coord, acked, tree>>
    BY <1>2 DEF Drain, Tick, HandlerLoad, Handler, HandlerKill, HandlerExit, WorkerKilled
  <2>2. TypeOK'
    <3>1. CASE Drain \/ Tick \/ WorkerKilled \/ HandlerExit
      BY <2>1, <3>1 DEF IInv, TypeOK, Drain, Tick, WorkerKilled, HandlerExit
    <3>2. CASE HandlerLoad
      BY <2>1, <3>2 DEF IInv, TypeOK, HandlerLoad
    <3>3. CASE HandlerKill
      BY <2>1, <3>3 DEF IInv, TypeOK, HandlerKill
    <3>4. QED
      BY <3>1, <3>2, <3>3 DEF Handler
  <2>3. QED
    BY <2>1, <2>2 DEF IInv, Scoped, Published, Launched, Handed, Supervised, Cancellable
<1>3. QED
  BY <1>1, <1>2
----------------------------------------------------------------------------
(* The theorems.                                                           *)

\* The invariant holds initially ...
LEMMA InductiveInit == Init => IInv
<1> SUFFICES ASSUME Init PROVE IInv
  OBVIOUS
<1>1. TypeOK
  <2>1. main \in MainThread
    BY RunAssumption DEF Init, MainThread
  <2>2. tree \in [Run -> Processes]
    BY DEF Init, Processes
  <2>3. handler \in [pc : {"none", "loaded", "killed"}, group : 0..MaxRun] /\ active \in 0..MaxRun
    BY RunAssumption DEF Init
  <2>4. QED
    BY <2>1, <2>2, <2>3 DEF Init, TypeOK
<1>2. QED
  BY <1>1, RunAssumption
     DEF Init, IInv, Scoped, Published, Launched, Handed, Supervised, Cancellable, Run, PreExec,
         JobInGroup

\* ... is kept by every step ...
LEMMA InductiveStep == IInv /\ [Next]_vars => IInv'
<1> SUFFICES ASSUME IInv, [Next]_vars PROVE IInv'
  OBVIOUS
<1>1. CASE Main
  BY <1>1, ScopeStep, SpawnStep, SpawnedStep, FinishStep, SuperviseStep, EndStep DEF Main
<1>2. CASE NewScope \/ PrepareFails \/ SuperviseError
  BY <1>2, NewScopeStep, ScopeStep, SuperviseStep
<1>3. CASE Coordinator \/ Drain \/ Tick \/ HandlerLoad \/ Handler \/ WorkerKilled
  BY <1>3, CoordinatorStep, OtherStep
<1>4. ASSUME NEW r \in Run,
             Guardian(r) \/ Launch(r) \/ ChildRuns(r) \/ JobRuns(r) \/ InnerEof(r)
      PROVE  IInv'
  BY <1>4, GuardianStep, LaunchStep, CommandStep
<1>5. CASE UNCHANGED vars
  BY <1>5 DEF vars, IInv, TypeOK, Scoped, Published, Launched, Handed, Supervised, Cancellable
<1>6. QED
  BY <1>1, <1>2, <1>3, <1>4, <1>5 DEF Next

\* ... and so holds throughout.
LEMMA Inductive == Spec => []IInv
  BY InductiveInit, InductiveStep, PTL DEF Spec

\* Threads, processes and deadlines keep their types, for any number of commands.
THEOREM TypeCorrect == Spec => []TypeOK
<1>1. IInv => TypeOK
  BY DEF IInv
<1>2. QED
  BY <1>1, Inductive, PTL

\* A cancellation never reads the id of a group whose leader was reaped from ACTIVE_GROUP.
THEOREM GroupIsCurrent == Spec => []NoStaleGroup
<1>1. IInv => NoStaleGroup
  BY DEF IInv, NoStaleGroup, Published, Scoped
<1>2. QED
  BY <1>1, Inductive, PTL

\* A command that runs, and a job it left in its group, can be cancelled at every moment.
THEOREM CommandIsCancellable == Spec => []Cancellable
<1>1. IInv => Cancellable
  BY DEF IInv
<1>2. QED
  BY <1>1, Inductive, PTL
=============================================================================
