--------------------------- MODULE ProcessRunner ---------------------------
(***************************************************************************)
(* The subprocess runner (src/src/process.rs, process/ownership.rs,        *)
(* process/process_launch.rs): the launch of a command in a process group  *)
(* of its own, its supervision to a deadline, its cancellation by a signal *)
(* to the worker, and what is left of it when the worker is killed.        *)
(*                                                                         *)
(* A worker runs its commands one after another (ACTIVE_RUN_LOCK), so the  *)
(* number of a run also names its process group: the pid of the guardian   *)
(* that leads it.  Concurrent with the worker's main thread are the        *)
(* launch coordinator, the reader threads, a signal handler on any thread, *)
(* the guardian, the forked child on its way to exec, the command with a   *)
(* background job, and the scope of a runtime nested in that job.  The     *)
(* command is free to exit, fork, leave its group or go on for ever.       *)
(***************************************************************************)
EXTENDS Naturals

CONSTANT MaxRun     \* bound on the commands of the worker

ASSUME RunAssumption == MaxRun \in Nat

VARIABLES
    main,       \* the main thread in run_cmd: where it is, and in which run
    alive,      \* the worker process exists
    active,     \* ACTIVE_GROUP; 0 for none
    coord,      \* the launch coordinator of the current run
    acked,      \* its acknowledgement is in the pipe
    clock,      \* the deadline and the escalation deadline of the current run
    termed,     \* supervise has sent SIGTERM
    drained,    \* both reader threads saw the end of their pipe
    tree,       \* the processes of every run
    handler     \* cancellation_handler, and the group it loaded

vars == <<main, alive, active, coord, acked, clock, termed, drained, tree, handler>>

Run == 1..MaxRun

Launching == {"scope", "scoped", "spawn", "finish", "finish_failed"}

\* A child is "failed" when a hook or exec reported an error to spawn, "escaped" when the
\* command left its group.  A background job writes to the pipes of the command ("loud",
\* or "escaped" with them) or is redirected ("quiet").  The inner scope is that of a
\* nested runtime run by the job.
Processes ==
    [guardian : {"none", "new", "ready", "dead", "reaped"},
     child : {"none", "forked", "unowned", "joined", "reported", "running", "escaped",
              "failed", "dead", "reaped"},
     job : {"none", "loud", "quiet", "escaped", "dead"},
     inner : {"none", "live", "dead"}]

MainThread == [pc : Launching \cup {"idle", "supervise", "wait", "join", "drop"},
               run : 0..MaxRun]

TypeOK ==
    /\ main \in MainThread
    /\ alive \in BOOLEAN
    /\ active \in 0..MaxRun
    /\ coord \in {"none", "read", "ack", "done"}
    /\ acked \in BOOLEAN
    /\ clock \in {"none", "before", "late", "final"}
    /\ termed \in BOOLEAN /\ drained \in BOOLEAN
    /\ tree \in [Run -> Processes]
    /\ handler \in [pc : {"none", "loaded", "killed"}, group : 0..MaxRun]

Init ==
    /\ main = [pc |-> "idle", run |-> 0]
    /\ alive = TRUE
    /\ active = 0
    /\ coord = "none" /\ acked = FALSE
    /\ clock = "none" /\ termed = FALSE /\ drained = FALSE
    /\ tree = [r \in Run |-> [guardian |-> "none", child |-> "none", job |-> "none",
                              inner |-> "none"]]
    /\ handler = [pc |-> "none", group |-> 0]

----------------------------------------------------------------------------
(* Process groups.                                                         *)

ChildInGroup == {"joined", "reported", "running"}
JobInGroup == {"loud", "quiet"}

Killed(state, members) == IF state \in members THEN "dead" ELSE state

\* SIGKILL to the group of run r.
KillGroup(r) ==
    [tree EXCEPT ![r].guardian = Killed(@, {"ready"}),
                 ![r].child = Killed(@, ChildInGroup),
                 ![r].job = Killed(@, JobInGroup)]

\* SIGTERM: the guardian ignores it, each of the others dies of it or does not.
TermGroup(r) ==
    {[tree EXCEPT ![r].child = c, ![r].job = j] :
        c \in {tree[r].child, Killed(tree[r].child, ChildInGroup)},
        j \in {tree[r].job, Killed(tree[r].job, JobInGroup)}}

\* The ownership pipe of run r has no writer left: the worker is dead, and the child has
\* closed the copy it was forked with.
OwnerLost(r) == ~alive /\ tree[r].child # "forked"

----------------------------------------------------------------------------
(* run_cmd, the main thread.                                               *)

At(pc) == alive /\ main.pc = pc
Goto(pc) == main' = [main EXCEPT !.pc = pc]
Child == tree[main.run].child

\* The run lock is taken and Scope::new forks the guardian.
NewScope ==
    /\ At("idle") /\ main.run < MaxRun
    /\ main' = [pc |-> "scope", run |-> main.run + 1]
    /\ tree' = [tree EXCEPT ![main'.run].guardian = "new"]
    /\ coord' = "none" /\ acked' = FALSE
    /\ clock' = "none" /\ termed' = FALSE /\ drained' = FALSE
    /\ UNCHANGED <<alive, active, handler>>

\* It waits for the guardian's byte; without one the scope is dropped.
ScopeReady ==
    /\ At("scope") /\ tree[main.run].guardian \in {"ready", "dead"}
    /\ Goto(IF tree[main.run].guardian = "ready" THEN "scoped" ELSE "drop")
    /\ UNCHANGED <<alive, active, coord, acked, clock, termed, drained, tree, handler>>

\* The working directory, the handoff pipes or the deadlines cannot be set up.
PrepareFails ==
    /\ At("scoped")
    /\ Goto("drop")
    /\ UNCHANGED <<alive, active, coord, acked, clock, termed, drained, tree, handler>>

\* The coordinator starts, the deadlines are fixed, and spawn forks the child.
Spawn ==
    /\ At("scoped")
    /\ Goto("spawn")
    /\ coord' = "read"
    /\ clock' \in {"none", "before"}
    /\ tree' = [tree EXCEPT ![main.run].child = "forked"]
    /\ UNCHANGED <<alive, active, acked, termed, drained, handler>>

\* spawn returns: the child reported an error and is reaped, or it runs, or it was killed
\* on its way, which spawn cannot tell from a successful exec.
Spawned ==
    /\ At("spawn")
    /\ \/ /\ Child = "failed"
          /\ tree' = [tree EXCEPT ![main.run].child = "reaped"]
          /\ Goto("finish_failed")
       \/ /\ Child \in {"running", "escaped", "dead"}
          /\ Goto("finish")
          /\ UNCHANGED tree
    /\ UNCHANGED <<alive, active, coord, acked, clock, termed, drained, handler>>

\* Mutant of FinishFailed: the slot is left as the coordinator set it.
FinishFailedKeeps ==
    /\ At("finish_failed") /\ coord = "done"
    /\ Goto("drop")
    /\ UNCHANGED <<alive, active, coord, acked, clock, termed, drained, tree, handler>>

\* LaunchHandoff::finish joins the coordinator; after a failed spawn the slot it may have
\* published is cleared.
FinishFailed ==
    /\ At("finish_failed") /\ coord = "done"
    /\ active' = 0
    /\ Goto("drop")
    /\ UNCHANGED <<alive, coord, acked, clock, termed, drained, tree, handler>>

\* Mutant of Register: the pid of the child, which leads no group, is registered.
RegisterChild ==
    /\ At("finish") /\ coord = "done"
    /\ active' = main.run + MaxRun
    /\ Goto("supervise")
    /\ UNCHANGED <<alive, coord, acked, clock, termed, drained, tree, handler>>

\* After a successful one ActiveGroupGuard registers the group.
Register ==
    /\ At("finish") /\ coord = "done"
    /\ active' = main.run
    /\ Goto("supervise")
    /\ UNCHANGED <<alive, coord, acked, clock, termed, drained, tree, handler>>

----------------------------------------------------------------------------
(* supervise, one action per way an iteration of its loop ends.            *)

\* The child has exited, unreaped, the pipes are closed, and the deadline has not passed:
\* what the command left in its group is killed.
SuperviseDone ==
    /\ At("supervise") /\ Child = "dead" /\ drained /\ clock \in {"none", "before"}
    /\ tree' = KillGroup(main.run)
    /\ Goto("wait")
    /\ UNCHANGED <<alive, active, coord, acked, clock, termed, drained, handler>>

\* The deadline has passed.
SuperviseTerm ==
    /\ At("supervise") /\ clock = "late" /\ ~termed
    /\ termed' = TRUE
    /\ tree' \in TermGroup(main.run)
    /\ UNCHANGED <<main, alive, active, coord, acked, clock, drained, handler>>

\* Mutant of SuperviseEscalate: a timed-out run, too, waits for its pipes to close.
SuperviseEscalateDrains ==
    /\ At("supervise") /\ clock = "final" /\ drained
    /\ tree' = KillGroup(main.run)
    /\ Goto("wait")
    /\ UNCHANGED <<alive, active, coord, acked, clock, termed, drained, handler>>

\* The escalation deadline has passed, whatever the state of the child and the pipes.
SuperviseEscalate ==
    /\ At("supervise") /\ clock = "final"
    /\ tree' = KillGroup(main.run)
    /\ Goto("wait")
    /\ UNCHANGED <<alive, active, coord, acked, clock, termed, drained, handler>>

\* waitid failed.
SuperviseError ==
    /\ At("supervise")
    /\ tree' = KillGroup(main.run)
    /\ Goto("wait")
    /\ UNCHANGED <<alive, active, coord, acked, clock, termed, drained, handler>>

\* child.wait reaps the child, and blocks while it lives.
Wait ==
    /\ At("wait") /\ Child = "dead"
    /\ tree' = [tree EXCEPT ![main.run].child = "reaped"]
    /\ Goto("join")
    /\ UNCHANGED <<alive, active, coord, acked, clock, termed, drained, handler>>

\* The readers are aborted and joined; ActiveGroupGuard is dropped.
Unregister ==
    /\ At("join")
    /\ active' = IF active = main.run THEN 0 ELSE active
    /\ Goto("drop")
    /\ UNCHANGED <<alive, coord, acked, clock, termed, drained, tree, handler>>

\* Scope is dropped: group and guardian are killed and the guardian reaped.
DropScope ==
    /\ At("drop")
    /\ tree' = [KillGroup(main.run) EXCEPT ![main.run].guardian = "reaped"]
    /\ Goto("idle")
    /\ UNCHANGED <<alive, active, coord, acked, clock, termed, drained, handler>>

----------------------------------------------------------------------------
(* The threads beside the main thread.                                     *)

\* Mutant of CoordPublish: the acknowledgement is written before the group is published.
CoordPublishLate ==
    /\ alive /\ coord = "read" /\ Child = "reported"
    /\ coord' = "ack" /\ acked' = TRUE
    /\ UNCHANGED <<main, alive, active, clock, termed, drained, tree, handler>>

\* launch_coordinator reads the group of the child and publishes it ...
CoordPublish ==
    /\ alive /\ coord = "read" /\ Child = "reported"
    /\ active' = main.run
    /\ coord' = "ack"
    /\ UNCHANGED <<main, alive, acked, clock, termed, drained, tree, handler>>

\* ... then acknowledges it.
CoordAck ==
    /\ alive /\ coord = "ack"
    /\ acked' = TRUE /\ coord' = "done"
    /\ UNCHANGED <<main, alive, active, clock, termed, drained, tree, handler>>

\* Mutant of CoordEof: finish keeps its own copy of the pipe's writer open.
CoordEofNever == FALSE /\ UNCHANGED vars

\* No writer of the pipe is left: the child is gone, and finish closed its copy.
CoordEof ==
    /\ alive /\ coord = "read"
    /\ main.pc \in {"finish", "finish_failed"} /\ Child \in {"failed", "dead", "reaped"}
    /\ coord' = "done"
    /\ UNCHANGED <<main, alive, active, acked, clock, termed, drained, tree, handler>>

\* drain_thread: both pipes end when the last process that writes to them is gone.
Drain ==
    /\ At("supervise") /\ ~drained
    /\ Child = "dead" /\ tree[main.run].job \in {"none", "quiet", "dead"}
    /\ drained' = TRUE
    /\ UNCHANGED <<main, alive, active, coord, acked, clock, termed, tree, handler>>

\* The deadlines of command_deadlines pass.
Tick ==
    /\ alive /\ clock \in {"before", "late"}
    /\ main.pc \in {"spawn", "finish", "finish_failed", "supervise"}
    /\ clock' = IF clock = "before" THEN "late" ELSE "final"
    /\ UNCHANGED <<main, alive, active, coord, acked, termed, drained, tree, handler>>

\* cancellation_handler, on some thread, while the others go on: the group is loaded, ...
HandlerLoad ==
    /\ alive /\ handler.pc = "none"
    /\ handler' = [pc |-> "loaded", group |-> active]
    /\ UNCHANGED <<main, alive, active, coord, acked, clock, termed, drained, tree>>

\* ... killed (a group of a run that has ended meanwhile has no process of the runner), ...
HandlerKill ==
    /\ alive /\ handler.pc = "loaded"
    /\ handler' = [handler EXCEPT !.pc = "killed"]
    /\ tree' = IF handler.group = 0 THEN tree ELSE KillGroup(handler.group)
    /\ UNCHANGED <<main, alive, active, coord, acked, clock, termed, drained>>

\* ... and the worker exits.
HandlerExit ==
    /\ alive /\ handler.pc = "killed"
    /\ alive' = FALSE
    /\ UNCHANGED <<main, active, coord, acked, clock, termed, drained, tree, handler>>

\* The worker is killed, at any point.
WorkerKilled ==
    /\ alive
    /\ alive' = FALSE
    /\ UNCHANGED <<main, active, coord, acked, clock, termed, drained, tree, handler>>

----------------------------------------------------------------------------
(* The other processes.                                                    *)

Becomes(r, process, state) ==
    /\ tree' = [tree EXCEPT ![r] = [@ EXCEPT ![process] = state]]
    /\ UNCHANGED <<main, alive, active, coord, acked, clock, termed, drained, handler>>

\* The guardian leads its group and reports; with the worker gone, or on an error, it exits.
GuardianStart(r) ==
    /\ tree[r].guardian = "new"
    /\ \E state \in (IF alive THEN {"ready"} ELSE {}) \cup {"dead"} :
          Becomes(r, "guardian", state)

\* Mutant of GuardianEof: the guardian dies of the SIGTERM that is meant for the command.
GuardianEofTermed(r) ==
    /\ tree[r].guardian = "ready" /\ OwnerLost(r) /\ ~(main.run = r /\ termed)
    /\ tree' = KillGroup(r)
    /\ UNCHANGED <<main, alive, active, coord, acked, clock, termed, drained, handler>>

\* The end of the ownership pipe is the loss of the owner: the guardian kills its group.
GuardianEof(r) ==
    /\ tree[r].guardian = "ready" /\ OwnerLost(r)
    /\ tree' = KillGroup(r)
    /\ UNCHANGED <<main, alive, active, coord, acked, clock, termed, drained, handler>>

\* Scope::configure, in the child: its copy of the ownership pipe is closed, ...
ChildUnown(r) == tree[r].child = "forked" /\ Becomes(r, "child", "unowned")

\* ... and it joins the group; the group is gone when its dead leader has been reaped.
ChildJoin(r) ==
    /\ tree[r].child = "unowned"
    /\ \E state \in {"joined"} \cup (IF ~alive /\ tree[r].guardian = "dead" THEN {"failed"} ELSE {}) :
          Becomes(r, "child", state)

\* It enters its working directory, which may fail, and reports its group
\* (cfg_launch_handoff); without a reader it gives up.
ChildReport(r) ==
    /\ tree[r].child = "joined"
    /\ \E state \in {"failed"} \cup (IF alive THEN {"reported"} ELSE {}) :
          Becomes(r, "child", state)

\* The acknowledgement ends without a byte: the worker is gone.
ChildAborts(r) ==
    /\ tree[r].child = "reported" /\ ~acked /\ ~alive
    /\ Becomes(r, "child", "failed")

\* The byte is there: exec, which may fail.
ChildExec(r) ==
    /\ tree[r].child = "reported" /\ acked
    /\ \E state \in {"running", "failed"} : Becomes(r, "child", state)

\* The command exits, starts a background job, or leaves its group.
ChildRuns(r) ==
    \/ tree[r].child \in {"running", "escaped"} /\ Becomes(r, "child", "dead")
    \/ tree[r].child = "running" /\ Becomes(r, "child", "escaped")
    \/ /\ tree[r].child = "running" /\ tree[r].job = "none"
       /\ \E state \in JobInGroup : Becomes(r, "job", state)

\* The job exits, leaves the group, or is a runtime that opens a scope of its own.
JobRuns(r) ==
    \/ tree[r].job \in JobInGroup \cup {"escaped"} /\ Becomes(r, "job", "dead")
    \/ tree[r].job = "loud" /\ Becomes(r, "job", "escaped")
    \/ /\ tree[r].job \in JobInGroup \cup {"escaped"} /\ tree[r].inner = "none"
       /\ Becomes(r, "inner", "live")

\* The guardian of the inner scope sees the end of its own ownership pipe.
InnerEof(r) ==
    /\ tree[r].inner = "live" /\ tree[r].job = "dead"
    /\ Becomes(r, "inner", "dead")

----------------------------------------------------------------------------
(* The specification.                                                      *)

Main ==
    \/ ScopeReady \/ Spawn \/ Spawned \/ FinishFailed \/ Register
    \/ SuperviseDone \/ SuperviseTerm \/ SuperviseEscalate \/ Wait \/ Unregister \/ DropScope

Coordinator == CoordPublish \/ CoordAck \/ CoordEof

Handler == HandlerKill \/ HandlerExit

Guardian(r) == GuardianStart(r) \/ GuardianEof(r)

Launch(r) == ChildUnown(r) \/ ChildJoin(r) \/ ChildReport(r) \/ ChildAborts(r) \/ ChildExec(r)

Next ==
    \/ NewScope \/ PrepareFails \/ SuperviseError \/ Main \/ Coordinator \/ Drain \/ Tick
    \/ HandlerLoad \/ Handler \/ WorkerKilled
    \/ \E r \in Run : Guardian(r) \/ Launch(r) \/ ChildRuns(r) \/ JobRuns(r) \/ InnerEof(r)

\* Every thread of the worker is scheduled while it lives, time passes, and the processes
\* that run the runner's own code are scheduled.  Nothing is assumed of the command, of the
\* caller that asks for the next one, or of a call that fails.
Fairness ==
    /\ WF_vars(Main) /\ WF_vars(Coordinator) /\ WF_vars(Drain) /\ WF_vars(Tick)
    /\ WF_vars(Handler)
    /\ \A r \in Run : WF_vars(Guardian(r)) /\ WF_vars(Launch(r)) /\ WF_vars(InnerEof(r))

Spec == Init /\ [][Next]_vars /\ Fairness

----------------------------------------------------------------------------
(* Properties.                                                             *)

\* The group in ACTIVE_GROUP is always that of a scope whose leader is unreaped, so the id
\* a cancellation reads there cannot have been given to another group.
NoStaleGroup == (alive /\ active # 0) => tree[active].guardian # "reaped"

\* No command runs, and no job of a command is left in its group, unless ACTIVE_GROUP names
\* that group: a cancellation that starts now kills it.  When the worker died before it
\* could publish the group, the child never reaches exec.
Cancellable ==
    \A r \in Run :
        (tree[r].child = "running" \/ tree[r].job \in JobInGroup) => active = r

\* When the worker is gone, by a signal or by SIGKILL at any point of a launch, every
\* process of every run soon is: the guardians, children that had not reached exec, the
\* commands, their jobs and the scopes of nested runtimes.  Only what left its group stays.
ScopeDies ==
    ~alive ~> \A r \in Run :
        /\ tree[r].guardian \notin {"new", "ready"}
        /\ tree[r].child \in {"none", "failed", "dead", "reaped", "escaped"}
        /\ tree[r].job \notin JobInGroup
        /\ tree[r].inner = "live" => tree[r].job = "escaped"

\* A run with a deadline ends, whatever the command does about SIGTERM and its pipes,
\* unless the command itself has left its group: run_cmd then waits for it.
RunReturns ==
    \A r \in Run :
        (main = [pc |-> "supervise", run |-> r] /\ clock # "none")
            ~> (main # [pc |-> "supervise", run |-> r] /\ main.pc # "wait")
               \/ ~alive \/ tree[r].child = "escaped"

\* A launch ends: spawn, the coordinator and the child never wait on one another for ever.
LaunchEnds ==
    (main.pc \in Launching) ~> (main.pc \notin Launching \/ ~alive)
=============================================================================
