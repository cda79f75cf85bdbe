------------------------------ MODULE ToolRun ------------------------------
(***************************************************************************)
(* The execution of the tool calls of a branch under its lease, and the    *)
(* evidence that a cancelled worker leaves (src/src/session/tool_lease.rs, *)
(* session/interruption.rs, session/interruption/projection.rs,            *)
(* process/cancellation_record.rs, agent/in_flight.rs,                     *)
(* agent/tool_round.rs).                                                   *)
(*                                                                         *)
(* Workers are processes, each the owner of one reservation; they share    *)
(* the session's directory.  An owner has a signal file, which it keeps    *)
(* locked while it is armed, and a marker with the call in flight; the     *)
(* session has one projection of the current tool.  A worker's main        *)
(* thread, its heartbeat thread and its signal handler interleave.  Every  *)
(* store operation is one step: it holds the session's lock.  How a call   *)
(* is executed is ProcessRunner; how its result is recorded, AgentTurn.    *)
(***************************************************************************)
EXTENDS Naturals

CONSTANTS
    Worker,     \* the processes that work on the session
    Branch,     \* its branches
    None,       \* no worker, no branch, no marker
    MaxCall     \* bound on the calls of a worker

Call == 1..MaxCall

ASSUME ToolAssumption ==
    /\ MaxCall \in Nat
    /\ None \notin Call \cup [owner : Worker, call : Call]

VARIABLES
    branch,     \* the branches: lifecycle, owner, and age of the lease
    work,       \* the main threads
    beat,       \* the heartbeat threads
    record,     \* RECORD_FD of every worker
    open,       \* the signal file of a worker is open, and so locked
    hand,       \* the signal handlers
    signal,     \* the signal files
    marker,     \* the in-flight markers
    current,    \* tool-in-flight.json: the owner and call it names
    done,       \* the calls of every worker recorded as completed
    last        \* the call that a worker was executing when it ended

vars == <<branch, work, beat, record, open, hand, signal, marker, current, done, last>>

Pc == {"new", "arm", "call", "mark", "running", "ran", "fence", "clear", "complete",
       "dead", "leave", "exit", "gone"}

BranchRecord == [life : {"none", "pending", "completed", "failed"},
                 owner : Worker \cup {None}, lease : {"fresh", "old", "expired"}]

Thread == [pc : Pc, branch : Branch \cup {None}, call : 0..MaxCall, ok : BOOLEAN]

CurrentTool == [owner : Worker, call : Call]

TypeOK ==
    /\ branch \in [Branch -> BranchRecord]
    /\ work \in [Worker -> Thread]
    /\ beat \in [Worker -> {"off", "on", "failed"}]
    /\ record \in [Worker -> {"none", "armed", "claimed"}]
    /\ open \in [Worker -> BOOLEAN]
    /\ hand \in [Worker -> {"none", "killed", "loaded", "claimed", "exit"}]
    /\ signal \in [Worker -> {"absent", "empty", "written"}]
    /\ marker \in [Worker -> Call \cup {None}]
    /\ current \in CurrentTool \cup {None}
    /\ done \in [Worker -> SUBSET Call]
    /\ last \in [Worker -> Call \cup {None}]

Init ==
    /\ branch = [b \in Branch |-> [life |-> "none", owner |-> None, lease |-> "expired"]]
    /\ work = [w \in Worker |-> [pc |-> "new", branch |-> None, call |-> 0, ok |-> TRUE]]
    /\ beat = [w \in Worker |-> "off"]
    /\ record = [w \in Worker |-> "none"]
    /\ open = [w \in Worker |-> FALSE]
    /\ hand = [w \in Worker |-> "none"]
    /\ signal = [w \in Worker |-> "absent"]
    /\ marker = [w \in Worker |-> None]
    /\ current = None
    /\ done = [w \in Worker |-> {}]
    /\ last = [w \in Worker |-> None]

----------------------------------------------------------------------------
(* The reservation.                                                        *)

Alive(w) == work[w].pc \notin {"new", "gone"}

\* live_branch: the branch is pending, owned by this worker, and its lease has not expired.
Live(w) ==
    LET b == branch[work[w].branch] IN
    b.life = "pending" /\ b.owner = w /\ b.lease # "expired"

Renewed(w) == branch' = [branch EXCEPT ![work[w].branch].lease = "fresh"]

\* A terminal event clears the lease.
Terminal(w, life) ==
    branch' = [branch EXCEPT ![work[w].branch] = [@ EXCEPT !.life = life, !.lease = "expired"]]

\* start_request: a new branch, or the reclaim of a pending one whose lease has expired.
Reserve(w, b) ==
    /\ work[w].pc = "new"
    /\ branch[b].life = "none" \/ (branch[b].life = "pending" /\ branch[b].lease = "expired")
    /\ branch' = [branch EXCEPT ![b] = [life |-> "pending", owner |-> w, lease |-> "fresh"]]
    /\ work' = [work EXCEPT ![w].pc = "arm", ![w].branch = b]
    /\ UNCHANGED <<beat, record, open, hand, signal, marker, current, done, last>>

\* Time passes; a worker may be suspended for longer than its lease.
Age(b) ==
    /\ branch[b].life = "pending" /\ branch[b].lease # "expired"
    /\ branch' = [branch EXCEPT ![b].lease = IF @ = "fresh" THEN "old" ELSE "expired"]
    /\ UNCHANGED <<work, beat, record, open, hand, signal, marker, current, done, last>>

----------------------------------------------------------------------------
(* The cancellation record and the projection.                             *)

\* retire_inactive: a projection whose owner no longer locks its signal file is removed.
Retired == IF current # None /\ ~open[current.owner] THEN None ELSE current

\* After that, it belongs to another owner, which is active.
Foreign(w) == Retired # None /\ Retired.owner # w

\* clear_owned: it is removed by its own owner.
Unprojected(w) == IF current # None /\ current.owner = w THEN None ELSE current

\* arm: the signal file is created and locked, a stale projection retired, and the
\* descriptor installed for the handler.
Arm(w) ==
    /\ work[w].pc = "arm" /\ Live(w)
    /\ signal' = [signal EXCEPT ![w] = "empty"]
    /\ open' = [open EXCEPT ![w] = TRUE]
    /\ record' = [record EXCEPT ![w] = "armed"]
    /\ current' = Retired
    /\ work' = [work EXCEPT ![w].pc = "call"]
    /\ UNCHANGED <<branch, beat, hand, marker, done, last>>

\* It cannot: the worker ends and leaves the branch pending.  The signal file may have been
\* created, and the stale projection removed.
ArmFails(w) ==
    /\ work[w].pc = "arm"
    /\ \/ UNCHANGED <<signal, current>>
       \/ /\ Live(w)
          /\ signal' = [signal EXCEPT ![w] = "empty"]
          /\ current' \in {current, Retired}
    /\ work' = [work EXCEPT ![w].pc = "exit"]
    /\ UNCHANGED <<branch, beat, record, open, hand, marker, done, last>>

\* CancellationRecord is dropped: a descriptor the handler has claimed stays open.
Disarm(w) ==
    /\ work[w].pc = "leave"
    /\ open' = [open EXCEPT ![w] = record[w] = "claimed"]
    /\ record' = [record EXCEPT ![w] = "none"]
    /\ work' = [work EXCEPT ![w] = [@ EXCEPT !.pc = "exit", !.call = 0]]
    /\ UNCHANGED <<branch, beat, hand, signal, marker, current, done, last>>

----------------------------------------------------------------------------
(* One call: with_tool_lease around execute_one_call, then clear and       *)
(* complete_provider_tool.                                                 *)

\* The lease is renewed and the heartbeat starts; when the renewal fails the call is not
\* dispatched, and the worker goes on to clear.
BeginCall(w) ==
    /\ work[w].pc = "call" /\ work[w].call < MaxCall
    /\ \/ /\ Live(w) /\ Renewed(w)
          /\ beat' = [beat EXCEPT ![w] = "on"]
          /\ work' = [work EXCEPT ![w].pc = "mark", ![w].call = @ + 1, ![w].ok = TRUE]
       \/ /\ work' = [work EXCEPT ![w].pc = "clear", ![w].call = @ + 1, ![w].ok = FALSE]
          /\ UNCHANGED <<branch, beat>>
    /\ UNCHANGED <<record, open, hand, signal, marker, current, done, last>>

\* The heartbeat thread renews the lease; it ends with the first renewal that fails.
Heartbeat(w) ==
    /\ Alive(w) /\ beat[w] = "on"
    /\ \/ Live(w) /\ Renewed(w) /\ UNCHANGED beat
       \/ beat' = [beat EXCEPT ![w] = "failed"] /\ UNCHANGED branch
    /\ UNCHANGED <<work, record, open, hand, signal, marker, current, done, last>>

\* Mutant of Mark: the projection of another owner is replaced whether it is active or not.
MarkSeizes(w) ==
    /\ work[w].pc = "mark" /\ Live(w)
    /\ marker' = [marker EXCEPT ![w] = work[w].call]
    /\ current' = [owner |-> w, call |-> work[w].call]
    /\ work' = [work EXCEPT ![w].pc = "running"]
    /\ UNCHANGED <<branch, beat, record, open, hand, signal, done, last>>

\* Mutant of Mark: the marker names the call before this one.
MarkPrevious(w) ==
    /\ work[w].pc = "mark" /\ Live(w)
    /\ ~Foreign(w)
    /\ marker' = [marker EXCEPT ![w] = work[w].call - 1]
    /\ current' = [owner |-> w, call |-> work[w].call]
    /\ work' = [work EXCEPT ![w].pc = "running"]
    /\ UNCHANGED <<branch, beat, record, open, hand, signal, done, last>>

\* dispatch_recorded: the marker and the projection name the call before it is executed.
Mark(w) ==
    /\ work[w].pc = "mark" /\ Live(w)
    /\ ~Foreign(w)
    /\ marker' = [marker EXCEPT ![w] = work[w].call]
    /\ current' = [owner |-> w, call |-> work[w].call]
    /\ work' = [work EXCEPT ![w].pc = "running"]
    /\ UNCHANGED <<branch, beat, record, open, hand, signal, done, last>>

\* They cannot be written, because the projection belongs to another active owner, the
\* lease is lost or the storage failed: the call is not executed, though its marker may
\* have been published and the projection retired or even replaced.
MarkFails(w) ==
    /\ work[w].pc = "mark"
    /\ \/ UNCHANGED <<marker, current>>
       \/ /\ Live(w)
          /\ marker' = [marker EXCEPT ![w] = work[w].call]
          /\ current' \in {current, Retired}
                \cup {c \in {[owner |-> w, call |-> work[w].call]} : ~Foreign(w)}
    /\ work' = [work EXCEPT ![w].pc = "ran", ![w].ok = FALSE]
    /\ UNCHANGED <<branch, beat, record, open, hand, signal, done, last>>

\* The call ends before it is dispatched: the turn's output cap is reached or its arguments
\* are no object; or the tool is unknown, and an error is its result.
Undispatched(w) ==
    /\ work[w].pc = "mark"
    /\ \E ok \in BOOLEAN : work' = [work EXCEPT ![w].pc = "ran", ![w].ok = ok]
    /\ UNCHANGED <<branch, beat, record, open, hand, signal, marker, current, done, last>>

\* The tool returns; its result may fail to be admitted to the context.
ToolEnds(w) ==
    /\ work[w].pc = "running"
    /\ \E ok \in BOOLEAN : work' = [work EXCEPT ![w].pc = "ran", ![w].ok = ok]
    /\ UNCHANGED <<branch, beat, record, open, hand, signal, marker, current, done, last>>

\* The heartbeat thread is stopped and joined; its failure is the failure of the call.
JoinHeartbeat(w) ==
    /\ work[w].pc = "ran"
    /\ beat' = [beat EXCEPT ![w] = "off"]
    /\ work' = IF beat[w] = "failed"
               THEN [work EXCEPT ![w].pc = "clear", ![w].ok = FALSE]
               ELSE [work EXCEPT ![w].pc = "fence"]
    /\ UNCHANGED <<branch, record, open, hand, signal, marker, current, done, last>>

\* The lease is renewed once more.
Fence(w) ==
    /\ work[w].pc = "fence"
    /\ \/ Live(w) /\ Renewed(w) /\ work' = [work EXCEPT ![w].pc = "clear"]
       \/ work' = [work EXCEPT ![w].pc = "clear", ![w].ok = FALSE] /\ UNCHANGED branch
    /\ UNCHANGED <<beat, record, open, hand, signal, marker, current, done, last>>

\* Mutant of Clear: only the projection is cleared.
ClearProjection(w) ==
    /\ work[w].pc = "clear" /\ Live(w)
    /\ current' = Unprojected(w)
    /\ work' = [work EXCEPT ![w].pc = IF work[w].ok THEN "complete" ELSE "dead", ![w].ok = TRUE]
    /\ UNCHANGED <<branch, beat, record, open, hand, signal, marker, done, last>>

\* in_flight::finish: the marker becomes null and the owner's projection is removed.
Clear(w) ==
    /\ work[w].pc = "clear" /\ Live(w)
    /\ marker' = [marker EXCEPT ![w] = None]
    /\ current' = Unprojected(w)
    /\ work' = [work EXCEPT ![w].pc = IF work[w].ok THEN "complete" ELSE "dead", ![w].ok = TRUE]
    /\ UNCHANGED <<branch, beat, record, open, hand, signal, done, last>>

\* It fails: on a lost lease, or on storage at either of its two writes.
ClearFails(w) ==
    /\ work[w].pc = "clear"
    /\ \/ UNCHANGED <<marker, current>>
       \/ /\ Live(w)
          /\ marker' = [marker EXCEPT ![w] = None]
          /\ current' \in {current, Unprojected(w)}
    /\ work' = [work EXCEPT ![w].pc = "dead", ![w].ok = TRUE]
    /\ UNCHANGED <<branch, beat, record, open, hand, signal, done, last>>

\* complete_provider_tool records the result; a failure ends the turn, the branch pending.
Complete(w) ==
    /\ work[w].pc = "complete"
    /\ \/ /\ Live(w)
          /\ done' = [done EXCEPT ![w] = @ \cup {work[w].call}]
          /\ \E pc \in {"call", "dead"} : work' = [work EXCEPT ![w].pc = pc]
       \/ work' = [work EXCEPT ![w].pc = "leave"] /\ UNCHANGED done
    /\ UNCHANGED <<branch, beat, record, open, hand, signal, marker, current, last>>

\* The turn ends between calls: it is finalized, or given up without a terminal event.
Finish(w) ==
    /\ work[w].pc = "call"
    /\ \/ Live(w) /\ Terminal(w, "completed")
       \/ UNCHANGED branch
    /\ work' = [work EXCEPT ![w].pc = "leave"]
    /\ UNCHANGED <<beat, record, open, hand, signal, marker, current, done, last>>

\* The failure of a call is recorded while the worker still owns the branch.
Fail(w) ==
    /\ work[w].pc = "dead"
    /\ \/ Live(w) /\ Terminal(w, "failed")
       \/ UNCHANGED branch
    /\ work' = [work EXCEPT ![w].pc = "leave"]
    /\ UNCHANGED <<beat, record, open, hand, signal, marker, current, done, last>>

----------------------------------------------------------------------------
(* Signals and the end of a worker.                                        *)

\* cancellation_handler, on any thread while the others go on.  It first kills the group of
\* the tool that is running, if that has a command, which may end at any time anyway; ...
HandlerKill(w) ==
    /\ Alive(w) /\ hand[w] = "none"
    /\ hand' = [hand EXCEPT ![w] = "killed"]
    /\ UNCHANGED <<branch, work, beat, record, open, signal, marker, current, done, last>>

\* ... then it loads RECORD_FD, ...
HandlerLoad(w) ==
    /\ Alive(w) /\ hand[w] = "killed"
    /\ hand' = [hand EXCEPT ![w] = IF record[w] = "armed" THEN "loaded" ELSE "exit"]
    /\ UNCHANGED <<branch, work, beat, record, open, signal, marker, current, done, last>>

\* Mutant of HandlerClaim: the descriptor is used without being claimed again.
HandlerClaimStale(w) ==
    /\ Alive(w) /\ hand[w] = "loaded"
    /\ hand' = [hand EXCEPT ![w] = "claimed"]
    /\ record' = [record EXCEPT ![w] = "claimed"]
    /\ UNCHANGED <<branch, work, beat, open, signal, marker, current, done, last>>

\* ... claims it, unless it has been dropped meanwhile; ...
HandlerClaim(w) ==
    /\ Alive(w) /\ hand[w] = "loaded"
    /\ IF record[w] = "armed"
       THEN /\ hand' = [hand EXCEPT ![w] = "claimed"]
            /\ record' = [record EXCEPT ![w] = "claimed"]
       ELSE /\ hand' = [hand EXCEPT ![w] = "exit"]
            /\ UNCHANGED record
    /\ UNCHANGED <<branch, work, beat, open, signal, marker, current, done, last>>

\* ... writes its byte, which may fail; ...
HandlerWrite(w) ==
    /\ Alive(w) /\ hand[w] = "claimed"
    /\ signal' \in {signal, [signal EXCEPT ![w] = "written"]}
    /\ hand' = [hand EXCEPT ![w] = "exit"]
    /\ UNCHANGED <<branch, work, beat, record, open, marker, current, done, last>>

\* The process is gone and its descriptors are closed.
Gone(w) ==
    /\ work' = [work EXCEPT ![w] = [pc |-> "gone", branch |-> None, call |-> 0, ok |-> TRUE]]
    /\ hand' = [hand EXCEPT ![w] = "none"]
    /\ open' = [open EXCEPT ![w] = FALSE]
    /\ record' = [record EXCEPT ![w] = "none"]
    /\ beat' = [beat EXCEPT ![w] = "off"]
    /\ last' = [last EXCEPT ![w] = IF work[w].pc = "running" THEN work[w].call ELSE None]
    /\ UNCHANGED <<branch, signal, marker, current, done>>

\* ... and exits.
HandlerExit(w) == Alive(w) /\ hand[w] = "exit" /\ Gone(w)

\* The worker exits by itself, or is killed.
Exit(w) == Alive(w) /\ Gone(w)

----------------------------------------------------------------------------
Step(w) ==
    \/ \E b \in Branch : Reserve(w, b)
    \/ Arm(w) \/ ArmFails(w) \/ Disarm(w)
    \/ BeginCall(w) \/ Heartbeat(w) \/ Mark(w) \/ MarkFails(w) \/ Undispatched(w)
    \/ ToolEnds(w) \/ JoinHeartbeat(w) \/ Fence(w) \/ Clear(w) \/ ClearFails(w)
    \/ Complete(w) \/ Finish(w) \/ Fail(w)
    \/ HandlerKill(w) \/ HandlerLoad(w) \/ HandlerClaim(w) \/ HandlerWrite(w)
    \/ HandlerExit(w) \/ Exit(w)

Next == (\E w \in Worker : Step(w)) \/ (\E b \in Branch : Age(b))

Spec == Init /\ [][Next]_vars

----------------------------------------------------------------------------
(* Properties.                                                             *)

\* A worker that executes a tool is the one the session's projection names, with that very
\* call: so no two workers execute tools at the same time, not even when the lease of one
\* expired in mid-call and another reclaimed its branch.
ToolsExclusive ==
    \A w \in Worker :
        work[w].pc = "running" => current = [owner |-> w, call |-> work[w].call]

\* What interruption::read tells of a pending branch with a recorded signal: a tool that
\* was still being executed when the worker ended is named, and no tool whose result had
\* been recorded is blamed.
EvidenceHonest ==
    \A b \in Branch :
        LET w == branch[b].owner IN
        (branch[b].life = "pending" /\ signal[w] = "written") =>
            /\ last[w] # None => marker[w] = last[w]
            /\ marker[w] \notin done[w]

\* The handler writes only to a descriptor that is still open: dropping the record does
\* not close one that the handler has claimed.
RecordOwned ==
    \A w \in Worker : (Alive(w) /\ hand[w] = "claimed") => open[w]
=============================================================================
