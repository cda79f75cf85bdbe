--------------------------- MODULE ToolRun_proofs ---------------------------
(***************************************************************************)
(* Proofs about ToolRun, for every set of workers and branches and every   *)
(* number of calls.                                                        *)
(*                                                                         *)
(* The inductive invariant IInv adds to the properties what they rest on:  *)
(* a worker keeps its signal file locked as long as it may execute a tool, *)
(* so nobody retires its projection (Opened), and its marker follows its   *)
(* main thread through a call with a number never used before (Marked).    *)
(***************************************************************************)
EXTENDS ToolRun, TLAPS

\* The main thread is armed: between arm and the drop of the record.
Armed == {"call", "mark", "running", "ran", "fence", "clear", "complete", "dead", "leave"}

\* A call has begun and its result is not recorded.
InCall == {"mark", "running", "ran", "fence", "clear", "complete"}

\* The signal file is locked from arm to the drop of the record, and the descriptor the
\* handler can reach or has claimed is open.
Opened ==
    \A w \in Worker :
        /\ work[w].pc \in Armed => open[w]
        /\ record[w] # "none" => open[w] /\ work[w].pc \in Armed
        /\ hand[w] = "claimed" => open[w] /\ (record[w] = "claimed" \/ work[w].pc = "exit")

\* What the marker of a worker says at each point of a call, and that its calls are new.
Marked ==
    \A w \in Worker :
        /\ work[w].pc = "running" => marker[w] = work[w].call
        /\ work[w].pc = "complete" => marker[w] = None
        /\ last[w] # None => work[w].pc = "gone" /\ marker[w] = last[w]
        /\ marker[w] \notin done[w]
        /\ work[w].pc \in {"new", "arm"} => done[w] = {}
        /\ work[w].pc = "call" => \A c \in done[w] : c <= work[w].call
        /\ work[w].pc \in InCall =>
              work[w].call \in Call /\ \A c \in done[w] : c < work[w].call

\* A pending branch has an owner.
Owned == \A b \in Branch : branch[b].life = "pending" => branch[b].owner \in Worker

\* The inductive invariant.
IInv == TypeOK /\ Opened /\ ToolsExclusive /\ Marked /\ Owned

----------------------------------------------------------------------------
(* Updates of one thread and one branch.                                   *)

\* The main thread of w is at pc; the others are where they were.
Moved(w, pc) ==
    /\ work' \in [Worker -> Thread]
    /\ work'[w].pc = pc
    /\ \A v \in Worker \ {w} : work'[v] = work[v]

\* So it moves within a call or between calls.
Moves(w, pc) == Moved(w, pc) /\ work'[w].call = work[w].call

\* A thread that only changes its place.
LEMMA MovesPc ==
    ASSUME work \in [Worker -> Thread], NEW w \in Worker, NEW pc \in Pc,
           work' = [work EXCEPT ![w].pc = pc]
    PROVE Moves(w, pc)
  BY DEF Moves, Moved, Thread

\* It also notes whether the call succeeded.
LEMMA MovesPcOk ==
    ASSUME work \in [Worker -> Thread], NEW w \in Worker, NEW pc \in Pc, NEW ok \in BOOLEAN,
           work' = [work EXCEPT ![w].pc = pc, ![w].ok = ok]
    PROVE Moves(w, pc)
  BY DEF Moves, Moved, Thread

\* It begins the next call.
LEMMA MovesCall ==
    ASSUME work \in [Worker -> Thread], NEW w \in Worker, NEW pc \in Pc, NEW ok \in BOOLEAN,
           work[w].call < MaxCall,
           work' = [work EXCEPT ![w].pc = pc, ![w].call = @ + 1, ![w].ok = ok]
    PROVE Moved(w, pc) /\ work'[w].call = work[w].call + 1
  BY ToolAssumption DEF Moved, Thread

\* Its process ends.
LEMMA MovesGone ==
    ASSUME work \in [Worker -> Thread], NEW w \in Worker,
           work' = [work EXCEPT ![w] = [pc |-> "gone", branch |-> None, call |-> 0,
           ok |-> TRUE]]
    PROVE Moved(w, "gone")
  BY ToolAssumption DEF Moved, Thread, Pc

\* It leaves its branch.
LEMMA MovesExit ==
    ASSUME work \in [Worker -> Thread], NEW w \in Worker,
           work' = [work EXCEPT ![w] = [@ EXCEPT !.pc = "exit", !.call = 0]]
    PROVE Moved(w, "exit")
<1> DEFINE r == work[w]
<1>1. [r EXCEPT !.pc = "exit", !.call = 0] \in Thread
  <2>1. r \in Thread
    OBVIOUS
  <2>2. 0 \in 0..MaxCall /\ "exit" \in Pc
    BY ToolAssumption DEF Pc
  <2> HIDE DEF r
  <2>3. QED
    BY <2>1, <2>2 DEF Thread
<1>2. work'[w] = [work[w] EXCEPT !.pc = "exit", !.call = 0]
  OBVIOUS
<1>3. work'[w].pc = "exit"
  BY <1>2 DEF Thread
<1>4. QED
  BY <1>1, <1>3 DEF Moved

\* It reserves a branch.
LEMMA MovesBranch ==
    ASSUME work \in [Worker -> Thread], NEW w \in Worker, NEW b \in Branch,
           work' = [work EXCEPT ![w].pc = "arm", ![w].branch = b]
    PROVE Moves(w, "arm")
  BY DEF Moves, Moved, Thread, Pc

\* A change of a lease keeps the owners of pending branches.
LEMMA LeaseKeepsOwned ==
    ASSUME branch \in [Branch -> BranchRecord], Owned, NEW b, NEW lease \in {"fresh", "old",
    "expired"},
           branch' = [branch EXCEPT ![b].lease = lease]
    PROVE branch' \in [Branch -> BranchRecord] /\ Owned'
  BY DEF Owned, BranchRecord

\* So does a renewal.
LEMMA RenewedKeeps ==
    ASSUME TypeOK, Owned, NEW w \in Worker, Renewed(w)
    PROVE branch' \in [Branch -> BranchRecord] /\ Owned'
  BY LeaseKeepsOwned DEF TypeOK, Renewed

\* Branches that stay the same.
LEMMA SameBranches ==
    ASSUME TypeOK, Owned, branch' = branch
    PROVE branch' \in [Branch -> BranchRecord] /\ Owned'
  BY DEF TypeOK, Owned

\* A branch that ends is not pending any more.
LEMMA TerminalKeeps ==
    ASSUME TypeOK, Owned, NEW w \in Worker, NEW life \in {"completed", "failed"},
    Terminal(w, life)
    PROVE branch' \in [Branch -> BranchRecord] /\ Owned'
<1> DEFINE b == work[w].branch
           r == [branch[b] EXCEPT !.life = life, !.lease = "expired"]
<1>1. branch' = [branch EXCEPT ![b] = r]
  BY DEF Terminal
<1>2. CASE b \in Branch
  <2>1. r \in BranchRecord /\ r.life # "pending"
    BY <1>2 DEF TypeOK, BranchRecord
  <2>2. QED
    BY <1>1, <1>2, <2>1 DEF TypeOK, Owned
<1>3. CASE b \notin Branch
  BY <1>1, <1>3, SameBranches DEF TypeOK
<1>4. QED
  BY <1>2, <1>3


\* While a worker executes a tool the projection is its own, so no other may take it.
LEMMA RunningIsForeign ==
    ASSUME TypeOK, Opened, ToolsExclusive, Marked, NEW v \in Worker, work[v].pc = "running"
    PROVE /\ current = [owner |-> v, call |-> work[v].call]
          /\ current.owner = v /\ Retired = current
          /\ \A w \in Worker \ {v} : Foreign(w) /\ Unprojected(w) = current
<1>1. current = [owner |-> v, call |-> work[v].call] /\ work[v].call \in Call
  BY DEF ToolsExclusive, Marked, InCall
<1>2. current \in CurrentTool
  BY <1>1 DEF CurrentTool
<1>3. current # None /\ current.owner = v
  BY <1>1, <1>2, ToolAssumption DEF CurrentTool
<1>4. open[v]
  BY DEF Opened, Armed
<1>5. Retired = current
  BY <1>3, <1>4 DEF Retired
<1>6. QED
  BY <1>1, <1>3, <1>5 DEF Foreign, Unprojected

----------------------------------------------------------------------------
(* The actions.                                                            *)

\* Arm preserves the invariant.
LEMMA ArmKeeps ==
    ASSUME IInv, NEW w \in Worker, Arm(w)
    PROVE IInv'
<1> USE DEF IInv
<1>1. Moves(w, "call")
  BY MovesPc DEF TypeOK, Pc, Arm
<1>2. branch' \in [Branch -> BranchRecord] /\ Owned'
  BY SameBranches DEF Arm
<1>3. TypeOK'
  BY <1>1, <1>2, ToolAssumption DEF Moves, Moved, TypeOK, Arm, Retired
<1>4. Opened'
  BY <1>1 DEF Moves, Moved, TypeOK, Opened, Armed, Arm
<1>5. ToolsExclusive'
  BY <1>1, RunningIsForeign DEF Moves, Moved, TypeOK, ToolsExclusive, Arm
<1>6. Marked'
  BY <1>1, ToolAssumption DEF Moves, Moved, TypeOK, Marked, InCall, Arm
<1>7. QED
  BY <1>2, <1>3, <1>4, <1>5, <1>6

\* ArmFails preserves the invariant.
LEMMA ArmFailsKeeps ==
    ASSUME IInv, NEW w \in Worker, ArmFails(w)
    PROVE IInv'
<1> USE DEF IInv
<1>1. Moves(w, "exit")
  BY MovesPc DEF TypeOK, Pc, ArmFails
<1>2. branch' \in [Branch -> BranchRecord] /\ Owned'
  BY SameBranches DEF ArmFails
<1>3. TypeOK'
  BY <1>1, <1>2, ToolAssumption DEF Moves, Moved, TypeOK, ArmFails, Retired
<1>4. Opened'
  BY <1>1 DEF Moves, Moved, TypeOK, Opened, Armed, ArmFails
<1>5. ToolsExclusive'
  BY <1>1, RunningIsForeign DEF Moves, Moved, TypeOK, ToolsExclusive, ArmFails
<1>6. Marked'
  BY <1>1, ToolAssumption DEF Moves, Moved, TypeOK, Marked, InCall, ArmFails
<1>7. QED
  BY <1>2, <1>3, <1>4, <1>5, <1>6

\* Heartbeat preserves the invariant.
LEMMA HeartbeatKeeps ==
    ASSUME IInv, NEW w \in Worker, Heartbeat(w)
    PROVE IInv'
<1> USE DEF IInv
<1>1. work' = work
  BY SMT DEF TypeOK, Pc, Heartbeat
<1>2. branch' \in [Branch -> BranchRecord] /\ Owned'
  BY SameBranches, RenewedKeeps DEF Heartbeat
<1>3. TypeOK'
  BY <1>1, <1>2, ToolAssumption DEF TypeOK, Heartbeat
<1>4. Opened'
  BY <1>1 DEF TypeOK, Opened, Armed, Heartbeat
<1>5. ToolsExclusive'
  BY <1>1, RunningIsForeign DEF TypeOK, ToolsExclusive, Heartbeat
<1>6. Marked'
  BY <1>1, ToolAssumption DEF TypeOK, Marked, InCall, Heartbeat
<1>7. QED
  BY <1>2, <1>3, <1>4, <1>5, <1>6

\* Mark preserves the invariant.
LEMMA MarkKeeps ==
    ASSUME IInv, NEW w \in Worker, Mark(w)
    PROVE IInv'
<1> USE DEF IInv
<1>1. Moves(w, "running")
  BY MovesPc DEF TypeOK, Pc, Mark
<1>2. branch' \in [Branch -> BranchRecord] /\ Owned'
  BY SameBranches DEF Mark
<1>3. TypeOK'
  BY <1>1, <1>2, ToolAssumption DEF Moves, Moved, TypeOK, Mark, CurrentTool, Marked, InCall
<1>4. Opened'
  BY <1>1 DEF Moves, Moved, TypeOK, Opened, Armed, Mark
<1>5. ToolsExclusive'
  BY <1>1, RunningIsForeign DEF Moves, Moved, TypeOK, ToolsExclusive, Mark
<1>6. Marked'
  BY <1>1, ToolAssumption DEF Moves, Moved, TypeOK, Marked, InCall, Mark, Call
<1>7. QED
  BY <1>2, <1>3, <1>4, <1>5, <1>6

\* MarkFails preserves the invariant.
LEMMA MarkFailsKeeps ==
    ASSUME IInv, NEW w \in Worker, MarkFails(w)
    PROVE IInv'
<1> USE DEF IInv
<1>1. Moves(w, "ran")
  BY MovesPcOk DEF TypeOK, Pc, MarkFails
<1>2. branch' \in [Branch -> BranchRecord] /\ Owned'
  BY SameBranches DEF MarkFails
<1>3. TypeOK'
  BY <1>1, <1>2, ToolAssumption DEF Moves, Moved, TypeOK, MarkFails, CurrentTool, Marked,
     InCall, Retired
<1>4. Opened'
  BY <1>1 DEF Moves, Moved, TypeOK, Opened, Armed, MarkFails
<1>5. ToolsExclusive'
  BY <1>1, RunningIsForeign DEF Moves, Moved, TypeOK, ToolsExclusive, MarkFails
<1>6. Marked'
  BY <1>1, ToolAssumption DEF Moves, Moved, TypeOK, Marked, InCall, MarkFails, Call
<1>7. QED
  BY <1>2, <1>3, <1>4, <1>5, <1>6

\* Undispatched preserves the invariant.
LEMMA UndispatchedKeeps ==
    ASSUME IInv, NEW w \in Worker, Undispatched(w)
    PROVE IInv'
<1> USE DEF IInv
<1>1. Moves(w, "ran")
  BY MovesPcOk DEF TypeOK, Pc, Undispatched
<1>2. branch' \in [Branch -> BranchRecord] /\ Owned'
  BY SameBranches DEF Undispatched
<1>3. TypeOK'
  BY <1>1, <1>2, ToolAssumption DEF Moves, Moved, TypeOK, Undispatched
<1>4. Opened'
  BY <1>1 DEF Moves, Moved, TypeOK, Opened, Armed, Undispatched
<1>5. ToolsExclusive'
  BY <1>1, RunningIsForeign DEF Moves, Moved, TypeOK, ToolsExclusive, Undispatched
<1>6. Marked'
  BY <1>1, ToolAssumption DEF Moves, Moved, TypeOK, Marked, InCall, Undispatched
<1>7. QED
  BY <1>2, <1>3, <1>4, <1>5, <1>6

\* ToolEnds preserves the invariant.
LEMMA ToolEndsKeeps ==
    ASSUME IInv, NEW w \in Worker, ToolEnds(w)
    PROVE IInv'
<1> USE DEF IInv
<1>1. Moves(w, "ran")
  BY MovesPcOk DEF TypeOK, Pc, ToolEnds
<1>2. branch' \in [Branch -> BranchRecord] /\ Owned'
  BY SameBranches DEF ToolEnds
<1>3. TypeOK'
  BY <1>1, <1>2, ToolAssumption DEF Moves, Moved, TypeOK, ToolEnds
<1>4. Opened'
  BY <1>1 DEF Moves, Moved, TypeOK, Opened, Armed, ToolEnds
<1>5. ToolsExclusive'
  BY <1>1, RunningIsForeign DEF Moves, Moved, TypeOK, ToolsExclusive, ToolEnds
<1>6. Marked'
  BY <1>1, ToolAssumption DEF Moves, Moved, TypeOK, Marked, InCall, ToolEnds
<1>7. QED
  BY <1>2, <1>3, <1>4, <1>5, <1>6

\* JoinHeartbeat preserves the invariant.
LEMMA JoinHeartbeatKeeps ==
    ASSUME IInv, NEW w \in Worker, JoinHeartbeat(w)
    PROVE IInv'
<1> USE DEF IInv
<1>1. Moves(w, "clear") \/ Moves(w, "fence")
  BY MovesPc, MovesPcOk DEF TypeOK, Pc, JoinHeartbeat
<1>2. branch' \in [Branch -> BranchRecord] /\ Owned'
  BY SameBranches DEF JoinHeartbeat
<1>3. TypeOK'
  BY <1>1, <1>2, ToolAssumption DEF Moves, Moved, TypeOK, JoinHeartbeat
<1>4. Opened'
  BY <1>1 DEF Moves, Moved, TypeOK, Opened, Armed, JoinHeartbeat
<1>5. ToolsExclusive'
  BY <1>1, RunningIsForeign DEF Moves, Moved, TypeOK, ToolsExclusive, JoinHeartbeat
<1>6. Marked'
  BY <1>1, ToolAssumption DEF Moves, Moved, TypeOK, Marked, InCall, JoinHeartbeat
<1>7. QED
  BY <1>2, <1>3, <1>4, <1>5, <1>6

\* Fence preserves the invariant.
LEMMA FenceKeeps ==
    ASSUME IInv, NEW w \in Worker, Fence(w)
    PROVE IInv'
<1> USE DEF IInv
<1>1. Moves(w, "clear")
  BY MovesPc, MovesPcOk DEF TypeOK, Pc, Fence
<1>2. branch' \in [Branch -> BranchRecord] /\ Owned'
  BY SameBranches, RenewedKeeps DEF Fence
<1>3. TypeOK'
  BY <1>1, <1>2, ToolAssumption DEF Moves, Moved, TypeOK, Fence
<1>4. Opened'
  BY <1>1 DEF Moves, Moved, TypeOK, Opened, Armed, Fence
<1>5. ToolsExclusive'
  BY <1>1, RunningIsForeign DEF Moves, Moved, TypeOK, ToolsExclusive, Fence
<1>6. Marked'
  BY <1>1, ToolAssumption DEF Moves, Moved, TypeOK, Marked, InCall, Fence
<1>7. QED
  BY <1>2, <1>3, <1>4, <1>5, <1>6

\* Clear preserves the invariant.
LEMMA ClearKeeps ==
    ASSUME IInv, NEW w \in Worker, Clear(w)
    PROVE IInv'
<1> USE DEF IInv
<1>1. Moves(w, IF work[w].ok THEN "complete" ELSE "dead")
  BY MovesPcOk DEF TypeOK, Pc, Clear
<1>2. branch' \in [Branch -> BranchRecord] /\ Owned'
  BY SameBranches DEF Clear
<1>3. TypeOK'
  BY <1>1, <1>2, ToolAssumption DEF Moves, Moved, TypeOK, Clear, Unprojected
<1>4. Opened'
  BY <1>1 DEF Moves, Moved, TypeOK, Opened, Armed, Clear
<1>5. ToolsExclusive'
  BY <1>1, RunningIsForeign DEF Moves, Moved, TypeOK, ToolsExclusive, Clear
<1>6. Marked'
  BY <1>1, ToolAssumption DEF Moves, Moved, TypeOK, Marked, InCall, Clear
<1>7. QED
  BY <1>2, <1>3, <1>4, <1>5, <1>6

\* ClearFails preserves the invariant.
LEMMA ClearFailsKeeps ==
    ASSUME IInv, NEW w \in Worker, ClearFails(w)
    PROVE IInv'
<1> USE DEF IInv
<1>1. Moves(w, "dead")
  BY MovesPcOk DEF TypeOK, Pc, ClearFails
<1>2. branch' \in [Branch -> BranchRecord] /\ Owned'
  BY SameBranches DEF ClearFails
<1>3. TypeOK'
  BY <1>1, <1>2, ToolAssumption DEF Moves, Moved, TypeOK, ClearFails, Unprojected
<1>4. Opened'
  BY <1>1 DEF Moves, Moved, TypeOK, Opened, Armed, ClearFails
<1>5. ToolsExclusive'
  BY <1>1, RunningIsForeign DEF Moves, Moved, TypeOK, ToolsExclusive, ClearFails
<1>6. Marked'
  BY <1>1, ToolAssumption DEF Moves, Moved, TypeOK, Marked, InCall, ClearFails
<1>7. QED
  BY <1>2, <1>3, <1>4, <1>5, <1>6

\* Complete preserves the invariant.
LEMMA CompleteKeeps ==
    ASSUME IInv, NEW w \in Worker, Complete(w)
    PROVE IInv'
<1> USE DEF IInv
<1>1. Moves(w, "call") \/ Moves(w, "dead") \/ Moves(w, "leave")
  BY MovesPc DEF TypeOK, Pc, Complete
<1>2. branch' \in [Branch -> BranchRecord] /\ Owned'
  BY SameBranches DEF Complete
<1>3. TypeOK'
  BY <1>1, <1>2, ToolAssumption DEF Moves, Moved, TypeOK, Complete, Marked, InCall
<1>4. Opened'
  BY <1>1 DEF Moves, Moved, TypeOK, Opened, Armed, Complete
<1>5. ToolsExclusive'
  BY <1>1, RunningIsForeign DEF Moves, Moved, TypeOK, ToolsExclusive, Complete
<1>6. Marked'
  BY <1>1, ToolAssumption DEF Moves, Moved, TypeOK, Marked, InCall, Complete, Call
<1>7. QED
  BY <1>2, <1>3, <1>4, <1>5, <1>6

\* Finish preserves the invariant.
LEMMA FinishKeeps ==
    ASSUME IInv, NEW w \in Worker, Finish(w)
    PROVE IInv'
<1> USE DEF IInv
<1>1. Moves(w, "leave")
  BY MovesPc DEF TypeOK, Pc, Finish
<1>2. branch' \in [Branch -> BranchRecord] /\ Owned'
  BY SameBranches, TerminalKeeps DEF Finish
<1>3. TypeOK'
  BY <1>1, <1>2, ToolAssumption DEF Moves, Moved, TypeOK, Finish
<1>4. Opened'
  BY <1>1 DEF Moves, Moved, TypeOK, Opened, Armed, Finish
<1>5. ToolsExclusive'
  BY <1>1, RunningIsForeign DEF Moves, Moved, TypeOK, ToolsExclusive, Finish
<1>6. Marked'
  BY <1>1, ToolAssumption DEF Moves, Moved, TypeOK, Marked, InCall, Finish
<1>7. QED
  BY <1>2, <1>3, <1>4, <1>5, <1>6

\* Fail preserves the invariant.
LEMMA FailKeeps ==
    ASSUME IInv, NEW w \in Worker, Fail(w)
    PROVE IInv'
<1> USE DEF IInv
<1>1. Moves(w, "leave")
  BY MovesPc DEF TypeOK, Pc, Fail
<1>2. branch' \in [Branch -> BranchRecord] /\ Owned'
  BY SameBranches, TerminalKeeps DEF Fail
<1>3. TypeOK'
  BY <1>1, <1>2, ToolAssumption DEF Moves, Moved, TypeOK, Fail
<1>4. Opened'
  BY <1>1 DEF Moves, Moved, TypeOK, Opened, Armed, Fail
<1>5. ToolsExclusive'
  BY <1>1, RunningIsForeign DEF Moves, Moved, TypeOK, ToolsExclusive, Fail
<1>6. Marked'
  BY <1>1, ToolAssumption DEF Moves, Moved, TypeOK, Marked, InCall, Fail
<1>7. QED
  BY <1>2, <1>3, <1>4, <1>5, <1>6

\* HandlerKill preserves the invariant.
LEMMA HandlerKillKeeps ==
    ASSUME IInv, NEW w \in Worker, HandlerKill(w)
    PROVE IInv'
<1> USE DEF IInv
<1>1. work' = work
  BY SMT DEF TypeOK, Pc, HandlerKill
<1>2. branch' \in [Branch -> BranchRecord] /\ Owned'
  BY SameBranches DEF HandlerKill
<1>3. TypeOK'
  BY <1>1, <1>2, ToolAssumption DEF TypeOK, HandlerKill
<1>4. Opened'
  BY <1>1 DEF TypeOK, Opened, Armed, HandlerKill
<1>5. ToolsExclusive'
  BY <1>1, RunningIsForeign DEF TypeOK, ToolsExclusive, HandlerKill
<1>6. Marked'
  BY <1>1, ToolAssumption DEF TypeOK, Marked, InCall, HandlerKill
<1>7. QED
  BY <1>2, <1>3, <1>4, <1>5, <1>6

\* HandlerLoad preserves the invariant.
LEMMA HandlerLoadKeeps ==
    ASSUME IInv, NEW w \in Worker, HandlerLoad(w)
    PROVE IInv'
<1> USE DEF IInv
<1>1. work' = work
  BY SMT DEF TypeOK, Pc, HandlerLoad
<1>2. branch' \in [Branch -> BranchRecord] /\ Owned'
  BY SameBranches DEF HandlerLoad
<1>3. TypeOK'
  BY <1>1, <1>2, ToolAssumption DEF TypeOK, HandlerLoad
<1>4. Opened'
  BY <1>1 DEF TypeOK, Opened, Armed, HandlerLoad
<1>5. ToolsExclusive'
  BY <1>1, RunningIsForeign DEF TypeOK, ToolsExclusive, HandlerLoad
<1>6. Marked'
  BY <1>1, ToolAssumption DEF TypeOK, Marked, InCall, HandlerLoad
<1>7. QED
  BY <1>2, <1>3, <1>4, <1>5, <1>6

\* HandlerClaim preserves the invariant.
LEMMA HandlerClaimKeeps ==
    ASSUME IInv, NEW w \in Worker, HandlerClaim(w)
    PROVE IInv'
<1> USE DEF IInv
<1>1. work' = work
  BY SMT DEF TypeOK, Pc, HandlerClaim
<1>2. branch' \in [Branch -> BranchRecord] /\ Owned'
  BY SameBranches DEF HandlerClaim
<1>3. TypeOK'
  BY <1>1, <1>2, ToolAssumption DEF TypeOK, HandlerClaim
<1>4. Opened'
  BY <1>1 DEF TypeOK, Opened, Armed, HandlerClaim
<1>5. ToolsExclusive'
  BY <1>1, RunningIsForeign DEF TypeOK, ToolsExclusive, HandlerClaim
<1>6. Marked'
  BY <1>1, ToolAssumption DEF TypeOK, Marked, InCall, HandlerClaim
<1>7. QED
  BY <1>2, <1>3, <1>4, <1>5, <1>6

\* HandlerWrite preserves the invariant.
LEMMA HandlerWriteKeeps ==
    ASSUME IInv, NEW w \in Worker, HandlerWrite(w)
    PROVE IInv'
<1> USE DEF IInv
<1>1. work' = work
  BY SMT DEF TypeOK, Pc, HandlerWrite
<1>2. branch' \in [Branch -> BranchRecord] /\ Owned'
  BY SameBranches DEF HandlerWrite
<1>3. TypeOK'
  BY <1>1, <1>2, ToolAssumption DEF TypeOK, HandlerWrite
<1>4. Opened'
  BY <1>1 DEF TypeOK, Opened, Armed, HandlerWrite
<1>5. ToolsExclusive'
  BY <1>1, RunningIsForeign DEF TypeOK, ToolsExclusive, HandlerWrite
<1>6. Marked'
  BY <1>1, ToolAssumption DEF TypeOK, Marked, InCall, HandlerWrite
<1>7. QED
  BY <1>2, <1>3, <1>4, <1>5, <1>6

\* HandlerExit preserves the invariant.
LEMMA HandlerExitKeeps ==
    ASSUME IInv, NEW w \in Worker, HandlerExit(w)
    PROVE IInv'
<1> USE DEF IInv
<1>1. Moved(w, "gone")
  BY MovesGone DEF TypeOK, Pc, HandlerExit, Gone
<1>2. branch' \in [Branch -> BranchRecord] /\ Owned'
  BY SameBranches DEF HandlerExit, Gone
<1>3. TypeOK'
  BY <1>1, <1>2, ToolAssumption DEF Moved, TypeOK, HandlerExit, Gone, Marked, InCall
<1>4. Opened'
  BY <1>1 DEF Moved, TypeOK, Opened, Armed, HandlerExit, Gone
<1>5. ToolsExclusive'
  BY <1>1, RunningIsForeign DEF Moved, TypeOK, ToolsExclusive, HandlerExit, Gone
<1>6. Marked'
  BY <1>1, ToolAssumption DEF Moved, TypeOK, Marked, InCall, HandlerExit, Gone
<1>7. QED
  BY <1>2, <1>3, <1>4, <1>5, <1>6

\* Exit preserves the invariant.
LEMMA ExitKeeps ==
    ASSUME IInv, NEW w \in Worker, Exit(w)
    PROVE IInv'
<1> USE DEF IInv
<1>1. Moved(w, "gone")
  BY MovesGone DEF TypeOK, Pc, Exit, Gone
<1>2. branch' \in [Branch -> BranchRecord] /\ Owned'
  BY SameBranches DEF Exit, Gone
<1>3. TypeOK'
  BY <1>1, <1>2, ToolAssumption DEF Moved, TypeOK, Exit, Gone, Marked, InCall
<1>4. Opened'
  BY <1>1 DEF Moved, TypeOK, Opened, Armed, Exit, Gone
<1>5. ToolsExclusive'
  BY <1>1, RunningIsForeign DEF Moved, TypeOK, ToolsExclusive, Exit, Gone
<1>6. Marked'
  BY <1>1, ToolAssumption DEF Moved, TypeOK, Marked, InCall, Exit, Gone
<1>7. QED
  BY <1>2, <1>3, <1>4, <1>5, <1>6

\* Disarm preserves the invariant.
LEMMA DisarmKeeps ==
    ASSUME IInv, NEW w \in Worker, Disarm(w)
    PROVE IInv'
<1> USE DEF IInv
<1>1. Moved(w, "exit")
  BY MovesExit DEF TypeOK, Pc, Disarm
<1>2. branch' \in [Branch -> BranchRecord] /\ Owned'
  BY SameBranches DEF Disarm
<1>3. TypeOK'
  BY <1>1, <1>2, ToolAssumption DEF Moved, TypeOK, Disarm
<1>4. Opened'
  BY <1>1 DEF Moved, TypeOK, Opened, Armed, Disarm
<1>5. ToolsExclusive'
  BY <1>1, RunningIsForeign DEF Moved, TypeOK, ToolsExclusive, Disarm
<1>6. Marked'
  BY <1>1, ToolAssumption DEF Moved, TypeOK, Marked, InCall, Disarm
<1>7. QED
  BY <1>2, <1>3, <1>4, <1>5, <1>6

\* BeginCall preserves the invariant.
LEMMA BeginCallKeeps ==
    ASSUME IInv, NEW w \in Worker, BeginCall(w)
    PROVE IInv'
<1> USE DEF IInv
<1>1. (Moved(w, "mark") \/ Moved(w, "clear")) /\ work'[w].call = work[w].call + 1
  BY MovesCall DEF TypeOK, Pc, BeginCall
<1>2. branch' \in [Branch -> BranchRecord] /\ Owned'
  BY SameBranches, RenewedKeeps DEF BeginCall
<1>3. TypeOK'
  BY <1>1, <1>2, ToolAssumption DEF Moved, TypeOK, BeginCall, Thread
<1>4. Opened'
  BY <1>1 DEF Moved, TypeOK, Opened, Armed, BeginCall
<1>5. ToolsExclusive'
  BY <1>1, RunningIsForeign DEF Moved, TypeOK, ToolsExclusive, BeginCall
<1>6. Marked'
  BY <1>1, ToolAssumption DEF Moved, TypeOK, Marked, InCall, BeginCall, Call, Thread
<1>7. QED
  BY <1>2, <1>3, <1>4, <1>5, <1>6

\* Reserve preserves the invariant.
LEMMA ReserveKeeps ==
    ASSUME IInv, NEW w \in Worker, NEW b \in Branch, Reserve(w, b)
    PROVE IInv'
<1> USE DEF IInv
<1>1. Moves(w, "arm")
  BY MovesBranch DEF TypeOK, Reserve
<1>2. branch' \in [Branch -> BranchRecord] /\ Owned'
  <2> DEFINE r == [life |-> "pending", owner |-> w, lease |-> "fresh"]
  <2>1. branch' = [branch EXCEPT ![b] = r] /\ r \in BranchRecord
    BY DEF Reserve, BranchRecord
  <2>2. QED
    BY <2>1 DEF TypeOK, Owned
<1>3. TypeOK'
  BY <1>1, <1>2 DEF Moves, Moved, TypeOK, Reserve
<1>4. Opened'
  BY <1>1 DEF Moves, Moved, TypeOK, Opened, Armed, Reserve
<1>5. ToolsExclusive'
  BY <1>1 DEF Moves, Moved, TypeOK, ToolsExclusive, Reserve
<1>6. Marked'
  BY <1>1 DEF Moves, Moved, TypeOK, Marked, InCall, Reserve
<1>7. QED
  BY <1>2, <1>3, <1>4, <1>5, <1>6

\* Age preserves the invariant.
LEMMA AgeKeeps ==
    ASSUME IInv, NEW b \in Branch, Age(b)
    PROVE IInv'
<1> USE DEF IInv
<1>1. branch' \in [Branch -> BranchRecord] /\ Owned'
  <2> DEFINE lease == IF branch[b].lease = "fresh" THEN "old" ELSE "expired"
  <2>1. branch' = [branch EXCEPT ![b].lease = lease]
    BY DEF Age
  <2>2. QED
    BY <2>1, LeaseKeepsOwned DEF TypeOK
<1>2. TypeOK' /\ Opened' /\ ToolsExclusive' /\ Marked'
  BY <1>1 DEF Age, TypeOK, Opened, ToolsExclusive, Marked
<1>3. QED
  BY <1>1, <1>2

----------------------------------------------------------------------------
(* The theorems.                                                           *)

\* The initial states satisfy the invariant.
LEMMA InductiveInit == Init => IInv
  BY ToolAssumption DEF Init, IInv, TypeOK, Thread, BranchRecord, Pc, Opened, Armed,
     ToolsExclusive, Marked, InCall, Owned

\* Every step preserves it.
LEMMA InductiveStep == IInv /\ [Next]_vars => IInv'
<1> SUFFICES ASSUME IInv, [Next]_vars PROVE IInv'
  OBVIOUS
<1>1. CASE UNCHANGED vars
  BY <1>1 DEF vars, IInv, TypeOK, Opened, ToolsExclusive, Marked, Owned
<1>2. ASSUME NEW b \in Branch, Age(b) PROVE IInv'
  BY <1>2, AgeKeeps
<1>3. ASSUME NEW w \in Worker, Step(w) PROVE IInv'
  BY <1>3, ReserveKeeps, ArmKeeps, ArmFailsKeeps, DisarmKeeps, BeginCallKeeps, HeartbeatKeeps,
     MarkKeeps, MarkFailsKeeps, UndispatchedKeeps, ToolEndsKeeps, JoinHeartbeatKeeps,
     FenceKeeps,
     ClearKeeps, ClearFailsKeeps, CompleteKeeps, FinishKeeps, FailKeeps, HandlerKillKeeps,
     HandlerLoadKeeps,
     HandlerClaimKeeps, HandlerWriteKeeps, HandlerExitKeeps, ExitKeeps
     DEF Step
<1>4. QED
  BY <1>1, <1>2, <1>3 DEF Next

\* It holds throughout.
LEMMA Inductive == Spec => []IInv
  BY InductiveInit, InductiveStep, PTL DEF Spec

\* Threads, files, records and leases keep their types.
THEOREM TypeCorrect == Spec => []TypeOK
<1>1. IInv => TypeOK
  BY DEF IInv
<1>2. QED
  BY <1>1, Inductive, PTL

\* For any number of workers, branches and calls, no two workers execute tools of the
\* session at the same time, however leases expire and branches change hands.
THEOREM ToolsAreExclusive == Spec => []ToolsExclusive
<1>1. IInv => ToolsExclusive
  BY DEF IInv
<1>2. QED
  BY <1>1, Inductive, PTL

\* The evidence a signal leaves names the call that was still being executed when the worker
\* ended, and blames no completed one, whatever the handler's kill let the main thread do
\* before the byte was written.
THEOREM EvidenceIsHonest == Spec => []EvidenceHonest
<1>1. IInv => EvidenceHonest
  BY DEF IInv, Owned, Marked, EvidenceHonest
<1>2. QED
  BY <1>1, Inductive, PTL

\* The handler never writes to a descriptor that the main thread has closed.
THEOREM RecordIsOwned == Spec => []RecordOwned
<1>1. IInv => RecordOwned
  BY DEF IInv, Opened, RecordOwned
<1>2. QED
  BY <1>1, Inductive, PTL
=============================================================================
