---------------------------- MODULE SessionStore ----------------------------
(***************************************************************************)
(* Reservations, leases and branch lifecycles of one session               *)
(* (src/src/session.rs, session/reserve.rs, session/replay.rs).            *)
(*                                                                         *)
(* One invocation of the program makes one request.  It reserves a branch  *)
(* under a fresh owner token with a lease, works on it, and completes or   *)
(* fails it.  Every store operation reads the durable state, decides, and  *)
(* appends one event while it holds the session's exclusive lock, so each  *)
(* is one action here (how an append reaches the disk is SegmentLog).      *)
(* Between two operations the invocation may be suspended for longer than  *)
(* its lease, or die.                                                      *)
(*                                                                         *)
(* A branch id is b<n> with n its position in `branches': ids are handed   *)
(* out in order, one per reservation, and branches are never removed.  A   *)
(* prompt stands for its digest too; `parent' is 0 for a root.  A round is *)
(* named by the invocation that recorded it; the summary of a completed    *)
(* branch is the text of its last round.                                   *)
(***************************************************************************)
EXTENDS Naturals, Sequences, FiniteSets

CONSTANTS
    Proc,       \* the invocations; also their owner tokens (new_owner)
    Prompt,     \* the prompts a request may carry
    Cwd,        \* the workspaces a request may run in
    NoCwd,      \* the session is not pinned to a workspace yet
    MaxTurn,    \* bound on --turn
    MaxBranch,  \* MAX_BRANCHES
    MaxRound,   \* bound on the rounds of one branch
    Lease,      \* TIMEOUT_LEASE_SECONDS, in ticks of the clock
    MaxNow      \* bound on the clock

ASSUME BoundsAssumption ==
    /\ MaxTurn \in Nat \ {0}
    /\ MaxBranch \in Nat
    /\ MaxRound \in Nat
    /\ Lease \in Nat \ {0}
    /\ MaxNow \in Nat
ASSUME NoCwdAssumption == NoCwd \notin Cwd

VARIABLES
    branches,   \* SessionState::branches
    cwd,        \* SessionState::cwd and its (dev, ino) identity
    now,        \* now_secs(), the clock every process on the host reads
    proc        \* the invocations: their reservation and what they hold in memory

vars == <<branches, cwd, now, proc>>

Lifecycle == {"pending", "completed", "failed"}

Branch == [turn : Nat, attempt : Nat, parent : Nat, prompt : Prompt,
           life : Lifecycle, rounds : Seq(Proc), owner : Proc,
           reservedAt : Nat, leaseExpiry : Nat]

(***************************************************************************)
(* "recovering": took over a reservation and has not rebuilt its rounds.   *)
(* "live": works on a reservation.  "replayed", "completed", "failed": has *)
(* reported that outcome.  "gone": has died, or reported an error.         *)
(* `expiry' is the lease end the invocation last obtained.                 *)
(***************************************************************************)
Pc == {"idle", "recovering", "live", "replayed", "completed", "failed", "gone"}

Process == [pc : Pc, branch : Nat, rounds : Seq(Proc), expiry : Nat]

\* An invocation without a reservation.
Outside(pc) == [pc |-> pc, branch |-> 0, rounds |-> <<>>, expiry |-> 0]

Ids == DOMAIN branches

TypeOK ==
    /\ branches \in Seq(Branch)
    /\ cwd \in Cwd \cup {NoCwd}
    /\ now \in Nat
    /\ proc \in [Proc -> Process]
    /\ \A p \in Proc : proc[p].pc \notin {"idle", "gone"} => proc[p].branch \in Ids

Init ==
    /\ branches = <<>>
    /\ cwd = NoCwd
    /\ now = 1
    /\ proc = [p \in Proc |-> Outside("idle")]

----------------------------------------------------------------------------
(* Which branch a request is about.                                        *)

Completed == {i \in Ids : branches[i].life = "completed"}

\* The newest of a set of branches, as a set: {0} when there is none.
Newest(S) == IF S = {} THEN {0} ELSE {i \in S : \A j \in S : j <= i}

\* select_current: the branch the request names, which must be completed, or else the
\* newest completed one.
Current(named) == IF named = 0 THEN Newest(Completed) ELSE {named} \cap Completed

\* The ancestors of branch i and i itself: what following parent links collects.
Lineage(i) ==
    {j \in 1..i : \A S \in SUBSET (1..i) :
        (i \in S /\ \A k \in S : branches[k].parent # 0 => branches[k].parent \in S)
            => j \in S}

LineageAt(i, turn) == {j \in Lineage(i) : branches[j].turn = turn}

\* request_target and validate_requested_turn; turn 0 stands for no --turn.
ValidTurn(cur, turn) == (cur # 0 /\ turn # 0) => turn <= branches[cur].turn + 1

Target(cur, turn) ==
    IF turn # 0 THEN turn ELSE IF cur = 0 THEN 1 ELSE branches[cur].turn + 1

\* Mutant: siblings under the selected lineage are not looked for.
MatchesLineageOnly(cur, target, prompt) ==
    {j \in Ids : /\ branches[j].turn = target /\ branches[j].prompt = prompt
                 /\ cur # 0 => j \in Lineage(cur)}

\* The branches find_existing considers a match, in its order of preference.
Matches(cur, target, prompt) ==
    LET same == {j \in Ids : branches[j].turn = target /\ branches[j].prompt = prompt}
        ancestor == same \cap Lineage(cur)
    IN  IF cur = 0 THEN same
        ELSE IF ancestor # {} THEN ancestor
        ELSE {j \in same : target > 1 /\ branches[j].parent \in LineageAt(cur, target - 1)}

FindExisting(cur, target, prompt) == Newest(Matches(cur, target, prompt))

\* predecessor_at: the branch at turn target - 1 in the lineage of i.
Predecessor(i, target) ==
    LET below == IF target > 1 THEN LineageAt(i, target - 1) ELSE {}
    IN  IF below = {} THEN {0} ELSE below

FreshParent(cur, turn, target) ==
    IF cur = 0 THEN {0} ELSE IF turn = 0 THEN {cur} ELSE Predecessor(cur, target)

\* Mutant: only failed branches use up an attempt.
NextAttemptAfterFailures(turn, attempt) ==
    attempt = 1 + Cardinality({j \in Ids : branches[j].turn = turn /\ branches[j].life = "failed"})

\* The largest attempt at that turn plus one, or 1.
NextAttempt(turn, attempt) ==
    LET used == {branches[i].attempt : i \in {j \in Ids : branches[j].turn = turn}}
    IN  /\ \A a \in used : a < attempt
        /\ attempt = 1 \/ attempt - 1 \in used

\* Mutant: a new branch is not validated.
ValidBranchUnchecked(turn, parent) == Len(branches) < MaxBranch

\* What SessionState::validate demands of a new pending branch.
ValidBranch(turn, parent) ==
    /\ Len(branches) < MaxBranch
    /\ parent = 0 <=> turn = 1
    /\ parent # 0 => /\ parent \in Completed
                     /\ turn = branches[parent].turn + 1

\* prepare_request_state and request_target accept the request.
Accepts(cur, turn, dir) == cwd \in {NoCwd, dir} /\ ValidTurn(cur, turn)

\* Mutant: the reservation names the id after the one that was reserved.
ReservationOffByOne(pc, id, rounds) ==
    [pc |-> pc, branch |-> id + 1, rounds |-> rounds, expiry |-> now + Lease]

Reservation(pc, id, rounds) ==
    [pc |-> pc, branch |-> id, rounds |-> rounds, expiry |-> now + Lease]

\* The same reservation with another state of the invocation.
Holding(res, pc, rounds, expiry) ==
    [pc |-> pc, branch |-> res.branch, rounds |-> rounds, expiry |-> expiry]

\* Branch b with the fields that a later event may set.
Rewritten(b, life, rounds, owner, reservedAt, leaseExpiry) ==
    [turn |-> b.turn, attempt |-> b.attempt, parent |-> b.parent, prompt |-> b.prompt,
     life |-> life, rounds |-> rounds, owner |-> owner,
     reservedAt |-> reservedAt, leaseExpiry |-> leaseExpiry]

\* push_new_branch and the BranchReserved event it appends.
PushNewBranch(p, turn, parent, prompt, dir) ==
    /\ ValidBranch(turn, parent)
    /\ \E attempt \in 1..(Len(branches) + 1) :
        /\ NextAttempt(turn, attempt)
        /\ branches' = Append(branches,
             [turn |-> turn, attempt |-> attempt, parent |-> parent, prompt |-> prompt,
              life |-> "pending", rounds |-> <<>>, owner |-> p,
              reservedAt |-> now, leaseExpiry |-> now + Lease])
    /\ cwd' = dir
    /\ proc' = [proc EXCEPT ![p] = Reservation("live", Len(branches) + 1, <<>>)]
    /\ UNCHANGED now

\* An invocation that reported an error, or died, has written its last.
Exit(p) ==
    /\ proc' = [proc EXCEPT ![p] = Outside("gone")]
    /\ UNCHANGED <<branches, cwd, now>>

----------------------------------------------------------------------------
(* start_request, one action per outcome.                                  *)

\* A completed match is served from the record; nothing is written.
Replay(p) ==
    \E named \in 0..Len(branches), turn \in 0..MaxTurn,
       prompt \in Prompt, dir \in Cwd : \E cur \in Current(named) :
    LET target == Target(cur, turn) IN
    \E found \in FindExisting(cur, target, prompt) :
        /\ proc[p].pc = "idle" /\ Accepts(cur, turn, dir)
        /\ found # 0 /\ branches[found].life = "completed"
        /\ proc' = [proc EXCEPT ![p] = Reservation("replayed", found, branches[found].rounds)]
        /\ UNCHANGED <<branches, cwd, now>>

\* A failed match is retried as a new branch beside it.
ReserveRetry(p) ==
    \E named \in 0..Len(branches), turn \in 0..MaxTurn,
       prompt \in Prompt, dir \in Cwd : \E cur \in Current(named) :
    LET target == Target(cur, turn) IN
    \E found \in FindExisting(cur, target, prompt) :
        /\ proc[p].pc = "idle" /\ Accepts(cur, turn, dir)
        /\ found # 0 /\ branches[found].life = "failed"
        /\ \E parent \in Predecessor(found, target) :
              PushNewBranch(p, target, parent, prompt, dir)

\* A pending match whose lease is over changes hands; its rounds are kept, but the
\* new owner starts from an empty transcript (reclaim_pending, replay::reclaim).
Reclaim(p) ==
    \E named \in 0..Len(branches), turn \in 0..MaxTurn,
       prompt \in Prompt, dir \in Cwd : \E cur \in Current(named) :
    LET target == Target(cur, turn) IN
    \E found \in FindExisting(cur, target, prompt) :
        /\ proc[p].pc = "idle" /\ Accepts(cur, turn, dir)
        /\ found # 0 /\ branches[found].life = "pending"
        /\ branches[found].leaseExpiry <= now
        /\ branches' = [branches EXCEPT ![found] =
              Rewritten(@, "pending", @.rounds, p, now, now + Lease)]
        /\ proc' = [proc EXCEPT ![p] = Reservation("recovering", found, <<>>)]
        /\ UNCHANGED <<cwd, now>>

\* No match: a new branch under the selected lineage.
ReserveFresh(p) ==
    \E named \in 0..Len(branches), turn \in 0..MaxTurn,
       prompt \in Prompt, dir \in Cwd : \E cur \in Current(named) :
    LET target == Target(cur, turn) IN
    /\ proc[p].pc = "idle" /\ Accepts(cur, turn, dir)
    /\ 0 \in FindExisting(cur, target, prompt)
    /\ \E parent \in FreshParent(cur, turn, target) :
          PushNewBranch(p, target, parent, prompt, dir)

\* A pending match with a live lease belongs to another invocation.
Busy(p) ==
    \E named \in 0..Len(branches), turn \in 0..MaxTurn,
       prompt \in Prompt, dir \in Cwd : \E cur \in Current(named) :
    LET target == Target(cur, turn) IN
    \E found \in FindExisting(cur, target, prompt) :
        /\ proc[p].pc = "idle" /\ Accepts(cur, turn, dir)
        /\ found # 0 /\ branches[found].life = "pending"
        /\ branches[found].leaseExpiry > now
        /\ Exit(p)

\* Errors that write nothing: another workspace, a branch that is not completed, a turn
\* beyond the lineage, a new branch that would not validate.
Invalid(p) ==
    \E named \in 0..Len(branches), turn \in 0..MaxTurn,
       prompt \in Prompt, dir \in Cwd :
        /\ proc[p].pc = "idle"
        /\ \/ Current(named) = {}
           \/ \E cur \in Current(named) : ~Accepts(cur, turn, dir)
           \/ \E cur \in Current(named) :
                LET target == Target(cur, turn) IN
                \E found \in FindExisting(cur, target, prompt) :
                \E parent \in IF found = 0 THEN FreshParent(cur, turn, target)
                              ELSE Predecessor(found, target) :
                    /\ Accepts(cur, turn, dir)
                    /\ found # 0 => branches[found].life = "failed"
                    /\ ~ValidBranch(target, parent)
        /\ Exit(p)

----------------------------------------------------------------------------
(* Work on a reservation.                                                  *)

\* live_branch: turn, attempt and digest never change under one branch id, so the
\* owner, the lifecycle and the lease decide.
Owns(p) ==
    /\ branches[proc[p].branch].life = "pending"
    /\ branches[proc[p].branch].owner = p

Live(p) == Owns(p) /\ branches[proc[p].branch].leaseExpiry > now

IsPrefixOf(s, t) == Len(s) <= Len(t) /\ \A k \in 1..Len(s) : s[k] = t[k]

\* Mutant: the persisted rounds are not compared.
ExtendsUnchecked(p) == TRUE

\* The exact-prefix rule of replay::suffix.
Extends(p) == IsPrefixOf(branches[proc[p].branch].rounds, proc[p].rounds)

Active(p) == proc[p].pc \in {"recovering", "live"}

\* resume_or_begin gives a new owner the rounds its predecessors committed.
Resume(p) ==
    /\ proc[p].pc = "recovering" /\ Live(p)
    /\ proc' = [proc EXCEPT ![p] =
          Holding(@, "live", branches[proc[p].branch].rounds, @.expiry)]
    /\ UNCHANGED <<branches, cwd, now>>

\* A model round and its tools, in the memory of the invocation.
RunRound(p) ==
    /\ proc[p].pc = "live"
    /\ Len(proc[p].rounds) < MaxRound
    /\ proc' = [proc EXCEPT ![p] = Holding(@, "live", Append(@.rounds, p), @.expiry)]
    /\ UNCHANGED <<branches, cwd, now>>

\* Mutant: the renewal is reported and not appended.
RenewLeaseUnpersisted(p) ==
    /\ proc[p].pc = "live" /\ Live(p)
    /\ proc' = [proc EXCEPT ![p] = Holding(@, "live", @.rounds, now + Lease)]
    /\ UNCHANGED <<branches, cwd, now>>

\* renew_lease: only the lease end changes.
RenewLease(p) ==
    /\ proc[p].pc = "live" /\ Live(p)
    /\ branches' = [branches EXCEPT ![proc[p].branch] =
          Rewritten(@, "pending", @.rounds, p, @.reservedAt, now + Lease)]
    /\ proc' = [proc EXCEPT ![p] = Holding(@, "live", @.rounds, now + Lease)]
    /\ UNCHANGED <<cwd, now>>

Checkpoint(p) ==
    /\ proc[p].pc = "live" /\ Live(p) /\ Extends(p)
    /\ branches' = [branches EXCEPT ![proc[p].branch] =
          Rewritten(@, "pending", proc[p].rounds, p, @.reservedAt, now + Lease)]
    /\ proc' = [proc EXCEPT ![p] = Holding(@, "live", @.rounds, now + Lease)]
    /\ UNCHANGED <<cwd, now>>

\* Mutant: the terminal event leaves out the rounds since the last checkpoint.
TerminateWithoutSuffix(p, life) ==
    /\ Active(p) /\ Live(p) /\ Extends(p)
    /\ branches' = [branches EXCEPT ![proc[p].branch] =
          Rewritten(@, life, @.rounds, p, 0, 0)]
    /\ proc' = [proc EXCEPT ![p] = Holding(@, life, @.rounds, 0)]
    /\ UNCHANGED <<cwd, now>>

\* BranchCompleted and BranchFailed append the missing rounds and clear the lease.
Terminate(p, life) ==
    /\ Active(p) /\ Live(p) /\ Extends(p)
    /\ branches' = [branches EXCEPT ![proc[p].branch] =
          Rewritten(@, life, proc[p].rounds, p, 0, 0)]
    /\ proc' = [proc EXCEPT ![p] = Holding(@, life, @.rounds, 0)]
    /\ UNCHANGED <<cwd, now>>

\* A completed branch ends in a round without tool calls, so it has one.
Finalize(p) ==
    proc[p].pc = "live" /\ proc[p].rounds # <<>> /\ Terminate(p, "completed")

Fail(p) == Terminate(p, "failed")

\* An operation refused as Stale, LeaseExpired or Invalid: the turn ends unpersisted.
Rejected(p) ==
    /\ Active(p)
    /\ ~Live(p) \/ ~Extends(p)
    /\ Exit(p)

\* The invocation dies; so does one whose append landed but was reported as failed.
Crash(p) == Active(p) /\ Exit(p)

Tick == now < MaxNow /\ now' = now + 1 /\ UNCHANGED <<branches, cwd, proc>>

Step(p) ==
    \/ Replay(p) \/ ReserveRetry(p) \/ Reclaim(p) \/ ReserveFresh(p) \/ Busy(p) \/ Invalid(p)
    \/ Resume(p) \/ RunRound(p) \/ RenewLease(p) \/ Checkpoint(p)
    \/ Finalize(p) \/ Fail(p) \/ Rejected(p) \/ Crash(p)

Next == Tick \/ \E p \in Proc : Step(p)

Spec == Init /\ [][Next]_vars

----------------------------------------------------------------------------
(* Properties.                                                             *)

\* Two reservations that continue the same branch with the same prompt.
SameContinuation(i, j) ==
    /\ branches[i].turn = branches[j].turn
    /\ branches[i].parent = branches[j].parent
    /\ branches[i].prompt = branches[j].prompt

\* From turn 2 on, a request never reserves beside a pending or completed branch that
\* continues the same parent with the same prompt: it is busy, reclaims it, or replays
\* it (find_existing and reserve_existing); only failed attempts have a successor.
NoDuplicateReservation ==
    \A i, j \in Ids :
        (i < j /\ SameContinuation(i, j) /\ branches[i].turn > 1)
            => branches[i].life = "failed"

\* While a reservation is live, no second invocation holds one for the same turn,
\* parent and prompt: the second request is busy.  Turn 1 included, where find_existing
\* has no predecessor branch to look under.
BusyWhileLive ==
    \A i, j \in Ids :
        (i # j /\ SameContinuation(i, j)
            /\ branches[i].life = "pending" /\ branches[i].leaseExpiry > now)
        => branches[j].life # "pending"

\* Every branch hangs under a completed branch of the turn before, reserved earlier, so
\* the history a request was given is final and its lineage ends in turn 1.
LineageFinal ==
    \A i \in Ids :
        /\ branches[i].parent = 0 <=> branches[i].turn = 1
        /\ branches[i].parent # 0 =>
              /\ branches[i].parent \in Completed /\ branches[i].parent < i
              /\ branches[i].turn = branches[branches[i].parent].turn + 1

\* (turn, attempt) names a branch: retries, forks and duplicates of one turn, under
\* whatever parents, all get attempts of their own (push_new_branch).
AttemptsDistinct ==
    \A i, j \in Ids :
        (branches[i].turn = branches[j].turn /\ branches[i].attempt = branches[j].attempt)
            => i = j

\* Two invocations never both believe that they hold an unexpired lease on one branch:
\* what a stale owner last obtained is over before anyone reclaims.
LeaseExclusive ==
    \A p, q \in Proc :
        /\ Active(p) /\ Active(q) /\ proc[p].branch = proc[q].branch
        /\ proc[p].expiry > now /\ proc[q].expiry > now
        => p = q

\* What an invocation reported stays true: a branch it completed, failed or replayed
\* has that lifecycle and exactly the rounds it saw, whoever came before or after.
ReportedOutcomeStands ==
    \A p \in Proc :
        LET b == branches[proc[p].branch] IN
        /\ proc[p].pc \in {"completed", "replayed"}
              => b.life = "completed" /\ b.rounds = proc[p].rounds
        /\ proc[p].pc = "failed" => b.life = "failed" /\ b.rounds = proc[p].rounds

\* No step rewrites history: branches are only added, a terminal branch never changes,
\* and a pending one only gains rounds, across reclaims too.
HistoryAppendOnly ==
    [][/\ Len(branches) <= Len(branches')
       /\ \A i \in Ids :
            /\ branches[i].life # "pending" => branches'[i] = branches[i]
            /\ IsPrefixOf(branches[i].rounds, branches'[i].rounds)
            /\ branches'[i].parent = branches[i].parent]_vars
=============================================================================
