------------------------ MODULE SessionStore_proofs -------------------------
(***************************************************************************)
(* Proofs about SessionStore, for every set of invocations, prompts and    *)
(* workspaces and every bound.                                             *)
(*                                                                         *)
(* Every step leaves the branches alone, reserves one new branch, or       *)
(* touches one pending branch without changing what identifies it          *)
(* (StepShape).  The invariants about branches need only that, and that a  *)
(* reservation was resolved against the lineage of its parent.             *)
(***************************************************************************)
EXTENDS SessionStore, TLAPS, SequenceTheorems

\* A pending branch is updated in place: a lease event, a checkpoint, a reclaim or the
\* end of the branch.
Touched(i) ==
    /\ i \in Ids
    /\ branches[i].life = "pending"
    /\ \E b \in Branch :
        /\ branches' = [branches EXCEPT ![i] = b]
        /\ b.turn = branches[i].turn
        /\ b.attempt = branches[i].attempt
        /\ b.parent = branches[i].parent
        /\ b.prompt = branches[i].prompt
        /\ IsPrefixOf(branches[i].rounds, b.rounds)

\* A new pending branch is appended.
Pushed(b) ==
    /\ b \in Branch
    /\ b.life = "pending"
    /\ branches' = Append(branches, b)
    /\ NextAttempt(b.turn, b.attempt)
    /\ ValidBranch(b.turn, b.parent)

----------------------------------------------------------------------------
(* The kinds of step an invocation takes.                                  *)

\* It leaves, without a trace.
Left(p) == branches' = branches /\ proc' = [proc EXCEPT ![p] = Outside("gone")]

\* It is served a completed branch.
Served(p) ==
    /\ branches' = branches
    /\ \E i \in Completed :
        proc' = [proc EXCEPT ![p] = Reservation("replayed", i, branches[i].rounds)]

\* It goes on with the reservation it holds.
Continued(p) ==
    /\ Active(p)
    /\ branches' = branches
    /\ \E rounds \in Seq(Proc) :
        proc' = [proc EXCEPT ![p] = Holding(proc[p], "live", rounds, proc[p].expiry)]

\* It reserves a new branch.
Reserved(p, turn, parent, prompt) ==
    /\ \E b : /\ Pushed(b) /\ b.turn = turn /\ b.parent = parent /\ b.prompt = prompt
              /\ b.owner = p /\ b.leaseExpiry = now + Lease
    /\ proc' = [proc EXCEPT ![p] = Reservation("live", Len(branches) + 1, <<>>)]

\* It takes over branch i, whose lease is over.
TookOver(p, i) ==
    /\ Touched(i)
    /\ branches[i].leaseExpiry <= now
    /\ branches'[i].owner = p
    /\ branches'[i].life = "pending"
    /\ branches'[i].leaseExpiry = now + Lease
    /\ proc' = [proc EXCEPT ![p] = Reservation("recovering", i, <<>>)]

\* It writes to the branch it owns, renewing its lease.
Worked(p) ==
    LET i == proc[p].branch IN
    /\ Active(p) /\ Live(p) /\ Touched(i)
    /\ branches'[i].owner = p
    /\ branches'[i].life = "pending"
    /\ branches'[i].leaseExpiry = now + Lease
    /\ proc' = [proc EXCEPT ![p] = Holding(proc[p], "live", proc[p].rounds, now + Lease)]

\* It completes or fails the branch it owns.
Ended(p, life) ==
    LET i == proc[p].branch IN
    /\ Active(p) /\ Live(p) /\ Touched(i)
    /\ branches'[i].life = life
    /\ branches'[i].rounds = proc[p].rounds
    /\ proc' = [proc EXCEPT ![p] = Holding(proc[p], life, proc[p].rounds, 0)]

----------------------------------------------------------------------------
(* Types.                                                                  *)

\* A prefix is one of itself.
LEMMA PrefixReflexive ==
    ASSUME NEW S, NEW s \in Seq(S) PROVE IsPrefixOf(s, s)
BY DEF IsPrefixOf

\* The parts of a sequence with one element appended.
LEMMA AppendFacts ==
    ASSUME NEW S, NEW s \in Seq(S), NEW e \in S
    PROVE  /\ Append(s, e) \in Seq(S)
           /\ Len(Append(s, e)) = Len(s) + 1
           /\ DOMAIN Append(s, e) = 1..(Len(s) + 1)
           /\ Append(s, e)[Len(s) + 1] = e
           /\ \A i \in 1..Len(s) : Append(s, e)[i] = s[i]
OBVIOUS

\* What TypeOK says of one branch and of one invocation.
LEMMA TypeFacts ==
    ASSUME TypeOK
    PROVE  /\ Len(branches) \in Nat
           /\ Ids = 1..Len(branches)
           /\ \A i \in Ids : branches[i] \in Branch
           /\ \A p \in Proc : proc[p] \in Process
           /\ \A p \in Proc : proc[p].pc \notin {"idle", "gone"} => proc[p].branch \in Ids
BY LenProperties, ElementOfSeq DEF TypeOK, Ids

\* A branch a request matched is a branch.
LEMMA FoundIsBranch ==
    ASSUME TypeOK, NEW cur, NEW target, NEW prompt,
           NEW found \in FindExisting(cur, target, prompt), found # 0
    PROVE  /\ found \in Ids
           /\ found \in Matches(cur, target, prompt)
           /\ \A j \in Matches(cur, target, prompt) : j <= found
           /\ branches[found].turn = target
           /\ branches[found].prompt = prompt
<1>1. /\ found \in Matches(cur, target, prompt)
      /\ \A j \in Matches(cur, target, prompt) : j <= found
  BY DEF FindExisting, Newest
<1>2. Matches(cur, target, prompt) \subseteq
        {j \in Ids : branches[j].turn = target /\ branches[j].prompt = prompt}
  BY DEF Matches
<1> QED BY <1>1, <1>2

\* What replacing one branch of the sequence does, and leaves alone.
LEMMA TouchLemma ==
    ASSUME TypeOK, NEW i \in Ids, NEW b \in Branch,
           branches[i].life = "pending",
           branches' = [branches EXCEPT ![i] = b],
           b.turn = branches[i].turn, b.attempt = branches[i].attempt,
           b.parent = branches[i].parent, b.prompt = branches[i].prompt,
           IsPrefixOf(branches[i].rounds, b.rounds)
    PROVE  /\ Touched(i)
           /\ branches' \in Seq(Branch)
           /\ Ids' = Ids
           /\ branches'[i] = b
<1>1. branches \in Seq(Branch) /\ Ids = 1..Len(branches)
  BY TypeFacts DEF TypeOK
<1>2. branches' \in Seq(Branch) /\ Len(branches') = Len(branches)
  BY <1>1, ExceptSeq
<1>3. Ids' = 1..Len(branches')
  BY <1>2, LenProperties DEF Ids
<1>4. branches'[i] = b
  BY DEF Ids
<1> QED BY <1>1, <1>2, <1>3, <1>4 DEF Touched

\* The pointwise view of Touched.
LEMMA TouchedFacts ==
    ASSUME TypeOK, NEW i, Touched(i)
    PROVE  /\ Ids' = Ids /\ Len(branches') = Len(branches)
           /\ \A j \in Ids : j # i => branches'[j] = branches[j]
           /\ \A j \in Ids : /\ branches'[j].turn = branches[j].turn
                             /\ branches'[j].attempt = branches[j].attempt
                             /\ branches'[j].parent = branches[j].parent
                             /\ branches'[j].prompt = branches[j].prompt
           /\ IsPrefixOf(branches[i].rounds, branches'[i].rounds)
<1>1. branches \in Seq(Branch) /\ Ids = 1..Len(branches)
  BY TypeFacts DEF TypeOK
<1>2. PICK b \in Branch :
        /\ branches' = [branches EXCEPT ![i] = b]
        /\ b.turn = branches[i].turn
        /\ b.attempt = branches[i].attempt
        /\ b.parent = branches[i].parent
        /\ b.prompt = branches[i].prompt
        /\ IsPrefixOf(branches[i].rounds, b.rounds)
  BY DEF Touched
<1>3. i \in Ids
  BY DEF Touched
<1>4. Ids' = Ids
  BY <1>2 DEF Ids
<1>5. Len(branches') = Len(branches)
  BY <1>1, <1>2, <1>3, ExceptSeq
<1> QED BY <1>1, <1>2, <1>3, <1>4, <1>5 DEF Ids

\* The pointwise view of Pushed.
LEMMA PushedFacts ==
    ASSUME TypeOK, NEW b, Pushed(b)
    PROVE  /\ branches' \in Seq(Branch)
           /\ Len(branches') = Len(branches) + 1
           /\ Ids' = Ids \cup {Len(branches) + 1}
           /\ Len(branches) + 1 \notin Ids
           /\ branches'[Len(branches) + 1] = b
           /\ \A j \in Ids : branches'[j] = branches[j]
<1>1. /\ branches \in Seq(Branch) /\ Len(branches) \in Nat /\ Ids = 1..Len(branches)
      /\ b \in Branch /\ branches' = Append(branches, b)
  BY TypeFacts DEF TypeOK, Pushed
<1>2. Ids' = 1..(Len(branches) + 1)
  BY <1>1, AppendFacts DEF Ids
<1> QED BY <1>1, <1>2, AppendFacts

\* push_new_branch.
LEMMA PushShape ==
    ASSUME TypeOK, NEW p \in Proc, NEW turn \in Nat, NEW parent \in Nat,
           NEW prompt \in Prompt, NEW dir \in Cwd,
           PushNewBranch(p, turn, parent, prompt, dir)
    PROVE  /\ Reserved(p, turn, parent, prompt)
           /\ TypeOK' /\ now' = now
<1>1. PICK attempt \in 1..(Len(branches) + 1) :
        /\ NextAttempt(turn, attempt)
        /\ branches' = Append(branches,
             [turn |-> turn, attempt |-> attempt, parent |-> parent, prompt |-> prompt,
              life |-> "pending", rounds |-> <<>>, owner |-> p,
              reservedAt |-> now, leaseExpiry |-> now + Lease])
  BY DEF PushNewBranch
<1> DEFINE b == [turn |-> turn, attempt |-> attempt, parent |-> parent, prompt |-> prompt,
                 life |-> "pending", rounds |-> <<>>, owner |-> p,
                 reservedAt |-> now, leaseExpiry |-> now + Lease]
<1>2. now \in Nat /\ Lease \in Nat /\ now + Lease \in Nat /\ Len(branches) \in Nat
  BY BoundsAssumption, TypeFacts DEF TypeOK
<1>3. b \in Branch
  BY <1>2 DEF Branch, Lifecycle
<1>4. Pushed(b)
  BY <1>1, <1>3 DEF Pushed, PushNewBranch
<1>5. /\ branches' \in Seq(Branch) /\ Ids' = Ids \cup {Len(branches) + 1}
  BY <1>4, PushedFacts
<1>6. /\ proc' = [proc EXCEPT ![p] = Reservation("live", Len(branches) + 1, <<>>)]
      /\ Reservation("live", Len(branches) + 1, <<>>) \in Process
      /\ Reservation("live", Len(branches) + 1, <<>>).branch = Len(branches) + 1
  BY <1>2 DEF PushNewBranch, Reservation, Process, Pc
<1>7. cwd' \in Cwd \cup {NoCwd} /\ now' \in Nat
  BY <1>2 DEF PushNewBranch
<1>8. proc' \in [Proc -> Process]
  BY <1>6 DEF TypeOK
<1>9. \A q \in Proc : proc'[q].pc \notin {"idle", "gone"} => proc'[q].branch \in Ids'
  BY <1>5, <1>6 DEF TypeOK
<1>10. TypeOK'
  BY <1>5, <1>7, <1>8, <1>9 DEF TypeOK
<1>11. /\ b.turn = turn /\ b.parent = parent /\ b.prompt = prompt
       /\ b.owner = p /\ b.leaseExpiry = now + Lease
  OBVIOUS
<1> QED BY <1>4, <1>6, <1>10, <1>11 DEF Reserved, PushNewBranch

----------------------------------------------------------------------------
(* Resolving a request.                                                    *)

\* The branch a request selects is completed, and 0 when there is none to select.
LEMMA CurrentType ==
    ASSUME TypeOK, NEW named \in 0..Len(branches), NEW cur \in Current(named)
    PROVE  /\ cur \in Nat
           /\ cur # 0 => cur \in Completed /\ cur \in Ids
           /\ cur = 0 => Completed = {}
<1>1. Ids = 1..Len(branches) /\ Len(branches) \in Nat
  BY TypeFacts
<1>2. Completed \subseteq Ids
  BY DEF Completed
<1> QED BY <1>1, <1>2 DEF Current, Newest

\* The turn a request aims at (resolve_target_turn) is a turn.
LEMMA TargetType ==
    ASSUME TypeOK, NEW cur \in Nat, cur # 0 => cur \in Ids, NEW turn \in 0..MaxTurn
    PROVE  Target(cur, turn) \in Nat
<1>1. cur # 0 => branches[cur].turn \in Nat
  BY TypeFacts DEF Branch
<1> QED BY <1>1, BoundsAssumption DEF Target

\* predecessor_at finds a branch, or 0 when there is none.
LEMMA PredecessorType ==
    ASSUME TypeOK, NEW i \in Ids, NEW target, NEW parent \in Predecessor(i, target)
    PROVE  parent \in Nat
<1>1. i \in Nat
  BY TypeFacts
<1>2. Lineage(i) \subseteq 1..i
  BY DEF Lineage
<1>3. LineageAt(i, target - 1) \subseteq 1..i
  BY <1>2 DEF LineageAt
<1> QED BY <1>1, <1>3 DEF Predecessor

\* The parent of a fresh reservation is a branch, or 0 for a root.
LEMMA FreshParentType ==
    ASSUME TypeOK, NEW cur \in Nat, cur # 0 => cur \in Ids, NEW turn, NEW target,
           NEW parent \in FreshParent(cur, turn, target)
    PROVE  parent \in Nat
BY PredecessorType DEF FreshParent

----------------------------------------------------------------------------
(* The shape of a step.                                                    *)

\* Only the record of one invocation changes.
LEMMA ProcType ==
    ASSUME TypeOK, NEW p \in Proc, NEW r \in Process,
           proc' = [proc EXCEPT ![p] = r],
           r.pc \notin {"idle", "gone"} => r.branch \in Ids,
           branches' \in Seq(Branch), Ids' = Ids,
           cwd' = cwd, now' = now
    PROVE  TypeOK'
<1>1. proc' \in [Proc -> Process]
  BY DEF TypeOK
<1>2. \A q \in Proc : proc'[q].pc \notin {"idle", "gone"} => proc'[q].branch \in Ids'
  BY DEF TypeOK
<1> QED BY <1>1, <1>2 DEF TypeOK

\* Busy, Invalid, Rejected and Crash change the record of one invocation.
LEMMA ExitShape ==
    ASSUME TypeOK, NEW p \in Proc, Exit(p)
    PROVE  Left(p) /\ TypeOK' /\ now' = now
<1>1. Outside("gone") \in Process /\ Outside("gone").pc = "gone"
  BY DEF Outside, Process, Pc
<1>2. branches' \in Seq(Branch) /\ Ids' = Ids
  BY DEF TypeOK, Ids, Exit
<1> QED BY <1>1, <1>2, ProcType DEF Exit, Left

\* Replay hands out a completed branch and writes nothing.
LEMMA ReplayShape ==
    ASSUME TypeOK, NEW p \in Proc, Replay(p)
    PROVE  Served(p) /\ TypeOK' /\ now' = now
<1> DEFINE Change(found) ==
        /\ found # 0 /\ branches[found].life = "completed"
        /\ proc' = [proc EXCEPT ![p] = Reservation("replayed", found, branches[found].rounds)]
        /\ UNCHANGED <<branches, cwd, now>>
<1>1. PICK named \in 0..Len(branches), turn \in 0..MaxTurn, prompt \in Prompt, dir \in Cwd :
      \E cur \in Current(named) : \E found \in FindExisting(cur, Target(cur, turn), prompt) :
        Change(found)
  BY DEF Replay
<1>2. PICK cur \in Current(named) :
        \E found \in FindExisting(cur, Target(cur, turn), prompt) : Change(found)
  BY <1>1
<1>3. PICK found \in FindExisting(cur, Target(cur, turn), prompt) : Change(found)
  BY <1>2
<1>4. found \in Ids /\ found \in Nat
  BY <1>3, FoundIsBranch, TypeFacts
<1>5. branches[found] \in Branch /\ now \in Nat
  BY <1>4, TypeFacts DEF TypeOK
<1>6. branches[found].rounds \in Seq(Proc) /\ now + Lease \in Nat
  BY <1>5, BoundsAssumption DEF Branch
<1> DEFINE r == Reservation("replayed", found, branches[found].rounds)
<1>7. r \in Process /\ r.branch = found
  BY <1>4, <1>6 DEF Reservation, Process, Pc
<1>8. branches' \in Seq(Branch) /\ Ids' = Ids
  BY <1>3 DEF TypeOK, Ids
<1>9. TypeOK'
  BY <1>3, <1>4, <1>7, <1>8, ProcType
<1> QED BY <1>3, <1>4, <1>9 DEF Served, Completed

\* Reclaim changes the owner and the lease of one pending branch.
LEMMA ReclaimShape ==
    ASSUME TypeOK, NEW p \in Proc, Reclaim(p)
    PROVE  (\E i \in Ids : TookOver(p, i)) /\ TypeOK' /\ now' = now
<1> DEFINE Change(found) ==
        /\ found # 0 /\ branches[found].life = "pending"
        /\ branches[found].leaseExpiry <= now
        /\ branches' = [branches EXCEPT ![found] =
              Rewritten(@, "pending", @.rounds, p, now, now + Lease)]
        /\ proc' = [proc EXCEPT ![p] = Reservation("recovering", found, <<>>)]
        /\ UNCHANGED <<cwd, now>>
<1>1. PICK named \in 0..Len(branches), turn \in 0..MaxTurn, prompt \in Prompt, dir \in Cwd :
      \E cur \in Current(named) : \E found \in FindExisting(cur, Target(cur, turn), prompt) :
        Change(found)
  BY DEF Reclaim
<1>2. PICK cur \in Current(named) :
        \E found \in FindExisting(cur, Target(cur, turn), prompt) : Change(found)
  BY <1>1
<1>3. PICK found \in FindExisting(cur, Target(cur, turn), prompt) : Change(found)
  BY <1>2
<1>4. found \in Ids /\ found \in Nat
  BY <1>3, FoundIsBranch, TypeFacts
<1>5. branches[found] \in Branch /\ now \in Nat /\ now + Lease \in Nat
  BY <1>4, TypeFacts, BoundsAssumption DEF TypeOK
<1> DEFINE b == Rewritten(branches[found], "pending", branches[found].rounds, p, now, now + Lease)
<1>6. branches' = [branches EXCEPT ![found] = b]
  BY <1>3
<1>7. /\ b \in Branch
      /\ b.turn = branches[found].turn /\ b.attempt = branches[found].attempt
      /\ b.parent = branches[found].parent /\ b.prompt = branches[found].prompt
      /\ b.rounds = branches[found].rounds
      /\ b.owner = p /\ b.life = "pending" /\ b.leaseExpiry = now + Lease
  BY <1>5 DEF Rewritten, Branch, Lifecycle
<1>8. branches[found].life = "pending" /\ IsPrefixOf(branches[found].rounds, b.rounds)
  BY <1>3, <1>5, <1>7, PrefixReflexive DEF Branch
<1>9. Touched(found) /\ branches' \in Seq(Branch) /\ Ids' = Ids /\ branches'[found] = b
  <2> HIDE DEF b
  <2> QED BY <1>4, <1>6, <1>7, <1>8, TouchLemma
<1> DEFINE r == Reservation("recovering", found, <<>>)
<1>11. r \in Process /\ r.branch = found
  BY <1>4, <1>5 DEF Reservation, Process, Pc
<1>12. TypeOK'
  BY <1>3, <1>4, <1>9, <1>11, ProcType
<1> QED BY <1>3, <1>4, <1>7, <1>9, <1>12 DEF TookOver

\* A reservation beside the branch found, or under the selected lineage.
LEMMA ReserveRetryShape ==
    ASSUME TypeOK, NEW p \in Proc, ReserveRetry(p)
    PROVE  /\ \E named \in 0..Len(branches), turn \in 0..MaxTurn, prompt \in Prompt :
              \E cur \in Current(named) :
              \E found \in FindExisting(cur, Target(cur, turn), prompt) :
              \E parent \in Predecessor(found, Target(cur, turn)) :
                /\ found # 0 /\ branches[found].life = "failed"
                /\ Reserved(p, Target(cur, turn), parent, prompt)
           /\ TypeOK' /\ now' = now
<1> DEFINE Change(cur, turn, found, prompt, dir) ==
        /\ found # 0 /\ branches[found].life = "failed"
        /\ \E parent \in Predecessor(found, Target(cur, turn)) :
              PushNewBranch(p, Target(cur, turn), parent, prompt, dir)
<1>1. PICK named \in 0..Len(branches), turn \in 0..MaxTurn, prompt \in Prompt, dir \in Cwd :
      \E cur \in Current(named) : \E found \in FindExisting(cur, Target(cur, turn), prompt) :
        Change(cur, turn, found, prompt, dir)
  BY DEF ReserveRetry
<1>2. PICK cur \in Current(named) : \E found \in FindExisting(cur, Target(cur, turn), prompt) :
        Change(cur, turn, found, prompt, dir)
  BY <1>1
<1>3. PICK found \in FindExisting(cur, Target(cur, turn), prompt) :
        Change(cur, turn, found, prompt, dir)
  BY <1>2
<1>4. PICK parent \in Predecessor(found, Target(cur, turn)) :
        PushNewBranch(p, Target(cur, turn), parent, prompt, dir)
  BY <1>3
<1>5. found \in Ids
  BY <1>3, FoundIsBranch
<1>6. parent \in Nat
  BY <1>5, PredecessorType
<1>7. cur \in Nat /\ (cur # 0 => cur \in Ids)
  BY CurrentType
<1>8. Target(cur, turn) \in Nat
  BY <1>7, TargetType
<1>9. Reserved(p, Target(cur, turn), parent, prompt) /\ TypeOK' /\ now' = now
  BY <1>4, <1>6, <1>8, PushShape
<1> QED BY <1>3, <1>9

\* A reservation under the selected lineage pushes one pending branch.
LEMMA ReserveFreshShape ==
    ASSUME TypeOK, NEW p \in Proc, ReserveFresh(p)
    PROVE  /\ \E named \in 0..Len(branches), turn \in 0..MaxTurn, prompt \in Prompt :
              \E cur \in Current(named) :
              \E parent \in FreshParent(cur, turn, Target(cur, turn)) :
                /\ 0 \in FindExisting(cur, Target(cur, turn), prompt)
                /\ Reserved(p, Target(cur, turn), parent, prompt)
           /\ TypeOK' /\ now' = now
<1> DEFINE Change(cur, turn, prompt, dir) ==
        /\ 0 \in FindExisting(cur, Target(cur, turn), prompt)
        /\ \E parent \in FreshParent(cur, turn, Target(cur, turn)) :
              PushNewBranch(p, Target(cur, turn), parent, prompt, dir)
<1>1. PICK named \in 0..Len(branches), turn \in 0..MaxTurn, prompt \in Prompt, dir \in Cwd :
      \E cur \in Current(named) : Change(cur, turn, prompt, dir)
  BY DEF ReserveFresh
<1>2. PICK cur \in Current(named) : Change(cur, turn, prompt, dir)
  BY <1>1
<1>3. PICK parent \in FreshParent(cur, turn, Target(cur, turn)) :
        PushNewBranch(p, Target(cur, turn), parent, prompt, dir)
  BY <1>2
<1>4. cur \in Nat /\ (cur # 0 => cur \in Ids)
  BY CurrentType
<1>5. parent \in Nat
  BY <1>4, FreshParentType
<1>6. Target(cur, turn) \in Nat
  BY <1>4, TargetType
<1>7. Reserved(p, Target(cur, turn), parent, prompt) /\ TypeOK' /\ now' = now
  BY <1>3, <1>5, <1>6, PushShape
<1> QED BY <1>2, <1>7

\* What a working invocation knows of its own reservation.
LEMMA ActiveFacts ==
    ASSUME TypeOK, NEW p \in Proc, Active(p)
    PROVE  /\ proc[p] \in Process /\ proc[p].branch \in Ids /\ proc[p].branch \in Nat
           /\ proc[p].rounds \in Seq(Proc) /\ proc[p].expiry \in Nat
           /\ branches[proc[p].branch] \in Branch
           /\ now \in Nat /\ now + Lease \in Nat
<1>1. proc[p] \in Process /\ proc[p].branch \in Ids
  BY TypeFacts DEF Active
<1>2. branches[proc[p].branch] \in Branch /\ now \in Nat
  BY <1>1, TypeFacts DEF TypeOK
<1> QED BY <1>1, <1>2, BoundsAssumption DEF Process

\* The record of the invocation after it went on with its reservation.
LEMMA HoldingType ==
    ASSUME TypeOK, NEW p \in Proc, Active(p), NEW pc \in Pc,
           NEW rounds \in Seq(Proc), NEW expiry \in Nat,
           proc' = [proc EXCEPT ![p] = Holding(proc[p], pc, rounds, expiry)],
           branches' \in Seq(Branch), Ids' = Ids, cwd' = cwd, now' = now
    PROVE  TypeOK'
<1> DEFINE r == Holding(proc[p], pc, rounds, expiry)
<1>1. r \in Process /\ r.branch \in Ids
  BY ActiveFacts DEF Holding, Process
<1> HIDE DEF r
<1>2. proc' = [proc EXCEPT ![p] = r]
  BY DEF r
<1> QED BY <1>1, <1>2, ProcType

\* Resume and RunRound only change the memory of the invocation.
LEMMA MemoryShape ==
    ASSUME TypeOK, NEW p \in Proc, Resume(p) \/ RunRound(p)
    PROVE  Continued(p) /\ TypeOK' /\ now' = now
<1>1. Active(p) /\ UNCHANGED <<branches, cwd, now>>
  BY DEF Resume, RunRound, Active
<1>2. PICK rounds \in Seq(Proc) :
        proc' = [proc EXCEPT ![p] = Holding(proc[p], "live", rounds, proc[p].expiry)]
  <2>1. CASE Resume(p)
    <3>1. branches[proc[p].branch].rounds \in Seq(Proc)
      BY <1>1, ActiveFacts DEF Branch
    <3> QED BY <2>1, <3>1 DEF Resume
  <2>2. CASE RunRound(p)
    <3>1. Append(proc[p].rounds, p) \in Seq(Proc)
      BY <1>1, ActiveFacts
    <3> QED BY <2>2, <3>1 DEF RunRound
  <2> QED BY <2>1, <2>2
<1>3. "live" \in Pc /\ branches' \in Seq(Branch) /\ Ids' = Ids
  BY <1>1 DEF TypeOK, Ids, Pc
<1>4. proc[p].expiry \in Nat
  BY <1>1, ActiveFacts
<1>5. TypeOK'
  BY <1>1, <1>2, <1>3, <1>4, HoldingType
<1> QED BY <1>1, <1>2, <1>5 DEF Continued

\* RenewLease and Checkpoint: the lease is renewed, and rounds are only added.
LEMMA WorkShape ==
    ASSUME TypeOK, NEW p \in Proc, RenewLease(p) \/ Checkpoint(p)
    PROVE  Worked(p) /\ TypeOK' /\ now' = now
<1> DEFINE i == proc[p].branch
<1>1. /\ Active(p) /\ Live(p) /\ UNCHANGED <<cwd, now>>
      /\ proc' = [proc EXCEPT ![p] = Holding(proc[p], "live", proc[p].rounds, now + Lease)]
  BY DEF RenewLease, Checkpoint, Active
<1>2. /\ i \in Ids /\ branches[i] \in Branch /\ now + Lease \in Nat
      /\ proc[p].rounds \in Seq(Proc) /\ "live" \in Pc /\ branches[i].life = "pending"
  BY <1>1, ActiveFacts DEF Pc, Live, Owns
<1>3. branches[i].rounds \in Seq(Proc)
  BY <1>2 DEF Branch
<1>4. PICK rounds \in Seq(Proc) :
        /\ IsPrefixOf(branches[i].rounds, rounds)
        /\ branches' = [branches EXCEPT ![i] =
              Rewritten(branches[i], "pending", rounds, p, branches[i].reservedAt, now + Lease)]
  <2>1. CASE RenewLease(p)
    <3>1. IsPrefixOf(branches[i].rounds, branches[i].rounds)
      BY <1>3, PrefixReflexive
    <3> QED BY <1>3, <2>1, <3>1 DEF RenewLease
  <2>2. CASE Checkpoint(p)
    BY <1>2, <2>2 DEF Checkpoint, Extends
  <2> QED BY <2>1, <2>2
<1> DEFINE b == Rewritten(branches[i], "pending", rounds, p, branches[i].reservedAt, now + Lease)
<1>5. /\ b \in Branch
      /\ b.turn = branches[i].turn /\ b.attempt = branches[i].attempt
      /\ b.parent = branches[i].parent /\ b.prompt = branches[i].prompt
      /\ b.rounds = rounds
      /\ b.owner = p /\ b.life = "pending" /\ b.leaseExpiry = now + Lease
  BY <1>2 DEF Rewritten, Branch, Lifecycle
<1>6. branches' = [branches EXCEPT ![i] = b] /\ IsPrefixOf(branches[i].rounds, b.rounds)
  BY <1>4, <1>5
<1>7. Touched(i) /\ branches' \in Seq(Branch) /\ Ids' = Ids /\ branches'[i] = b
  <2> HIDE DEF b, i
  <2> QED BY <1>2, <1>5, <1>6, TouchLemma
<1>8. TypeOK'
  BY <1>1, <1>2, <1>7, HoldingType
<1> QED BY <1>1, <1>5, <1>7, <1>8 DEF Worked

\* Finalize and Fail.
LEMMA EndShape ==
    ASSUME TypeOK, NEW p \in Proc, NEW life \in {"completed", "failed"}, Terminate(p, life)
    PROVE  Ended(p, life) /\ TypeOK' /\ now' = now
<1> DEFINE i == proc[p].branch
<1>1. /\ Active(p) /\ Live(p) /\ UNCHANGED <<cwd, now>>
      /\ proc' = [proc EXCEPT ![p] = Holding(proc[p], life, proc[p].rounds, 0)]
      /\ IsPrefixOf(branches[i].rounds, proc[p].rounds)
  BY DEF Terminate, Extends
<1>2. /\ i \in Ids /\ branches[i] \in Branch /\ branches[i].life = "pending"
      /\ life \in Pc /\ 0 \in Nat /\ proc[p].rounds \in Seq(Proc)
  BY <1>1, ActiveFacts DEF Pc, Live, Owns
<1> DEFINE b == Rewritten(branches[i], life, proc[p].rounds, p, 0, 0)
<1>3. /\ b \in Branch
      /\ b.turn = branches[i].turn /\ b.attempt = branches[i].attempt
      /\ b.parent = branches[i].parent /\ b.prompt = branches[i].prompt
      /\ b.rounds = proc[p].rounds /\ b.life = life
  BY <1>2 DEF Rewritten, Branch, Lifecycle
<1>4. branches' = [branches EXCEPT ![i] = b] /\ IsPrefixOf(branches[i].rounds, b.rounds)
  BY <1>1, <1>3 DEF Terminate
<1>5. Touched(i) /\ branches' \in Seq(Branch) /\ Ids' = Ids /\ branches'[i] = b
  <2> HIDE DEF b, i
  <2> QED BY <1>2, <1>3, <1>4, TouchLemma
<1>6. TypeOK'
  BY <1>1, <1>2, <1>5, HoldingType
<1> QED BY <1>1, <1>3, <1>5, <1>6 DEF Ended

\* Every step of an invocation is of one of the kinds above.
LEMMA StepShape ==
    ASSUME TypeOK, NEW p \in Proc, Step(p)
    PROVE  /\ \/ Left(p) \/ Served(p) \/ Continued(p) \/ Worked(p)
              \/ \E life \in {"completed", "failed"} : Ended(p, life)
              \/ \E i \in Ids : TookOver(p, i)
              \/ /\ ReserveRetry(p) \/ ReserveFresh(p)
                 /\ \E turn, parent, prompt : Reserved(p, turn, parent, prompt)
           /\ TypeOK' /\ now' = now
<1>1. CASE Replay(p)
  BY <1>1, ReplayShape
<1>2. CASE ReserveRetry(p)
  BY <1>2, ReserveRetryShape
<1>3. CASE Reclaim(p)
  BY <1>3, ReclaimShape
<1>4. CASE ReserveFresh(p)
  BY <1>4, ReserveFreshShape
<1>5. CASE Busy(p) \/ Invalid(p) \/ Rejected(p) \/ Crash(p)
  <2>1. Exit(p)
    BY <1>5 DEF Busy, Invalid, Rejected, Crash
  <2> QED BY <2>1, ExitShape
<1>6. CASE Resume(p) \/ RunRound(p)
  BY <1>6, MemoryShape
<1>7. CASE RenewLease(p) \/ Checkpoint(p)
  BY <1>7, WorkShape
<1>8. CASE Finalize(p) \/ Fail(p)
  <2>1. \E life \in {"completed", "failed"} : Terminate(p, life)
    BY <1>8 DEF Finalize, Fail
  <2> QED BY <2>1, EndShape
<1> QED BY <1>1, <1>2, <1>3, <1>4, <1>5, <1>6, <1>7, <1>8 DEF Step

\* The clock moves and nothing else does, or an invocation takes a step.
LEMMA NextShape ==
    ASSUME TypeOK, [Next]_vars
    PROVE  \/ UNCHANGED <<branches, cwd, proc>> /\ now <= now' /\ now' \in Nat
           \/ \E p \in Proc : Step(p)
<1>1. now \in Nat
  BY DEF TypeOK
<1> QED BY <1>1 DEF Next, Tick, vars

\* The empty session is well typed.
LEMMA InitType == Init => TypeOK
<1> SUFFICES ASSUME Init PROVE TypeOK
  OBVIOUS
<1>1. Outside("idle") \in Process /\ Outside("idle").pc = "idle"
  BY DEF Outside, Process, Pc
<1>2. branches \in Seq(Branch) /\ now \in Nat /\ cwd \in Cwd \cup {NoCwd}
  BY DEF Init
<1>3. proc \in [Proc -> Process] /\ \A p \in Proc : proc[p].pc = "idle"
  BY <1>1 DEF Init
<1> QED BY <1>2, <1>3 DEF TypeOK

\* Every step keeps the session well typed.
LEMMA NextType == TypeOK /\ [Next]_vars => TypeOK'
<1> SUFFICES ASSUME TypeOK, [Next]_vars PROVE TypeOK'
  OBVIOUS
<1>1. CASE UNCHANGED <<branches, cwd, proc>> /\ now' \in Nat
  BY <1>1 DEF TypeOK, Ids
<1>2. CASE \E p \in Proc : Step(p)
  BY <1>2, StepShape
<1> QED BY <1>1, <1>2, NextShape

\* The types of the session state, whatever requests are made and whenever
\* invocations stall or die.
THEOREM TypeCorrect == Spec => []TypeOK
BY InitType, NextType, PTL DEF Spec

----------------------------------------------------------------------------
(* What a step does to the branches.                                       *)

\* The three things that can happen to the branches.
LEMMA BranchShape ==
    ASSUME TypeOK, [Next]_vars
    PROVE  \/ branches' = branches
           \/ \E i \in Ids : Touched(i)
           \/ \E b : Pushed(b) /\ \E p \in Proc : ReserveRetry(p) \/ ReserveFresh(p)
<1>1. CASE \E p \in Proc : Step(p)
  <2>1. PICK p \in Proc : Step(p)
    BY <1>1
  <2>2. ASSUME NEW life \in {"completed", "failed"}, Ended(p, life)
        PROVE  \E i \in Ids : Touched(i)
    BY <2>2 DEF Ended, Touched
  <2>3. Worked(p) => \E i \in Ids : Touched(i)
    BY DEF Worked, Touched
  <2>4. Left(p) \/ Served(p) \/ Continued(p) => branches' = branches
    BY DEF Left, Served, Continued
  <2>5. (\E i \in Ids : TookOver(p, i)) => \E i \in Ids : Touched(i)
    BY DEF TookOver
  <2>6. (\E turn, parent, prompt : Reserved(p, turn, parent, prompt)) => \E b : Pushed(b)
    BY DEF Reserved
  <2> QED BY <2>1, <2>2, <2>3, <2>4, <2>5, <2>6, StepShape
<1> QED BY <1>1, NextShape

\* The history of a session is never rewritten: for every number of invocations,
\* branches are only added, terminal branches never change and pending ones only grow.
THEOREM HistoryIsAppendOnly == Spec => HistoryAppendOnly
<1> DEFINE Grows ==
      /\ Len(branches) <= Len(branches')
      /\ \A i \in Ids :
            /\ branches[i].life # "pending" => branches'[i] = branches[i]
            /\ IsPrefixOf(branches[i].rounds, branches'[i].rounds)
            /\ branches'[i].parent = branches[i].parent
<1>1. TypeOK /\ [Next]_vars => Grows
  <2> SUFFICES ASSUME TypeOK, [Next]_vars PROVE Grows
    OBVIOUS
  <2>1. /\ Len(branches) \in Nat /\ Ids = 1..Len(branches)
        /\ \A i \in Ids : branches[i] \in Branch
    BY TypeFacts
  <2>2. \A i \in Ids : branches[i].rounds \in Seq(Proc)
    BY <2>1 DEF Branch
  <2>3. \A i \in Ids : IsPrefixOf(branches[i].rounds, branches[i].rounds)
    BY <2>2, PrefixReflexive
  <2>4. CASE branches' = branches
    BY <2>1, <2>3, <2>4
  <2>5. ASSUME NEW i \in Ids, Touched(i)
        PROVE  Grows
    <3>1. Len(branches') = Len(branches) /\ branches[i].life = "pending"
      BY <2>5, TouchedFacts DEF Touched
    <3>2. /\ \A j \in Ids : j # i => branches'[j] = branches[j]
          /\ \A j \in Ids : branches'[j].parent = branches[j].parent
          /\ IsPrefixOf(branches[i].rounds, branches'[i].rounds)
      BY <2>5, TouchedFacts
    <3> QED BY <2>1, <2>3, <3>1, <3>2
  <2>6. ASSUME NEW b, Pushed(b)
        PROVE  Grows
    <3>1. Len(branches') = Len(branches) + 1 /\ \A j \in Ids : branches'[j] = branches[j]
      BY <2>6, PushedFacts
    <3> QED BY <2>1, <2>3, <3>1
  <2> QED BY <2>4, <2>5, <2>6, BranchShape
<1>2. TypeOK /\ [Next]_vars => [Grows]_vars
  BY <1>1
<1> QED BY <1>2, TypeCorrect, PTL DEF Spec, HistoryAppendOnly

\* LineageFinal and AttemptsDistinct are inductive together with TypeOK.
LEMMA LineageStep ==
    ASSUME TypeOK, LineageFinal, [Next]_vars
    PROVE  LineageFinal'
<1>0. Len(branches) \in Nat /\ Ids = 1..Len(branches)
  BY TypeFacts
<1>1. CASE branches' = branches
  BY <1>1 DEF LineageFinal, Completed, Ids
<1>2. ASSUME NEW i \in Ids, Touched(i)
      PROVE  LineageFinal'
  <2>1. /\ Ids' = Ids
        /\ \A j \in Ids : j # i => branches'[j] = branches[j]
        /\ \A j \in Ids : /\ branches'[j].turn = branches[j].turn
                          /\ branches'[j].parent = branches[j].parent
    BY <1>2, TouchedFacts
  <2>2. Completed \subseteq Completed'
    BY <1>2, <2>1 DEF Completed, Touched
  <2> QED BY <2>1, <2>2 DEF LineageFinal, Completed
<1>3. ASSUME NEW b, Pushed(b)
      PROVE  LineageFinal'
  <2> DEFINE n == Len(branches) + 1
  <2>1. /\ Ids' = Ids \cup {n} /\ n \notin Ids /\ branches'[n] = b
        /\ \A j \in Ids : branches'[j] = branches[j]
    BY <1>3, PushedFacts
  <2>2. Completed \subseteq Completed' /\ Completed \subseteq Ids
    BY <2>1 DEF Completed
  <2>3. ValidBranch(b.turn, b.parent)
    BY <1>3 DEF Pushed
  <2>4. /\ b.parent = 0 <=> b.turn = 1
        /\ b.parent # 0 => /\ b.parent \in Completed
                           /\ b.turn = branches[b.parent].turn + 1
    BY <2>3 DEF ValidBranch
  <2>5. ASSUME NEW j \in Ids'
        PROVE  /\ branches'[j].parent = 0 <=> branches'[j].turn = 1
               /\ branches'[j].parent # 0 =>
                    /\ branches'[j].parent \in Completed' /\ branches'[j].parent < j
                    /\ branches'[j].turn = branches'[branches'[j].parent].turn + 1
    <3>1. CASE j = n
      <4>1. branches'[j] = b
        BY <2>1, <3>1
      <4>2. b.parent # 0 => /\ b.parent \in Completed' /\ b.parent < j
                            /\ branches'[b.parent] = branches[b.parent]
        BY <1>0, <2>1, <2>2, <2>4, <3>1
      <4> QED BY <2>4, <4>1, <4>2
    <3>2. CASE j \in Ids
      BY <2>1, <2>2, <3>2 DEF LineageFinal
    <3> QED BY <2>1, <2>5, <3>1, <3>2
  <2> QED BY <2>5 DEF LineageFinal
<1> QED BY <1>1, <1>2, <1>3, BranchShape

\* Every branch hangs under a completed, earlier branch of the turn before: the history
\* a request was given never changes afterwards.
THEOREM LineageIsFinal == Spec => []LineageFinal
<1>1. Init => LineageFinal
  BY DEF Init, LineageFinal, Ids
<1>2. TypeOK /\ LineageFinal /\ [Next]_vars => LineageFinal'
  BY LineageStep
<1> QED BY <1>1, <1>2, TypeCorrect, PTL DEF Spec

\* push_new_branch numbers an attempt past every one of its turn.
LEMMA AttemptsStep ==
    ASSUME TypeOK, AttemptsDistinct, [Next]_vars
    PROVE  AttemptsDistinct'
<1>1. CASE branches' = branches
  BY <1>1 DEF AttemptsDistinct, Ids
<1>2. ASSUME NEW i \in Ids, Touched(i)
      PROVE  AttemptsDistinct'
  <2>1. /\ Ids' = Ids
        /\ \A j \in Ids : /\ branches'[j].turn = branches[j].turn
                          /\ branches'[j].attempt = branches[j].attempt
    BY <1>2, TouchedFacts
  <2> QED BY <2>1 DEF AttemptsDistinct
<1>3. ASSUME NEW b, Pushed(b)
      PROVE  AttemptsDistinct'
  <2> DEFINE n == Len(branches) + 1
  <2>1. /\ Ids' = Ids \cup {n} /\ n \notin Ids /\ branches'[n] = b
        /\ \A j \in Ids : branches'[j] = branches[j]
    BY <1>3, PushedFacts
  <2>2. \A j \in Ids : branches[j].turn = b.turn => branches[j].attempt # b.attempt
    <3>1. NextAttempt(b.turn, b.attempt) /\ b \in Branch
      BY <1>3 DEF Pushed
    <3>2. \A j \in Ids : branches[j].turn = b.turn => branches[j].attempt < b.attempt
      BY <3>1 DEF NextAttempt
    <3>3. b.attempt \in Nat
      BY <3>1 DEF Branch
    <3> QED BY <3>2, <3>3
  <2> QED BY <2>1, <2>2 DEF AttemptsDistinct
<1> QED BY <1>1, <1>2, <1>3, BranchShape

\* A turn and an attempt name at most one branch.
THEOREM AttemptsAreDistinct == Spec => []AttemptsDistinct
<1>1. Init => AttemptsDistinct
  BY DEF Init, AttemptsDistinct, Ids
<1>2. TypeOK /\ AttemptsDistinct /\ [Next]_vars => AttemptsDistinct'
  BY AttemptsStep
<1> QED BY <1>1, <1>2, TypeCorrect, PTL DEF Spec

----------------------------------------------------------------------------
(* No duplicate reservations.                                              *)

\* A set of branches that holds i and the parents of its members holds i's lineage.
LEMMA LineageInClosedSet ==
    ASSUME NEW i, NEW S \in SUBSET (1..i), i \in S,
           \A k \in S : branches[k].parent # 0 => branches[k].parent \in S
    PROVE  Lineage(i) \subseteq S
BY DEF Lineage

\* The lineage of a completed branch is completed.
LEMMA LineageCompleted ==
    ASSUME TypeOK, LineageFinal, NEW i \in Completed
    PROVE  Lineage(i) \subseteq Completed
<1> DEFINE S == (1..i) \cap Completed
<1>1. i \in Nat \ {0} /\ Completed \subseteq Ids
  BY TypeFacts DEF Completed
<1>2. \A k \in Ids : branches[k].parent \in Nat
  BY TypeFacts DEF Branch
<1>3. S \in SUBSET (1..i) /\ i \in S
  BY <1>1
<1>4. \A k \in S : branches[k].parent # 0 => branches[k].parent \in S
  BY <1>1, <1>2 DEF LineageFinal
<1> HIDE DEF S
<1>5. Lineage(i) \subseteq S
  BY <1>3, <1>4, LineageInClosedSet
<1> QED BY <1>5 DEF S

\* predecessor_at, applied to the lineage of a branch, finds the parent of that branch.
LEMMA PredecessorIsParent ==
    ASSUME TypeOK, LineageFinal, NEW f \in Ids,
           NEW parent \in LineageAt(f, branches[f].turn - 1)
    PROVE  parent = branches[f].parent
<1> DEFINE up == branches[f].parent
           S == {k \in 1..f : k = f \/ k = up \/ branches[k].turn < branches[f].turn - 1}
<1>1. /\ Len(branches) \in Nat /\ Ids = 1..Len(branches) /\ f \in Nat /\ f >= 1
      /\ 1..f \subseteq Ids
  BY TypeFacts
<1>2. \A k \in Ids : branches[k].parent \in Nat /\ branches[k].turn \in Nat
  BY TypeFacts DEF Branch
<1>3. \A k \in 1..f : branches[k].parent # 0 =>
        /\ branches[k].parent \in 1..f
        /\ branches[k].turn = branches[branches[k].parent].turn + 1
  <2> SUFFICES ASSUME NEW k \in 1..f, branches[k].parent # 0
               PROVE  /\ branches[k].parent \in 1..f
                      /\ branches[k].turn = branches[branches[k].parent].turn + 1
    OBVIOUS
  <2>1. k \in Ids /\ branches[k].parent \in Nat
    BY <1>1, <1>2
  <2>2. branches[k].parent < k /\ branches[k].turn = branches[branches[k].parent].turn + 1
    BY <2>1 DEF LineageFinal
  <2> QED BY <1>1, <2>1, <2>2
<1>4. ASSUME NEW k \in S, branches[k].parent # 0
      PROVE  branches[k].parent \in S
  <2>1. /\ k \in 1..f /\ branches[k].parent \in 1..f
        /\ branches[k].turn = branches[branches[k].parent].turn + 1
    BY <1>3, <1>4
  <2>2. /\ branches[k].turn \in Nat /\ branches[f].turn \in Nat
        /\ branches[branches[k].parent].turn \in Nat
    BY <1>1, <1>2, <2>1
  <2>3. CASE k = f
    BY <2>1, <2>3
  <2>4. CASE k = up /\ k # f
    <3>1. up # 0 /\ branches[f].turn = branches[up].turn + 1
      BY <1>1, <1>3, <2>1, <2>4
    <3>2. branches[branches[k].parent].turn < branches[f].turn - 1
      BY <2>1, <2>2, <2>4, <3>1
    <3> QED BY <2>1, <3>2
  <2>5. CASE branches[k].turn < branches[f].turn - 1
    <3>1. branches[branches[k].parent].turn < branches[f].turn - 1
      BY <2>1, <2>2, <2>5
    <3> QED BY <2>1, <3>1
  <2> QED BY <1>4, <2>3, <2>4, <2>5
<1>5. S \in SUBSET (1..f) /\ f \in S
  BY <1>1
<1>6. Lineage(f) \subseteq S
  <2> HIDE DEF S
  <2> QED BY <1>4, <1>5, LineageInClosedSet
<1>7. parent \in S /\ branches[parent].turn = branches[f].turn - 1
  BY <1>6 DEF LineageAt
<1>8. branches[f].turn \in Nat
  BY <1>2
<1> QED BY <1>7, <1>8

\* A branch is in its own lineage.
LEMMA LineageReflexive ==
    ASSUME NEW i \in Nat \ {0} PROVE i \in Lineage(i)
BY DEF Lineage

\* The parent of a new branch from turn 2 on, and what find_existing saw under it.
LEMMA FreshIsUnmatched ==
    ASSUME TypeOK, NEW named \in 0..Len(branches), NEW turn \in 0..MaxTurn, NEW prompt,
           NEW cur \in Current(named),
           NEW parent \in FreshParent(cur, turn, Target(cur, turn)),
           0 \in FindExisting(cur, Target(cur, turn), prompt),
           parent # 0,
           NEW i \in Ids, branches[i].turn = Target(cur, turn),
           branches[i].prompt = prompt, branches[i].parent = parent,
           Target(cur, turn) > 1
    PROVE  FALSE
<1> DEFINE target == Target(cur, turn)
<1>1. cur \in Nat \ {0} /\ cur \in Ids
  BY CurrentType DEF FreshParent
<1>2. branches[cur].turn \in Nat /\ target \in Nat
  BY <1>1, TypeFacts DEF Branch
<1>3. parent \in LineageAt(cur, target - 1)
  <2>1. CASE turn = 0
    <3>1. parent = cur /\ target = branches[cur].turn + 1
      BY <1>1, <2>1 DEF FreshParent, Target
    <3> QED BY <1>1, <1>2, <3>1, LineageReflexive DEF LineageAt
  <2>2. CASE turn # 0
    <3>1. parent \in Predecessor(cur, target)
      BY <1>1, <2>2 DEF FreshParent
    <3> QED BY <3>1 DEF Predecessor
  <2> QED BY <2>1, <2>2
<1>4. Matches(cur, target, prompt) # {}
  BY <1>1, <1>3 DEF Matches
<1>5. Matches(cur, target, prompt) \subseteq Ids
  BY DEF Matches
<1>6. 0 \notin Ids
  BY TypeFacts
<1> QED BY <1>4, <1>5, <1>6 DEF FindExisting, Newest

\* A failed match is the newest branch of its continuation.
LEMMA RetryIsNewest ==
    ASSUME TypeOK, LineageFinal, NEW named \in 0..Len(branches), NEW turn \in 0..MaxTurn,
           NEW prompt, NEW cur \in Current(named),
           NEW found \in FindExisting(cur, Target(cur, turn), prompt),
           found # 0, branches[found].life = "failed",
           NEW parent \in Predecessor(found, Target(cur, turn)),
           parent # 0, Target(cur, turn) > 1
    PROVE  /\ found \in Ids /\ SameContinuation(found, found)
           /\ branches[found].turn = Target(cur, turn)
           /\ branches[found].prompt = prompt
           /\ branches[found].parent = parent
           /\ \A i \in Ids : SameContinuation(i, found) => i <= found
<1> DEFINE target == Target(cur, turn)
<1>1. /\ found \in Ids /\ found \in Matches(cur, target, prompt)
      /\ \A j \in Matches(cur, target, prompt) : j <= found
      /\ branches[found].turn = target /\ branches[found].prompt = prompt
  BY FoundIsBranch
<1>2. parent = branches[found].parent
  <2>1. parent \in LineageAt(found, branches[found].turn - 1)
    BY <1>1 DEF Predecessor
  <2> QED BY <1>1, <2>1, PredecessorIsParent
<1>3. ASSUME NEW i \in Ids, SameContinuation(i, found)
      PROVE  i <= found
  <2>1. /\ branches[i].turn = target /\ branches[i].prompt = prompt
        /\ branches[i].parent = branches[found].parent
    BY <1>1, <1>3 DEF SameContinuation
  <2>2. CASE cur = 0
    BY <1>1, <2>1, <2>2 DEF Matches
  <2>3. CASE cur # 0
    <3>1. cur \in Completed
      BY <2>3, CurrentType
    <3>2. Lineage(cur) \subseteq Completed
      BY <3>1, LineageCompleted
    <3>3. found \notin Lineage(cur)
      BY <3>2 DEF Completed
    <3>4. i \in Matches(cur, target, prompt)
      BY <1>1, <2>1, <2>3, <3>3 DEF Matches
    <3> QED BY <1>1, <3>4
  <2> QED BY <2>2, <2>3
<1> QED BY <1>1, <1>2, <1>3 DEF SameContinuation

\* What a new branch from turn 2 on stands beside.
LEMMA BesideFailed ==
    ASSUME TypeOK, LineageFinal, NoDuplicateReservation,
           NEW p \in Proc, ReserveRetry(p) \/ ReserveFresh(p)
    PROVE  \E b : /\ Pushed(b)
                  /\ \A i \in Ids :
                        (/\ branches[i].turn = b.turn /\ branches[i].parent = b.parent
                         /\ branches[i].prompt = b.prompt /\ b.turn > 1)
                        => branches[i].life = "failed"
<1>0. \A i \in Ids : i \in Nat
  BY TypeFacts
<1>1. CASE ReserveRetry(p)
  <2>1. PICK named \in 0..Len(branches), turn \in 0..MaxTurn, prompt \in Prompt :
          \E cur \in Current(named) :
          \E found \in FindExisting(cur, Target(cur, turn), prompt) :
          \E parent \in Predecessor(found, Target(cur, turn)) :
            /\ found # 0 /\ branches[found].life = "failed"
            /\ Reserved(p, Target(cur, turn), parent, prompt)
    BY <1>1, ReserveRetryShape
  <2>2. PICK cur \in Current(named) :
          \E found \in FindExisting(cur, Target(cur, turn), prompt) :
          \E parent \in Predecessor(found, Target(cur, turn)) :
            /\ found # 0 /\ branches[found].life = "failed"
            /\ Reserved(p, Target(cur, turn), parent, prompt)
    BY <2>1
  <2>3. PICK found \in FindExisting(cur, Target(cur, turn), prompt) :
          \E parent \in Predecessor(found, Target(cur, turn)) :
            /\ found # 0 /\ branches[found].life = "failed"
            /\ Reserved(p, Target(cur, turn), parent, prompt)
    BY <2>2
  <2>4. PICK parent \in Predecessor(found, Target(cur, turn)) :
            Reserved(p, Target(cur, turn), parent, prompt)
    BY <2>3
  <2>5. PICK b : Pushed(b) /\ b.turn = Target(cur, turn) /\ b.parent = parent
                 /\ b.prompt = prompt
    BY <2>4 DEF Reserved
  <2>6. ValidBranch(b.turn, b.parent) /\ b.turn \in Nat
    BY <2>5 DEF Pushed, Branch
  <2>7. ASSUME NEW i \in Ids, b.turn > 1,
               branches[i].turn = b.turn, branches[i].parent = b.parent,
               branches[i].prompt = b.prompt
        PROVE  branches[i].life = "failed"
    <3>1. parent # 0 /\ Target(cur, turn) > 1
      BY <2>5, <2>6, <2>7 DEF ValidBranch
    <3>2. /\ found \in Ids
          /\ branches[found].turn = Target(cur, turn)
          /\ branches[found].prompt = prompt
          /\ branches[found].parent = parent
          /\ \A k \in Ids : SameContinuation(k, found) => k <= found
      BY <2>3, <3>1, RetryIsNewest
    <3>3. SameContinuation(i, found)
      BY <2>5, <2>7, <3>2 DEF SameContinuation
    <3>4. i <= found
      BY <3>2, <3>3
    <3> QED BY <1>0, <2>3, <2>5, <2>7, <3>1, <3>2, <3>3, <3>4 DEF NoDuplicateReservation
  <2> QED BY <2>5, <2>7
<1>2. CASE ReserveFresh(p)
  <2>1. PICK named \in 0..Len(branches), turn \in 0..MaxTurn, prompt \in Prompt :
          \E cur \in Current(named) :
          \E parent \in FreshParent(cur, turn, Target(cur, turn)) :
            /\ 0 \in FindExisting(cur, Target(cur, turn), prompt)
            /\ Reserved(p, Target(cur, turn), parent, prompt)
    BY <1>2, ReserveFreshShape
  <2>2. PICK cur \in Current(named) :
          \E parent \in FreshParent(cur, turn, Target(cur, turn)) :
            /\ 0 \in FindExisting(cur, Target(cur, turn), prompt)
            /\ Reserved(p, Target(cur, turn), parent, prompt)
    BY <2>1
  <2>3. PICK parent \in FreshParent(cur, turn, Target(cur, turn)) :
            /\ 0 \in FindExisting(cur, Target(cur, turn), prompt)
            /\ Reserved(p, Target(cur, turn), parent, prompt)
    BY <2>2
  <2>4. PICK b : Pushed(b) /\ b.turn = Target(cur, turn) /\ b.parent = parent
                 /\ b.prompt = prompt
    BY <2>3 DEF Reserved
  <2>5. ValidBranch(b.turn, b.parent) /\ b.turn \in Nat
    BY <2>4 DEF Pushed, Branch
  <2>6. ASSUME NEW i \in Ids, b.turn > 1,
               branches[i].turn = b.turn, branches[i].parent = b.parent,
               branches[i].prompt = b.prompt
        PROVE  FALSE
    <3>1. parent # 0
      BY <2>4, <2>5, <2>6 DEF ValidBranch
    <3> QED BY <2>3, <2>4, <2>6, <3>1, FreshIsUnmatched
  <2> QED BY <2>4, <2>6
<1> QED BY <1>1, <1>2

\* No step reserves what another pending or completed branch stands for.
LEMMA NoDuplicateStep ==
    ASSUME TypeOK, LineageFinal, NoDuplicateReservation, [Next]_vars
    PROVE  NoDuplicateReservation'
<1>0. Ids = 1..Len(branches) /\ Len(branches) \in Nat
  BY TypeFacts
<1>1. CASE branches' = branches
  BY <1>1 DEF NoDuplicateReservation, SameContinuation, Ids
<1>2. ASSUME NEW i \in Ids, Touched(i)
      PROVE  NoDuplicateReservation'
  <2>1. /\ Ids' = Ids
        /\ \A j \in Ids : j # i => branches'[j] = branches[j]
        /\ \A j \in Ids : /\ branches'[j].turn = branches[j].turn
                          /\ branches'[j].parent = branches[j].parent
                          /\ branches'[j].prompt = branches[j].prompt
    BY <1>2, TouchedFacts
  <2>2. branches[i].life = "pending"
    BY <1>2 DEF Touched
  <2>3. \A j, k \in Ids : SameContinuation(j, k)' => SameContinuation(j, k)
    BY <2>1 DEF SameContinuation
  <2> QED BY <2>1, <2>2, <2>3 DEF NoDuplicateReservation
<1>3. ASSUME NEW p \in Proc, ReserveRetry(p) \/ ReserveFresh(p)
      PROVE  NoDuplicateReservation'
  <2>1. PICK b : /\ Pushed(b)
                 /\ \A i \in Ids :
                        (/\ branches[i].turn = b.turn /\ branches[i].parent = b.parent
                         /\ branches[i].prompt = b.prompt /\ b.turn > 1)
                        => branches[i].life = "failed"
    BY <1>3, BesideFailed
  <2> DEFINE n == Len(branches) + 1
  <2>2. /\ Ids' = Ids \cup {n} /\ n \notin Ids /\ branches'[n] = b
        /\ \A j \in Ids : branches'[j] = branches[j]
    BY <2>1, PushedFacts
  <2>3. ASSUME NEW i \in Ids', NEW j \in Ids', i < j, SameContinuation(i, j)',
               branches'[i].turn > 1
        PROVE  branches'[i].life = "failed"
    <3>1. i \in Ids
      BY <1>0, <2>2, <2>3
    <3>2. CASE j = n
      BY <2>1, <2>2, <2>3, <3>1, <3>2 DEF SameContinuation
    <3>3. CASE j \in Ids
      <4>1. SameContinuation(i, j)
        BY <2>2, <2>3, <3>1, <3>3 DEF SameContinuation
      <4> QED BY <2>2, <2>3, <3>1, <3>3, <4>1 DEF NoDuplicateReservation
    <3> QED BY <2>2, <3>2, <3>3
  <2> QED BY <2>3 DEF NoDuplicateReservation
<1> QED BY <1>1, <1>2, <1>3, BranchShape

\* From turn 2 on no request, however it names its turn and branch and whoever else is
\* at work, reserves a second time what is pending or completed.
THEOREM ReservationsAreUnique == Spec => []NoDuplicateReservation
<1>1. Init => NoDuplicateReservation
  BY DEF Init, NoDuplicateReservation, Ids
<1>2. TypeOK /\ LineageFinal /\ NoDuplicateReservation /\ [Next]_vars
        => NoDuplicateReservation'
  BY NoDuplicateStep
<1> QED BY <1>1, <1>2, TypeCorrect, LineageIsFinal, PTL DEF Spec

----------------------------------------------------------------------------
(* Leases and reported outcomes.                                           *)

\* The owner of a pending branch knows how long its lease runs; what any other
\* invocation remembers of a lease on it is over.
LeaseKnown ==
    \A p \in Proc : Active(p) =>
        IF Owns(p) THEN proc[p].expiry = branches[proc[p].branch].leaseExpiry
        ELSE proc[p].expiry <= now

\* LeaseKnown says of q what it said before, when neither q nor its branch changed.
LEMMA LeaseKnownKept ==
    ASSUME TypeOK, LeaseKnown, NEW q \in Proc, proc'[q] = proc[q], now' = now,
           proc[q].branch \in Ids => branches'[proc[q].branch] = branches[proc[q].branch],
           Active(q)'
    PROVE  IF Owns(q)' THEN proc'[q].expiry = branches'[proc'[q].branch].leaseExpiry
           ELSE proc'[q].expiry <= now'
<1>1. Active(q)
  BY DEF Active
<1>2. proc[q].branch \in Ids
  BY <1>1, ActiveFacts
<1> QED BY <1>1, <1>2 DEF LeaseKnown, Owns

\* The strengthening of LeaseExclusive: every step keeps what invocations know.
LEMMA LeaseStep ==
    ASSUME TypeOK, LeaseKnown, NEW p \in Proc, Step(p)
    PROVE  LeaseKnown'
<1> DEFINE Known(q) == IF Owns(q) THEN proc[q].expiry = branches[proc[q].branch].leaseExpiry
                       ELSE proc[q].expiry <= now
<1>0. /\ now' = now /\ now \in Nat /\ Lease \in Nat /\ proc \in [Proc -> Process]
  BY StepShape, BoundsAssumption DEF TypeOK
<1>1. CASE Left(p) \/ Served(p) \/ Continued(p)
  <2>1. branches' = branches
    BY <1>1 DEF Left, Served, Continued
  <2>2. \A q \in Proc \ {p} : proc'[q] = proc[q]
    BY <1>0, <1>1 DEF Left, Served, Continued
  <2>3. Active(p)' => /\ Active(p) /\ proc'[p].branch = proc[p].branch
                      /\ proc'[p].expiry = proc[p].expiry
    BY <1>0, <1>1 DEF Left, Served, Continued, Active, Outside, Reservation, Holding
  <2> QED BY <1>0, <2>1, <2>2, <2>3 DEF LeaseKnown, Active, Owns
<1>2. CASE Worked(p)
  <2>1. /\ \A q \in Proc \ {p} : proc'[q] = proc[q]
        /\ proc'[p].branch = proc[p].branch /\ proc'[p].expiry = now + Lease
    BY <1>0, <1>2 DEF Worked, Holding
  <2>2. /\ Touched(proc[p].branch) /\ Live(p)
        /\ branches'[proc[p].branch].owner = p
        /\ branches'[proc[p].branch].leaseExpiry = now + Lease
        /\ branches'[proc[p].branch].life = "pending"
    BY <1>2 DEF Worked
  <2>3. \A j \in Ids : j # proc[p].branch => branches'[j] = branches[j]
    BY <2>2, TouchedFacts
  <2>4. ASSUME NEW q \in Proc, Active(q)' PROVE Known(q)'
    <3>1. CASE q = p
      BY <2>1, <2>2, <3>1 DEF Owns
    <3>2. CASE q # p /\ proc[q].branch = proc[p].branch
      BY <1>0, <2>1, <2>2, <2>4, <3>2 DEF LeaseKnown, Live, Owns, Active
    <3>3. CASE q # p /\ proc[q].branch # proc[p].branch
      BY <1>0, <2>1, <2>3, <2>4, <3>3, LeaseKnownKept
    <3> QED BY <3>1, <3>2, <3>3
  <2> QED BY <2>4 DEF LeaseKnown
<1>3. ASSUME NEW life \in {"completed", "failed"}, Ended(p, life)
      PROVE  LeaseKnown'
  <2>1. /\ \A q \in Proc \ {p} : proc'[q] = proc[q]
        /\ proc'[p].pc = life
    BY <1>0, <1>3 DEF Ended, Holding
  <2>2. /\ Touched(proc[p].branch) /\ Live(p)
        /\ branches'[proc[p].branch].life = life
    BY <1>3 DEF Ended
  <2>3. \A j \in Ids : j # proc[p].branch => branches'[j] = branches[j]
    BY <2>2, TouchedFacts
  <2>4. ASSUME NEW q \in Proc, Active(q)' PROVE Known(q)'
    <3>1. q # p
      BY <2>1, <2>4 DEF Active
    <3>2. CASE proc[q].branch = proc[p].branch
      BY <1>0, <2>1, <2>2, <2>4, <3>1, <3>2 DEF LeaseKnown, Live, Owns, Active
    <3>3. CASE proc[q].branch # proc[p].branch
      BY <1>0, <2>1, <2>3, <2>4, <3>1, <3>3, LeaseKnownKept
    <3> QED BY <3>2, <3>3
  <2> QED BY <2>4 DEF LeaseKnown
<1>4. ASSUME NEW i \in Ids, TookOver(p, i)
      PROVE  LeaseKnown'
  <2>1. /\ \A q \in Proc \ {p} : proc'[q] = proc[q]
        /\ proc'[p].branch = i /\ proc'[p].expiry = now + Lease
    BY <1>0, <1>4 DEF TookOver, Reservation
  <2>2. /\ Touched(i) /\ branches[i].leaseExpiry <= now
        /\ branches'[i].owner = p
        /\ branches'[i].leaseExpiry = now + Lease
        /\ branches'[i].life = "pending"
    BY <1>4 DEF TookOver
  <2>3. \A j \in Ids : j # i => branches'[j] = branches[j]
    BY <2>2, TouchedFacts
  <2>4. ASSUME NEW q \in Proc, Active(q)' PROVE Known(q)'
    <3>1. CASE q = p
      BY <2>1, <2>2, <3>1 DEF Owns
    <3>2. CASE q # p /\ proc[q].branch = i
      BY <1>0, <2>1, <2>2, <2>4, <3>2 DEF LeaseKnown, Owns, Active
    <3>3. CASE q # p /\ proc[q].branch # i
      BY <1>0, <2>1, <2>3, <2>4, <3>3, LeaseKnownKept
    <3> QED BY <3>1, <3>2, <3>3
  <2> QED BY <2>4 DEF LeaseKnown
<1>5. ASSUME NEW turn, NEW parent, NEW prompt, Reserved(p, turn, parent, prompt)
      PROVE  LeaseKnown'
  <2>1. PICK b : /\ Pushed(b) /\ b.owner = p /\ b.leaseExpiry = now + Lease
    BY <1>5 DEF Reserved
  <2> DEFINE n == Len(branches) + 1
  <2>2. /\ \A q \in Proc \ {p} : proc'[q] = proc[q]
        /\ proc'[p].branch = n /\ proc'[p].expiry = now + Lease
    BY <1>0, <1>5 DEF Reserved, Reservation
  <2>3. branches'[n] = b /\ \A j \in Ids : branches'[j] = branches[j]
    BY <2>1, PushedFacts
  <2>4. ASSUME NEW q \in Proc, Active(q)' PROVE Known(q)'
    <3>1. CASE q = p
      BY <2>1, <2>2, <2>3, <3>1 DEF Owns, Pushed
    <3>2. CASE q # p
      BY <1>0, <2>2, <2>3, <2>4, <3>2, LeaseKnownKept
    <3> QED BY <3>1, <3>2
  <2> QED BY <2>4 DEF LeaseKnown
<1> QED BY <1>1, <1>2, <1>3, <1>4, <1>5, StepShape

\* At most one invocation believes that it holds an unexpired lease on a branch.
THEOREM LeasesAreExclusive == Spec => []LeaseExclusive
<1>1. Init => LeaseKnown
  BY DEF Init, LeaseKnown, Active, Outside
<1>2. TypeOK /\ LeaseKnown /\ [Next]_vars => LeaseKnown'
  <2> SUFFICES ASSUME TypeOK, LeaseKnown, [Next]_vars PROVE LeaseKnown'
    OBVIOUS
  <2>1. CASE UNCHANGED <<branches, cwd, proc>> /\ now <= now' /\ now' \in Nat
    <3>1. \A p \in Proc : Active(p) => proc[p].expiry \in Nat
      BY ActiveFacts
    <3>2. now \in Nat
      BY DEF TypeOK
    <3> QED BY <2>1, <3>1, <3>2 DEF LeaseKnown, Active, Owns
  <2>2. CASE \E p \in Proc : Step(p)
    BY <2>2, LeaseStep
  <2> QED BY <2>1, <2>2, NextShape
<1>3. TypeOK /\ LeaseKnown => LeaseExclusive
  <2> SUFFICES ASSUME TypeOK, LeaseKnown, NEW p \in Proc, NEW q \in Proc,
                      Active(p), Active(q), proc[p].branch = proc[q].branch,
                      proc[p].expiry > now, proc[q].expiry > now
               PROVE  p = q
    BY DEF LeaseExclusive
  <2>1. proc[p].expiry \in Nat /\ proc[q].expiry \in Nat /\ now \in Nat
    BY ActiveFacts
  <2>2. Owns(p) /\ Owns(q)
    BY <2>1 DEF LeaseKnown
  <2> QED BY <2>2 DEF Owns
<1> QED BY <1>1, <1>2, <1>3, TypeCorrect, PTL DEF Spec

\* A branch that is not pending survives every step unchanged.
LEMMA TerminalKept ==
    ASSUME TypeOK, [Next]_vars, NEW i \in Ids, branches[i].life # "pending"
    PROVE  i \in Ids' /\ branches'[i] = branches[i]
<1>1. CASE branches' = branches
  BY <1>1 DEF Ids
<1>2. ASSUME NEW j \in Ids, Touched(j)
      PROVE  i \in Ids' /\ branches'[i] = branches[i]
  <2>1. i # j
    BY <1>2 DEF Touched
  <2> QED BY <1>2, <2>1, TouchedFacts
<1>3. ASSUME NEW b, Pushed(b)
      PROVE  i \in Ids' /\ branches'[i] = branches[i]
  BY <1>3, PushedFacts
<1> QED BY <1>1, <1>2, <1>3, BranchShape

\* An invocation has reported an outcome, and the branch agrees with it.
Agrees(p) ==
    LET b == branches[proc[p].branch] IN
    /\ proc[p].pc \in {"completed", "replayed"}
          => b.life = "completed" /\ b.rounds = proc[p].rounds
    /\ proc[p].pc = "failed" => b.life = "failed" /\ b.rounds = proc[p].rounds

\* A step of p reports an outcome that agrees, or none.
LEMMA OwnOutcome ==
    ASSUME TypeOK, NEW p \in Proc, Step(p)
    PROVE  /\ Agrees(p)'
           /\ \A q \in Proc \ {p} : proc'[q] = proc[q]
<1>0. proc \in [Proc -> Process]
  BY DEF TypeOK
<1>1. CASE Left(p)
  BY <1>0, <1>1 DEF Left, Agrees, Outside
<1>2. CASE Served(p)
  BY <1>0, <1>2 DEF Served, Agrees, Reservation, Completed
<1>3. CASE Continued(p)
  BY <1>0, <1>3 DEF Continued, Agrees, Holding
<1>4. CASE Worked(p)
  BY <1>0, <1>4 DEF Worked, Agrees, Holding
<1>5. ASSUME NEW life \in {"completed", "failed"}, Ended(p, life)
      PROVE  Agrees(p)' /\ \A q \in Proc \ {p} : proc'[q] = proc[q]
  BY <1>0, <1>5 DEF Ended, Agrees, Holding
<1>6. ASSUME NEW i \in Ids, TookOver(p, i)
      PROVE  Agrees(p)' /\ \A q \in Proc \ {p} : proc'[q] = proc[q]
  BY <1>0, <1>6 DEF TookOver, Agrees, Reservation
<1>7. ASSUME NEW turn, NEW parent, NEW prompt, Reserved(p, turn, parent, prompt)
      PROVE  Agrees(p)' /\ \A q \in Proc \ {p} : proc'[q] = proc[q]
  BY <1>0, <1>7 DEF Reserved, Agrees, Reservation
<1> QED BY <1>1, <1>2, <1>3, <1>4, <1>5, <1>6, <1>7, StepShape

\* An outcome an invocation has reported is never taken back by another one.
THEOREM OutcomesStand == Spec => []ReportedOutcomeStands
<1>1. Init => ReportedOutcomeStands
  BY DEF Init, ReportedOutcomeStands, Outside
<1>2. TypeOK /\ ReportedOutcomeStands /\ [Next]_vars => ReportedOutcomeStands'
  <2> SUFFICES ASSUME TypeOK, ReportedOutcomeStands, [Next]_vars, NEW q \in Proc
               PROVE  Agrees(q)'
    BY DEF ReportedOutcomeStands, Agrees
  <2>1. ASSUME proc'[q] = proc[q] PROVE Agrees(q)'
    <3>1. CASE proc[q].pc \in {"completed", "replayed", "failed"}
      <4>1. proc[q].branch \in Ids /\ branches[proc[q].branch].life # "pending"
        BY <3>1, TypeFacts DEF ReportedOutcomeStands
      <4>2. branches'[proc[q].branch] = branches[proc[q].branch]
        BY <4>1, TerminalKept
      <4> QED BY <2>1, <4>2 DEF ReportedOutcomeStands, Agrees
    <3>2. CASE proc[q].pc \notin {"completed", "replayed", "failed"}
      BY <2>1, <3>2 DEF Agrees
    <3> QED BY <3>1, <3>2
  <2>2. CASE UNCHANGED <<branches, cwd, proc>>
    BY <2>1, <2>2
  <2>3. ASSUME NEW p \in Proc, Step(p) PROVE Agrees(q)'
    BY <2>1, <2>3, OwnOutcome
  <2> QED BY <2>2, <2>3, NextShape
<1> QED BY <1>1, <1>2, TypeCorrect, PTL DEF Spec
=============================================================================
