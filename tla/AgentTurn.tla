----------------------------- MODULE AgentTurn ------------------------------
(***************************************************************************)
(* One turn of the agent on one branch: provider requests under recorded   *)
(* intents, tool calls, checkpoints, and what the next owner makes of them *)
(* after a crash or a lapsed lease (src/src/agent.rs, agent/gateway.rs,    *)
(* agent/tool_round.rs, agent/provider_recovery.rs, agent/summary.rs,      *)
(* session/provider_turn.rs, session/tool_lease.rs,                        *)
(* context_gateway/protocol.rs).                                           *)
(*                                                                         *)
(* SessionStore models how a branch gets its owners; here there is one     *)
(* branch, and the lease may lapse at any time (the owner is suspended).   *)
(* Every store operation reads, decides and appends under the session lock *)
(* and starts with live_branch, so each is one action guarded by Live.     *)
(* Sending a request and running a tool are not store operations: an       *)
(* invocation that lost the branch can still do either.                    *)
(***************************************************************************)
EXTENDS Naturals, Sequences, FiniteSets

CONSTANTS
    Owner,      \* the invocations that work on the branch, one after the other
    Nobody,     \* the branch is not reserved yet
    Budget,     \* max_tool_calls
    MaxTurn,    \* bound on the provider turns of the branch
    MaxCall,    \* bound on the tool calls of one reply
    MaxRetry    \* bound on the reissues of one request (MAX_RETRIES and the one
                \* after a context-limit refusal)

ASSUME AgentAssumption ==
    /\ Nobody \notin Owner
    /\ Budget \in Nat /\ MaxTurn \in Nat /\ MaxCall \in Nat /\ MaxRetry \in Nat

VARIABLES
    branch,     \* the BranchRecord: lifecycle, owner, lease, rounds
    turns,      \* SessionState::provider_turns
    proc,       \* the invocations
    sent,       \* how often the request of each provider turn went out
    executed    \* how often each tool call ran

vars == <<branch, turns, proc, sent, executed>>

Status == {"intent", "pending", "admitted", "rejected", "indeterminate"}

\* What a reply holds: nothing yet, text, no text and no call, or tool calls.
Reply == {"none", "text", "empty", "calls"}

\* ExecutionIntent::completion, with the result text it stores.
Completion == {"none", "done", "refusal", "indeterminate"}

\* A ToolCallRecord: "refused" carries the refusal text and refused = true, "refusal"
\* the same text and refused = false.
Outcome == {"done", "refused", "refusal", "indeterminate"}

TurnRecord == [owner : Owner, status : Status, reply : Reply, calls : Seq(Completion)]

Round == [turn : Nat, calls : Seq(Outcome)]

BranchRecord == [life : {"none", "pending", "completed", "failed"},
                 owner : Owner \cup {Nobody}, leased : BOOLEAN, rounds : Seq(Round)]

Pc == {"idle", "recover", "renew", "intent", "permit", "send", "wait", "stage", "admit",
       "settle", "reply", "tool", "exec", "fence", "complete", "refuse", "finalize",
       "dead", "done", "gone"}

\* An invocation: its transcript, the provider turn it is in, the reply it holds with
\* the number of its calls, the outcomes of the calls it ran, the retries of the
\* current request, whether it asked for a forced summary, and whether it reissued a
\* truncated first reply.
Process == [pc : Pc, rounds : Seq(Round), turn : Nat, reply : Reply, count : Nat,
            done : Seq(Outcome), retries : Nat, forced : BOOLEAN, reissued : BOOLEAN]

Start(pc) == [pc |-> pc, rounds |-> <<>>, turn |-> 0, reply |-> "none", count |-> 0,
              done |-> <<>>, retries |-> 0, forced |-> FALSE, reissued |-> FALSE]

TypeOK ==
    /\ branch \in BranchRecord
    /\ turns \in Seq(TurnRecord)
    /\ proc \in [Owner -> Process]
    /\ sent \in [1..MaxTurn -> Nat]
    /\ executed \in [1..MaxTurn -> [1..MaxCall -> Nat]]
    /\ \A p \in Owner : proc[p].turn \in 0..Len(turns)

Init ==
    /\ branch = [life |-> "none", owner |-> Nobody, leased |-> FALSE, rounds |-> <<>>]
    /\ turns = <<>>
    /\ proc = [p \in Owner |-> Start("idle")]
    /\ sent = [i \in 1..MaxTurn |-> 0]
    /\ executed = [i \in 1..MaxTurn |-> [k \in 1..MaxCall |-> 0]]

----------------------------------------------------------------------------
(* The branch and its owner.                                               *)

\* Mutant: the owner, the lease and the lifecycle are not looked at.
LiveUnfenced(p) == branch.life # "none"

\* live_branch.
Live(p) == branch.life = "pending" /\ branch.owner = p /\ branch.leased

\* replay::suffix: what is persisted must be an exact prefix of what is supplied.
Extends(rounds) ==
    /\ Len(branch.rounds) <= Len(rounds)
    /\ \A i \in 1..Len(branch.rounds) : branch.rounds[i] = rounds[i]

Goto(p, pc) == proc' = [proc EXCEPT ![p].pc = pc]

\* start_request by the first invocation.
Reserve(p) ==
    /\ proc[p].pc = "idle" /\ branch.life = "none"
    /\ branch' = [branch EXCEPT !.life = "pending", !.owner = p, !.leased = TRUE]
    /\ Goto(p, "recover")
    /\ UNCHANGED <<turns, sent, executed>>

\* start_request by a later one, once the lease is over.
Reclaim(p) ==
    /\ proc[p].pc = "idle" /\ branch.life = "pending" /\ ~branch.leased
    /\ branch' = [branch EXCEPT !.owner = p, !.leased = TRUE]
    /\ Goto(p, "recover")
    /\ UNCHANGED <<turns, sent, executed>>

\* The owner is suspended for longer than its lease.
LeaseExpires ==
    /\ branch.life = "pending" /\ branch.leased
    /\ branch' = [branch EXCEPT !.leased = FALSE]
    /\ UNCHANGED <<turns, proc, sent, executed>>

----------------------------------------------------------------------------
(* resume_or_begin.                                                        *)

\* Mutant: completions that were recorded are overwritten as well.
ResolvedAll(r) ==
    [owner |-> r.owner,
     status |-> IF r.status \in {"intent", "pending"} THEN "indeterminate" ELSE r.status,
     reply |-> IF r.status \in {"intent", "pending"} THEN "none" ELSE r.reply,
     calls |-> [k \in DOMAIN r.calls |-> "indeterminate"]]

\* Command::Recover on one record.
Resolved(r) ==
    [owner |-> r.owner,
     status |-> IF r.status \in {"intent", "pending"} THEN "indeterminate" ELSE r.status,
     reply |-> IF r.status \in {"intent", "pending"} THEN "none" ELSE r.reply,
     calls |-> [k \in DOMAIN r.calls |->
                  IF r.calls[k] = "none" THEN "indeterminate" ELSE r.calls[k]]]

\* Mutant: a request counts as unresolved only once a recovery has marked it.
UnresolvedMarked == {i \in DOMAIN turns : turns[i].status = "indeterminate"}

\* The requests that may have reached the provider without an admitted answer.
Unresolved == {i \in DOMAIN turns : turns[i].status \in {"intent", "pending", "indeterminate"}}

Admitted == {i \in DOMAIN turns : turns[i].status = "admitted"}

\* Mutant: a reply whose calls are not all completed is left out.
RecoveredCompleteTurns ==
    {i \in Admitted : turns[i].reply = "calls"
                      /\ \A k \in DOMAIN turns[i].calls : turns[i].calls[k] # "none"}

\* recovered_calls: the admitted replies with calls ...
RecoveredTurns == {i \in Admitted : turns[i].reply = "calls"}

\* ... in the order of their requests, ...
InOrder(S) ==
    {order \in [1..Cardinality(S) -> S] :
        /\ \A m, n \in DOMAIN order : m < n => order[m] < order[n]
        /\ \A i \in S : \E n \in DOMAIN order : order[n] = i}

\* ... each with a round (restore_responses).  A missing completion reads as
\* indeterminate; a recorded refusal loses its flag.
RecoveredRounds(order) ==
    [n \in DOMAIN order |-> [turn |-> order[n], calls |-> Resolved(turns[order[n]]).calls]]

\* The admitted reply that restore_responses leaves as the current one, if any.
FinalReply == {i \in Admitted : turns[i].reply # "calls" /\ \A j \in Admitted : j <= i}

\* Mutant: the newest admitted reply is handed to the tool loop again.
RecoverReexecutes(p) ==
    /\ proc[p].pc = "recover" /\ Live(p) /\ Unresolved = {}
    /\ IF Admitted = {}
       THEN Goto(p, "renew")
       ELSE \E i \in Admitted :
              /\ \A j \in Admitted : j <= i
              /\ proc' = [proc EXCEPT ![p].pc = "reply", ![p].turn = i,
                                      ![p].reply = turns[i].reply]
    /\ UNCHANGED <<branch, turns, sent, executed>>

\* recover_provider_turns finds every request resolved: the invocation continues after
\* the last admitted reply, or begins.
Recover(p) ==
    /\ proc[p].pc = "recover" /\ Live(p) /\ Unresolved = {}
    /\ turns' = [i \in DOMAIN turns |-> Resolved(turns[i])]
    /\ \E order \in InOrder(RecoveredTurns) :
          LET rounds == RecoveredRounds(order) IN
          IF FinalReply = {}
          THEN proc' = [proc EXCEPT ![p].pc = "renew", ![p].rounds = rounds]
          ELSE \E i \in FinalReply :
                 proc' = [proc EXCEPT ![p].pc = "reply", ![p].rounds = rounds,
                                      ![p].turn = i, ![p].reply = turns[i].reply]
    /\ UNCHANGED <<branch, sent, executed>>

\* It finds a request whose fate is unknown: the turn is failed with the rounds of the
\* reservation, which a reclaim leaves empty.
RecoverIndeterminate(p) ==
    /\ proc[p].pc = "recover" /\ Live(p) /\ Unresolved # {}
    /\ turns' = [i \in DOMAIN turns |-> Resolved(turns[i])]
    /\ Goto(p, "dead")
    /\ UNCHANGED <<branch, sent, executed>>

----------------------------------------------------------------------------
(* A provider round (gateway_round and what surrounds it).                 *)

\* The lease renewal before a request.
Renew(p) ==
    /\ proc[p].pc = "renew" /\ Live(p)
    /\ Goto(p, "intent")
    /\ UNCHANGED <<branch, turns, sent, executed>>

\* Mutant: the identity is computed after the record was added.
IntentMisnamed(p) ==
    /\ proc[p].pc = "intent" /\ Live(p)
    /\ Len(turns) < MaxTurn
    /\ turns' = Append(turns, [owner |-> p, status |-> "intent", reply |-> "none",
                               calls |-> <<>>])
    /\ proc' = [proc EXCEPT ![p].pc = "permit", ![p].turn = Len(turns') + 1]
    /\ UNCHANGED <<branch, sent, executed>>

\* provider_intent: the intent is durable before anything goes out.
Intent(p) ==
    /\ proc[p].pc = "intent" /\ Live(p)
    /\ Len(turns) < MaxTurn
    /\ turns' = Append(turns, [owner |-> p, status |-> "intent", reply |-> "none",
                               calls |-> <<>>])
    /\ proc' = [proc EXCEPT ![p].pc = "permit", ![p].turn = Len(turns) + 1]
    /\ UNCHANGED <<branch, sent, executed>>

\* admit_send consumes the permit.
AdmitSend(p) ==
    /\ proc[p].pc = "permit" /\ Live(p)
    /\ turns[proc[p].turn].status = "intent"
    /\ Goto(p, "send")
    /\ UNCHANGED <<branch, turns, sent, executed>>

\* round_once puts the request on the wire.
Send(p) ==
    /\ proc[p].pc = "send"
    /\ sent' = [sent EXCEPT ![proc[p].turn] = @ + 1]
    /\ Goto(p, "wait")
    /\ UNCHANGED <<branch, turns, executed>>

\* Command::Reject on the turn p is in.
RejectTurn(p) ==
    /\ turns[proc[p].turn].status \in {"intent", "pending"}
    /\ turns' = [turns EXCEPT ![proc[p].turn].status = "rejected",
                              ![proc[p].turn].reply = "none"]

\* The admitted request does not go out: its deadline has passed, which rejects the turn,
\* or a last check of its text refuses it, which leaves the intent as it is.
NotSent(p) ==
    /\ proc[p].pc = "send"
    /\ (Live(p) /\ RejectTurn(p)) \/ UNCHANGED turns
    /\ Goto(p, "dead")
    /\ UNCHANGED <<branch, sent, executed>>

\* No complete reply, or none before the deadline of the turn, which drops the request:
\* the provider turn is rejected; a transport failure that permits it is retried after a
\* renewal, a context-limit refusal at once.
Interrupted(p) ==
    /\ proc[p].pc = "wait" /\ Live(p) /\ RejectTurn(p)
    /\ \/ /\ proc[p].retries < MaxRetry
          /\ \E pc \in {"renew", "intent"} :
                proc' = [proc EXCEPT ![p].pc = pc, ![p].retries = @ + 1]
       \/ Goto(p, "dead")
    /\ UNCHANGED <<branch, sent, executed>>

\* A reply cut by the output cap is rejected; the first one of a turn without rounds is
\* asked for once more (first_completion).
Truncated(p) ==
    /\ proc[p].pc = "wait" /\ Live(p) /\ RejectTurn(p)
    /\ IF proc[p].rounds = <<>> /\ ~proc[p].forced /\ ~proc[p].reissued
       THEN proc' = [proc EXCEPT ![p].pc = "renew", ![p].reissued = TRUE, ![p].retries = 0]
       ELSE Goto(p, "dead")
    /\ UNCHANGED <<branch, sent, executed>>

\* finish_check or validate_calls refuses the reply; its intent stays as it is.
InvalidReply(p) ==
    /\ proc[p].pc = "wait"
    /\ Goto(p, "dead")
    /\ UNCHANGED <<branch, turns, sent, executed>>

\* A valid reply arrives.
Replied(p) ==
    /\ proc[p].pc = "wait"
    /\ \E reply \in Reply \ {"none"}, count \in 0..MaxCall :
        /\ reply = "calls" <=> count > 0
        /\ proc' = [proc EXCEPT ![p].pc = "stage", ![p].reply = reply, ![p].count = count]
    /\ UNCHANGED <<branch, turns, sent, executed>>

\* admit_provider_response appends the reply (Stage) ...
Stage(p) ==
    /\ proc[p].pc = "stage" /\ Live(p)
    /\ turns[proc[p].turn].status = "intent"
    /\ turns' = [turns EXCEPT ![proc[p].turn].status = "pending",
                              ![proc[p].turn].reply = proc[p].reply]
    /\ Goto(p, "admit")
    /\ UNCHANGED <<branch, sent, executed>>

\* ... and then admits it with its execution intents (Admit).
Admit(p) ==
    /\ proc[p].pc = "admit" /\ Live(p)
    /\ turns[proc[p].turn].status = "pending"
    /\ turns' = [turns EXCEPT ![proc[p].turn].status = "admitted",
                              ![proc[p].turn].calls = [k \in 1..proc[p].count |-> "none"]]
    /\ Goto(p, "settle")
    /\ UNCHANGED <<branch, sent, executed>>

\* The lease renewal after a request.
Settle(p) ==
    /\ proc[p].pc = "settle" /\ Live(p)
    /\ proc' = [proc EXCEPT ![p].pc = "reply", ![p].retries = 0]
    /\ UNCHANGED <<branch, turns, sent, executed>>

\* run_tool_rounds, resolve_summary and validate_forced_summary on the current reply.
\* An empty reply may leave a round behind, for the thinking it carries.
TakeReply(p) ==
    /\ proc[p].pc = "reply"
    /\ \/ /\ proc[p].reply = "calls" /\ ~proc[p].forced
          /\ proc' = [proc EXCEPT ![p].pc = "tool", ![p].done = <<>>]
       \/ /\ proc[p].reply = "text"
          /\ Goto(p, "finalize")
       \/ /\ proc[p].reply = "empty" /\ ~proc[p].forced
          /\ \E rounds \in {proc[p].rounds,
                            Append(proc[p].rounds, [turn |-> proc[p].turn, calls |-> <<>>])} :
                proc' = [proc EXCEPT ![p].pc = "renew", ![p].forced = TRUE,
                                     ![p].rounds = rounds]
       \/ /\ proc[p].reply # "text" /\ proc[p].forced
          /\ Goto(p, "dead")
    /\ UNCHANGED <<branch, turns, sent, executed>>

----------------------------------------------------------------------------
(* A tool round (execute_tool_round, execute_calls, with_tool_lease).      *)

Calls(rounds) ==
    {call \in (1..Len(rounds)) \X (1..MaxCall) : call[2] <= Len(rounds[call[1]].calls)}

\* split_over_budget: how many of the reply's calls still fit the budget.
Fit(p) ==
    LET used == Cardinality(Calls(proc[p].rounds))
        left == IF used < Budget THEN Budget - used ELSE 0
        count == Len(turns[proc[p].turn].calls)
    IN  IF left >= count THEN count ELSE left

\* with_tool_lease renews, and the call is marked as in flight.
BeginTool(p) ==
    /\ proc[p].pc = "tool" /\ Live(p)
    /\ Len(proc[p].done) < Fit(p)
    /\ Goto(p, "exec")
    /\ UNCHANGED <<branch, turns, sent, executed>>

\* The tool runs; nothing is locked meanwhile.
Execute(p) ==
    /\ proc[p].pc = "exec"
    /\ executed' = [executed EXCEPT ![proc[p].turn][Len(proc[p].done) + 1] = @ + 1]
    /\ Goto(p, "fence")
    /\ UNCHANGED <<branch, turns, sent>>

\* The renewal after the tool; only now does its result count.
Fence(p) ==
    /\ proc[p].pc = "fence" /\ Live(p)
    /\ proc' = [proc EXCEPT ![p].pc = "complete", ![p].done = Append(@, "done")]
    /\ UNCHANGED <<branch, turns, sent, executed>>

\* complete_provider_tool for call k of the turn p is in.
CompleteCall(p, k, completion) ==
    /\ Live(p)
    /\ turns[proc[p].turn].status = "admitted" /\ turns[proc[p].turn].calls[k] = "none"
    /\ turns' = [turns EXCEPT ![proc[p].turn].calls[k] = completion]

CompleteTool(p) ==
    /\ proc[p].pc = "complete"
    /\ CompleteCall(p, Len(proc[p].done), "done")
    /\ Goto(p, "tool")
    /\ UNCHANGED <<branch, sent, executed>>

\* refuse_over_budget adds the refusals and the round joins the transcript.
CloseRound(p) ==
    /\ proc[p].pc = "tool" /\ Len(proc[p].done) = Fit(p)
    /\ LET count == Len(turns[proc[p].turn].calls)
           calls == [k \in 1..count |-> IF k <= Fit(p) THEN proc[p].done[k] ELSE "refused"]
       IN  proc' = [proc EXCEPT ![p].pc = "refuse", ![p].done = <<>>,
                       ![p].rounds = Append(@, [turn |-> proc[p].turn, calls |-> calls])]
    /\ UNCHANGED <<branch, turns, sent, executed>>

Open(p) == {k \in DOMAIN turns[proc[p].turn].calls : turns[proc[p].turn].calls[k] = "none"}

\* Each refused call is completed too.
RefuseTool(p) ==
    /\ proc[p].pc = "refuse"
    /\ \E k \in Open(p) : (\A j \in Open(p) : k <= j) /\ CompleteCall(p, k, "refusal")
    /\ UNCHANGED <<branch, proc, sent, executed>>

\* checkpoint; a round with refusals is followed by the forced summary.
Checkpoint(p) ==
    /\ proc[p].pc = "refuse" /\ Open(p) = {} /\ Live(p) /\ Extends(proc[p].rounds)
    /\ branch' = [branch EXCEPT !.rounds = proc[p].rounds]
    /\ LET last == proc[p].rounds[Len(proc[p].rounds)]
       IN  proc' = [proc EXCEPT ![p].pc = "renew",
                       ![p].forced = \E k \in DOMAIN last.calls : last.calls[k] = "refused"]
    /\ UNCHANGED <<turns, sent, executed>>

----------------------------------------------------------------------------
(* How a turn ends.                                                        *)

\* complete_attempt: the summary is the last round.
Summarised(p) == Append(proc[p].rounds, [turn |-> proc[p].turn, calls |-> <<>>])

Finalize(p) ==
    /\ proc[p].pc = "finalize" /\ Live(p) /\ Extends(Summarised(p))
    /\ branch' = [branch EXCEPT !.life = "completed", !.leased = FALSE,
                                !.rounds = Summarised(p)]
    /\ Goto(p, "done")
    /\ UNCHANGED <<turns, sent, executed>>

\* The transcripts a failure may leave: in a tool round the calls that ran and whose
\* result was admitted are kept, the one whose renewal after the tool failed included,
\* and so may be a round that holds only thinking.
Left(p) ==
    LET with(done) == Append(proc[p].rounds, [turn |-> proc[p].turn, calls |-> done])
    IN  CASE proc[p].pc \in {"tool", "exec", "fence", "complete"} ->
               {with(proc[p].done)}
                 \cup (IF proc[p].done = <<>> THEN {proc[p].rounds} ELSE {})
                 \cup (IF proc[p].pc = "fence"
                       THEN {with(Append(proc[p].done, "done"))} ELSE {})
          [] OTHER -> {proc[p].rounds}

\* A limit (time, rounds, bytes), an unusable reply, a tool result that cannot be
\* admitted or a failed write of the lease ends the turn.
GiveUp(p) ==
    /\ proc[p].pc \in {"recover", "renew", "reply", "tool", "exec", "fence", "complete",
                        "refuse", "finalize"}
    /\ \E rounds \in Left(p) :
          proc' = [proc EXCEPT ![p].pc = "dead", ![p].rounds = rounds]
    /\ UNCHANGED <<branch, turns, sent, executed>>

\* dead_coded persists the failure.
Fail(p) ==
    /\ proc[p].pc = "dead" /\ Live(p) /\ Extends(proc[p].rounds)
    /\ branch' = [branch EXCEPT !.life = "failed", !.leased = FALSE,
                                !.rounds = proc[p].rounds]
    /\ Goto(p, "done")
    /\ UNCHANGED <<turns, sent, executed>>

\* The store refuses the operation (Stale, LeaseExpired, Invalid).  Nothing that could
\* be tried after that is accepted either, so the invocation ends.
StorePc == Pc \ {"idle", "send", "wait", "reply", "exec", "done", "gone"}

Supplied(p) == IF proc[p].pc = "finalize" THEN Summarised(p) ELSE proc[p].rounds

Refused(p) ==
    /\ proc[p].pc \in StorePc
    /\ \/ ~Live(p)
       \/ /\ proc[p].pc \in {"refuse", "finalize", "dead"} /\ ~Extends(Supplied(p))
          /\ proc[p].pc = "refuse" => Open(p) = {}
    /\ proc' = [proc EXCEPT ![p] = Start("gone")]
    /\ UNCHANGED <<branch, turns, sent, executed>>

Crash(p) ==
    /\ proc[p].pc \notin {"idle", "done", "gone"}
    /\ proc' = [proc EXCEPT ![p] = Start("gone")]
    /\ UNCHANGED <<branch, turns, sent, executed>>

Step(p) ==
    \/ Reserve(p) \/ Reclaim(p) \/ Recover(p) \/ RecoverIndeterminate(p)
    \/ Renew(p) \/ Intent(p) \/ AdmitSend(p) \/ Send(p)
    \/ NotSent(p) \/ Interrupted(p) \/ Truncated(p) \/ InvalidReply(p) \/ Replied(p)
    \/ Stage(p) \/ Admit(p) \/ Settle(p) \/ TakeReply(p)
    \/ BeginTool(p) \/ Execute(p) \/ Fence(p) \/ CompleteTool(p) \/ CloseRound(p)
    \/ RefuseTool(p) \/ Checkpoint(p)
    \/ Finalize(p) \/ GiveUp(p) \/ Fail(p) \/ Refused(p) \/ Crash(p)

Next == LeaseExpires \/ \E p \in Owner : Step(p)

Spec == Init /\ [][Next]_vars

----------------------------------------------------------------------------
(* Properties.                                                             *)

\* At most the newest request of the branch has an unknown fate: no owner, whatever it
\* inherits, sends another request while an earlier one might have reached the provider
\* without an answer; and no request is sent twice under one intent.
NoSendAfterUnresolved ==
    \A i \in DOMAIN turns :
        /\ sent[i] <= 1
        /\ i < Len(turns) => turns[i].status \in {"admitted", "rejected"}

\* A tool call runs at most once over all owners, and only after the reply that asks
\* for it was admitted.
ExecutedOnce ==
    \A i \in 1..MaxTurn, k \in 1..MaxCall :
        executed[i][k] > 0 =>
            /\ executed[i][k] = 1
            /\ i \in Admitted /\ k <= Len(turns[i].calls)

\* The outcomes that the branch records for call k of provider turn i.
Recorded(i, k) ==
    {branch.rounds[n].calls[k] :
        n \in {m \in DOMAIN branch.rounds :
                 branch.rounds[m].turn = i /\ k <= Len(branch.rounds[m].calls)}}

\* The transcript tells the truth about effects.  What it calls done ran, what it calls
\* refused never runs, and when the branch is completed every call that ran or still
\* runs, by whichever owner, is in it.  (A failed branch may lack calls: an owner that
\* finds an unresolved request fails the turn with an empty transcript.)
TranscriptHonest ==
    \A i \in 1..MaxTurn, k \in 1..MaxCall :
        /\ "done" \in Recorded(i, k) => executed[i][k] = 1
        /\ Recorded(i, k) \cap {"refused", "refusal"} # {} => executed[i][k] = 0
        /\ (branch.life = "completed" /\ executed[i][k] > 0)
              => Recorded(i, k) \in {{"done"}, {"indeterminate"}}

Refusals == {n \in DOMAIN branch.rounds :
                \E k \in DOMAIN branch.rounds[n].calls : branch.rounds[n].calls[k] = "refused"}

Working(p) == proc[p].pc \notin {"idle", "recover", "dead", "done", "gone"}

\* An owner at work can always commit it: what it rebuilt from the provider records is
\* exactly what its predecessors checkpointed, byte for byte, as long as they
\* checkpointed no refused call.
OwnerCanCommit ==
    \A p \in Owner :
        (Live(p) /\ Working(p) /\ Refusals = {}) => Extends(proc[p].rounds)

\* An unresolved provider request terminates the turn: when an owner that holds the lease
\* has found one and fails the turn as indeterminate, the store accepts the failure.
IndeterminateTerminates ==
    \A p \in Owner :
        (proc[p].pc = "dead" /\ Live(p) /\ \E i \in DOMAIN turns : turns[i].status = "indeterminate")
            => Extends(proc[p].rounds)

\* The outcome of a branch is final: no owner changes its rounds or its provider records
\* afterwards, late replies and late tool results included.
OutcomeFinal ==
    [][branch.life \in {"completed", "failed"} => UNCHANGED <<branch, turns>>]_vars
=============================================================================
