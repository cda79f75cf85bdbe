-------------------------- MODULE AgentTurn_proofs --------------------------
(***************************************************************************)
(* Proofs about AgentTurn, for every set of owners and every bound.        *)
(*                                                                         *)
(* The properties are consequences of one inductive invariant, IInv.  What *)
(* it says of an invocation that lost the branch is weak, for such an      *)
(* invocation goes on sending and running tools: it says which provider    *)
(* turn the invocation is in, that the turn is its own, and which of the   *)
(* turn's calls it ran.  What it says of the holder of the lease (Holder)  *)
(* is strong: nothing is unresolved but the request it made itself, and    *)
(* its transcript covers every admitted call.                              *)
(***************************************************************************)
EXTENDS AgentTurn, FiniteSetTheorems, WellFoundedInduction, TLAPS

----------------------------------------------------------------------------
(* The inductive invariant.  Predicates on values, not on the state, take  *)
(* what they are about as parameters: r is the record of an invocation,    *)
(* ts the provider records, ran the counts of executions, ps the           *)
(* invocations.                                                            *)

\* The owner asks the provider under an intent of its own.
Asking == {"permit", "send", "wait", "stage", "admit"}

\* The owner is in the tool loop of a reply.
Tooling == {"tool", "exec", "fence", "complete"}

\* There are tool calls of its current turn to run, or it is running them ...
MayRun(r) ==
    r.pc \in Tooling \cup {"settle"} \/ (r.pc = "reply" /\ r.reply = "calls")

\* ... and this many of them have run.
Ran(r) == IF r.pc = "fence" THEN Len(r.done) + 1 ELSE Len(r.done)

\* Call k of turn i may still run.
Pending(r, i, k) == MayRun(r) /\ r.turn = i /\ k > Ran(r)

\* The reply of the turn was admitted and has calls.
HasCalls(t) == t.status = "admitted" /\ t.reply = "calls"

\* The turn that p is in: its record t, and what p holds of its reply.
SeatedIn(p, r, t, snt) ==
    /\ r.pc \in Asking \cup {"refuse"} \/ MayRun(r) => t.owner = p
    /\ r.pc \in Tooling \cup {"settle", "reply", "refuse", "finalize"} => t.status = "admitted"
    /\ r.pc \in Tooling \cup {"settle", "reply"} => t.reply = r.reply
    /\ r.pc \in Tooling => r.reply = "calls"
    /\ r.pc = "finalize" => t.reply = "text"
    /\ r.pc \in {"stage", "admit"} =>
          /\ r.reply # "none" /\ r.count \in 0..MaxCall
          /\ r.reply = "calls" <=> r.count > 0
    /\ (r.pc = "admit" /\ t.status = "pending") => t.reply = r.reply
    /\ r.pc \in {"permit", "send"} => snt = 0

InTurn == Asking \cup Tooling \cup {"settle", "reply", "refuse", "finalize"}

Seated(p) ==
    proc[p].pc \in InTurn =>
        /\ proc[p].turn \in 1..Len(turns)
        /\ SeatedIn(p, proc[p], turns[proc[p].turn], sent[proc[p].turn])

\* The calls of that turn: those that p ran, in order, and no others have run.
RunningIn(r, t, ran) ==
    /\ MayRun(r) => \A k \in 1..MaxCall : ran[k] = IF k <= Ran(r) THEN 1 ELSE 0
    /\ r.pc \in Tooling => Ran(r) <= Len(t.calls)
    /\ r.pc = "exec" => Ran(r) < Len(t.calls)
    /\ r.pc = "complete" => Ran(r) > 0
    /\ r.pc \in Tooling =>
          \A k \in 1..Len(r.done) :
             /\ r.done[k] = "done"
             /\ r.pc # "complete" \/ k < Len(r.done) => t.calls[k] = "done"
    /\ r.pc = "refuse" => \A k \in 1..Len(t.calls) : t.calls[k] = "none" => ran[k] = 0

Running(p) ==
    /\ proc[p].pc \notin Tooling \cup {"dead", "done"} => proc[p].done = <<>>
    /\ proc[p].pc \in InTurn =>
          RunningIn(proc[p], turns[proc[p].turn], executed[proc[p].turn])

\* A round of a transcript agrees with the provider records and with what ran.  The round
\* of a failure may hold a call that ran and was not completed.
Honest(round, ts, ran, ps) ==
    /\ round.turn \in 1..Len(ts)
    /\ Len(round.calls) <= Len(ts[round.turn].calls)
    /\ \A k \in 1..Len(round.calls) :
          IF round.calls[k] = "refused"
          THEN /\ ran[round.turn][k] = 0
               /\ \A q \in Owner : ~Pending(ps[q], round.turn, k)
          ELSE \/ round.calls[k] = ts[round.turn].calls[k]
               \/ round.calls[k] = "done" /\ ran[round.turn][k] = 1

Truthful(rounds, ts, ran, ps) == \A n \in 1..Len(rounds) : Honest(rounds[n], ts, ran, ps)

\* A provider record is well formed.
WellFormed(t) ==
    /\ t.status # "admitted" => t.calls = <<>>
    /\ t.status = "admitted" => t.reply # "none" /\ (t.reply = "calls" <=> t.calls # <<>>)
    /\ Len(t.calls) <= MaxCall

\* The completions of turn i agree with what ran.
Attested(i, t, ran, ps) ==
    \A k \in 1..Len(t.calls) :
        /\ t.calls[k] = "done" => ran[k] = 1
        /\ t.calls[k] = "refusal" => ran[k] = 0 /\ \A q \in Owner : ~Pending(ps[q], i, k)

Recorder ==
    /\ Len(turns) <= MaxTurn
    /\ \A i \in 1..Len(turns) : WellFormed(turns[i])
    /\ \A i \in 1..Len(turns) : Attested(i, turns[i], executed[i], proc)
    /\ \A i \in 1..MaxTurn : sent[i] > 0 => i <= Len(turns)

\* The rounds hold the calls of turn i.
Covered(i, rounds, ts) ==
    \E n \in 1..Len(rounds) :
        rounds[n].turn = i /\ Len(rounds[n].calls) = Len(ts[i].calls)

\* Rounds of calls, in the order of their turns.
Sorted(rounds, ts) ==
    /\ \A m, n \in 1..Len(rounds) : m < n => rounds[m].turn < rounds[n].turn
    /\ \A n \in 1..Len(rounds) :
          /\ rounds[n].turn \in 1..Len(ts) /\ HasCalls(ts[rounds[n].turn])
          /\ Len(rounds[n].calls) = Len(ts[rounds[n].turn].calls)

\* They say of a call what its completion says, unless they call it refused.
Exact(rounds, ts) ==
    \A n \in 1..Len(rounds) : \A k \in 1..Len(rounds[n].calls) :
        rounds[n].calls[k] # "refused" => rounds[n].calls[k] = ts[rounds[n].turn].calls[k]

\* Every earlier turn with calls has a round as well.
Gapless(rounds, ts) ==
    \A n \in 1..Len(rounds), i \in 1..Len(ts) :
        (HasCalls(ts[i]) /\ i < rounds[n].turn) => \E m \in 1..Len(rounds) : rounds[m].turn = i

\* The fate of request i is known.
Settled(t) == t.status \in {"admitted", "rejected"}

\* The records and the rounds of an owner with record r that holds the lease.
Holds(r, ts) ==
    /\ r.pc \in Asking => r.turn = Len(ts)
    /\ \A i \in 1..Len(ts) : r.pc \notin Asking \/ i < Len(ts) => Settled(ts[i])
    /\ \A i \in 1..Len(ts) : HasCalls(ts[i]) =>
          (MayRun(r) /\ r.turn = i) \/ Covered(i, r.rounds, ts)
    /\ Exact(r.rounds, ts)
    /\ ~r.forced => Sorted(r.rounds, ts)
    /\ r.pc \in Tooling \cup {"refuse"} => ~r.forced
    /\ MayRun(r) /\ ~r.forced => \A n \in 1..Len(r.rounds) : r.rounds[n].turn < r.turn

Holder(p) ==
    /\ proc[p].pc # "idle"
    /\ Working(p) => Holds(proc[p], turns) /\ (Refusals = {} => Extends(proc[p].rounds))

\* The transcript of the branch.
Transcript ==
    /\ Truthful(branch.rounds, turns, executed, proc)
    /\ branch.life \in {"none", "pending"} =>
          Sorted(branch.rounds, turns) /\ Gapless(branch.rounds, turns)
    /\ branch.life # "failed" => Exact(branch.rounds, turns)
    /\ branch.life = "completed" =>
          \A i \in 1..Len(turns) : HasCalls(turns[i]) => Covered(i, branch.rounds, turns)

IInv ==
    /\ TypeOK
    /\ Recorder
    /\ NoSendAfterUnresolved
    /\ ExecutedOnce
    /\ \A p \in Owner :
          /\ Seated(p)
          /\ Running(p)
          /\ Truthful(proc[p].rounds, turns, executed, proc)
    /\ \A p \in Owner : Live(p) => Holder(p)
    /\ Transcript

----------------------------------------------------------------------------
(* Updates of one process.                                                 *)

\* These are the fields of p after a step; the other processes are as before.
ProcBecomes(p, pc, rounds, turn, reply, count, done, forced) ==
    /\ proc' \in [Owner -> Process]
    /\ \A q \in Owner \ {p} : proc'[q] = proc[q]
    /\ proc'[p].pc = pc /\ proc'[p].rounds = rounds /\ proc'[p].turn = turn
    /\ proc'[p].reply = reply /\ proc'[p].count = count /\ proc'[p].done = done
    /\ proc'[p].forced = forced

\* A new record of p.
LEMMA RecordBecomes ==
    ASSUME proc \in [Owner -> Process], NEW p \in Owner, NEW n \in Process,
           proc' = [proc EXCEPT ![p] = n]
    PROVE  ProcBecomes(p, n.pc, n.rounds, n.turn, n.reply, n.count, n.done, n.forced)
  BY DEF ProcBecomes

\* p only goes on.
LEMMA PcOnly ==
    ASSUME proc \in [Owner -> Process], NEW p \in Owner,
           NEW pc \in Pc,
           proc' = [proc EXCEPT ![p].pc = pc]
    PROVE  ProcBecomes(p, pc, proc[p].rounds, proc[p].turn, proc[p].reply, proc[p].count, proc[p].done, proc[p].forced)
<1> DEFINE r == proc[p]
           n == [r EXCEPT !.pc = pc]
<1>1. r \in Process /\ proc' = [proc EXCEPT ![p] = n]
  OBVIOUS
<1> HIDE DEF r
<1>2. n \in Process
  BY <1>1 DEF Process
<1>3. n.pc = pc /\ n.rounds = r.rounds /\ n.turn = r.turn /\ n.reply = r.reply /\ n.count = r.count /\ n.done = r.done /\ n.forced = r.forced
  BY <1>1 DEF Process
<1> HIDE DEF n
<1>4. ProcBecomes(p, n.pc, n.rounds, n.turn, n.reply, n.count, n.done, n.forced)
  BY <1>1, <1>2, RecordBecomes
<1>5. QED
  BY <1>3, <1>4 DEF r

\* p goes on with other rounds.
LEMMA PcRounds ==
    ASSUME proc \in [Owner -> Process], NEW p \in Owner,
           NEW pc \in Pc, NEW rs \in Seq(Round),
           proc' = [proc EXCEPT ![p].pc = pc, ![p].rounds = rs]
    PROVE  ProcBecomes(p, pc, rs, proc[p].turn, proc[p].reply, proc[p].count, proc[p].done, proc[p].forced)
<1> DEFINE r == proc[p]
           n == [r EXCEPT !.pc = pc, !.rounds = rs]
<1>1. r \in Process /\ proc' = [proc EXCEPT ![p] = n]
  OBVIOUS
<1> HIDE DEF r
<1>2. n \in Process
  BY <1>1 DEF Process
<1>3. n.pc = pc /\ n.rounds = rs /\ n.turn = r.turn /\ n.reply = r.reply /\ n.count = r.count /\ n.done = r.done /\ n.forced = r.forced
  BY <1>1 DEF Process
<1> HIDE DEF n
<1>4. ProcBecomes(p, n.pc, n.rounds, n.turn, n.reply, n.count, n.done, n.forced)
  BY <1>1, <1>2, RecordBecomes
<1>5. QED
  BY <1>3, <1>4 DEF r

\* p goes on with the rounds and the last reply it recovered.
LEMMA PcFinal ==
    ASSUME proc \in [Owner -> Process], NEW p \in Owner,
           NEW pc \in Pc, NEW rs \in Seq(Round), NEW i \in Nat, NEW re \in Reply,
           proc' = [proc EXCEPT ![p].pc = pc, ![p].rounds = rs, ![p].turn = i, ![p].reply = re]
    PROVE  ProcBecomes(p, pc, rs, i, re, proc[p].count, proc[p].done, proc[p].forced)
<1> DEFINE r == proc[p]
           n == [r EXCEPT !.pc = pc, !.rounds = rs, !.turn = i, !.reply = re]
<1>1. r \in Process /\ proc' = [proc EXCEPT ![p] = n]
  OBVIOUS
<1> HIDE DEF r
<1>2. n \in Process
  BY <1>1 DEF Process
<1>3. n.pc = pc /\ n.rounds = rs /\ n.turn = i /\ n.reply = re /\ n.count = r.count /\ n.done = r.done /\ n.forced = r.forced
  BY <1>1 DEF Process
<1> HIDE DEF n
<1>4. ProcBecomes(p, n.pc, n.rounds, n.turn, n.reply, n.count, n.done, n.forced)
  BY <1>1, <1>2, RecordBecomes
<1>5. QED
  BY <1>3, <1>4 DEF r

\* p enters a turn.
LEMMA PcTurn ==
    ASSUME proc \in [Owner -> Process], NEW p \in Owner,
           NEW pc \in Pc, NEW i \in Nat,
           proc' = [proc EXCEPT ![p].pc = pc, ![p].turn = i]
    PROVE  ProcBecomes(p, pc, proc[p].rounds, i, proc[p].reply, proc[p].count, proc[p].done, proc[p].forced)
<1> DEFINE r == proc[p]
           n == [r EXCEPT !.pc = pc, !.turn = i]
<1>1. r \in Process /\ proc' = [proc EXCEPT ![p] = n]
  OBVIOUS
<1> HIDE DEF r
<1>2. n \in Process
  BY <1>1 DEF Process
<1>3. n.pc = pc /\ n.rounds = r.rounds /\ n.turn = i /\ n.reply = r.reply /\ n.count = r.count /\ n.done = r.done /\ n.forced = r.forced
  BY <1>1 DEF Process
<1> HIDE DEF n
<1>4. ProcBecomes(p, n.pc, n.rounds, n.turn, n.reply, n.count, n.done, n.forced)
  BY <1>1, <1>2, RecordBecomes
<1>5. QED
  BY <1>3, <1>4 DEF r

\* p counts its retries.
LEMMA PcRetries ==
    ASSUME proc \in [Owner -> Process], NEW p \in Owner,
           NEW pc \in Pc, NEW t \in Nat,
           proc' = [proc EXCEPT ![p].pc = pc, ![p].retries = t]
    PROVE  ProcBecomes(p, pc, proc[p].rounds, proc[p].turn, proc[p].reply, proc[p].count, proc[p].done, proc[p].forced)
<1> DEFINE r == proc[p]
           n == [r EXCEPT !.pc = pc, !.retries = t]
<1>1. r \in Process /\ proc' = [proc EXCEPT ![p] = n]
  OBVIOUS
<1> HIDE DEF r
<1>2. n \in Process
  BY <1>1 DEF Process
<1>3. n.pc = pc /\ n.rounds = r.rounds /\ n.turn = r.turn /\ n.reply = r.reply /\ n.count = r.count /\ n.done = r.done /\ n.forced = r.forced
  BY <1>1 DEF Process
<1> HIDE DEF n
<1>4. ProcBecomes(p, n.pc, n.rounds, n.turn, n.reply, n.count, n.done, n.forced)
  BY <1>1, <1>2, RecordBecomes
<1>5. QED
  BY <1>3, <1>4 DEF r

\* p asks once more.
LEMMA PcReissued ==
    ASSUME proc \in [Owner -> Process], NEW p \in Owner,
           NEW pc \in Pc, NEW u \in BOOLEAN, NEW t \in Nat,
           proc' = [proc EXCEPT ![p].pc = pc, ![p].reissued = u, ![p].retries = t]
    PROVE  ProcBecomes(p, pc, proc[p].rounds, proc[p].turn, proc[p].reply, proc[p].count, proc[p].done, proc[p].forced)
<1> DEFINE r == proc[p]
           n == [r EXCEPT !.pc = pc, !.reissued = u, !.retries = t]
<1>1. r \in Process /\ proc' = [proc EXCEPT ![p] = n]
  OBVIOUS
<1> HIDE DEF r
<1>2. n \in Process
  BY <1>1 DEF Process
<1>3. n.pc = pc /\ n.rounds = r.rounds /\ n.turn = r.turn /\ n.reply = r.reply /\ n.count = r.count /\ n.done = r.done /\ n.forced = r.forced
  BY <1>1 DEF Process
<1> HIDE DEF n
<1>4. ProcBecomes(p, n.pc, n.rounds, n.turn, n.reply, n.count, n.done, n.forced)
  BY <1>1, <1>2, RecordBecomes
<1>5. QED
  BY <1>3, <1>4 DEF r

\* p has got a reply.
LEMMA PcReply ==
    ASSUME proc \in [Owner -> Process], NEW p \in Owner,
           NEW pc \in Pc, NEW re \in Reply, NEW c \in Nat,
           proc' = [proc EXCEPT ![p].pc = pc, ![p].reply = re, ![p].count = c]
    PROVE  ProcBecomes(p, pc, proc[p].rounds, proc[p].turn, re, c, proc[p].done, proc[p].forced)
<1> DEFINE r == proc[p]
           n == [r EXCEPT !.pc = pc, !.reply = re, !.count = c]
<1>1. r \in Process /\ proc' = [proc EXCEPT ![p] = n]
  OBVIOUS
<1> HIDE DEF r
<1>2. n \in Process
  BY <1>1 DEF Process
<1>3. n.pc = pc /\ n.rounds = r.rounds /\ n.turn = r.turn /\ n.reply = re /\ n.count = c /\ n.done = r.done /\ n.forced = r.forced
  BY <1>1 DEF Process
<1> HIDE DEF n
<1>4. ProcBecomes(p, n.pc, n.rounds, n.turn, n.reply, n.count, n.done, n.forced)
  BY <1>1, <1>2, RecordBecomes
<1>5. QED
  BY <1>3, <1>4 DEF r

\* p has run a call, or begins to.
LEMMA PcDone ==
    ASSUME proc \in [Owner -> Process], NEW p \in Owner,
           NEW pc \in Pc, NEW d \in Seq(Outcome),
           proc' = [proc EXCEPT ![p].pc = pc, ![p].done = d]
    PROVE  ProcBecomes(p, pc, proc[p].rounds, proc[p].turn, proc[p].reply, proc[p].count, d, proc[p].forced)
<1> DEFINE r == proc[p]
           n == [r EXCEPT !.pc = pc, !.done = d]
<1>1. r \in Process /\ proc' = [proc EXCEPT ![p] = n]
  OBVIOUS
<1> HIDE DEF r
<1>2. n \in Process
  BY <1>1 DEF Process
<1>3. n.pc = pc /\ n.rounds = r.rounds /\ n.turn = r.turn /\ n.reply = r.reply /\ n.count = r.count /\ n.done = d /\ n.forced = r.forced
  BY <1>1 DEF Process
<1> HIDE DEF n
<1>4. ProcBecomes(p, n.pc, n.rounds, n.turn, n.reply, n.count, n.done, n.forced)
  BY <1>1, <1>2, RecordBecomes
<1>5. QED
  BY <1>3, <1>4 DEF r

\* p asks for a summary.
LEMMA PcForced ==
    ASSUME proc \in [Owner -> Process], NEW p \in Owner,
           NEW pc \in Pc, NEW f \in BOOLEAN, NEW rs \in Seq(Round),
           proc' = [proc EXCEPT ![p].pc = pc, ![p].forced = f, ![p].rounds = rs]
    PROVE  ProcBecomes(p, pc, rs, proc[p].turn, proc[p].reply, proc[p].count, proc[p].done, f)
<1> DEFINE r == proc[p]
           n == [r EXCEPT !.pc = pc, !.forced = f, !.rounds = rs]
<1>1. r \in Process /\ proc' = [proc EXCEPT ![p] = n]
  OBVIOUS
<1> HIDE DEF r
<1>2. n \in Process
  BY <1>1 DEF Process
<1>3. n.pc = pc /\ n.rounds = rs /\ n.turn = r.turn /\ n.reply = r.reply /\ n.count = r.count /\ n.done = r.done /\ n.forced = f
  BY <1>1 DEF Process
<1> HIDE DEF n
<1>4. ProcBecomes(p, n.pc, n.rounds, n.turn, n.reply, n.count, n.done, n.forced)
  BY <1>1, <1>2, RecordBecomes
<1>5. QED
  BY <1>3, <1>4 DEF r

\* p closes a round.
LEMMA PcClosed ==
    ASSUME proc \in [Owner -> Process], NEW p \in Owner,
           NEW pc \in Pc, NEW d \in Seq(Outcome), NEW rs \in Seq(Round),
           proc' = [proc EXCEPT ![p].pc = pc, ![p].done = d, ![p].rounds = rs]
    PROVE  ProcBecomes(p, pc, rs, proc[p].turn, proc[p].reply, proc[p].count, d, proc[p].forced)
<1> DEFINE r == proc[p]
           n == [r EXCEPT !.pc = pc, !.done = d, !.rounds = rs]
<1>1. r \in Process /\ proc' = [proc EXCEPT ![p] = n]
  OBVIOUS
<1> HIDE DEF r
<1>2. n \in Process
  BY <1>1 DEF Process
<1>3. n.pc = pc /\ n.rounds = rs /\ n.turn = r.turn /\ n.reply = r.reply /\ n.count = r.count /\ n.done = d /\ n.forced = r.forced
  BY <1>1 DEF Process
<1> HIDE DEF n
<1>4. ProcBecomes(p, n.pc, n.rounds, n.turn, n.reply, n.count, n.done, n.forced)
  BY <1>1, <1>2, RecordBecomes
<1>5. QED
  BY <1>3, <1>4 DEF r

\* p has recorded a round.
LEMMA PcCheckpoint ==
    ASSUME proc \in [Owner -> Process], NEW p \in Owner,
           NEW pc \in Pc, NEW f \in BOOLEAN,
           proc' = [proc EXCEPT ![p].pc = pc, ![p].forced = f]
    PROVE  ProcBecomes(p, pc, proc[p].rounds, proc[p].turn, proc[p].reply, proc[p].count, proc[p].done, f)
<1> DEFINE r == proc[p]
           n == [r EXCEPT !.pc = pc, !.forced = f]
<1>1. r \in Process /\ proc' = [proc EXCEPT ![p] = n]
  OBVIOUS
<1> HIDE DEF r
<1>2. n \in Process
  BY <1>1 DEF Process
<1>3. n.pc = pc /\ n.rounds = r.rounds /\ n.turn = r.turn /\ n.reply = r.reply /\ n.count = r.count /\ n.done = r.done /\ n.forced = f
  BY <1>1 DEF Process
<1> HIDE DEF n
<1>4. ProcBecomes(p, n.pc, n.rounds, n.turn, n.reply, n.count, n.done, n.forced)
  BY <1>1, <1>2, RecordBecomes
<1>5. QED
  BY <1>3, <1>4 DEF r

\* The process of p ends.
LEMMA PcGone ==
    ASSUME proc \in [Owner -> Process], NEW p \in Owner,
           proc' = [proc EXCEPT ![p] = Start("gone")]
    PROVE  ProcBecomes(p, "gone", <<>>, 0, "none", 0, <<>>, FALSE)
<1>1. Start("gone") \in Process
  BY DEF Start, Process, Pc, Reply
<1>2. QED
  BY <1>1, RecordBecomes DEF Start

----------------------------------------------------------------------------
(* What a step of p does to what the other invocations rely on.            *)

\* ns is a later state of the provider records ts, after a step of p.
Grow(p, ts, ns) ==
    /\ Len(ts) <= Len(ns)
    /\ \A i \in 1..Len(ts) :
        /\ ns[i].owner = ts[i].owner
        /\ ts[i].status = "admitted" =>
              /\ ns[i].status = "admitted" /\ ns[i].reply = ts[i].reply
              /\ Len(ns[i].calls) = Len(ts[i].calls)
              /\ \A k \in 1..Len(ts[i].calls) :
                    ts[i].calls[k] # "none" => ns[i].calls[k] = ts[i].calls[k]
        /\ Settled(ts[i]) => ns[i].status = ts[i].status
        /\ (ts[i].owner # p /\ ns[i].status = "pending") =>
              ts[i].status = "pending" /\ ns[i].reply = ts[i].reply

\* p sends its own request, once.
SentBy(p) ==
    \A i \in 1..MaxTurn :
        \/ sent'[i] = sent[i]
        \/ i \in 1..Len(turns) /\ turns[i].owner = p /\ sent[i] = 0 /\ sent'[i] = 1

\* p runs an admitted call of its own, once.
RanBy(p) ==
    \A i \in 1..MaxTurn, k \in 1..MaxCall :
        \/ executed'[i][k] = executed[i][k]
        \/ /\ Pending(proc[p], i, k) /\ executed[i][k] = 0 /\ executed'[i][k] = 1
           /\ i \in 1..Len(turns) /\ turns[i].owner = p
           /\ turns[i].status = "admitted" /\ k <= Len(turns[i].calls)

\* No call of an admitted reply that could not run before can now.
NoNewPending(p) ==
    \A i \in 1..Len(turns), k \in 1..MaxCall :
        (turns[i].status = "admitted" /\ Pending(proc'[p], i, k)) => Pending(proc[p], i, k)

Evolves(p) ==
    /\ Grow(p, turns, turns')
    /\ SentBy(p)
    /\ RanBy(p)
    /\ NoNewPending(p)
    /\ \A q \in Owner \ {p} : proc'[q] = proc[q]

\* The types of a provider record.
LEMMA TurnType ==
    ASSUME NEW ts \in Seq(TurnRecord), NEW i \in 1..Len(ts)
    PROVE  /\ ts[i] \in TurnRecord
           /\ ts[i].owner \in Owner /\ ts[i].status \in Status /\ ts[i].reply \in Reply
           /\ ts[i].calls \in Seq(Completion) /\ Len(ts[i].calls) \in Nat
           /\ \A k \in 1..Len(ts[i].calls) : ts[i].calls[k] \in Completion
<1>1. ts[i] \in TurnRecord
  OBVIOUS
<1>2. QED
  BY <1>1 DEF TurnRecord

\* The types of an invocation.
LEMMA ProcType ==
    ASSUME NEW ps \in [Owner -> Process], NEW p \in Owner
    PROVE  /\ ps[p] \in Process
           /\ ps[p].pc \in Pc /\ ps[p].rounds \in Seq(Round) /\ ps[p].turn \in Nat
           /\ ps[p].reply \in Reply /\ ps[p].count \in Nat /\ ps[p].done \in Seq(Outcome)
           /\ ps[p].retries \in Nat /\ ps[p].forced \in BOOLEAN /\ ps[p].reissued \in BOOLEAN
           /\ Len(ps[p].done) \in Nat /\ Ran(ps[p]) \in Nat
<1>1. ps[p] \in Process
  OBVIOUS
<1>2. QED
  BY <1>1 DEF Process, Ran

\* The types of a round.
LEMMA RoundType ==
    ASSUME NEW rounds \in Seq(Round), NEW n \in 1..Len(rounds)
    PROVE  /\ rounds[n] \in Round /\ rounds[n].turn \in Nat
           /\ rounds[n].calls \in Seq(Outcome) /\ Len(rounds[n].calls) \in Nat
           /\ \A k \in 1..Len(rounds[n].calls) : rounds[n].calls[k] \in Outcome
<1>1. rounds[n] \in Round
  OBVIOUS
<1>2. QED
  BY <1>1 DEF Round

\* The turns are within the bound.
LEMMA TurnRange ==
    ASSUME TypeOK, Recorder
    PROVE  /\ Len(turns) \in Nat /\ MaxTurn \in Nat /\ MaxCall \in Nat
           /\ \A i \in 1..Len(turns) : i \in Nat /\ i \in 1..MaxTurn
<1>1. Len(turns) \in Nat /\ Len(turns) <= MaxTurn
  BY DEF TypeOK, Recorder
<1>2. QED
  BY <1>1, AgentAssumption

\* No turn is lost.
LEMMA GrowRange ==
    ASSUME TypeOK, TypeOK', NEW p \in Owner, Evolves(p)
    PROVE  \A i \in 1..Len(turns) : i \in 1..Len(turns')
<1>1. Len(turns) \in Nat /\ Len(turns') \in Nat
  BY DEF TypeOK
<1>2. Len(turns) <= Len(turns')
  BY DEF Evolves, Grow
<1>3. QED
  BY <1>1, <1>2

\* Another invocation stays in its turn.
LEMMA SeatedFrame ==
    ASSUME TypeOK, TypeOK', NEW p \in Owner, Evolves(p), NEW q \in Owner, q # p,
           Recorder, Seated(q)
    PROVE  Seated(q)'
<1>1. proc'[q] = proc[q]
  BY DEF Evolves
<1>2. SUFFICES ASSUME proc[q].pc \in InTurn
               PROVE  /\ proc[q].turn \in 1..Len(turns')
                      /\ SeatedIn(q, proc[q], turns'[proc[q].turn], sent'[proc[q].turn])
  BY <1>1 DEF Seated
<1> DEFINE i == proc[q].turn
<1>3. i \in 1..Len(turns) /\ SeatedIn(q, proc[q], turns[i], sent[i])
  BY <1>2 DEF Seated
<1>4. i \in 1..Len(turns') /\ i \in 1..MaxTurn
  BY <1>3, TurnRange, GrowRange
<1>5. proc[q].pc \in {"permit", "send"} => sent'[i] = 0
  BY <1>3, <1>4 DEF SeatedIn, Evolves, SentBy, Asking
<1>6. /\ turns'[i].owner = turns[i].owner
      /\ turns[i].status = "admitted" =>
            turns'[i].status = "admitted" /\ turns'[i].reply = turns[i].reply
      /\ turns[i].owner = q /\ turns'[i].status = "pending" =>
            turns[i].status = "pending" /\ turns'[i].reply = turns[i].reply
  BY <1>3 DEF Evolves, Grow
<1> HIDE DEF i
<1>7. SeatedIn(q, proc[q], turns'[i], sent'[i])
  BY <1>3, <1>5, <1>6 DEF SeatedIn, Asking, Tooling
<1>8. QED
  BY <1>4, <1>7 DEF i

\* The calls that another invocation runs are left to it.
LEMMA RunningFrame ==
    ASSUME TypeOK, TypeOK', NEW p \in Owner, Evolves(p), NEW q \in Owner, q # p,
           Recorder, Seated(q), Running(q)
    PROVE  Running(q)'
<1>1. proc'[q] = proc[q]
  BY DEF Evolves
<1>2. SUFFICES ASSUME proc[q].pc \in InTurn
               PROVE  RunningIn(proc[q], turns'[proc[q].turn], executed'[proc[q].turn])
  BY <1>1 DEF Running
<1> DEFINE i == proc[q].turn
<1>3. /\ i \in 1..Len(turns) /\ i \in 1..MaxTurn
      /\ SeatedIn(q, proc[q], turns[i], sent[i])
      /\ RunningIn(proc[q], turns[i], executed[i])
  BY <1>2, TurnRange DEF Seated, Running
<1>4. MayRun(proc[q]) \/ proc[q].pc = "refuse" =>
          \A k \in 1..MaxCall : executed'[i][k] = executed[i][k]
  BY <1>3 DEF SeatedIn, Evolves, RanBy
<1>5. turns[i].status = "admitted" =>
          /\ Len(turns'[i].calls) = Len(turns[i].calls)
          /\ \A k \in 1..Len(turns[i].calls) :
                turns[i].calls[k] # "none" => turns'[i].calls[k] = turns[i].calls[k]
  BY <1>3 DEF Evolves, Grow
<1>6. proc[q].pc \in Tooling \cup {"refuse"} => turns[i].status = "admitted"
  BY <1>3 DEF SeatedIn
<1>7. Len(turns[i].calls) \in Nat /\ Len(turns[i].calls) <= MaxCall
  BY <1>3, TurnType DEF TypeOK, Recorder, WellFormed
<1>8. Len(proc[q].done) \in Nat /\ Ran(proc[q]) \in Nat
  BY ProcType DEF TypeOK
<1> HIDE DEF i
<1> DEFINE t == turns[i]
           n == turns'[i]
           x == executed[i]
           y == executed'[i]
           r == proc[q]
<1>9. RunningIn(r, t, x)
  BY <1>3
<1>10. MayRun(r) => \A k \in 1..MaxCall : y[k] = IF k <= Ran(r) THEN 1 ELSE 0
  BY <1>9, <1>4 DEF RunningIn
<1>11. r.pc \in Tooling => Ran(r) <= Len(n.calls)
  BY <1>9, <1>5, <1>6 DEF RunningIn
<1>12. r.pc = "exec" => Ran(r) < Len(n.calls)
  BY <1>9, <1>5, <1>6 DEF RunningIn, Tooling
<1>13. r.pc = "complete" => Ran(r) > 0
  BY <1>9 DEF RunningIn
<1>14. r.pc \in Tooling =>
          \A k \in 1..Len(r.done) :
             /\ r.done[k] = "done"
             /\ r.pc # "complete" \/ k < Len(r.done) => n.calls[k] = "done"
  <2>1. SUFFICES ASSUME r.pc \in Tooling, NEW k \in 1..Len(r.done)
                 PROVE  /\ r.done[k] = "done"
                        /\ r.pc # "complete" \/ k < Len(r.done) => n.calls[k] = "done"
    OBVIOUS
  <2>2. /\ r.done[k] = "done"
        /\ r.pc # "complete" \/ k < Len(r.done) => t.calls[k] = "done"
    BY <2>1, <1>9 DEF RunningIn
  <2>3. k \in 1..Len(t.calls)
    BY <2>1, <1>9, <1>7, <1>8 DEF RunningIn, Ran
  <2>4. QED
    BY <2>1, <2>2, <2>3, <1>5, <1>6
<1>15. r.pc = "refuse" => \A k \in 1..Len(n.calls) : n.calls[k] = "none" => y[k] = 0
  <2>1. SUFFICES ASSUME r.pc = "refuse", NEW k \in 1..Len(n.calls), n.calls[k] = "none"
                 PROVE  y[k] = 0
    OBVIOUS
  <2>2. k \in 1..Len(t.calls) /\ t.calls[k] = "none"
    BY <2>1, <1>5, <1>6
  <2>3. k \in 1..MaxCall
    BY <2>2, <1>7, AgentAssumption
  <2>4. QED
    BY <2>1, <2>2, <2>3, <1>4, <1>9 DEF RunningIn
<1>16. RunningIn(r, n, y)
  BY <1>10, <1>11, <1>12, <1>13, <1>14, <1>15 DEF RunningIn
<1>17. QED
  BY <1>16 DEF i

\* A truthful transcript stays truthful.
LEMMA TruthFrame ==
    ASSUME TypeOK, TypeOK', NEW p \in Owner, Evolves(p), Recorder,
           NEW rounds \in Seq(Round), Truthful(rounds, turns, executed, proc)
    PROVE  Truthful(rounds, turns', executed', proc')
<1>1. SUFFICES ASSUME NEW n \in 1..Len(rounds)
               PROVE  Honest(rounds[n], turns', executed', proc')
  BY DEF Truthful
<1> DEFINE r == rounds[n]
           i == r.turn
<1>2. Honest(r, turns, executed, proc)
  BY DEF Truthful
<1>3. /\ r.calls \in Seq(Outcome) /\ Len(r.calls) \in Nat
      /\ \A k \in 1..Len(r.calls) : r.calls[k] \in Outcome
  BY RoundType
<1> HIDE DEF r
<1>4. i \in 1..Len(turns) /\ i \in 1..MaxTurn /\ i \in 1..Len(turns')
  BY <1>2, TurnRange, GrowRange DEF Honest
<1>5. Len(turns[i].calls) \in Nat /\ Len(turns[i].calls) <= MaxCall
  BY <1>4, TurnType DEF TypeOK, Recorder, WellFormed
<1>6. Len(r.calls) <= Len(turns[i].calls)
  BY <1>2 DEF Honest
<1>7. CASE turns[i].status = "admitted"
  <2>1. /\ Len(turns'[i].calls) = Len(turns[i].calls)
        /\ \A k \in 1..Len(turns[i].calls) :
              turns[i].calls[k] # "none" => turns'[i].calls[k] = turns[i].calls[k]
    BY <1>4, <1>7 DEF Evolves, Grow
  <2>2. ASSUME NEW k \in 1..Len(r.calls), r.calls[k] = "refused"
        PROVE  executed'[i][k] = 0 /\ \A q \in Owner : ~Pending(proc'[q], i, k)
    <3>1. executed[i][k] = 0 /\ \A q \in Owner : ~Pending(proc[q], i, k)
      BY <1>2, <2>2 DEF Honest
    <3>2. k \in 1..MaxCall
      BY <1>3, <1>5, <1>6, AgentAssumption
    <3>3. executed'[i][k] = 0
      BY <3>1, <3>2, <1>4 DEF Evolves, RanBy
    <3>4. ~Pending(proc'[p], i, k)
      BY <3>1, <3>2, <1>4, <1>7 DEF Evolves, NoNewPending
    <3>5. QED
      BY <3>1, <3>3, <3>4 DEF Evolves
  <2>3. ASSUME NEW k \in 1..Len(r.calls), r.calls[k] # "refused"
        PROVE  \/ r.calls[k] = turns'[i].calls[k]
               \/ r.calls[k] = "done" /\ executed'[i][k] = 1
    <3>1. \/ r.calls[k] = turns[i].calls[k]
          \/ r.calls[k] = "done" /\ executed[i][k] = 1
      BY <1>2, <2>3 DEF Honest
    <3>2. r.calls[k] # "none" /\ k \in 1..Len(turns[i].calls)
      BY <1>3, <1>5, <1>6 DEF Outcome
    <3>3. k \in 1..MaxCall
      BY <1>3, <1>5, <1>6, AgentAssumption
    <3>4. executed[i][k] = 1 => executed'[i][k] = 1
      BY <3>3, <1>4 DEF Evolves, RanBy
    <3>5. QED
      BY <3>1, <3>2, <3>4, <2>1
  <2>4. QED
    BY <1>4, <1>6, <2>1, <2>2, <2>3 DEF Honest, r
<1>8. CASE turns[i].status # "admitted"
  <2>1. turns[i].calls = <<>>
    BY <1>4, <1>8 DEF Recorder, WellFormed
  <2>2. Len(r.calls) = 0
    BY <2>1, <1>3, <1>6
  <2>3. Len(turns'[i].calls) \in Nat
    BY <1>4, TurnType DEF TypeOK
  <2>4. QED
    BY <2>2, <2>3, <1>4 DEF Honest, r
<1>9. QED
  BY <1>7, <1>8

----------------------------------------------------------------------------
(* What a step of p does to the records and to the transcript.             *)

\* A completion that is new tells what happened.
NewlyAttested ==
    \A i \in 1..Len(turns') : \A k \in 1..Len(turns'[i].calls) :
        \/ /\ i \in 1..Len(turns) /\ k \in 1..Len(turns[i].calls)
           /\ turns'[i].calls[k] = turns[i].calls[k]
        \/ turns'[i].calls[k] \in {"none", "indeterminate"}
        \/ turns'[i].calls[k] = "done" /\ executed'[i][k] = 1
        \/ /\ turns'[i].calls[k] = "refusal" /\ executed'[i][k] = 0
           /\ \A q \in Owner : ~Pending(proc'[q], i, k)

\* The records after a step: a turn is added only after the others are settled, and
\* only the newest one can get calls.
Recording ==
    /\ Len(turns') <= MaxTurn
    /\ \A i \in 1..Len(turns') : WellFormed(turns'[i])
    /\ Len(turns') \in {Len(turns), Len(turns) + 1}
    /\ Len(turns') = Len(turns) + 1 => \A i \in 1..Len(turns) : Settled(turns[i])
    /\ \A i \in 1..Len(turns) :
          i < Len(turns) /\ HasCalls(turns'[i]) => HasCalls(turns[i])

\* The records keep agreeing with what ran.
LEMMA RecorderKept ==
    ASSUME TypeOK, TypeOK', NEW p \in Owner, Evolves(p), Recorder, Recording, NewlyAttested
    PROVE  Recorder'
<1>1. ASSUME NEW i \in 1..Len(turns')
      PROVE  Attested(i, turns'[i], executed'[i], proc')
  <2>1. SUFFICES ASSUME NEW k \in 1..Len(turns'[i].calls)
                 PROVE  /\ turns'[i].calls[k] = "done" => executed'[i][k] = 1
                        /\ turns'[i].calls[k] = "refusal" =>
                              executed'[i][k] = 0 /\ \A q \in Owner : ~Pending(proc'[q], i, k)
    BY DEF Attested
  <2>2. CASE /\ i \in 1..Len(turns) /\ k \in 1..Len(turns[i].calls)
             /\ turns'[i].calls[k] = turns[i].calls[k]
    <3>1. /\ turns[i].calls[k] = "done" => executed[i][k] = 1
          /\ turns[i].calls[k] = "refusal" =>
                executed[i][k] = 0 /\ \A q \in Owner : ~Pending(proc[q], i, k)
      BY <2>2 DEF Recorder, Attested
    <3>2. WellFormed(turns[i])
      BY <2>2 DEF Recorder
    <3>3. Len(turns[i].calls) \in Nat /\ i \in 1..MaxTurn /\ MaxCall \in Nat
      BY <2>2, TurnType, TurnRange DEF TypeOK
    <3>4. k \in 1..MaxCall
      BY <2>2, <3>2, <3>3 DEF WellFormed
    <3>5. turns[i].status = "admitted"
      <4>1. turns[i].calls # <<>>
        BY <2>2
      <4>2. QED
        BY <3>2, <4>1 DEF WellFormed
    <3>6. executed'[i][k] = executed[i][k] \/ (executed[i][k] = 0 /\ Pending(proc[p], i, k))
      BY <3>3, <3>4 DEF Evolves, RanBy
    <3>7. Pending(proc'[p], i, k) => Pending(proc[p], i, k)
      BY <2>2, <3>4, <3>5 DEF Evolves, NoNewPending
    <3>8. \A q \in Owner \ {p} : proc'[q] = proc[q]
      BY DEF Evolves
    <3>9. QED
      BY <2>2, <3>1, <3>6, <3>7, <3>8
  <2>3. CASE \/ turns'[i].calls[k] \in {"none", "indeterminate"}
             \/ turns'[i].calls[k] = "done" /\ executed'[i][k] = 1
             \/ /\ turns'[i].calls[k] = "refusal" /\ executed'[i][k] = 0
                /\ \A q \in Owner : ~Pending(proc'[q], i, k)
    BY <2>3
  <2>4. QED
    BY <2>2, <2>3 DEF NewlyAttested
<1>2. ASSUME NEW i \in 1..MaxTurn, sent'[i] > 0
      PROVE  i <= Len(turns')
  <2>1. sent'[i] = sent[i] \/ i \in 1..Len(turns)
    BY DEF Evolves, SentBy
  <2>2. i \in 1..Len(turns)
    BY <2>1, <1>2, TurnRange DEF Recorder
  <2>3. i \in 1..Len(turns') /\ Len(turns') \in Nat
    BY <2>2, GrowRange DEF TypeOK
  <2>4. QED
    BY <2>3
<1>3. QED
  BY <1>1, <1>2 DEF Recorder, Recording

\* No call runs twice, or before its reply is admitted.
LEMMA ExecutedKept ==
    ASSUME TypeOK, TypeOK', NEW p \in Owner, Evolves(p), Recorder, ExecutedOnce
    PROVE  ExecutedOnce'
<1>1. SUFFICES ASSUME NEW i \in 1..MaxTurn, NEW k \in 1..MaxCall, executed'[i][k] > 0
               PROVE  executed'[i][k] = 1 /\ i \in Admitted' /\ k <= Len(turns'[i].calls)
  BY DEF ExecutedOnce
<1>2. /\ executed'[i][k] = 1
      /\ i \in 1..Len(turns) /\ turns[i].status = "admitted" /\ k <= Len(turns[i].calls)
  <2>1. CASE executed'[i][k] = executed[i][k]
    <3>1. executed[i][k] = 1 /\ i \in Admitted /\ k <= Len(turns[i].calls)
      BY <1>1, <2>1 DEF ExecutedOnce
    <3>2. QED
      BY <2>1, <3>1 DEF Admitted, TypeOK
  <2>2. CASE executed'[i][k] # executed[i][k]
    BY <2>2 DEF Evolves, RanBy
  <2>3. QED
    BY <2>1, <2>2
<1>3. turns'[i].status = "admitted" /\ Len(turns'[i].calls) = Len(turns[i].calls)
  BY <1>2 DEF Evolves, Grow
<1>4. i \in DOMAIN turns'
  BY <1>2, GrowRange DEF TypeOK
<1>5. QED
  BY <1>2, <1>3, <1>4 DEF Admitted

\* Only the newest request can be unresolved.
LEMMA SentKept ==
    ASSUME TypeOK, TypeOK', NEW p \in Owner, Evolves(p), Recorder, Recording,
           NoSendAfterUnresolved
    PROVE  NoSendAfterUnresolved'
<1>1. SUFFICES ASSUME NEW i \in 1..Len(turns')
               PROVE  /\ sent'[i] <= 1
                      /\ i < Len(turns') => turns'[i].status \in {"admitted", "rejected"}
  BY DEF NoSendAfterUnresolved, TypeOK
<1>2. Len(turns) \in Nat /\ Len(turns') \in Nat /\ MaxTurn \in Nat
  BY AgentAssumption DEF TypeOK
<1>3. i \in 1..MaxTurn
  BY <1>2 DEF Recording
<1>4. sent[i] \in Nat
  BY <1>3 DEF TypeOK
<1>5. sent'[i] <= 1
  <2>1. CASE i \in 1..Len(turns)
    <3>1. sent[i] <= 1
      BY <2>1 DEF NoSendAfterUnresolved, TypeOK
    <3>2. QED
      BY <3>1, <1>3 DEF Evolves, SentBy
  <2>2. CASE i \notin 1..Len(turns)
    <3>1. sent'[i] = sent[i]
      BY <2>2, <1>3 DEF Evolves, SentBy
    <3>2. sent[i] = 0
      BY <1>2, <1>3, <1>4, <2>2 DEF Recorder
    <3>3. QED
      BY <3>1, <3>2
  <2>3. QED
    BY <2>1, <2>2
<1>6. ASSUME i < Len(turns') PROVE turns'[i].status \in {"admitted", "rejected"}
  <2>1. i \in 1..Len(turns)
    BY <1>2, <1>6 DEF Recording
  <2>2. Settled(turns[i])
    <3>1. CASE Len(turns') = Len(turns)
      BY <3>1, <2>1, <1>6 DEF NoSendAfterUnresolved, Settled, TypeOK
    <3>2. CASE Len(turns') = Len(turns) + 1
      BY <3>2, <2>1 DEF Recording
    <3>3. QED
      BY <3>1, <3>2 DEF Recording
  <2>3. QED
    BY <2>1, <2>2 DEF Evolves, Grow, Settled
<1>7. QED
  BY <1>5, <1>6

\* Rounds of calls stay in order ...
LEMMA SortedFrame ==
    ASSUME TypeOK, TypeOK', NEW p \in Owner, Evolves(p),
           NEW rounds, Sorted(rounds, turns)
    PROVE  Sorted(rounds, turns')
<1>1. ASSUME NEW n \in 1..Len(rounds)
      PROVE  /\ rounds[n].turn \in 1..Len(turns') /\ HasCalls(turns'[rounds[n].turn])
             /\ Len(rounds[n].calls) = Len(turns'[rounds[n].turn].calls)
  <2>1. /\ rounds[n].turn \in 1..Len(turns) /\ HasCalls(turns[rounds[n].turn])
        /\ Len(rounds[n].calls) = Len(turns[rounds[n].turn].calls)
    BY DEF Sorted
  <2>2. QED
    BY <2>1, GrowRange DEF Evolves, Grow, HasCalls
<1>2. QED
  BY <1>1 DEF Sorted

\* ... and exact, for a completion that is there stays as it is ...
LEMMA ExactFrame ==
    ASSUME TypeOK, TypeOK', NEW p \in Owner, Evolves(p), Recorder,
           NEW rounds \in Seq(Round), Truthful(rounds, turns, executed, proc),
           Exact(rounds, turns)
    PROVE  Exact(rounds, turns')
<1>1. SUFFICES ASSUME NEW n \in 1..Len(rounds), NEW k \in 1..Len(rounds[n].calls),
                      rounds[n].calls[k] # "refused"
               PROVE  rounds[n].calls[k] = turns'[rounds[n].turn].calls[k]
  BY DEF Exact
<1> DEFINE r == rounds[n]
           i == r.turn
<1>2. Honest(r, turns, executed, proc) /\ r.calls[k] = turns[i].calls[k]
  BY <1>1 DEF Truthful, Exact
<1>3. /\ Len(r.calls) \in Nat /\ k \in 1..Len(r.calls)
      /\ \A m \in 1..Len(r.calls) : r.calls[m] \in Outcome
  BY <1>1, RoundType
<1> HIDE DEF r
<1>4. i \in 1..Len(turns) /\ Len(r.calls) <= Len(turns[i].calls)
  BY <1>2 DEF Honest
<1>5. Len(turns[i].calls) \in Nat
  BY <1>4, TurnType DEF TypeOK
<1>6. k \in 1..Len(turns[i].calls) /\ turns[i].calls[k] # "none"
  <2>1. r.calls[k] # "none"
    BY <1>3 DEF Outcome
  <2>2. k \in 1..Len(turns[i].calls)
    BY <1>3, <1>4, <1>5
  <2>3. QED
    BY <1>2, <2>1, <2>2
<1>7. turns[i].status = "admitted"
  BY <1>4, <1>6 DEF Recorder, WellFormed
<1>8. turns'[i].calls[k] = turns[i].calls[k]
  BY <1>4, <1>6, <1>7 DEF Evolves, Grow
<1>9. QED
  BY <1>2, <1>8 DEF r

\* ... and hold all calls of their turns.
LEMMA CoveredFrame ==
    ASSUME NEW p \in Owner, Evolves(p),
           NEW i \in 1..Len(turns), HasCalls(turns[i]), NEW rounds, Covered(i, rounds, turns)
    PROVE  Covered(i, rounds, turns')
<1>1. Len(turns'[i].calls) = Len(turns[i].calls)
  BY DEF Evolves, Grow, HasCalls
<1>2. QED
  BY <1>1 DEF Covered

\* No turn before those of the rounds gets calls.
LEMMA GaplessFrame ==
    ASSUME TypeOK, TypeOK', NEW p \in Owner, Evolves(p), Recording,
           NEW rounds \in Seq(Round), Sorted(rounds, turns), Gapless(rounds, turns)
    PROVE  Gapless(rounds, turns')
<1>1. SUFFICES ASSUME NEW n \in 1..Len(rounds), NEW i \in 1..Len(turns'),
                      HasCalls(turns'[i]), i < rounds[n].turn
               PROVE  \E m \in 1..Len(rounds) : rounds[m].turn = i
  BY DEF Gapless
<1>2. rounds[n].turn \in 1..Len(turns) /\ Len(turns) \in Nat
  BY DEF Sorted, TypeOK
<1>3. i \in 1..Len(turns) /\ i < Len(turns)
  BY <1>1, <1>2
<1>4. HasCalls(turns[i])
  BY <1>1, <1>3 DEF Recording
<1>5. QED
  BY <1>1, <1>3, <1>4 DEF Gapless

\* The transcript keeps its promises when its rounds stay as they are.
LEMMA TranscriptKept ==
    ASSUME TypeOK, TypeOK', NEW p \in Owner, Evolves(p), Recorder, Recording, Transcript,
           branch'.rounds = branch.rounds,
           branch'.life \in {"none", "pending"} => branch.life \in {"none", "pending"},
           branch'.life = "completed" => branch.life = "completed" /\ turns' = turns
    PROVE  Transcript'
<1>1. branch.rounds \in Seq(Round)
  BY DEF TypeOK, BranchRecord
<1>2. Truthful(branch.rounds, turns', executed', proc')
  BY <1>1, TruthFrame DEF Transcript
<1>3. branch'.life \in {"none", "pending"} =>
          Sorted(branch.rounds, turns') /\ Gapless(branch.rounds, turns')
  BY <1>1, SortedFrame, GaplessFrame DEF Transcript
<1>4. branch'.life = "completed" =>
          \A i \in 1..Len(turns') : HasCalls(turns'[i]) => Covered(i, branch.rounds, turns')
  BY DEF Transcript
<1>5. branch'.life # "failed" => Exact(branch.rounds, turns')
  <2>1. branch'.life # "failed" => branch.life # "failed"
    BY DEF TypeOK, BranchRecord
  <2>2. QED
    BY <1>1, <2>1, ExactFrame DEF Transcript
<1>6. QED
  BY <1>2, <1>3, <1>4, <1>5 DEF Transcript

\* An owner that keeps the lease while others take a step.
LEMMA HolderFrame ==
    ASSUME NEW q \in Owner, Holder(q),
           proc'[q] = proc[q], turns' = turns, branch' = branch
    PROVE  Holder(q)'
<1>1. Working(q)' <=> Working(q)
  BY DEF Working
<1>2. Refusals' = Refusals /\ (Extends(proc[q].rounds)' <=> Extends(proc[q].rounds))
  BY DEF Refusals, Extends
<1>3. QED
  BY <1>1, <1>2 DEF Holder

\* What a step of p must show of p itself.
Own(p) ==
    /\ Seated(p)' /\ Running(p)'
    /\ Truthful(proc'[p].rounds, turns', executed', proc')

\* The invariant after a step of p.
LEMMA Combine ==
    ASSUME IInv, NEW p \in Owner, TypeOK', Evolves(p), Recording, NewlyAttested,
           Own(p), Live(p)' => Holder(p)', Transcript',
           \A q \in Owner \ {p} : Live(q)' => Live(q) /\ turns' = turns /\ branch' = branch
    PROVE  IInv'
<1>1. TypeOK /\ Recorder
  BY DEF IInv
<1>2. Recorder' /\ NoSendAfterUnresolved' /\ ExecutedOnce'
  BY <1>1, RecorderKept, SentKept, ExecutedKept DEF IInv
<1>3. \A q \in Owner \ {p} : proc'[q] = proc[q]
  BY DEF Evolves
<1>4. ASSUME NEW q \in Owner
      PROVE  /\ Seated(q)' /\ Running(q)'
             /\ Truthful(proc'[q].rounds, turns', executed', proc')
  <2>1. CASE q = p
    BY <2>1 DEF Own
  <2>2. CASE q # p
    <3>1. Seated(q) /\ Running(q) /\ Truthful(proc[q].rounds, turns, executed, proc)
      BY DEF IInv
    <3>2. Seated(q)' /\ Running(q)'
      BY <1>1, <2>2, <3>1, SeatedFrame, RunningFrame
    <3>3. proc[q].rounds \in Seq(Round)
      BY <1>1, ProcType DEF TypeOK
    <3>4. QED
      BY <1>1, <1>3, <2>2, <3>1, <3>2, <3>3, TruthFrame
  <2>3. QED
    BY <2>1, <2>2
<1>5. ASSUME NEW q \in Owner, Live(q)'
      PROVE  Holder(q)'
  <2>1. CASE q = p
    BY <2>1, <1>5
  <2>2. CASE q # p
    <3>1. Live(q) /\ turns' = turns /\ branch' = branch /\ proc'[q] = proc[q]
      BY <2>2, <1>3, <1>5
    <3>2. Holder(q)
      BY <3>1 DEF IInv
    <3>3. QED
      BY <3>1, <3>2, HolderFrame
  <2>3. QED
    BY <2>1, <2>2
<1>6. QED
  BY <1>2, <1>4, <1>5 DEF IInv

\* A step of p that leaves the provider records alone.
LEMMA SameTurns ==
    ASSUME IInv, NEW p \in Owner, turns' = turns, SentBy(p), RanBy(p), NoNewPending(p),
           \A q \in Owner \ {p} : proc'[q] = proc[q]
    PROVE  Evolves(p) /\ Recording /\ NewlyAttested
<1>1. Recorder /\ Len(turns) \in Nat
  BY DEF IInv, TypeOK
<1>2. Evolves(p)
  BY DEF Evolves, Grow
<1>3. Recording
  BY <1>1 DEF Recording, Recorder
<1>4. NewlyAttested
  BY DEF NewlyAttested
<1>5. QED
  BY <1>2, <1>3, <1>4

\* A step of p outside the store.
LEMMA Local ==
    ASSUME IInv, NEW p \in Owner, TypeOK', turns' = turns, branch' = branch,
           SentBy(p), RanBy(p), NoNewPending(p),
           \A q \in Owner \ {p} : proc'[q] = proc[q],
           Own(p), Live(p) => Holder(p)'
    PROVE  IInv'
<1>1. Evolves(p) /\ Recording /\ NewlyAttested
  BY SameTurns
<1>2. Transcript'
  BY <1>1, TranscriptKept DEF IInv
<1>3. \A q \in Owner : Live(q)' <=> Live(q)
  BY DEF Live
<1>4. QED
  BY <1>1, <1>2, <1>3, Combine

\* A step of the holder p that changes provider records.
LEMMA Stored ==
    ASSUME IInv, NEW p \in Owner, TypeOK', Live(p), branch' = branch,
           Evolves(p), Recording, NewlyAttested, Own(p), Holder(p)'
    PROVE  IInv'
<1>1. branch.life = "pending" /\ branch.owner = p
  BY DEF Live
<1>2. Transcript'
  BY <1>1, TranscriptKept DEF IInv
<1>3. \A q \in Owner \ {p} : ~Live(q)'
  BY <1>1 DEF Live
<1>4. QED
  BY <1>2, <1>3, Combine

\* A step of p that changes the branch.
LEMMA Branched ==
    ASSUME IInv, NEW p \in Owner, TypeOK', turns' = turns, UNCHANGED <<sent, executed>>,
           NoNewPending(p), \A q \in Owner \ {p} : proc'[q] = proc[q],
           \A q \in Owner \ {p} : ~Live(q)',
           Own(p), Live(p)' => Holder(p)',
           Evolves(p) /\ Recording => Transcript'
    PROVE  IInv'
<1>1. SentBy(p) /\ RanBy(p)
  BY DEF SentBy, RanBy
<1>2. Evolves(p) /\ Recording /\ NewlyAttested
  BY <1>1, SameTurns
<1>3. QED
  BY <1>2, Combine

\* Outside a turn little is asked of p.
LEMMA OutOfTurn ==
    ASSUME NEW p \in Owner, proc'[p].pc \notin InTurn,
           proc'[p].pc \in {"dead", "done"} \/ proc'[p].done = <<>>
    PROVE  Seated(p)' /\ Running(p)' /\ ~MayRun(proc'[p])
  BY DEF Seated, Running, InTurn, Asking, Tooling, MayRun

----------------------------------------------------------------------------
(* Steps of p outside the store, and store operations that change no       *)
(* record.                                                                 *)

\* What the invariant says of p.
LEMMA Facts ==
    ASSUME IInv, NEW p \in Owner
    PROVE  /\ TypeOK /\ Recorder /\ proc \in [Owner -> Process]
           /\ turns \in Seq(TurnRecord) /\ Len(turns) \in Nat
           /\ Seated(p) /\ Running(p) /\ Truthful(proc[p].rounds, turns, executed, proc)
           /\ Live(p) => Holder(p)
           /\ proc[p].turn \in 0..Len(turns)
  BY DEF IInv, TypeOK

\* A step that changes p only.
LEMMA LocalMove ==
    ASSUME IInv, NEW p \in Owner, UNCHANGED <<branch, turns, sent, executed>>,
           proc' \in [Owner -> Process], \A q \in Owner \ {p} : proc'[q] = proc[q],
           proc'[p].turn \in 0..Len(turns), NoNewPending(p), Seated(p)', Running(p)',
           Truthful(proc'[p].rounds, turns, executed, proc), Live(p) => Holder(p)'
    PROVE  IInv'
<1>1. TypeOK /\ Recorder
  BY DEF IInv
<1>2. TypeOK'
  BY <1>1 DEF TypeOK
<1>3. SentBy(p) /\ RanBy(p)
  BY DEF SentBy, RanBy
<1>4. Evolves(p)
  BY <1>3, SameTurns
<1>5. proc'[p].rounds \in Seq(Round)
  BY <1>2, ProcType
<1>6. Truthful(proc'[p].rounds, turns', executed', proc')
  BY <1>1, <1>2, <1>4, <1>5, TruthFrame
<1>7. QED
  BY <1>2, <1>3, <1>6, Local DEF Own

\* p gives up, or ends.
LEMMA Quit ==
    ASSUME IInv, NEW p \in Owner, UNCHANGED <<branch, turns, sent, executed>>,
           proc' \in [Owner -> Process], \A q \in Owner \ {p} : proc'[q] = proc[q],
           proc'[p].turn \in 0..Len(turns),
           proc'[p].pc = "dead" \/ (proc'[p].pc = "gone" /\ proc'[p].done = <<>>),
           Truthful(proc'[p].rounds, turns, executed, proc)
    PROVE  IInv'
<1>1. proc'[p].pc \notin InTurn
  BY DEF InTurn, Asking, Tooling
<1>2. Seated(p)' /\ Running(p)' /\ ~MayRun(proc'[p])
  BY <1>1, OutOfTurn
<1>3. NoNewPending(p)
  BY <1>2 DEF NoNewPending, Pending
<1>4. Holder(p)'
  BY DEF Holder, Working
<1>5. QED
  BY <1>2, <1>3, <1>4, LocalMove

LEMMA EmptyTruthful == Truthful(<<>>, turns, executed, proc)
  BY DEF Truthful

LEMMA AppendRound ==
    ASSUME NEW rounds \in Seq(Round), NEW round \in Round
    PROVE  /\ Append(rounds, round) \in Seq(Round)
           /\ Len(rounds) \in Nat /\ Len(Append(rounds, round)) = Len(rounds) + 1
           /\ \A n \in 1..Len(rounds) : Append(rounds, round)[n] = rounds[n]
           /\ Append(rounds, round)[Len(rounds) + 1] = round
  OBVIOUS

\* A longer transcript covers as much.
LEMMA CoveredMore ==
    ASSUME NEW i, NEW ts, NEW a, NEW b, Covered(i, a, ts),
           Len(a) \in Nat, Len(b) \in Nat, Len(a) <= Len(b),
           \A n \in 1..Len(a) : b[n] = a[n]
    PROVE  Covered(i, b, ts)
<1>1. PICK n \in 1..Len(a) : a[n].turn = i /\ Len(a[n].calls) = Len(ts[i].calls)
  BY DEF Covered
<1>2. n \in 1..Len(b) /\ b[n] = a[n]
  OBVIOUS
<1>3. QED
  BY <1>1, <1>2 DEF Covered

\* A transcript and one more round.
LEMMA TruthAppend ==
    ASSUME NEW rounds \in Seq(Round), NEW round \in Round, NEW ts, NEW ran, NEW ps,
           Truthful(rounds, ts, ran, ps), Honest(round, ts, ran, ps)
    PROVE  Truthful(Append(rounds, round), ts, ran, ps)
<1>1. SUFFICES ASSUME NEW n \in 1..(Len(rounds) + 1)
               PROVE  Honest(Append(rounds, round)[n], ts, ran, ps)
  BY DEF Truthful
<1>2. CASE n \in 1..Len(rounds)
  BY <1>2 DEF Truthful
<1>3. CASE n = Len(rounds) + 1
  BY <1>3
<1>4. QED
  BY <1>2, <1>3

LEMMA ExactAppend ==
    ASSUME NEW rounds \in Seq(Round), NEW round \in Round, NEW ts, Exact(rounds, ts),
           \A k \in 1..Len(round.calls) :
              round.calls[k] # "refused" => round.calls[k] = ts[round.turn].calls[k]
    PROVE  Exact(Append(rounds, round), ts)
<1>1. SUFFICES ASSUME NEW n \in 1..(Len(rounds) + 1)
               PROVE  \A k \in 1..Len(Append(rounds, round)[n].calls) :
                         Append(rounds, round)[n].calls[k] # "refused" =>
                            Append(rounds, round)[n].calls[k]
                               = ts[Append(rounds, round)[n].turn].calls[k]
  BY DEF Exact
<1>2. CASE n \in 1..Len(rounds)
  <2>1. Append(rounds, round)[n] = rounds[n]
    BY <1>2
  <2>2. QED
    BY <1>2, <2>1 DEF Exact
<1>3. CASE n = Len(rounds) + 1
  <2>1. Append(rounds, round)[n] = round
    BY <1>3
  <2>2. QED
    BY <2>1
<1>4. QED
  BY <1>2, <1>3

\* A round without calls is truthful.
LEMMA EmptyRound ==
    ASSUME NEW ts \in Seq(TurnRecord), NEW i \in 1..Len(ts), NEW ran, NEW ps
    PROVE  /\ [turn |-> i, calls |-> <<>>] \in Round
           /\ Honest([turn |-> i, calls |-> <<>>], ts, ran, ps)
<1>1. Len(ts[i].calls) \in Nat
  BY TurnType
<1>2. [turn |-> i, calls |-> <<>>] \in Round
  BY DEF Round
<1>3. QED
  BY <1>1, <1>2 DEF Honest

LEMMA CrashKeeps ==
    ASSUME IInv, NEW p \in Owner, Crash(p) \/ Refused(p)
    PROVE  IInv'
<1>1. proc \in [Owner -> Process] /\ Len(turns) \in Nat
  BY Facts
<1>2. /\ proc' = [proc EXCEPT ![p] = Start("gone")]
      /\ UNCHANGED <<branch, turns, sent, executed>>
  BY DEF Crash, Refused
<1>3. ProcBecomes(p, "gone", <<>>, 0, "none", 0, <<>>, FALSE)
  BY <1>1, <1>2, PcGone
<1>4. QED
  BY <1>1, <1>2, <1>3, EmptyTruthful, Quit DEF ProcBecomes

LEMMA InvalidReplyKeeps ==
    ASSUME IInv, NEW p \in Owner, proc[p].pc \in InTurn \cup {"recover", "renew"},
           Goto(p, "dead"), UNCHANGED <<branch, turns, sent, executed>>
    PROVE  IInv'
<1>1. /\ proc \in [Owner -> Process] /\ proc[p].turn \in 0..Len(turns)
      /\ Truthful(proc[p].rounds, turns, executed, proc)
  BY Facts
<1>2. /\ proc' \in [Owner -> Process] /\ \A q \in Owner \ {p} : proc'[q] = proc[q]
      /\ proc'[p].pc = "dead" /\ proc'[p].turn = proc[p].turn
      /\ proc'[p].rounds = proc[p].rounds
  BY <1>1, PcOnly DEF ProcBecomes, Goto, Pc
<1>3. QED
  BY <1>1, <1>2, Quit

\* What a failure leaves of a tool round: each of its calls ran, and is completed or may
\* be the last one.
LEMMA LeftHonest ==
    ASSUME IInv, NEW p \in Owner, proc[p].pc \in Tooling, NEW done \in Seq(Outcome),
           \A k \in 1..Len(done) : done[k] = "done", Len(done) <= Ran(proc[p])
    PROVE  /\ [turn |-> proc[p].turn, calls |-> done] \in Round
           /\ Honest([turn |-> proc[p].turn, calls |-> done], turns, executed, proc)
<1> DEFINE i == proc[p].turn
           round == [turn |-> i, calls |-> done]
<1>1. /\ proc \in [Owner -> Process] /\ TypeOK /\ Recorder /\ Seated(p) /\ Running(p)
      /\ turns \in Seq(TurnRecord)
  BY Facts
<1>2. /\ i \in 1..Len(turns) /\ i \in Nat /\ Len(turns[i].calls) \in Nat
      /\ Len(turns[i].calls) <= MaxCall /\ MaxCall \in Nat
      /\ RunningIn(proc[p], turns[i], executed[i])
  BY <1>1, TurnType, AgentAssumption DEF Seated, Running, InTurn, Recorder, WellFormed
<1>3. /\ Ran(proc[p]) <= Len(turns[i].calls) /\ Ran(proc[p]) \in Nat
      /\ \A k \in 1..MaxCall : executed[i][k] = IF k <= Ran(proc[p]) THEN 1 ELSE 0
  BY <1>1, <1>2, ProcType DEF RunningIn, MayRun, Ran
<1>4. Len(done) \in Nat /\ Len(done) <= Len(turns[i].calls)
  BY <1>2, <1>3
<1>5. \A k \in 1..Len(done) : done[k] = "done" /\ executed[i][k] = 1
  BY <1>2, <1>3, <1>4
<1>6. round \in Round /\ round.turn = i /\ round.calls = done
  BY <1>2 DEF Round
<1> HIDE DEF round
<1>7. Honest(round, turns, executed, proc)
  BY <1>2, <1>4, <1>5, <1>6 DEF Honest
<1>8. QED
  BY <1>6, <1>7 DEF round

LEMMA GiveUpKeeps ==
    ASSUME IInv, NEW p \in Owner, GiveUp(p)
    PROVE  IInv'
<1> DEFINE with(done) == Append(proc[p].rounds, [turn |-> proc[p].turn, calls |-> done])
           more == Append(proc[p].done, "done")
<1>1. /\ proc \in [Owner -> Process] /\ proc[p].turn \in 0..Len(turns) /\ Running(p)
      /\ Truthful(proc[p].rounds, turns, executed, proc)
      /\ proc[p].rounds \in Seq(Round) /\ proc[p].done \in Seq(Outcome)
      /\ Len(proc[p].done) \in Nat
  BY Facts, ProcType
<1>2. UNCHANGED <<branch, turns, sent, executed>>
  BY DEF GiveUp
<1>3. PICK rounds \in Left(p) : proc' = [proc EXCEPT ![p].pc = "dead", ![p].rounds = rounds]
  BY DEF GiveUp
<1>4. \/ rounds = proc[p].rounds
      \/ proc[p].pc \in Tooling /\ rounds = with(proc[p].done)
      \/ proc[p].pc = "fence" /\ rounds = with(more)
  BY <1>3 DEF Left, Tooling
<1>5. ASSUME NEW done \in Seq(Outcome), rounds = with(done), proc[p].pc \in Tooling,
             \A k \in 1..Len(done) : done[k] = "done", Len(done) <= Ran(proc[p])
      PROVE  rounds \in Seq(Round) /\ Truthful(rounds, turns, executed, proc)
  BY <1>1, <1>5, LeftHonest, AppendRound, TruthAppend
<1>6. proc[p].pc \in Tooling =>
          /\ \A k \in 1..Len(proc[p].done) : proc[p].done[k] = "done"
          /\ Len(proc[p].done) <= Ran(proc[p])
  BY <1>1 DEF Running, RunningIn, InTurn, Ran
<1>7. rounds \in Seq(Round) /\ Truthful(rounds, turns, executed, proc)
  <2>1. CASE rounds = proc[p].rounds
    BY <1>1, <2>1
  <2>2. CASE proc[p].pc \in Tooling /\ rounds = with(proc[p].done)
    BY <1>1, <1>5, <1>6, <2>2
  <2>3. CASE proc[p].pc = "fence" /\ rounds = with(more)
    <3>1. proc[p].pc \in Tooling /\ Ran(proc[p]) = Len(proc[p].done) + 1
      BY <2>3 DEF Tooling, Ran
    <3>2. /\ more \in Seq(Outcome) /\ Len(more) = Len(proc[p].done) + 1
          /\ \A k \in 1..Len(more) : more[k] = "done"
      <4>1. "done" \in Outcome
        BY DEF Outcome
      <4>2. QED
        BY <1>1, <1>6, <3>1, <4>1
    <3> HIDE DEF more
    <3>3. QED
      BY <1>1, <1>5, <2>3, <3>1, <3>2
  <2>4. QED
    BY <1>4, <2>1, <2>2, <2>3
<1>8. /\ proc' \in [Owner -> Process] /\ \A q \in Owner \ {p} : proc'[q] = proc[q]
      /\ proc'[p].pc = "dead" /\ proc'[p].turn = proc[p].turn
      /\ proc'[p].rounds = rounds
  BY <1>1, <1>3, <1>7, PcRounds DEF ProcBecomes, Pc
<1>9. QED
  BY <1>1, <1>2, <1>7, <1>8, Quit

\* The lease is renewed before a request ...
LEMMA RenewKeeps ==
    ASSUME IInv, NEW p \in Owner, Renew(p)
    PROVE  IInv'
<1>1. /\ proc \in [Owner -> Process] /\ proc[p].turn \in 0..Len(turns)
      /\ Running(p) /\ Truthful(proc[p].rounds, turns, executed, proc)
      /\ Live(p) => Holder(p)
  BY Facts
<1>2. /\ proc[p].pc = "renew" /\ UNCHANGED <<branch, turns, sent, executed>>
      /\ Live(p) /\ Goto(p, "intent")
  BY DEF Renew
<1>3. ProcBecomes(p, "intent", proc[p].rounds, proc[p].turn, proc[p].reply, proc[p].count,
                  proc[p].done, proc[p].forced)
  BY <1>1, <1>2, PcOnly DEF Goto, Pc
<1>4. proc[p].done = <<>>
  BY <1>1, <1>2 DEF Running, Tooling
<1>5. proc'[p].pc \notin InTurn
  BY <1>3 DEF ProcBecomes, InTurn, Asking, Tooling
<1>6. Seated(p)' /\ Running(p)' /\ ~MayRun(proc'[p])
  BY <1>3, <1>4, <1>5, OutOfTurn DEF ProcBecomes
<1>7. NoNewPending(p)
  BY <1>6 DEF NoNewPending, Pending
<1>8. Holds(proc[p], turns) /\ (Refusals = {} => Extends(proc[p].rounds))
  BY <1>1, <1>2 DEF Holder, Working
<1>9. Holds(proc'[p], turns)
  BY <1>2, <1>3, <1>6, <1>8 DEF Holds, ProcBecomes, Asking, Tooling, MayRun
<1>10. Holder(p)'
  BY <1>2, <1>3, <1>8, <1>9 DEF Holder, ProcBecomes, Refusals, Extends
<1>11. QED
  BY <1>1, <1>2, <1>3, <1>6, <1>7, <1>10, LocalMove DEF ProcBecomes

\* ... and the permit of an intent used.
LEMMA AdmitSendKeeps ==
    ASSUME IInv, NEW p \in Owner, AdmitSend(p)
    PROVE  IInv'
<1>1. /\ proc \in [Owner -> Process] /\ proc[p].turn \in 0..Len(turns)
      /\ Seated(p) /\ Running(p) /\ Truthful(proc[p].rounds, turns, executed, proc)
      /\ Live(p) => Holder(p)
  BY Facts
<1>2. /\ proc[p].pc = "permit" /\ UNCHANGED <<branch, turns, sent, executed>>
      /\ Live(p) /\ Goto(p, "send")
  BY DEF AdmitSend
<1>3. ProcBecomes(p, "send", proc[p].rounds, proc[p].turn, proc[p].reply, proc[p].count,
                  proc[p].done, proc[p].forced)
  BY <1>1, <1>2, PcOnly DEF Goto, Pc
<1>4. Seated(p)'
  BY <1>1, <1>2, <1>3 DEF Seated, SeatedIn, ProcBecomes, InTurn, Asking, Tooling, MayRun
<1>5. Running(p)' /\ ~MayRun(proc'[p])
  BY <1>1, <1>2, <1>3 DEF Running, RunningIn, ProcBecomes, Tooling, MayRun
<1>6. NoNewPending(p)
  BY <1>5 DEF NoNewPending, Pending
<1>7. Holds(proc[p], turns) /\ (Refusals = {} => Extends(proc[p].rounds))
  BY <1>1, <1>2 DEF Holder, Working
<1>8. Holds(proc'[p], turns)
  BY <1>2, <1>3, <1>5, <1>7 DEF Holds, ProcBecomes, Asking, Tooling, MayRun
<1>9. Holder(p)'
  BY <1>2, <1>3, <1>7, <1>8 DEF Holder, ProcBecomes, Refusals, Extends
<1>10. QED
  BY <1>1, <1>2, <1>3, <1>4, <1>5, <1>6, <1>9, LocalMove DEF ProcBecomes

\* A reply arrives; what p may store of it is what it got.
LEMMA RepliedKeeps ==
    ASSUME IInv, NEW p \in Owner, Replied(p)
    PROVE  IInv'
<1>1. /\ proc \in [Owner -> Process] /\ proc[p].turn \in 0..Len(turns)
      /\ Seated(p) /\ Running(p) /\ Truthful(proc[p].rounds, turns, executed, proc)
      /\ Live(p) => Holder(p)
  BY Facts
<1>2. proc[p].pc = "wait" /\ UNCHANGED <<branch, turns, sent, executed>>
  BY DEF Replied
<1>3. PICK reply \in Reply \ {"none"}, count \in 0..MaxCall :
        /\ reply = "calls" <=> count > 0
        /\ proc' = [proc EXCEPT ![p].pc = "stage", ![p].reply = reply, ![p].count = count]
  BY DEF Replied
<1>4. ProcBecomes(p, "stage", proc[p].rounds, proc[p].turn, reply, count,
                  proc[p].done, proc[p].forced)
  <2>1. reply \in Reply /\ count \in Nat
    BY AgentAssumption
  <2>2. QED
    BY <1>1, <1>3, <2>1, PcReply DEF Pc
<1>5. Seated(p)'
  BY <1>1, <1>2, <1>3, <1>4 DEF Seated, SeatedIn, ProcBecomes, InTurn, Asking, Tooling, MayRun
<1>6. Running(p)' /\ ~MayRun(proc'[p])
  BY <1>1, <1>2, <1>4 DEF Running, RunningIn, ProcBecomes, Tooling, MayRun
<1>7. NoNewPending(p)
  BY <1>6 DEF NoNewPending, Pending
<1>8. Live(p) => Holder(p)'
  <2>1. SUFFICES ASSUME Live(p) PROVE Holder(p)'
    OBVIOUS
  <2>2. Holds(proc[p], turns) /\ (Refusals = {} => Extends(proc[p].rounds))
    BY <1>1, <1>2, <2>1 DEF Holder, Working
  <2>3. Holds(proc'[p], turns)
    BY <1>2, <1>4, <1>6, <2>2 DEF Holds, ProcBecomes, Asking, Tooling, MayRun
  <2>4. QED
    BY <1>2, <1>4, <2>2, <2>3 DEF Holder, ProcBecomes, Refusals, Extends
<1>9. QED
  BY <1>1, <1>2, <1>4, <1>5, <1>6, <1>7, <1>8, LocalMove DEF ProcBecomes

\* The lease is renewed after a request; the calls of the reply are all ahead.
LEMMA SettleKeeps ==
    ASSUME IInv, NEW p \in Owner, Settle(p)
    PROVE  IInv'
<1>1. /\ proc \in [Owner -> Process] /\ proc[p].turn \in 0..Len(turns)
      /\ Seated(p) /\ Running(p) /\ Truthful(proc[p].rounds, turns, executed, proc)
      /\ Live(p) => Holder(p)
  BY Facts
<1>2. /\ proc[p].pc = "settle" /\ UNCHANGED <<branch, turns, sent, executed>>
      /\ Live(p) /\ proc' = [proc EXCEPT ![p].pc = "reply", ![p].retries = 0]
  BY DEF Settle
<1>3. ProcBecomes(p, "reply", proc[p].rounds, proc[p].turn, proc[p].reply, proc[p].count,
                  proc[p].done, proc[p].forced)
  BY <1>1, <1>2, PcRetries DEF Pc
<1>4. Seated(p)'
  BY <1>1, <1>2, <1>3 DEF Seated, SeatedIn, ProcBecomes, InTurn, Asking, Tooling, MayRun
<1>5. MayRun(proc[p]) /\ Ran(proc'[p]) = Ran(proc[p])
  BY <1>2, <1>3 DEF ProcBecomes, MayRun, Ran
<1>6. Running(p)'
  BY <1>1, <1>2, <1>3, <1>5 DEF Running, RunningIn, ProcBecomes, InTurn, Tooling
<1>7. NoNewPending(p)
  BY <1>3, <1>5 DEF NoNewPending, Pending, ProcBecomes
<1>8. Holds(proc[p], turns) /\ (Refusals = {} => Extends(proc[p].rounds))
  BY <1>1, <1>2 DEF Holder, Working
<1>9. \A i \in 1..Len(turns) : HasCalls(turns[i]) => proc[p].turn # i \/ proc[p].reply = "calls"
  BY <1>1, <1>2 DEF Seated, SeatedIn, InTurn, HasCalls
<1>10. Holds(proc'[p], turns)
  BY <1>2, <1>3, <1>8, <1>9 DEF Holds, ProcBecomes, Asking, Tooling, MayRun
<1>11. Holder(p)'
  BY <1>2, <1>3, <1>8, <1>10 DEF Holder, ProcBecomes, Refusals, Extends
<1>12. QED
  BY <1>1, <1>2, <1>3, <1>4, <1>6, <1>7, <1>11, LocalMove DEF ProcBecomes

\* What p does with a reply.
LEMMA TakeReplyKeeps ==
    ASSUME IInv, NEW p \in Owner, TakeReply(p)
    PROVE  IInv'
<1>1. /\ proc \in [Owner -> Process] /\ proc[p].turn \in 0..Len(turns)
      /\ turns \in Seq(TurnRecord) /\ Len(turns) \in Nat
      /\ Seated(p) /\ Running(p) /\ Truthful(proc[p].rounds, turns, executed, proc)
      /\ Live(p) => Holder(p)
  BY Facts
<1>2. proc[p].pc = "reply" /\ UNCHANGED <<branch, turns, sent, executed>>
  BY DEF TakeReply
<1>3. /\ proc[p].turn \in 1..Len(turns)
      /\ turns[proc[p].turn].status = "admitted" /\ turns[proc[p].turn].reply = proc[p].reply
      /\ proc[p].done = <<>> /\ proc[p].rounds \in Seq(Round)
  BY <1>1, <1>2, ProcType DEF Seated, SeatedIn, Running, InTurn, Tooling
<1>4. Live(p) => Holds(proc[p], turns) /\ (Refusals = {} => Extends(proc[p].rounds))
  BY <1>1, <1>2 DEF Holder, Working
<1>5. CASE /\ proc[p].reply = "calls" /\ ~proc[p].forced
           /\ proc' = [proc EXCEPT ![p].pc = "tool", ![p].done = <<>>]
  <2>1. ProcBecomes(p, "tool", proc[p].rounds, proc[p].turn, proc[p].reply, proc[p].count,
                    <<>>, proc[p].forced)
    <3>1. <<>> \in Seq(Outcome)
      OBVIOUS
    <3>2. QED
      BY <1>1, <1>5, <3>1, PcDone DEF Pc
  <2>2. Seated(p)'
    BY <1>1, <1>2, <1>3, <1>5, <2>1
    DEF Seated, SeatedIn, ProcBecomes, InTurn, Asking, Tooling, MayRun
  <2>3. /\ MayRun(proc[p]) /\ MayRun(proc'[p]) /\ Ran(proc[p]) = 0 /\ Ran(proc'[p]) = 0
        /\ proc'[p].done = <<>> /\ proc'[p].turn = proc[p].turn /\ proc'[p].pc = "tool"
    BY <1>2, <1>3, <1>5, <2>1 DEF ProcBecomes, MayRun, Ran, Tooling
  <2>4. Len(turns[proc[p].turn].calls) \in Nat
    BY <1>1, <1>3, TurnType
  <2>5. RunningIn(proc[p], turns[proc[p].turn], executed[proc[p].turn])
    BY <1>1, <1>2 DEF Running, InTurn
  <2>6. RunningIn(proc'[p], turns[proc[p].turn], executed[proc[p].turn])
    BY <2>3, <2>4, <2>5 DEF RunningIn
  <2>7. Running(p)'
    BY <1>2, <2>3, <2>6 DEF Running
  <2>8. NoNewPending(p)
    BY <2>3 DEF NoNewPending, Pending
  <2>9. ASSUME Live(p) PROVE Holder(p)'
    <3>1. \A n \in 1..Len(proc[p].rounds) : proc[p].rounds[n].turn < proc[p].turn
      BY <1>4, <1>5, <2>3, <2>9 DEF Holds
    <3>2. Holds(proc'[p], turns)
      BY <1>2, <1>4, <1>5, <2>1, <2>3, <2>9, <3>1
      DEF Holds, ProcBecomes, Asking, Tooling, MayRun
    <3>3. QED
      BY <1>2, <1>4, <2>1, <2>9, <3>2 DEF Holder, ProcBecomes, Refusals, Extends
  <2>10. QED
    BY <1>1, <1>2, <2>1, <2>2, <2>7, <2>8, <2>9, LocalMove DEF ProcBecomes
<1>6. CASE proc[p].reply = "text" /\ Goto(p, "finalize")
  <2>1. ProcBecomes(p, "finalize", proc[p].rounds, proc[p].turn, proc[p].reply, proc[p].count,
                    proc[p].done, proc[p].forced)
    BY <1>1, <1>6, PcOnly DEF Pc, Goto
  <2>2. Seated(p)'
    BY <1>1, <1>2, <1>3, <1>6, <2>1
    DEF Seated, SeatedIn, ProcBecomes, InTurn, Asking, Tooling, MayRun
  <2>3. Running(p)' /\ ~MayRun(proc'[p])
    BY <1>2, <1>3, <2>1 DEF Running, RunningIn, ProcBecomes, Tooling, MayRun
  <2>4. NoNewPending(p)
    BY <2>3 DEF NoNewPending, Pending
  <2>5. ASSUME Live(p) PROVE Holder(p)'
    <3>1. ~MayRun(proc[p])
      BY <1>2, <1>6 DEF MayRun, Tooling
    <3>2. Holds(proc'[p], turns)
      BY <1>2, <1>4, <2>1, <2>3, <2>5, <3>1 DEF Holds, ProcBecomes, Asking, Tooling
    <3>3. QED
      BY <1>2, <1>4, <2>1, <2>5, <3>2 DEF Holder, ProcBecomes, Refusals, Extends
  <2>6. QED
    BY <1>1, <1>2, <2>1, <2>2, <2>3, <2>4, <2>5, LocalMove DEF ProcBecomes
<1>7. ASSUME proc[p].reply = "empty", ~proc[p].forced,
             NEW rounds \in {proc[p].rounds,
                             Append(proc[p].rounds, [turn |-> proc[p].turn, calls |-> <<>>])},
             proc' = [proc EXCEPT ![p].pc = "renew", ![p].forced = TRUE, ![p].rounds = rounds]
      PROVE  IInv'
  <2> DEFINE round == [turn |-> proc[p].turn, calls |-> <<>>]
  <2>1. round \in Round /\ Honest(round, turns, executed, proc)
    BY <1>1, <1>3, EmptyRound
  <2>2. rounds \in {proc[p].rounds, Append(proc[p].rounds, round)}
    BY <1>7
  <2> HIDE DEF round
  <2>3. rounds \in Seq(Round) /\ Truthful(rounds, turns, executed, proc)
    BY <1>1, <1>3, <2>1, <2>2, AppendRound, TruthAppend
  <2>4. ProcBecomes(p, "renew", rounds, proc[p].turn, proc[p].reply, proc[p].count,
                    proc[p].done, TRUE)
    BY <1>1, <1>7, <2>3, PcForced DEF Pc
  <2>5. proc'[p].pc \notin InTurn
    BY <2>4 DEF ProcBecomes, InTurn, Asking, Tooling
  <2>6. Seated(p)' /\ Running(p)' /\ ~MayRun(proc'[p])
    BY <1>3, <2>4, <2>5, OutOfTurn DEF ProcBecomes
  <2>7. NoNewPending(p)
    BY <2>6 DEF NoNewPending, Pending
  <2>8. ASSUME Live(p) PROVE Holder(p)'
    <3>1. ~MayRun(proc[p])
      BY <1>2, <1>7 DEF MayRun, Tooling
    <3>2. /\ Len(rounds) \in Nat /\ Len(proc[p].rounds) \in Nat
          /\ Len(proc[p].rounds) <= Len(rounds)
          /\ \A n \in 1..Len(proc[p].rounds) : rounds[n] = proc[p].rounds[n]
      <4>1. CASE rounds = proc[p].rounds
        BY <4>1, <1>3
      <4>2. CASE rounds = Append(proc[p].rounds, round)
        BY <4>2, <1>3, <2>1, AppendRound
      <4>3. QED
        BY <4>1, <4>2, <2>2
    <3>3. \A i \in 1..Len(turns) : HasCalls(turns[i]) => Covered(i, rounds, turns)
      <4>1. \A i \in 1..Len(turns) : HasCalls(turns[i]) => Covered(i, proc[p].rounds, turns)
        BY <1>4, <2>8, <3>1 DEF Holds
      <4>2. QED
        BY <4>1, <3>2, CoveredMore
    <3>4. Exact(rounds, turns)
      <4>1. Exact(proc[p].rounds, turns)
        BY <1>4, <2>8 DEF Holds
      <4>2. \A k \in 1..Len(round.calls) : FALSE
        BY DEF round
      <4>3. Exact(Append(proc[p].rounds, round), turns)
        BY <1>3, <2>1, <4>1, <4>2, ExactAppend
      <4>4. QED
        BY <2>2, <4>1, <4>3
    <3>5. Holds(proc'[p], turns)
      BY <1>2, <1>4, <2>4, <2>6, <2>8, <3>3, <3>4 DEF Holds, ProcBecomes, Asking, Tooling
    <3>6. Refusals = {} => Extends(rounds)
      <4>1. Len(branch.rounds) \in Nat
        BY Facts DEF TypeOK, BranchRecord
      <4>2. QED
        BY <1>4, <2>8, <3>2, <4>1 DEF Extends
    <3>7. QED
      BY <1>2, <2>4, <3>5, <3>6 DEF Holder, ProcBecomes, Refusals, Extends
  <2>9. QED
    BY <1>1, <1>2, <2>3, <2>4, <2>6, <2>7, <2>8, LocalMove DEF ProcBecomes
<1>8. CASE Goto(p, "dead")
  BY <1>2, <1>8, InvalidReplyKeeps DEF InTurn
<1>9. QED
  BY <1>5, <1>6, <1>7, <1>8 DEF TakeReply

\* The calls that fit the budget are calls of the reply.
LEMMA FitBound ==
    ASSUME IInv, NEW p \in Owner, proc[p].turn \in 1..Len(turns)
    PROVE  Fit(p) \in 0..Len(turns[proc[p].turn].calls)
<1> DEFINE rounds == proc[p].rounds
           used == Cardinality(Calls(rounds))
           count == Len(turns[proc[p].turn].calls)
<1>1. Len(rounds) \in Nat /\ MaxCall \in Nat /\ Budget \in Nat /\ count \in Nat
  BY Facts, ProcType, TurnType, AgentAssumption
<1>2. IsFiniteSet((1..Len(rounds)) \X (1..MaxCall))
  <2>1. IsFiniteSet(1..Len(rounds)) /\ IsFiniteSet(1..MaxCall)
    <3>1. 1 \in Int /\ Len(rounds) \in Int /\ MaxCall \in Int
      BY <1>1
    <3> HIDE DEF rounds
    <3>2. QED
      BY <3>1, FS_Interval
  <2>2. QED
    BY <2>1, FS_Product
<1>3. Calls(rounds) \subseteq (1..Len(rounds)) \X (1..MaxCall)
  BY DEF Calls
<1>4. used \in Nat
  BY <1>2, <1>3, FS_Subset, FS_CardinalityType
<1> HIDE DEF used, count
<1> DEFINE left == IF used < Budget THEN Budget - used ELSE 0
<1>5. left \in Nat
  BY <1>1, <1>4
<1>6. Fit(p) = IF left >= count THEN count ELSE left
  BY DEF Fit, used, count
<1> HIDE DEF left
<1>7. Fit(p) \in 0..count
  BY <1>1, <1>5, <1>6
<1>8. QED
  BY <1>7 DEF count

\* A call of the reply is begun.
LEMMA BeginToolKeeps ==
    ASSUME IInv, NEW p \in Owner, BeginTool(p)
    PROVE  IInv'
<1>1. /\ proc \in [Owner -> Process] /\ proc[p].turn \in 0..Len(turns)
      /\ turns \in Seq(TurnRecord)
      /\ Seated(p) /\ Running(p) /\ Truthful(proc[p].rounds, turns, executed, proc)
      /\ Live(p) => Holder(p)
  BY Facts
<1>2. /\ proc[p].pc = "tool" /\ UNCHANGED <<branch, turns, sent, executed>>
      /\ Live(p) /\ Goto(p, "exec") /\ Len(proc[p].done) < Fit(p)
  BY DEF BeginTool
<1>3. ProcBecomes(p, "exec", proc[p].rounds, proc[p].turn, proc[p].reply, proc[p].count,
                  proc[p].done, proc[p].forced)
  BY <1>1, <1>2, PcOnly DEF Goto, Pc
<1>4. /\ proc[p].turn \in 1..Len(turns)
      /\ SeatedIn(p, proc[p], turns[proc[p].turn], sent[proc[p].turn])
      /\ RunningIn(proc[p], turns[proc[p].turn], executed[proc[p].turn])
  BY <1>1, <1>2 DEF Seated, Running, InTurn, Tooling
<1>5. Seated(p)'
  BY <1>2, <1>3, <1>4 DEF Seated, SeatedIn, ProcBecomes, InTurn, Asking, Tooling, MayRun
<1>6. /\ MayRun(proc[p]) /\ MayRun(proc'[p]) /\ Ran(proc'[p]) = Ran(proc[p])
      /\ Ran(proc[p]) = Len(proc[p].done)
      /\ proc'[p].done = proc[p].done /\ proc'[p].turn = proc[p].turn /\ proc'[p].pc = "exec"
  BY <1>2, <1>3 DEF ProcBecomes, MayRun, Ran, Tooling
<1>7. Ran(proc[p]) < Len(turns[proc[p].turn].calls)
  <2>1. Fit(p) \in 0..Len(turns[proc[p].turn].calls)
    BY <1>4, FitBound
  <2>2. Len(turns[proc[p].turn].calls) \in Nat /\ Len(proc[p].done) \in Nat
    BY <1>1, <1>4, TurnType, ProcType
  <2>3. QED
    BY <1>2, <1>6, <2>1, <2>2
<1>8. RunningIn(proc'[p], turns[proc[p].turn], executed[proc[p].turn])
  BY <1>2, <1>4, <1>6, <1>7 DEF RunningIn, Tooling
<1>9. Running(p)'
  BY <1>2, <1>6, <1>8 DEF Running, Tooling
<1>10. NoNewPending(p)
  BY <1>6 DEF NoNewPending, Pending
<1>11. Holds(proc[p], turns) /\ (Refusals = {} => Extends(proc[p].rounds))
  BY <1>1, <1>2 DEF Holder, Working
<1>12. Holds(proc'[p], turns)
  BY <1>2, <1>3, <1>6, <1>11 DEF Holds, ProcBecomes, Asking, Tooling
<1>13. Holder(p)'
  BY <1>2, <1>3, <1>11, <1>12 DEF Holder, ProcBecomes, Refusals, Extends
<1>14. QED
  BY <1>1, <1>2, <1>3, <1>5, <1>9, <1>10, <1>13, LocalMove DEF ProcBecomes

\* Its result counts.
LEMMA FenceKeeps ==
    ASSUME IInv, NEW p \in Owner, Fence(p)
    PROVE  IInv'
<1>1. /\ proc \in [Owner -> Process] /\ proc[p].turn \in 0..Len(turns)
      /\ turns \in Seq(TurnRecord)
      /\ Seated(p) /\ Running(p) /\ Truthful(proc[p].rounds, turns, executed, proc)
      /\ Live(p) => Holder(p)
  BY Facts
<1> DEFINE done == Append(proc[p].done, "done")
<1>2. /\ proc[p].pc = "fence" /\ UNCHANGED <<branch, turns, sent, executed>> /\ Live(p)
      /\ proc' = [proc EXCEPT ![p].pc = "complete", ![p].done = done]
  BY <1>1 DEF Fence
<1>3. /\ proc[p].done \in Seq(Outcome) /\ Len(proc[p].done) \in Nat
      /\ done \in Seq(Outcome) /\ Len(done) = Len(proc[p].done) + 1
      /\ \A k \in 1..Len(proc[p].done) : done[k] = proc[p].done[k]
      /\ done[Len(proc[p].done) + 1] = "done"
  <2>1. proc[p].done \in Seq(Outcome) /\ Len(proc[p].done) \in Nat /\ "done" \in Outcome
    BY <1>1, ProcType DEF Outcome
  <2>2. QED
    BY <2>1
<1> HIDE DEF done
<1>4. ProcBecomes(p, "complete", proc[p].rounds, proc[p].turn, proc[p].reply, proc[p].count,
                  done, proc[p].forced)
  BY <1>1, <1>2, <1>3, PcDone DEF Pc
<1>5. /\ proc[p].turn \in 1..Len(turns)
      /\ SeatedIn(p, proc[p], turns[proc[p].turn], sent[proc[p].turn])
      /\ RunningIn(proc[p], turns[proc[p].turn], executed[proc[p].turn])
  BY <1>1, <1>2 DEF Seated, Running, InTurn, Tooling
<1>6. Seated(p)'
  BY <1>2, <1>4, <1>5 DEF Seated, SeatedIn, ProcBecomes, InTurn, Asking, Tooling, MayRun
<1>7. /\ MayRun(proc[p]) /\ MayRun(proc'[p]) /\ Ran(proc'[p]) = Ran(proc[p])
      /\ Ran(proc[p]) = Len(proc[p].done) + 1
      /\ proc'[p].done = done /\ proc'[p].turn = proc[p].turn /\ proc'[p].pc = "complete"
  BY <1>2, <1>3, <1>4 DEF ProcBecomes, MayRun, Ran, Tooling
<1>8. ASSUME NEW k \in 1..Len(done)
      PROVE  /\ done[k] = "done"
             /\ k < Len(done) => turns[proc[p].turn].calls[k] = "done"
  <2>1. \A j \in 1..Len(proc[p].done) :
            proc[p].done[j] = "done" /\ turns[proc[p].turn].calls[j] = "done"
    BY <1>2, <1>5 DEF RunningIn, Tooling
  <2>2. CASE k \in 1..Len(proc[p].done)
    BY <1>3, <2>1, <2>2
  <2>3. CASE k = Len(proc[p].done) + 1
    BY <1>3, <2>3
  <2>4. QED
    BY <1>3, <2>2, <2>3
<1>9. RunningIn(proc'[p], turns[proc[p].turn], executed[proc[p].turn])
  <2> DEFINE n == proc'[p]
             t == turns[proc[p].turn]
             x == executed[proc[p].turn]
  <2>1. RunningIn(proc[p], t, x) /\ n.pc = "complete" /\ n.done = done
    BY <1>5, <1>7
  <2>2. \A k \in 1..MaxCall : x[k] = IF k <= Ran(n) THEN 1 ELSE 0
    BY <1>7, <2>1 DEF RunningIn
  <2>3. Ran(n) <= Len(t.calls) /\ Ran(n) > 0
    BY <1>2, <1>3, <1>7, <2>1 DEF RunningIn, Tooling
  <2>4. \A k \in 1..Len(n.done) :
            n.done[k] = "done" /\ (k < Len(n.done) => t.calls[k] = "done")
    BY <1>8, <2>1
  <2> HIDE DEF n, t, x
  <2>5. RunningIn(n, t, x)
    BY <2>1, <2>2, <2>3, <2>4 DEF RunningIn
  <2>6. QED
    BY <2>5 DEF n, t, x
<1>10. Running(p)'
  BY <1>2, <1>7, <1>9 DEF Running, Tooling
<1>11. NoNewPending(p)
  BY <1>7 DEF NoNewPending, Pending
<1>12. Holds(proc[p], turns) /\ (Refusals = {} => Extends(proc[p].rounds))
  BY <1>1, <1>2 DEF Holder, Working
<1>13. Holds(proc'[p], turns)
  BY <1>2, <1>4, <1>7, <1>12 DEF Holds, ProcBecomes, Asking, Tooling
<1>14. Holder(p)'
  BY <1>2, <1>4, <1>12, <1>13 DEF Holder, ProcBecomes, Refusals, Extends
<1>15. QED
  BY <1>1, <1>2, <1>4, <1>6, <1>10, <1>11, <1>14, LocalMove DEF ProcBecomes

\* The request goes out.
LEMMA SendKeeps ==
    ASSUME IInv, NEW p \in Owner, Send(p)
    PROVE  IInv'
<1>1. /\ proc \in [Owner -> Process] /\ proc[p].turn \in 0..Len(turns)
      /\ turns \in Seq(TurnRecord) /\ TypeOK /\ Recorder
      /\ Seated(p) /\ Running(p) /\ Truthful(proc[p].rounds, turns, executed, proc)
      /\ Live(p) => Holder(p)
  BY Facts
<1>2. /\ proc[p].pc = "send" /\ UNCHANGED <<branch, turns, executed>> /\ Goto(p, "wait")
      /\ sent' = [sent EXCEPT ![proc[p].turn] = @ + 1]
  BY DEF Send
<1>3. ProcBecomes(p, "wait", proc[p].rounds, proc[p].turn, proc[p].reply, proc[p].count,
                  proc[p].done, proc[p].forced)
  BY <1>1, <1>2, PcOnly DEF Goto, Pc
<1>4. /\ proc[p].turn \in 1..Len(turns) /\ proc[p].turn \in 1..MaxTurn
      /\ SeatedIn(p, proc[p], turns[proc[p].turn], sent[proc[p].turn])
  BY <1>1, <1>2, TurnRange DEF Seated, InTurn, Asking
<1>5. sent[proc[p].turn] = 0 /\ turns[proc[p].turn].owner = p
  BY <1>2, <1>4 DEF SeatedIn, Asking
<1>6. /\ sent' \in [1..MaxTurn -> Nat] /\ sent'[proc[p].turn] = 1
      /\ \A i \in 1..MaxTurn \ {proc[p].turn} : sent'[i] = sent[i]
  BY <1>1, <1>2, <1>4, <1>5 DEF TypeOK
<1>7. SentBy(p)
  BY <1>4, <1>5, <1>6 DEF SentBy
<1>8. RanBy(p)
  BY <1>2 DEF RanBy
<1>9. TypeOK'
  BY <1>1, <1>2, <1>3, <1>6 DEF TypeOK, ProcBecomes
<1>10. Seated(p)'
  BY <1>2, <1>3, <1>4 DEF Seated, SeatedIn, ProcBecomes, InTurn, Asking, Tooling, MayRun
<1>11. Running(p)' /\ ~MayRun(proc'[p])
  BY <1>1, <1>2, <1>3 DEF Running, RunningIn, ProcBecomes, Tooling, MayRun
<1>12. NoNewPending(p)
  BY <1>11 DEF NoNewPending, Pending
<1>13. Evolves(p)
  BY <1>2, <1>3, <1>7, <1>8, <1>12, SameTurns DEF ProcBecomes
<1>14. Truthful(proc'[p].rounds, turns', executed', proc')
  <2>1. proc[p].rounds \in Seq(Round) /\ proc'[p].rounds = proc[p].rounds
    BY <1>1, <1>3, ProcType DEF ProcBecomes
  <2>2. QED
    BY <1>1, <1>9, <1>13, <2>1, TruthFrame
<1>15. ASSUME Live(p) PROVE Holder(p)'
  <2>1. Holds(proc[p], turns) /\ (Refusals = {} => Extends(proc[p].rounds))
    BY <1>1, <1>2, <1>15 DEF Holder, Working
  <2>2. Holds(proc'[p], turns)
    BY <1>2, <1>3, <1>11, <2>1 DEF Holds, ProcBecomes, Asking, Tooling, MayRun
  <2>3. QED
    BY <1>2, <1>3, <2>1, <2>2 DEF Holder, ProcBecomes, Refusals, Extends
<1>16. QED
  BY <1>2, <1>3, <1>7, <1>8, <1>9, <1>10, <1>11, <1>12, <1>14, <1>15, Local
  DEF ProcBecomes, Own

\* The tool runs.
LEMMA ExecuteKeeps ==
    ASSUME IInv, NEW p \in Owner, Execute(p)
    PROVE  IInv'
<1>1. /\ proc \in [Owner -> Process] /\ proc[p].turn \in 0..Len(turns)
      /\ turns \in Seq(TurnRecord) /\ TypeOK /\ Recorder
      /\ Seated(p) /\ Running(p) /\ Truthful(proc[p].rounds, turns, executed, proc)
      /\ Live(p) => Holder(p)
  BY Facts
<1> DEFINE i == proc[p].turn
           k == Len(proc[p].done) + 1
<1>2. /\ proc[p].pc = "exec" /\ UNCHANGED <<branch, turns, sent>> /\ Goto(p, "fence")
      /\ executed' = [executed EXCEPT ![i][k] = @ + 1]
  BY DEF Execute
<1>3. ProcBecomes(p, "fence", proc[p].rounds, proc[p].turn, proc[p].reply, proc[p].count,
                  proc[p].done, proc[p].forced)
  BY <1>1, <1>2, PcOnly DEF Goto, Pc
<1>4. /\ i \in 1..Len(turns) /\ i \in 1..MaxTurn
      /\ SeatedIn(p, proc[p], turns[i], sent[i])
      /\ RunningIn(proc[p], turns[i], executed[i])
  BY <1>1, <1>2, TurnRange DEF Seated, Running, InTurn, Tooling
<1>5. /\ MayRun(proc[p]) /\ MayRun(proc'[p])
      /\ Ran(proc[p]) = Len(proc[p].done) /\ Ran(proc'[p]) = k
      /\ proc'[p].done = proc[p].done /\ proc'[p].turn = i /\ proc'[p].pc = "fence"
  BY <1>2, <1>3 DEF ProcBecomes, MayRun, Ran, Tooling
<1>6. turns[i].owner = p /\ turns[i].status = "admitted"
  BY <1>2, <1>4, <1>5 DEF SeatedIn, Tooling
<1>7. /\ Len(proc[p].done) \in Nat /\ Len(turns[i].calls) \in Nat
      /\ k \in 1..MaxCall /\ k <= Len(turns[i].calls)
  <2>1. Len(proc[p].done) \in Nat /\ Len(turns[i].calls) \in Nat /\ MaxCall \in Nat
    BY <1>1, <1>4, ProcType, TurnType, AgentAssumption
  <2>2. Len(proc[p].done) < Len(turns[i].calls)
    BY <1>2, <1>4, <1>5 DEF RunningIn
  <2>3. Len(turns[i].calls) <= MaxCall
    BY <1>1, <1>4 DEF Recorder, WellFormed
  <2>4. QED
    BY <2>1, <2>2, <2>3
<1>8. executed[i][k] = 0
  BY <1>4, <1>5, <1>7 DEF RunningIn
<1> HIDE DEF i, k
<1>9. /\ executed' \in [1..MaxTurn -> [1..MaxCall -> Nat]] /\ executed'[i][k] = 1
      /\ \A j \in 1..MaxTurn, m \in 1..MaxCall :
            j # i \/ m # k => executed'[j][m] = executed[j][m]
  <2> DEFINE old == executed[i]
             row == [old EXCEPT ![k] = old[k] + 1]
  <2>1. executed \in [1..MaxTurn -> [1..MaxCall -> Nat]]
    BY <1>1 DEF TypeOK
  <2>2. executed' = [executed EXCEPT ![i] = row] /\ old \in [1..MaxCall -> Nat] /\ old[k] = 0
    BY <1>2, <1>4, <1>8, <2>1
  <2> HIDE DEF old
  <2>3. /\ row \in [1..MaxCall -> Nat] /\ row[k] = 1
        /\ \A m \in 1..MaxCall \ {k} : row[m] = old[m]
    BY <1>7, <2>2
  <2> HIDE DEF row
  <2>4. QED
    BY <1>4, <1>7, <2>1, <2>2, <2>3 DEF old
<1>10. RanBy(p)
  <2>1. Pending(proc[p], i, k)
    BY <1>5, <1>7 DEF Pending, i, k
  <2>2. QED
    BY <1>4, <1>6, <1>7, <1>8, <1>9, <2>1 DEF RanBy
<1>11. SentBy(p)
  BY <1>2 DEF SentBy
<1>12. TypeOK'
  BY <1>1, <1>2, <1>3, <1>9 DEF TypeOK, ProcBecomes
<1>13. Seated(p)'
  BY <1>2, <1>3, <1>4, <1>6 DEF Seated, SeatedIn, ProcBecomes, InTurn, Asking, Tooling, MayRun, i
<1>14. RunningIn(proc'[p], turns[i], executed'[i])
  <2> DEFINE n == proc'[p]
             t == turns[i]
             y == executed'[i]
  <2>1. n.pc = "fence" /\ Ran(n) = k /\ n.done = proc[p].done
    BY <1>5
  <2>2. \A m \in 1..MaxCall : y[m] = IF m <= Ran(n) THEN 1 ELSE 0
    <3>1. SUFFICES ASSUME NEW m \in 1..MaxCall PROVE y[m] = IF m <= k THEN 1 ELSE 0
      BY <2>1
    <3>2. executed[i][m] = IF m <= Len(proc[p].done) THEN 1 ELSE 0
      BY <1>4, <1>5 DEF RunningIn
    <3>3. CASE m = k
      BY <3>3, <1>9
    <3>4. CASE m # k
      <4>1. y[m] = executed[i][m]
        BY <3>4, <1>4, <1>9
      <4>2. m <= Len(proc[p].done) <=> m <= k
        BY <3>4, <1>7 DEF k
      <4>3. QED
        BY <3>2, <4>1, <4>2
    <3>5. QED
      BY <3>3, <3>4
  <2>3. Ran(n) <= Len(t.calls)
    BY <2>1, <1>7
  <2>4. \A m \in 1..Len(n.done) : n.done[m] = "done" /\ t.calls[m] = "done"
    BY <2>1, <1>2, <1>4 DEF RunningIn, Tooling
  <2> HIDE DEF n, t, y
  <2>5. RunningIn(n, t, y)
    BY <2>1, <2>2, <2>3, <2>4 DEF RunningIn
  <2>6. QED
    BY <2>5 DEF n, t, y
<1>15. Running(p)'
  BY <1>2, <1>5, <1>14 DEF Running, Tooling
<1>16. NoNewPending(p)
  BY <1>5, <1>7 DEF NoNewPending, Pending, i, k
<1>17. Evolves(p)
  BY <1>2, <1>3, <1>10, <1>11, <1>16, SameTurns DEF ProcBecomes
<1>18. Truthful(proc'[p].rounds, turns', executed', proc')
  <2>1. proc[p].rounds \in Seq(Round) /\ proc'[p].rounds = proc[p].rounds
    BY <1>1, <1>3, ProcType DEF ProcBecomes
  <2>2. QED
    BY <1>1, <1>12, <1>17, <2>1, TruthFrame
<1>19. ASSUME Live(p) PROVE Holder(p)'
  <2>1. Holds(proc[p], turns) /\ (Refusals = {} => Extends(proc[p].rounds))
    BY <1>1, <1>2, <1>19 DEF Holder, Working
  <2>2. Holds(proc'[p], turns)
    BY <1>2, <1>3, <1>5, <2>1 DEF Holds, ProcBecomes, Asking, Tooling
  <2>3. QED
    BY <1>2, <1>3, <2>1, <2>2 DEF Holder, ProcBecomes, Refusals, Extends
<1>20. QED
  BY <1>2, <1>3, <1>10, <1>11, <1>12, <1>13, <1>15, <1>16, <1>18, <1>19, Local
  DEF ProcBecomes, Own

\* No other invocation is in the tool loop of a turn that p owns.
LEMMA OneRunner ==
    ASSUME IInv, NEW p \in Owner, NEW q \in Owner, q # p,
           NEW i \in 1..Len(turns), turns[i].owner = p, NEW k
    PROVE  ~Pending(proc[q], i, k)
<1>1. SUFFICES ASSUME MayRun(proc[q]), proc[q].turn = i PROVE FALSE
  BY DEF Pending
<1>2. proc[q].pc \in InTurn
  BY <1>1 DEF MayRun, InTurn
<1>3. SeatedIn(q, proc[q], turns[i], sent[i])
  BY <1>1, <1>2, Facts DEF Seated
<1>4. QED
  BY <1>1, <1>3 DEF SeatedIn

\* The round is closed; what does not fit the budget will never run.
LEMMA CloseRoundKeeps ==
    ASSUME IInv, NEW p \in Owner, CloseRound(p)
    PROVE  IInv'
<1>1. /\ proc \in [Owner -> Process] /\ proc[p].turn \in 0..Len(turns)
      /\ turns \in Seq(TurnRecord) /\ TypeOK /\ Recorder
      /\ Seated(p) /\ Running(p) /\ Truthful(proc[p].rounds, turns, executed, proc)
      /\ Live(p) => Holder(p)
  BY Facts
<1> DEFINE i == proc[p].turn
           t == turns[i]
           done == proc[p].done
           calls == [k \in 1..Len(t.calls) |-> IF k <= Fit(p) THEN done[k] ELSE "refused"]
           round == [turn |-> i, calls |-> calls]
           rounds == Append(proc[p].rounds, round)
<1>2. /\ proc[p].pc = "tool" /\ UNCHANGED <<branch, turns, sent, executed>>
      /\ Len(done) = Fit(p)
      /\ proc' = [proc EXCEPT ![p].pc = "refuse", ![p].done = <<>>, ![p].rounds = rounds]
  BY <1>1 DEF CloseRound
<1>3. /\ i \in 1..Len(turns) /\ i \in 1..MaxTurn
      /\ SeatedIn(p, proc[p], t, sent[i]) /\ RunningIn(proc[p], t, executed[i])
  BY <1>1, <1>2, TurnRange DEF Seated, Running, InTurn, Tooling
<1>4. /\ proc[p].rounds \in Seq(Round) /\ done \in Seq(Outcome)
      /\ Len(done) \in Nat /\ Len(t.calls) \in Nat /\ Len(t.calls) <= MaxCall /\ MaxCall \in Nat
      /\ Len(proc[p].rounds) \in Nat /\ i \in Nat
  BY <1>1, <1>3, ProcType, TurnType, AgentAssumption DEF Recorder, WellFormed
<1>5. t.owner = p /\ t.status = "admitted" /\ t.reply = "calls"
  BY <1>2, <1>3 DEF SeatedIn, Tooling, MayRun
<1>6. /\ Len(done) <= Len(t.calls)
      /\ \A k \in 1..Len(done) : done[k] = "done" /\ t.calls[k] = "done"
      /\ \A k \in 1..MaxCall : executed[i][k] = IF k <= Len(done) THEN 1 ELSE 0
  BY <1>2, <1>3 DEF RunningIn, Ran, Tooling, MayRun
<1>7. /\ calls \in Seq(Outcome) /\ Len(calls) = Len(t.calls)
      /\ \A k \in 1..Len(t.calls) : calls[k] = IF k <= Len(done) THEN "done" ELSE "refused"
  <2>1. \A k \in 1..Len(t.calls) :
            (IF k <= Fit(p) THEN done[k] ELSE "refused")
              = IF k <= Len(done) THEN "done" ELSE "refused"
    BY <1>2, <1>4, <1>6
  <2>2. calls = [k \in 1..Len(t.calls) |-> IF k <= Len(done) THEN "done" ELSE "refused"]
    BY <2>1
  <2>3. \A k \in 1..Len(t.calls) : (IF k <= Len(done) THEN "done" ELSE "refused") \in Outcome
    BY DEF Outcome
  <2> HIDE DEF t, done, calls
  <2>4. QED
    BY <1>4, <2>2, <2>3
<1> HIDE DEF calls
<1>8. round \in Round /\ round.turn = i /\ round.calls = calls
  BY <1>4, <1>7 DEF Round
<1> HIDE DEF round
<1>9. /\ rounds \in Seq(Round) /\ Len(rounds) = Len(proc[p].rounds) + 1
      /\ \A n \in 1..Len(proc[p].rounds) : rounds[n] = proc[p].rounds[n]
      /\ rounds[Len(proc[p].rounds) + 1] = round
  BY <1>4, <1>8, AppendRound
<1> HIDE DEF rounds
<1>10. ProcBecomes(p, "refuse", rounds, i, proc[p].reply, proc[p].count, <<>>, proc[p].forced)
  <2>1. <<>> \in Seq(Outcome)
    OBVIOUS
  <2>2. QED
    BY <1>1, <1>2, <1>9, <2>1, PcClosed DEF Pc
<1>11. ~MayRun(proc'[p])
  BY <1>10 DEF ProcBecomes, MayRun, Tooling
<1>12. NoNewPending(p) /\ SentBy(p) /\ RanBy(p)
  BY <1>2, <1>11 DEF NoNewPending, Pending, SentBy, RanBy
<1>13. TypeOK'
  BY <1>1, <1>2, <1>10 DEF TypeOK, ProcBecomes
<1>14. Seated(p)'
  BY <1>2, <1>3, <1>5, <1>10, <1>11
  DEF Seated, SeatedIn, ProcBecomes, InTurn, Asking, Tooling
<1>15. Running(p)'
  <2>1. \A k \in 1..Len(t.calls) : t.calls[k] = "none" => executed[i][k] = 0
    BY <1>4, <1>6
  <2>2. RunningIn(proc'[p], t, executed[i])
    BY <1>10, <1>11, <2>1 DEF RunningIn, ProcBecomes, Tooling
  <2>3. QED
    BY <1>2, <1>10, <2>2 DEF Running, ProcBecomes
<1>16. Evolves(p)
  BY <1>2, <1>10, <1>12, SameTurns DEF ProcBecomes
<1>17. Honest(round, turns, executed, proc')
  <2>1. ASSUME NEW k \in 1..Len(calls)
        PROVE  IF calls[k] = "refused"
               THEN /\ executed[i][k] = 0
                    /\ \A q \in Owner : ~Pending(proc'[q], i, k)
               ELSE calls[k] = t.calls[k]
    <3>1. CASE k <= Len(done)
      BY <3>1, <1>4, <1>6, <1>7
    <3>2. CASE ~(k <= Len(done))
      <4>1. calls[k] = "refused" /\ executed[i][k] = 0
        BY <3>2, <1>4, <1>6, <1>7
      <4>2. ~Pending(proc'[p], i, k)
        BY <1>11 DEF Pending
      <4>3. \A q \in Owner \ {p} : ~Pending(proc'[q], i, k)
        BY <1>3, <1>5, <1>10, OneRunner DEF ProcBecomes
      <4>4. QED
        BY <4>1, <4>2, <4>3
    <3>3. QED
      BY <3>1, <3>2
  <2>2. Len(calls) <= Len(t.calls)
    BY <1>4, <1>7
  <2>3. QED
    BY <1>3, <1>8, <2>1, <2>2 DEF Honest
<1>18. Truthful(proc'[p].rounds, turns', executed', proc')
  <2>1. Truthful(proc[p].rounds, turns', executed', proc')
    BY <1>1, <1>4, <1>13, <1>16, TruthFrame
  <2>2. Truthful(rounds, turns, executed, proc')
    BY <1>2, <1>4, <1>8, <1>17, <2>1, TruthAppend DEF rounds
  <2>3. QED
    BY <1>2, <1>10, <2>2 DEF ProcBecomes
<1>19. ASSUME Live(p) PROVE Holder(p)'
  <2>1. Holds(proc[p], turns) /\ (Refusals = {} => Extends(proc[p].rounds))
    BY <1>1, <1>2, <1>19 DEF Holder, Working
  <2>2. ~proc[p].forced
    BY <1>2, <2>1 DEF Holds, Tooling
  <2>3. \A n \in 1..Len(proc[p].rounds) : proc[p].rounds[n].turn < i
    BY <1>2, <2>1, <2>2 DEF Holds, MayRun, Tooling
  <2>4. Sorted(rounds, turns)
    <3>1. Sorted(proc[p].rounds, turns)
      BY <2>1, <2>2 DEF Holds
    <3>2. ASSUME NEW n \in 1..Len(rounds)
          PROVE  /\ rounds[n].turn \in 1..Len(turns) /\ HasCalls(turns[rounds[n].turn])
                 /\ Len(rounds[n].calls) = Len(turns[rounds[n].turn].calls)
      <4>1. CASE n \in 1..Len(proc[p].rounds)
        BY <4>1, <1>9, <3>1 DEF Sorted
      <4>2. CASE n = Len(proc[p].rounds) + 1
        BY <4>2, <1>3, <1>5, <1>7, <1>8, <1>9 DEF HasCalls
      <4>3. QED
        BY <4>1, <4>2, <1>4, <1>9
    <3>3. ASSUME NEW m \in 1..Len(rounds), NEW n \in 1..Len(rounds), m < n
          PROVE  rounds[m].turn < rounds[n].turn
      <4>1. m \in 1..Len(proc[p].rounds)
        BY <3>3, <1>4, <1>9
      <4>2. CASE n \in 1..Len(proc[p].rounds)
        BY <3>3, <4>1, <4>2, <1>9, <3>1 DEF Sorted
      <4>3. CASE n = Len(proc[p].rounds) + 1
        BY <4>1, <4>3, <1>8, <1>9, <2>3
      <4>4. QED
        BY <4>2, <4>3, <1>4, <1>9
    <3>4. QED
      BY <3>2, <3>3 DEF Sorted
  <2>5. ASSUME NEW j \in 1..Len(turns), HasCalls(turns[j])
        PROVE  Covered(j, rounds, turns)
    <3>1. CASE j = i
      <4>1. Len(proc[p].rounds) + 1 \in 1..Len(rounds)
        BY <1>4, <1>9
      <4>2. QED
        BY <3>1, <4>1, <1>7, <1>8, <1>9 DEF Covered
    <3>2. CASE j # i
      <4>1. Covered(j, proc[p].rounds, turns)
        BY <2>1, <2>5, <3>2 DEF Holds
      <4>2. QED
        BY <4>1, <1>4, <1>9, CoveredMore
    <3>3. QED
      BY <3>1, <3>2
  <2>6. Exact(rounds, turns)
    <3>1. Exact(proc[p].rounds, turns)
      BY <2>1 DEF Holds
    <3>2. ASSUME NEW k \in 1..Len(round.calls), round.calls[k] # "refused"
          PROVE  round.calls[k] = turns[round.turn].calls[k]
      BY <3>2, <1>4, <1>6, <1>7, <1>8
    <3>3. QED
      BY <1>4, <1>8, <3>1, <3>2, ExactAppend DEF rounds
  <2>7. Holds(proc'[p], turns)
    BY <1>2, <1>10, <1>11, <2>1, <2>2, <2>4, <2>5, <2>6 DEF Holds, ProcBecomes, Asking, Tooling
  <2>8. Refusals = {} => Extends(rounds)
    <3>1. Len(branch.rounds) \in Nat
      BY <1>1 DEF TypeOK, BranchRecord
    <3>2. QED
      BY <1>4, <1>9, <2>1, <3>1 DEF Extends
  <2>9. QED
    BY <1>2, <1>10, <2>7, <2>8 DEF Holder, ProcBecomes, Refusals, Extends
<1>20. QED
  BY <1>2, <1>10, <1>12, <1>13, <1>14, <1>15, <1>18, <1>19, Local DEF ProcBecomes, Own

----------------------------------------------------------------------------
(* Store operations on the turn p is in.                                   *)

\* These are the fields of turn i after a step; the other turns are as before.
TurnBecomes(i, status, reply, calls) ==
    /\ turns' \in Seq(TurnRecord) /\ Len(turns') = Len(turns)
    /\ \A j \in 1..Len(turns) : j # i => turns'[j] = turns[j]
    /\ turns'[i].owner = turns[i].owner /\ turns'[i].status = status
    /\ turns'[i].reply = reply /\ turns'[i].calls = calls

LEMMA TurnUpdate ==
    ASSUME turns \in Seq(TurnRecord), NEW i \in 1..Len(turns), NEW n \in TurnRecord,
           n.owner = turns[i].owner, turns' = [turns EXCEPT ![i] = n]
    PROVE  TurnBecomes(i, n.status, n.reply, n.calls)
<1>1. turns' \in Seq(TurnRecord) /\ Len(turns') = Len(turns) /\ turns'[i] = n
  OBVIOUS
<1>2. \A j \in 1..Len(turns) : j # i => turns'[j] = turns[j]
  OBVIOUS
<1>3. QED
  BY <1>1, <1>2 DEF TurnBecomes

LEMMA TurnAnswered ==
    ASSUME turns \in Seq(TurnRecord), NEW i \in 1..Len(turns),
           NEW s \in Status, NEW re \in Reply,
           turns' = [turns EXCEPT ![i].status = s, ![i].reply = re]
    PROVE  TurnBecomes(i, s, re, turns[i].calls)
<1> DEFINE t == turns[i]
           n == [t EXCEPT !.status = s, !.reply = re]
<1>1. t \in TurnRecord /\ turns' = [turns EXCEPT ![i] = n]
  <2>1. turns \in [1..Len(turns) -> TurnRecord] /\ t \in TurnRecord
    OBVIOUS
  <2>2. turns' = [turns EXCEPT ![i] = n]
    BY <2>1, Zenon
  <2>3. QED
    BY <2>1, <2>2
<1> HIDE DEF t
<1>2. /\ n \in TurnRecord /\ n.owner = t.owner /\ n.status = s /\ n.reply = re
      /\ n.calls = t.calls
  BY <1>1 DEF TurnRecord
<1> HIDE DEF n
<1>3. TurnBecomes(i, n.status, n.reply, n.calls)
  BY <1>1, <1>2, TurnUpdate DEF t
<1>4. QED
  BY <1>2, <1>3 DEF t

LEMMA TurnAdmitted ==
    ASSUME turns \in Seq(TurnRecord), NEW i \in 1..Len(turns),
           NEW s \in Status, NEW calls \in Seq(Completion),
           turns' = [turns EXCEPT ![i].status = s, ![i].calls = calls]
    PROVE  TurnBecomes(i, s, turns[i].reply, calls)
<1> DEFINE t == turns[i]
           n == [t EXCEPT !.status = s, !.calls = calls]
<1>1. t \in TurnRecord /\ turns' = [turns EXCEPT ![i] = n]
  <2>1. turns \in [1..Len(turns) -> TurnRecord] /\ t \in TurnRecord
    OBVIOUS
  <2>2. turns' = [turns EXCEPT ![i] = n]
    BY <2>1, Zenon
  <2>3. QED
    BY <2>1, <2>2
<1> HIDE DEF t
<1>2. /\ n \in TurnRecord /\ n.owner = t.owner /\ n.status = s /\ n.reply = t.reply
      /\ n.calls = calls
  BY <1>1 DEF TurnRecord
<1> HIDE DEF n
<1>3. TurnBecomes(i, n.status, n.reply, n.calls)
  BY <1>1, <1>2, TurnUpdate DEF t
<1>4. QED
  BY <1>2, <1>3 DEF t

LEMMA CallCompleted ==
    ASSUME turns \in Seq(TurnRecord), NEW i \in 1..Len(turns),
           NEW k \in 1..Len(turns[i].calls), NEW c \in Completion,
           turns' = [turns EXCEPT ![i].calls[k] = c]
    PROVE  TurnBecomes(i, turns[i].status, turns[i].reply, [turns[i].calls EXCEPT ![k] = c])
<1> DEFINE t == turns[i]
           calls == [t.calls EXCEPT ![k] = c]
           n == [t EXCEPT !.calls = calls]
<1>1. t \in TurnRecord /\ turns' = [turns EXCEPT ![i] = n] /\ k \in 1..Len(t.calls)
  OBVIOUS
<1> HIDE DEF t
<1>2. calls \in Seq(Completion)
  BY <1>1 DEF TurnRecord
<1> HIDE DEF calls
<1>3. /\ n \in TurnRecord /\ n.owner = t.owner /\ n.status = t.status /\ n.reply = t.reply
      /\ n.calls = calls
  BY <1>1, <1>2 DEF TurnRecord
<1> HIDE DEF n
<1>4. TurnBecomes(i, n.status, n.reply, n.calls)
  BY <1>1, <1>3, TurnUpdate DEF t
<1>5. QED
  BY <1>3, <1>4 DEF t, calls

\* The answer to the request of p is recorded.
LEMMA Answered ==
    ASSUME IInv, NEW p \in Owner, Live(p), proc[p].pc \in Asking,
           turns[proc[p].turn].status \in {"intent", "pending"},
           NEW status, NEW reply, NEW calls, TurnBecomes(proc[p].turn, status, reply, calls),
           WellFormed(turns'[proc[p].turn]),
           \A k \in 1..Len(calls) : calls[k] = "none",
           UNCHANGED <<sent, executed>>, \A q \in Owner \ {p} : proc'[q] = proc[q],
           NoNewPending(p)
    PROVE  Evolves(p) /\ Recording /\ NewlyAttested
<1> DEFINE i == proc[p].turn
<1>1. TypeOK /\ Recorder /\ Len(turns) \in Nat /\ Seated(p) /\ Holder(p)
  BY Facts
<1>2. i \in 1..Len(turns) /\ turns[i].owner = p
  BY <1>1 DEF Seated, SeatedIn, InTurn
<1>3. i = Len(turns)
  BY <1>1 DEF Holder, Working, Holds, Asking
<1> HIDE DEF i
<1>4. /\ Len(turns') = Len(turns) /\ \A j \in 1..Len(turns) : j # i => turns'[j] = turns[j]
      /\ turns'[i].owner = turns[i].owner /\ turns'[i].calls = calls
      /\ turns[i].status \in {"intent", "pending"} /\ WellFormed(turns'[i])
  BY DEF TurnBecomes, i
<1>5. Grow(p, turns, turns')
  <2>1. SUFFICES ASSUME NEW j \in 1..Len(turns)
                 PROVE  /\ turns'[j].owner = turns[j].owner
                        /\ turns[j].status = "admitted" => turns'[j] = turns[j]
                        /\ Settled(turns[j]) => turns'[j].status = turns[j].status
                        /\ turns[j].owner # p => turns'[j] = turns[j]
    BY <1>1, <1>4 DEF Grow
  <2>2. CASE j = i
    BY <1>2, <1>4, <2>2 DEF Settled
  <2>3. CASE j # i
    BY <1>4, <2>3
  <2>4. QED
    BY <2>2, <2>3
<1>6. SentBy(p) /\ RanBy(p)
  BY DEF SentBy, RanBy
<1>7. Evolves(p)
  BY <1>5, <1>6 DEF Evolves
<1>8. Recording
  BY <1>1, <1>3, <1>4 DEF Recording, Recorder
<1>9. NewlyAttested
  <2>1. ASSUME NEW j \in 1..Len(turns'), NEW k \in 1..Len(turns'[j].calls)
        PROVE  \/ /\ j \in 1..Len(turns) /\ k \in 1..Len(turns[j].calls)
                  /\ turns'[j].calls[k] = turns[j].calls[k]
               \/ turns'[j].calls[k] = "none"
    BY <1>4
  <2>2. QED
    BY <2>1 DEF NewlyAttested
<1>10. QED
  BY <1>7, <1>8, <1>9

\* The types after such a step.
LEMMA TurnTypes ==
    ASSUME TypeOK, NEW p \in Owner, branch' \in BranchRecord, turns' \in Seq(TurnRecord),
           Len(turns) <= Len(turns'), proc' \in [Owner -> Process],
           \A q \in Owner \ {p} : proc'[q] = proc[q],
           proc'[p].turn \in 0..Len(turns'), UNCHANGED <<sent, executed>>
    PROVE  TypeOK'
<1>1. Len(turns) \in Nat /\ Len(turns') \in Nat
  BY DEF TypeOK
<1>2. \A q \in Owner : proc'[q].turn \in 0..Len(turns')
  BY <1>1 DEF TypeOK
<1>3. QED
  BY <1>2 DEF TypeOK

\* Command::Reject, and p goes on to another request or gives up.
LEMMA RejectedKeeps ==
    ASSUME IInv, NEW p \in Owner, Live(p), proc[p].pc \in {"send", "wait"}, RejectTurn(p),
           UNCHANGED <<branch, sent, executed>>,
           NEW pc \in {"dead", "renew", "intent"},
           ProcBecomes(p, pc, proc[p].rounds, proc[p].turn, proc[p].reply, proc[p].count,
                       proc[p].done, proc[p].forced)
    PROVE  IInv'
<1> DEFINE i == proc[p].turn
<1>1. /\ TypeOK /\ Recorder /\ turns \in Seq(TurnRecord) /\ Len(turns) \in Nat
      /\ Seated(p) /\ Running(p) /\ Holder(p) /\ Truthful(proc[p].rounds, turns, executed, proc)
      /\ proc[p].rounds \in Seq(Round) /\ i \in 0..Len(turns)
  BY Facts, ProcType
<1>2. i \in 1..Len(turns) /\ proc[p].pc \in Asking
  BY <1>1 DEF Seated, SeatedIn, InTurn, Asking
<1>3. /\ turns[i].status \in {"intent", "pending"}
      /\ TurnBecomes(i, "rejected", "none", turns[i].calls)
  BY <1>1, <1>2, TurnAnswered DEF RejectTurn, Status, Reply
<1>4. turns[i].calls = <<>>
  BY <1>1, <1>2, <1>3 DEF Recorder, WellFormed
<1>5. WellFormed(turns'[i])
  BY <1>3, <1>4, AgentAssumption DEF WellFormed, TurnBecomes
<1>6. /\ proc' \in [Owner -> Process] /\ \A q \in Owner \ {p} : proc'[q] = proc[q]
      /\ proc'[p].pc = pc /\ proc'[p].rounds = proc[p].rounds /\ proc'[p].turn = i
      /\ proc'[p].done = proc[p].done /\ proc'[p].forced = proc[p].forced
  BY DEF ProcBecomes
<1>7. proc'[p].pc \notin InTurn /\ proc[p].done = <<>>
  BY <1>1, <1>6 DEF InTurn, Asking, Tooling, Running
<1>8. Seated(p)' /\ Running(p)' /\ ~MayRun(proc'[p])
  BY <1>6, <1>7, OutOfTurn
<1>9. NoNewPending(p)
  BY <1>8 DEF NoNewPending, Pending
<1>10. Evolves(p) /\ Recording /\ NewlyAttested
  <2>1. \A k \in 1..Len(turns[i].calls) : turns[i].calls[k] = "none"
    BY <1>4
  <2>2. QED
    BY <1>2, <1>3, <1>5, <1>6, <1>9, <2>1, Answered
<1>11. Len(turns') = Len(turns) /\ turns' \in Seq(TurnRecord)
  BY <1>3 DEF TurnBecomes
<1>12. TypeOK'
  BY <1>1, <1>6, <1>11, TurnTypes DEF TypeOK
<1>13. Truthful(proc'[p].rounds, turns', executed', proc')
  BY <1>1, <1>6, <1>10, <1>12, TruthFrame
<1>14. Holder(p)'
  <2>1. Holds(proc[p], turns) /\ (Refusals = {} => Extends(proc[p].rounds))
    BY <1>1 DEF Holder, Working
  <2>2. i = Len(turns) /\ ~MayRun(proc[p])
    BY <1>2, <2>1 DEF Holds, MayRun, Tooling
  <2> HIDE DEF i
  <2>3. ASSUME NEW j \in 1..Len(turns')
        PROVE  /\ Settled(turns'[j])
               /\ HasCalls(turns'[j]) => Covered(j, proc[p].rounds, turns')
    <3>1. CASE j = i
      BY <3>1, <1>3 DEF TurnBecomes, Settled, HasCalls
    <3>2. CASE j # i
      <4>1. j \in 1..Len(turns) /\ j < Len(turns) /\ turns'[j] = turns[j]
        BY <1>1, <1>3, <2>2, <3>2, <1>11 DEF TurnBecomes
      <4>2. Settled(turns[j])
        BY <2>1, <4>1 DEF Holds
      <4>3. HasCalls(turns[j]) => Covered(j, proc[p].rounds, turns)
        BY <2>1, <2>2, <4>1 DEF Holds
      <4>4. QED
        BY <4>1, <4>2, <4>3, <1>10, CoveredFrame
    <3>3. QED
      BY <3>1, <3>2
  <2>4. (~proc[p].forced => Sorted(proc[p].rounds, turns')) /\ Exact(proc[p].rounds, turns')
    BY <1>1, <1>10, <1>12, <2>1, SortedFrame, ExactFrame DEF Holds
  <2>5. pc # "dead" => Holds(proc'[p], turns')
    BY <1>6, <1>8, <2>3, <2>4 DEF Holds, Asking, Tooling
  <2>6. Refusals' = Refusals /\ (Refusals = {} => Extends(proc[p].rounds)')
    BY <1>6, <2>1 DEF Refusals, Extends
  <2>7. QED
    BY <1>6, <2>5, <2>6 DEF Holder, Working
<1>15. QED
  BY <1>8, <1>10, <1>12, <1>13, <1>14, Stored DEF Own

LEMMA InterruptedKeeps ==
    ASSUME IInv, NEW p \in Owner, Interrupted(p) \/ Truncated(p) \/ NotSent(p)
    PROVE  IInv'
<1>1. proc \in [Owner -> Process] /\ proc[p].retries \in Nat /\ proc[p].turn \in Nat
  BY Facts, ProcType
<1> DEFINE Becomes(pc) ==
        ProcBecomes(p, pc, proc[p].rounds, proc[p].turn, proc[p].reply, proc[p].count,
                    proc[p].done, proc[p].forced)
<1>2. ASSUME Goto(p, "dead") PROVE Becomes("dead")
  BY <1>1, <1>2, PcOnly DEF Goto, Pc
<1>3. CASE Interrupted(p)
  <2>1. /\ Live(p) /\ proc[p].pc = "wait" /\ RejectTurn(p)
        /\ UNCHANGED <<branch, sent, executed>>
    BY <1>3 DEF Interrupted
  <2>2. ASSUME NEW pc \in {"renew", "intent"},
               proc' = [proc EXCEPT ![p].pc = pc, ![p].retries = @ + 1]
        PROVE  Becomes(pc)
    <3>1. proc[p].retries + 1 \in Nat /\ pc \in Pc
      BY <1>1 DEF Pc
    <3>2. proc' = [proc EXCEPT ![p].pc = pc, ![p].retries = proc[p].retries + 1]
      BY <1>1, <2>2
    <3>3. QED
      BY <1>1, <3>1, <3>2, PcRetries
  <2>3. \E pc \in {"dead", "renew", "intent"} : Becomes(pc)
    BY <1>2, <1>3, <2>2 DEF Interrupted
  <2>4. QED
    BY <2>1, <2>3, RejectedKeeps
<1>4. CASE Truncated(p)
  <2>1. /\ Live(p) /\ proc[p].pc = "wait" /\ RejectTurn(p)
        /\ UNCHANGED <<branch, sent, executed>>
    BY <1>4 DEF Truncated
  <2>2. ASSUME proc' = [proc EXCEPT ![p].pc = "renew", ![p].reissued = TRUE, ![p].retries = 0]
        PROVE  Becomes("renew")
    BY <1>1, <2>2, PcReissued DEF Pc
  <2>3. Becomes("dead") \/ Becomes("renew")
    BY <1>2, <1>4, <2>2 DEF Truncated
  <2>4. QED
    BY <2>1, <2>3, RejectedKeeps
<1>5. CASE NotSent(p)
  <2>1. proc[p].pc = "send" /\ UNCHANGED <<branch, sent, executed>> /\ Goto(p, "dead")
    BY <1>5 DEF NotSent
  <2>2. CASE Live(p) /\ RejectTurn(p)
    BY <1>2, <2>1, <2>2, RejectedKeeps
  <2>3. CASE UNCHANGED turns
    BY <2>1, <2>3, InvalidReplyKeeps DEF InTurn, Asking
  <2>4. QED
    BY <1>5, <2>2, <2>3 DEF NotSent
<1>6. QED
  BY <1>3, <1>4, <1>5

\* Stage.
LEMMA StageKeeps ==
    ASSUME IInv, NEW p \in Owner, Stage(p)
    PROVE  IInv'
<1> DEFINE i == proc[p].turn
<1>1. /\ TypeOK /\ Recorder /\ turns \in Seq(TurnRecord) /\ Len(turns) \in Nat
      /\ proc \in [Owner -> Process]
      /\ Seated(p) /\ Running(p) /\ Truthful(proc[p].rounds, turns, executed, proc)
      /\ proc[p].rounds \in Seq(Round) /\ i \in 0..Len(turns) /\ proc[p].reply \in Reply
  BY Facts, ProcType
<1>2. /\ proc[p].pc = "stage" /\ Live(p) /\ Goto(p, "admit")
      /\ UNCHANGED <<branch, sent, executed>> /\ turns[i].status = "intent"
      /\ turns' = [turns EXCEPT ![i].status = "pending", ![i].reply = proc[p].reply]
  BY DEF Stage
<1>3. /\ i \in 1..Len(turns) /\ proc[p].pc \in Asking
      /\ SeatedIn(p, proc[p], turns[i], sent[i])
  BY <1>1, <1>2 DEF Seated, InTurn, Asking
<1>4. TurnBecomes(i, "pending", proc[p].reply, turns[i].calls)
  BY <1>1, <1>2, <1>3, TurnAnswered DEF Status
<1>5. turns[i].calls = <<>> /\ turns'[i].status = "pending" /\ turns'[i].reply = proc[p].reply
  BY <1>1, <1>2, <1>3, <1>4 DEF Recorder, WellFormed, TurnBecomes
<1>6. WellFormed(turns'[i])
  BY <1>4, <1>5, AgentAssumption DEF WellFormed, TurnBecomes
<1>7. ProcBecomes(p, "admit", proc[p].rounds, i, proc[p].reply, proc[p].count,
                  proc[p].done, proc[p].forced)
  BY <1>1, <1>2, PcOnly DEF Goto, Pc
<1>8. Running(p)' /\ ~MayRun(proc'[p])
  BY <1>1, <1>2, <1>7 DEF Running, RunningIn, ProcBecomes, Tooling, MayRun
<1>9. NoNewPending(p)
  BY <1>8 DEF NoNewPending, Pending
<1>10. Evolves(p) /\ Recording /\ NewlyAttested
  <2>1. \A k \in 1..Len(turns[i].calls) : turns[i].calls[k] = "none"
    BY <1>5
  <2>2. QED
    BY <1>2, <1>3, <1>4, <1>6, <1>7, <1>9, <2>1, Answered DEF ProcBecomes
<1>11. /\ Len(turns') = Len(turns) /\ turns' \in Seq(TurnRecord)
       /\ turns'[i].owner = turns[i].owner
  BY <1>4 DEF TurnBecomes
<1>12. TypeOK'
  BY <1>1, <1>2, <1>7, <1>11, TurnTypes DEF TypeOK, ProcBecomes
<1>13. Truthful(proc'[p].rounds, turns', executed', proc')
  BY <1>1, <1>7, <1>10, <1>12, TruthFrame DEF ProcBecomes
<1>14. Seated(p)'
  BY <1>2, <1>3, <1>5, <1>7, <1>8, <1>11
  DEF Seated, SeatedIn, ProcBecomes, InTurn, Asking, Tooling
<1>15. Holder(p)'
  <2>1. Holds(proc[p], turns) /\ (Refusals = {} => Extends(proc[p].rounds))
    BY <1>2, Facts DEF Holder, Working
  <2>2. i = Len(turns) /\ ~MayRun(proc[p])
    BY <1>2, <1>3, <2>1 DEF Holds, MayRun, Tooling
  <2> HIDE DEF i
  <2>3. ASSUME NEW j \in 1..Len(turns')
        PROVE  /\ j < Len(turns') => Settled(turns'[j])
               /\ HasCalls(turns'[j]) => Covered(j, proc[p].rounds, turns')
    <3>1. CASE j = i
      BY <3>1, <1>5, <1>11, <2>2 DEF HasCalls
    <3>2. CASE j # i
      <4>1. j \in 1..Len(turns) /\ j < Len(turns) /\ turns'[j] = turns[j]
        BY <1>1, <1>4, <2>2, <3>2, <1>11 DEF TurnBecomes
      <4>2. Settled(turns[j])
        BY <2>1, <4>1 DEF Holds
      <4>3. HasCalls(turns[j]) => Covered(j, proc[p].rounds, turns)
        BY <2>1, <2>2, <4>1 DEF Holds
      <4>4. QED
        BY <4>1, <4>2, <4>3, <1>10, CoveredFrame
    <3>3. QED
      BY <3>1, <3>2
  <2>4. (~proc[p].forced => Sorted(proc[p].rounds, turns')) /\ Exact(proc[p].rounds, turns')
    BY <1>1, <1>10, <1>12, <2>1, SortedFrame, ExactFrame DEF Holds
  <2>5. Holds(proc'[p], turns')
    BY <1>7, <1>8, <1>11, <2>2, <2>3, <2>4 DEF Holds, ProcBecomes, Asking, Tooling
  <2>6. Refusals' = Refusals /\ (Refusals = {} => Extends(proc[p].rounds)')
    BY <1>2, <1>7, <2>1 DEF Refusals, Extends, ProcBecomes
  <2>7. QED
    BY <1>7, <2>5, <2>6 DEF Holder, ProcBecomes
<1>16. QED
  BY <1>2, <1>8, <1>10, <1>12, <1>13, <1>14, <1>15, Stored DEF Own

\* Admit: the calls of the reply may run from now on, and none has.
LEMMA AdmitKeeps ==
    ASSUME IInv, NEW p \in Owner, Admit(p)
    PROVE  IInv'
<1> DEFINE i == proc[p].turn
           count == proc[p].count
           calls == [k \in 1..count |-> "none"]
<1>1. /\ TypeOK /\ Recorder /\ turns \in Seq(TurnRecord) /\ Len(turns) \in Nat
      /\ proc \in [Owner -> Process]
      /\ Seated(p) /\ Running(p) /\ Truthful(proc[p].rounds, turns, executed, proc)
      /\ proc[p].rounds \in Seq(Round) /\ i \in 0..Len(turns) /\ count \in Nat
  BY Facts, ProcType
<1>2. /\ proc[p].pc = "admit" /\ Live(p) /\ Goto(p, "settle")
      /\ UNCHANGED <<branch, sent, executed>> /\ turns[i].status = "pending"
      /\ turns' = [turns EXCEPT ![i].status = "admitted", ![i].calls = calls]
  BY DEF Admit
<1>3. /\ i \in 1..Len(turns) /\ i \in 1..MaxTurn /\ proc[p].pc \in Asking
      /\ SeatedIn(p, proc[p], turns[i], sent[i])
  BY <1>1, <1>2, TurnRange DEF Seated, InTurn, Asking
<1>4. /\ turns[i].owner = p /\ turns[i].reply = proc[p].reply /\ proc[p].reply # "none"
      /\ count <= MaxCall /\ (proc[p].reply = "calls" <=> count > 0)
  BY <1>2, <1>3, AgentAssumption DEF SeatedIn, Asking
<1>5. /\ calls \in Seq(Completion) /\ Len(calls) = count
      /\ \A k \in 1..Len(calls) : calls[k] = "none"
  <2>1. "none" \in Completion
    BY DEF Completion
  <2> HIDE DEF count
  <2>2. QED
    BY <1>1, <2>1
<1> HIDE DEF calls
<1>6. TurnBecomes(i, "admitted", turns[i].reply, calls)
  BY <1>1, <1>2, <1>3, <1>5, TurnAdmitted DEF Status
<1>7. /\ turns'[i].status = "admitted" /\ turns'[i].reply = proc[p].reply
      /\ turns'[i].calls = calls /\ turns'[i].owner = p
      /\ Len(turns') = Len(turns) /\ turns' \in Seq(TurnRecord)
  BY <1>4, <1>6 DEF TurnBecomes
<1>8. WellFormed(turns'[i])
  <2>1. calls # <<>> <=> count > 0
    BY <1>1, <1>5
  <2>2. QED
    BY <1>4, <1>5, <1>7, <2>1 DEF WellFormed
<1>9. ProcBecomes(p, "settle", proc[p].rounds, i, proc[p].reply, count,
                  proc[p].done, proc[p].forced)
  BY <1>1, <1>2, PcOnly DEF Goto, Pc
<1>10. /\ MayRun(proc'[p]) /\ Ran(proc'[p]) = 0 /\ proc'[p].done = <<>>
       /\ proc'[p].pc = "settle" /\ proc'[p].turn = i
  BY <1>1, <1>2, <1>9 DEF ProcBecomes, MayRun, Ran, Running, Tooling
<1>11. Running(p)'
  <2>1. ASSUME NEW k \in 1..MaxCall PROVE executed[i][k] = 0
    <3>1. executed[i][k] \in Nat
      BY <1>1, <1>3 DEF TypeOK
    <3>2. ~(executed[i][k] > 0)
      BY <1>2, <1>3 DEF IInv, ExecutedOnce, Admitted
    <3>3. QED
      BY <3>1, <3>2
  <2>2. RunningIn(proc'[p], turns'[i], executed[i])
    BY <1>10, <2>1, AgentAssumption DEF RunningIn, Tooling
  <2>3. QED
    BY <1>2, <1>10, <2>2 DEF Running
<1>12. NoNewPending(p)
  BY <1>2, <1>10 DEF NoNewPending, Pending
<1>13. Evolves(p) /\ Recording /\ NewlyAttested
  BY <1>2, <1>3, <1>5, <1>6, <1>8, <1>9, <1>12, Answered DEF ProcBecomes
<1>14. TypeOK'
  BY <1>1, <1>2, <1>7, <1>9, TurnTypes DEF TypeOK, ProcBecomes
<1>15. Truthful(proc'[p].rounds, turns', executed', proc')
  BY <1>1, <1>9, <1>13, <1>14, TruthFrame DEF ProcBecomes
<1>16. Seated(p)'
  BY <1>2, <1>3, <1>7, <1>9 DEF Seated, SeatedIn, ProcBecomes, InTurn, Asking, Tooling
<1>17. Holder(p)'
  <2>1. Holds(proc[p], turns) /\ (Refusals = {} => Extends(proc[p].rounds))
    BY <1>2, Facts DEF Holder, Working
  <2>2. i = Len(turns) /\ ~MayRun(proc[p])
    BY <1>2, <1>3, <2>1 DEF Holds, MayRun, Tooling
  <2>3. ASSUME NEW j \in 1..Len(turns')
        PROVE  /\ Settled(turns'[j])
               /\ HasCalls(turns'[j]) => j = i \/ Covered(j, proc[p].rounds, turns')
    <3>1. CASE j = i
      BY <3>1, <1>7 DEF Settled
    <3>2. CASE j # i
      <4>1. j \in 1..Len(turns) /\ j < Len(turns) /\ turns'[j] = turns[j]
        BY <1>1, <1>6, <2>2, <3>2, <1>7 DEF TurnBecomes
      <4>2. Settled(turns[j])
        BY <2>1, <4>1 DEF Holds
      <4>3. HasCalls(turns[j]) => Covered(j, proc[p].rounds, turns)
        BY <2>1, <2>2, <4>1 DEF Holds
      <4>4. QED
        BY <4>1, <4>2, <4>3, <1>13, CoveredFrame
    <3>3. QED
      BY <3>1, <3>2
  <2>4. (~proc[p].forced => Sorted(proc[p].rounds, turns')) /\ Exact(proc[p].rounds, turns')
    BY <1>1, <1>13, <1>14, <2>1, SortedFrame, ExactFrame DEF Holds
  <2>5. ASSUME ~proc[p].forced, NEW n \in 1..Len(proc[p].rounds)
        PROVE  proc[p].rounds[n].turn < i
    <3>1. proc[p].rounds[n].turn \in 1..Len(turns) /\ HasCalls(turns[proc[p].rounds[n].turn])
      BY <2>1, <2>5 DEF Holds, Sorted
    <3>2. proc[p].rounds[n].turn # i
      BY <1>2, <3>1 DEF HasCalls
    <3>3. QED
      BY <1>1, <2>2, <3>1, <3>2
  <2>6. /\ proc'[p].pc = "settle" /\ proc'[p].rounds = proc[p].rounds /\ proc'[p].turn = i
        /\ proc'[p].forced = proc[p].forced
    BY <1>9 DEF ProcBecomes
  <2> HIDE DEF i
  <2>7. Holds(proc'[p], turns')
    BY <1>10, <2>3, <2>4, <2>5, <2>6 DEF Holds, Asking, Tooling
  <2>8. Refusals' = Refusals /\ (Refusals = {} => Extends(proc[p].rounds)')
    BY <1>2, <2>1, <2>6 DEF Refusals, Extends
  <2>9. QED
    BY <2>6, <2>7, <2>8 DEF Holder
<1>18. QED
  BY <1>2, <1>11, <1>13, <1>14, <1>15, <1>16, <1>17, Stored DEF Own

\* One call of the turn of p is completed.
LEMMA Completed ==
    ASSUME IInv, NEW p \in Owner, proc[p].turn \in 1..Len(turns),
           turns[proc[p].turn].owner = p, NEW k \in 1..Len(turns[proc[p].turn].calls),
           NEW c \in Completion, CompleteCall(p, k, c),
           \/ c = "done" /\ executed[proc[p].turn][k] = 1
           \/ /\ c = "refusal" /\ executed[proc[p].turn][k] = 0
              /\ \A q \in Owner : ~Pending(proc'[q], proc[p].turn, k),
           UNCHANGED <<sent, executed>>, \A q \in Owner \ {p} : proc'[q] = proc[q],
           NoNewPending(p)
    PROVE  /\ Evolves(p) /\ Recording /\ NewlyAttested
           /\ turns' \in Seq(TurnRecord) /\ Len(turns') = Len(turns)
           /\ turns'[proc[p].turn].owner = p
           /\ \A j \in 1..Len(turns) : turns'[j].status = turns[j].status
                                       /\ turns'[j].reply = turns[j].reply
           /\ turns'[proc[p].turn].calls[k] = c
           /\ Len(turns'[proc[p].turn].calls) = Len(turns[proc[p].turn].calls)
           /\ \A m \in 1..Len(turns[proc[p].turn].calls) :
                 m # k => turns'[proc[p].turn].calls[m] = turns[proc[p].turn].calls[m]
<1> DEFINE i == proc[p].turn
           t == turns[i]
           n == turns'[i]
<1>0. TypeOK /\ Recorder /\ Len(turns) \in Nat /\ turns \in Seq(TurnRecord)
  BY Facts
<1>1. /\ TypeOK /\ Recorder /\ Len(turns) \in Nat /\ turns \in Seq(TurnRecord)
      /\ turns' \in Seq(TurnRecord)
      /\ TurnBecomes(i, t.status, t.reply, [t.calls EXCEPT ![k] = c])
  BY <1>0, CallCompleted DEF CompleteCall, TurnBecomes
<1>2. /\ i \in 1..Len(turns) /\ t.calls[k] = "none" /\ t.status = "admitted" /\ t.owner = p
      /\ n.owner = t.owner /\ n.status = t.status /\ n.reply = t.reply
      /\ n.calls = [t.calls EXCEPT ![k] = c] /\ k \in 1..Len(t.calls)
      /\ t.calls \in Seq(Completion) /\ WellFormed(t)
      /\ Len(turns') = Len(turns) /\ \A j \in 1..Len(turns) : j # i => turns'[j] = turns[j]
  BY <1>1, TurnType DEF CompleteCall, TurnBecomes, Recorder
<1>3. /\ \/ c = "done" /\ executed'[i][k] = 1
         \/ /\ c = "refusal" /\ executed'[i][k] = 0
            /\ \A q \in Owner : ~Pending(proc'[q], i, k)
      /\ UNCHANGED <<sent, executed>>
  OBVIOUS
<1> HIDE DEF t, n, i
<1>4. /\ Len(n.calls) = Len(t.calls) /\ n.calls[k] = c /\ Len(t.calls) \in Nat
      /\ \A m \in 1..Len(t.calls) : m # k => n.calls[m] = t.calls[m]
  BY <1>2
<1>5. WellFormed(n)
  BY <1>2, <1>4 DEF WellFormed
<1>6. Grow(p, turns, turns')
  <2>1. ASSUME NEW j \in 1..Len(turns)
        PROVE  /\ turns'[j].owner = turns[j].owner
               /\ turns'[j].status = turns[j].status
               /\ turns'[j].reply = turns[j].reply
               /\ Len(turns'[j].calls) = Len(turns[j].calls)
               /\ \A m \in 1..Len(turns[j].calls) :
                     turns[j].calls[m] # "none" => turns'[j].calls[m] = turns[j].calls[m]
    <3>1. CASE j = i
      BY <1>2, <1>4, <3>1 DEF t, n
    <3>2. CASE j # i
      BY <1>2, <3>2
    <3>3. QED
      BY <3>1, <3>2
  <2>2. Len(turns) <= Len(turns')
    BY <1>1, <1>2
  <2>3. QED
    BY <2>1, <2>2 DEF Grow
<1>7. Evolves(p)
  BY <1>3, <1>6 DEF Evolves, SentBy, RanBy
<1>8. Recording
  <2>1. \A j \in 1..Len(turns') : WellFormed(turns'[j])
    BY <1>1, <1>2, <1>5 DEF Recorder, n
  <2>2. \A j \in 1..Len(turns) : HasCalls(turns'[j]) => HasCalls(turns[j])
    BY <1>2 DEF HasCalls, n, t
  <2>3. QED
    BY <1>1, <1>2, <2>1, <2>2 DEF Recording, Recorder
<1>9. NewlyAttested
  <2>1. SUFFICES ASSUME NEW j \in 1..Len(turns'), NEW m \in 1..Len(turns'[j].calls)
                 PROVE  \/ /\ j \in 1..Len(turns) /\ m \in 1..Len(turns[j].calls)
                           /\ turns'[j].calls[m] = turns[j].calls[m]
                        \/ turns'[j].calls[m] = "done" /\ executed'[j][m] = 1
                        \/ /\ turns'[j].calls[m] = "refusal" /\ executed'[j][m] = 0
                           /\ \A q \in Owner : ~Pending(proc'[q], j, m)
    BY DEF NewlyAttested
  <2>2. CASE j = i /\ m = k
    BY <1>3, <1>4, <2>2 DEF n
  <2>3. CASE j = i /\ m # k
    BY <1>2, <1>4, <2>3 DEF n, t
  <2>4. CASE j # i
    BY <1>2, <2>4
  <2>5. QED
    BY <2>2, <2>3, <2>4
<1>10. \A j \in 1..Len(turns) : turns'[j].status = turns[j].status
                               /\ turns'[j].reply = turns[j].reply
  BY <1>2 DEF n, t
<1>11. QED
  BY <1>1, <1>2, <1>4, <1>7, <1>8, <1>9, <1>10 DEF n, t, i

\* After a completion the owner p still holds.
LEMMA CompletedHolder ==
    ASSUME IInv, NEW p \in Owner, TypeOK', Evolves(p), branch' = branch,
           Len(turns') = Len(turns),
           \A j \in 1..Len(turns) : turns'[j].status = turns[j].status
                                    /\ turns'[j].reply = turns[j].reply,
           Holds(proc[p], turns), Refusals = {} => Extends(proc[p].rounds),
           proc[p].pc \in {"complete", "refuse"},
           proc'[p].pc = IF proc[p].pc = "complete" THEN "tool" ELSE "refuse",
           proc'[p].rounds = proc[p].rounds, proc'[p].turn = proc[p].turn,
           proc'[p].forced = proc[p].forced
    PROVE  Holder(p)'
<1>1. /\ TypeOK /\ (MayRun(proc'[p]) <=> MayRun(proc[p]))
      /\ proc[p].pc \notin Asking /\ proc'[p].pc \notin Asking
  BY Facts DEF MayRun, Tooling, Asking
<1>2. ASSUME NEW j \in 1..Len(turns')
      PROVE  /\ Settled(turns'[j])
             /\ HasCalls(turns'[j]) =>
                   (MayRun(proc[p]) /\ proc[p].turn = j) \/ Covered(j, proc[p].rounds, turns')
  <2>1. Settled(turns[j]) /\ turns'[j].status = turns[j].status /\ turns'[j].reply = turns[j].reply
    BY <1>1 DEF Holds
  <2>2. HasCalls(turns[j]) =>
            (MayRun(proc[p]) /\ proc[p].turn = j) \/ Covered(j, proc[p].rounds, turns)
    BY DEF Holds
  <2>3. QED
    BY <2>1, <2>2, CoveredFrame DEF Settled, HasCalls
<1>3. (~proc[p].forced => Sorted(proc[p].rounds, turns')) /\ Exact(proc[p].rounds, turns')
  <2>1. /\ Recorder /\ proc[p].rounds \in Seq(Round)
        /\ Truthful(proc[p].rounds, turns, executed, proc)
    BY Facts, ProcType
  <2>2. QED
    BY <1>1, <2>1, SortedFrame, ExactFrame DEF Holds
<1>4. Holds(proc'[p], turns')
  BY <1>1, <1>2, <1>3 DEF Holds, Tooling
<1>5. Refusals' = Refusals /\ (Refusals = {} => Extends(proc[p].rounds)')
  BY DEF Refusals, Extends
<1>6. QED
  BY <1>4, <1>5 DEF Holder, Working

\* complete_provider_tool.
LEMMA CompleteToolKeeps ==
    ASSUME IInv, NEW p \in Owner, CompleteTool(p)
    PROVE  IInv'
<1> DEFINE i == proc[p].turn
           k == Len(proc[p].done)
<1>1. /\ TypeOK /\ Recorder /\ turns \in Seq(TurnRecord) /\ Len(turns) \in Nat
      /\ proc \in [Owner -> Process]
      /\ Seated(p) /\ Running(p) /\ Truthful(proc[p].rounds, turns, executed, proc)
      /\ proc[p].rounds \in Seq(Round) /\ i \in 0..Len(turns) /\ k \in Nat
  BY Facts, ProcType
<1>2. /\ proc[p].pc = "complete" /\ Live(p) /\ Goto(p, "tool")
      /\ UNCHANGED <<branch, sent, executed>>
      /\ CompleteCall(p, k, "done") /\ turns' = [turns EXCEPT ![i].calls[k] = "done"]
  BY DEF CompleteTool, CompleteCall
<1>3. /\ i \in 1..Len(turns) /\ i \in 1..MaxTurn
      /\ SeatedIn(p, proc[p], turns[i], sent[i])
      /\ RunningIn(proc[p], turns[i], executed[i])
  BY <1>1, <1>2, TurnRange DEF Seated, Running, InTurn, Tooling
<1>4. /\ turns[i].owner = p /\ turns[i].status = "admitted" /\ turns[i].reply = proc[p].reply
      /\ proc[p].reply = "calls"
  BY <1>2, <1>3 DEF SeatedIn, Tooling, MayRun
<1>5. /\ Len(turns[i].calls) \in Nat /\ k \in 1..Len(turns[i].calls) /\ k \in 1..MaxCall
      /\ executed[i][k] = 1 /\ Ran(proc[p]) = k
  <2>1. Ran(proc[p]) = k /\ k > 0 /\ k <= Len(turns[i].calls)
    BY <1>2, <1>3 DEF RunningIn, Ran, Tooling
  <2>2. /\ Len(turns[i].calls) \in Nat /\ Len(turns[i].calls) <= MaxCall /\ MaxCall \in Nat
    BY <1>1, <1>3, TurnType, AgentAssumption DEF Recorder, WellFormed
  <2>3. k \in 1..MaxCall /\ k \in 1..Len(turns[i].calls)
    BY <1>1, <2>1, <2>2
  <2>4. executed[i][k] = 1
    BY <1>2, <1>3, <2>1, <2>3 DEF RunningIn, MayRun, Tooling
  <2>5. QED
    BY <2>1, <2>2, <2>3, <2>4
<1>7. ProcBecomes(p, "tool", proc[p].rounds, i, proc[p].reply, proc[p].count,
                  proc[p].done, proc[p].forced)
  BY <1>1, <1>2, PcOnly DEF Goto, Pc
<1>8. /\ MayRun(proc[p]) /\ MayRun(proc'[p]) /\ Ran(proc'[p]) = k
      /\ proc'[p].done = proc[p].done /\ proc'[p].pc = "tool" /\ proc'[p].turn = i
  BY <1>2, <1>7 DEF ProcBecomes, MayRun, Ran, Tooling
<1>9. NoNewPending(p)
  BY <1>5, <1>8 DEF NoNewPending, Pending
<1>11. /\ Evolves(p) /\ Recording /\ NewlyAttested
       /\ turns' \in Seq(TurnRecord) /\ Len(turns') = Len(turns)
       /\ \A j \in 1..Len(turns) : turns'[j].status = turns[j].status
                                   /\ turns'[j].reply = turns[j].reply
       /\ turns'[i].owner = p
       /\ turns'[i].calls[k] = "done"
       /\ Len(turns'[i].calls) = Len(turns[i].calls)
       /\ \A m \in 1..Len(turns[i].calls) : m # k => turns'[i].calls[m] = turns[i].calls[m]
  <2>1. "done" \in Completion
    BY DEF Completion
  <2>2. \A q \in Owner \ {p} : proc'[q] = proc[q]
    BY <1>7 DEF ProcBecomes
  <2>3. QED
    BY <1>2, <1>3, <1>4, <1>5, <1>9, <2>1, <2>2, Completed
<1>12. TypeOK'
  BY <1>1, <1>2, <1>7, <1>11, TurnTypes DEF TypeOK, ProcBecomes
<1>13. Truthful(proc'[p].rounds, turns', executed', proc')
  BY <1>1, <1>7, <1>11, <1>12, TruthFrame DEF ProcBecomes
<1>14. Seated(p)'
  BY <1>2, <1>3, <1>4, <1>7, <1>11 DEF Seated, SeatedIn, ProcBecomes, InTurn, Asking, Tooling
<1>15. RunningIn(proc'[p], turns'[i], executed[i])
  <2> DEFINE n == proc'[p]
             t == turns'[i]
             x == executed[i]
  <2>1. n.pc = "tool" /\ Ran(n) = k /\ n.done = proc[p].done
    BY <1>8
  <2>2. \A m \in 1..MaxCall : x[m] = IF m <= Ran(n) THEN 1 ELSE 0
    BY <1>3, <1>5, <1>8 DEF RunningIn
  <2>3. Ran(n) <= Len(t.calls)
    BY <1>5, <1>8, <1>11
  <2>4. ASSUME NEW m \in 1..Len(proc[p].done)
        PROVE  proc[p].done[m] = "done" /\ t.calls[m] = "done"
    <3>1. proc[p].done[m] = "done" /\ (m < k => turns[i].calls[m] = "done")
      BY <1>2, <1>3 DEF RunningIn, Tooling
    <3>2. CASE m = k
      BY <3>1, <3>2, <1>11
    <3>3. CASE m # k
      BY <3>1, <3>3, <1>1, <1>5, <1>11
    <3>4. QED
      BY <3>2, <3>3
  <2> HIDE DEF n, t, x
  <2>5. RunningIn(n, t, x)
    BY <2>1, <2>2, <2>3, <2>4 DEF RunningIn
  <2>6. QED
    BY <2>5 DEF n, t, x
<1>16. Running(p)'
  BY <1>2, <1>8, <1>15 DEF Running, Tooling
<1>17. Holder(p)'
  <2>1. Holds(proc[p], turns) /\ (Refusals = {} => Extends(proc[p].rounds))
    BY <1>2, Facts DEF Holder, Working
  <2>2. QED
    BY <1>2, <1>7, <1>11, <1>12, <2>1, CompletedHolder DEF ProcBecomes
<1>18. QED
  BY <1>2, <1>11, <1>12, <1>13, <1>14, <1>16, <1>17, Stored DEF Own

\* The same for a refused call.
LEMMA RefuseToolKeeps ==
    ASSUME IInv, NEW p \in Owner, RefuseTool(p)
    PROVE  IInv'
<1> DEFINE i == proc[p].turn
<1>1. /\ TypeOK /\ Recorder /\ turns \in Seq(TurnRecord) /\ Len(turns) \in Nat
      /\ proc \in [Owner -> Process]
      /\ Seated(p) /\ Running(p) /\ Truthful(proc[p].rounds, turns, executed, proc)
      /\ proc[p].rounds \in Seq(Round) /\ i \in 0..Len(turns)
  BY Facts, ProcType
<1>2. proc[p].pc = "refuse" /\ UNCHANGED <<branch, proc, sent, executed>>
  BY DEF RefuseTool
<1>3. PICK k \in Open(p) : CompleteCall(p, k, "refusal")
  BY DEF RefuseTool
<1>4. Live(p) /\ turns' = [turns EXCEPT ![i].calls[k] = "refusal"]
  BY <1>3 DEF CompleteCall
<1>5. /\ i \in 1..Len(turns) /\ i \in 1..MaxTurn
      /\ SeatedIn(p, proc[p], turns[i], sent[i])
      /\ RunningIn(proc[p], turns[i], executed[i])
  BY <1>1, <1>2, TurnRange DEF Seated, Running, InTurn
<1>6. turns[i].owner = p /\ turns[i].status = "admitted"
  BY <1>2, <1>5 DEF SeatedIn
<1>7. /\ turns[i].calls \in Seq(Completion) /\ k \in 1..Len(turns[i].calls)
      /\ turns[i].calls[k] = "none"
  BY <1>1, <1>3, <1>5, TurnType DEF Open
<1>8. executed[i][k] = 0 /\ ~MayRun(proc[p])
  BY <1>2, <1>5, <1>7 DEF RunningIn, MayRun, Tooling
<1>9. \A q \in Owner : ~Pending(proc'[q], i, k)
  BY <1>2, <1>5, <1>6, <1>8, OneRunner DEF Pending
<1>10. NoNewPending(p)
  BY <1>2 DEF NoNewPending
<1>13. /\ Evolves(p) /\ Recording /\ NewlyAttested
       /\ turns' \in Seq(TurnRecord) /\ Len(turns') = Len(turns)
       /\ \A j \in 1..Len(turns) : turns'[j].status = turns[j].status
                                   /\ turns'[j].reply = turns[j].reply
       /\ turns'[i].owner = p
       /\ turns'[i].calls[k] = "refusal"
       /\ Len(turns'[i].calls) = Len(turns[i].calls)
       /\ \A m \in 1..Len(turns[i].calls) : m # k => turns'[i].calls[m] = turns[i].calls[m]
  <2>1. "refusal" \in Completion
    BY DEF Completion
  <2>2. QED
    BY <1>2, <1>3, <1>5, <1>6, <1>7, <1>8, <1>9, <1>10, <2>1, Completed
<1>14. TypeOK'
  BY <1>1, <1>2, <1>13, TurnTypes DEF TypeOK
<1>15. Truthful(proc'[p].rounds, turns', executed', proc')
  BY <1>1, <1>2, <1>13, <1>14, TruthFrame
<1>16. Seated(p)'
  BY <1>2, <1>5, <1>6, <1>8, <1>13 DEF Seated, SeatedIn, InTurn, Asking, Tooling
<1>17. Running(p)'
  <2>1. \A m \in 1..Len(turns'[i].calls) : turns'[i].calls[m] = "none" => executed[i][m] = 0
    BY <1>2, <1>5, <1>13 DEF RunningIn
  <2>2. RunningIn(proc[p], turns'[i], executed[i])
    BY <1>2, <1>8, <2>1 DEF RunningIn, Tooling
  <2>3. QED
    BY <1>1, <1>2, <2>2 DEF Running
<1>18. Holder(p)'
  <2>1. Holds(proc[p], turns) /\ (Refusals = {} => Extends(proc[p].rounds))
    BY <1>2, <1>4, Facts DEF Holder, Working
  <2>2. QED
    BY <1>2, <1>13, <1>14, <2>1, CompletedHolder
<1>19. QED
  BY <1>2, <1>4, <1>13, <1>14, <1>15, <1>16, <1>17, <1>18, Stored DEF Own

\* provider_intent: everything before it is settled.
LEMMA IntentKeeps ==
    ASSUME IInv, NEW p \in Owner, Intent(p)
    PROVE  IInv'
<1> DEFINE new == [owner |-> p, status |-> "intent", reply |-> "none", calls |-> <<>>]
           i == Len(turns) + 1
<1>1. /\ TypeOK /\ Recorder /\ turns \in Seq(TurnRecord) /\ Len(turns) \in Nat
      /\ proc \in [Owner -> Process] /\ Running(p)
      /\ Truthful(proc[p].rounds, turns, executed, proc) /\ proc[p].rounds \in Seq(Round)
  BY Facts, ProcType
<1>2. /\ proc[p].pc = "intent" /\ Live(p) /\ Len(turns) < MaxTurn
      /\ turns' = Append(turns, new) /\ UNCHANGED <<branch, sent, executed>>
      /\ proc' = [proc EXCEPT ![p].pc = "permit", ![p].turn = i]
  BY DEF Intent
<1>3. /\ new \in TurnRecord /\ WellFormed(new) /\ new.owner = p /\ new.status = "intent"
      /\ new.calls = <<>>
  BY AgentAssumption DEF TurnRecord, Status, Reply, WellFormed
<1> HIDE DEF new
<1>4. /\ turns' \in Seq(TurnRecord) /\ Len(turns') = i /\ turns'[i] = new
      /\ \A j \in 1..Len(turns) : turns'[j] = turns[j]
  BY <1>1, <1>2, <1>3
<1>5. /\ i \in Nat /\ i \in 1..MaxTurn /\ i \in 1..Len(turns') /\ i \notin 1..Len(turns)
      /\ \A j \in 1..Len(turns') : j \in 1..Len(turns) \/ j = i
  BY <1>1, <1>2, <1>4, AgentAssumption
<1>6. ProcBecomes(p, "permit", proc[p].rounds, i, proc[p].reply, proc[p].count,
                  proc[p].done, proc[p].forced)
  BY <1>1, <1>2, <1>5, PcTurn DEF Pc
<1>7. Holds(proc[p], turns) /\ (Refusals = {} => Extends(proc[p].rounds))
  BY <1>2, Facts DEF Holder, Working
<1>8. \A j \in 1..Len(turns) : Settled(turns[j])
  BY <1>2, <1>7 DEF Holds, Asking
<1>9. Running(p)' /\ ~MayRun(proc'[p])
  BY <1>1, <1>2, <1>6 DEF Running, RunningIn, ProcBecomes, Tooling, MayRun
<1>10. NoNewPending(p)
  BY <1>9 DEF NoNewPending, Pending
<1>11. Evolves(p)
  <2>1. Len(turns) <= Len(turns')
    BY <1>1, <1>4
  <2>2. Grow(p, turns, turns')
    BY <1>4, <2>1 DEF Grow
  <2>3. QED
    BY <1>2, <1>6, <1>10, <2>2 DEF Evolves, SentBy, RanBy, ProcBecomes
<1>12. Recording
  <2>1. \A j \in 1..Len(turns') : WellFormed(turns'[j])
    BY <1>1, <1>3, <1>4, <1>5 DEF Recorder
  <2>2. Len(turns') <= MaxTurn
    BY <1>1, <1>2, <1>4, AgentAssumption
  <2>3. QED
    BY <1>4, <1>8, <2>1, <2>2 DEF Recording
<1>13. NewlyAttested
  BY <1>3, <1>4, <1>5 DEF NewlyAttested
<1>14. TypeOK'
  <2>1. Len(turns) <= Len(turns') /\ i \in 0..Len(turns')
    BY <1>1, <1>4
  <2>2. QED
    BY <1>1, <1>2, <1>4, <1>6, <2>1, TurnTypes DEF TypeOK, ProcBecomes
<1>15. Truthful(proc'[p].rounds, turns', executed', proc')
  BY <1>1, <1>6, <1>11, <1>14, TruthFrame DEF ProcBecomes
<1>16. Seated(p)'
  <2>1. sent[i] \in Nat /\ ~(sent[i] > 0)
    BY <1>1, <1>5 DEF TypeOK, Recorder
  <2>2. sent[i] = 0
    BY <2>1
  <2>3. QED
    BY <1>2, <1>3, <1>4, <1>5, <1>6, <1>9, <2>2
    DEF Seated, SeatedIn, ProcBecomes, InTurn, Asking, Tooling
<1>17. Holder(p)'
  <2>1. ~MayRun(proc[p])
    BY <1>2 DEF MayRun, Tooling
  <2>2. ASSUME NEW j \in 1..Len(turns')
        PROVE  /\ j < Len(turns') => Settled(turns'[j])
               /\ HasCalls(turns'[j]) => Covered(j, proc[p].rounds, turns')
    <3>1. CASE j = i
      BY <3>1, <1>3, <1>4, <1>5 DEF HasCalls
    <3>2. CASE j \in 1..Len(turns)
      <4>1. HasCalls(turns[j]) => Covered(j, proc[p].rounds, turns)
        BY <1>7, <2>1, <3>2 DEF Holds
      <4>2. QED
        BY <4>1, <1>4, <1>8, <1>11, <3>2, CoveredFrame
    <3>3. QED
      BY <3>1, <3>2, <1>5
  <2>3. (~proc[p].forced => Sorted(proc[p].rounds, turns')) /\ Exact(proc[p].rounds, turns')
    BY <1>1, <1>7, <1>11, <1>14, SortedFrame, ExactFrame DEF Holds
  <2>4. /\ proc'[p].pc = "permit" /\ proc'[p].rounds = proc[p].rounds
        /\ proc'[p].turn = Len(turns') /\ proc'[p].forced = proc[p].forced
    BY <1>4, <1>6 DEF ProcBecomes
  <2>5. Holds(proc'[p], turns')
    BY <1>9, <2>2, <2>3, <2>4 DEF Holds, Asking, Tooling
  <2>6. Refusals' = Refusals /\ (Refusals = {} => Extends(proc[p].rounds)')
    BY <1>2, <1>7, <2>4 DEF Refusals, Extends
  <2>7. QED
    BY <2>4, <2>5, <2>6 DEF Holder
<1>18. QED
  BY <1>2, <1>9, <1>11, <1>12, <1>13, <1>14, <1>15, <1>16, <1>17, Stored DEF Own

----------------------------------------------------------------------------
(* Store operations on the branch.                                         *)

\* start_request: the new owner has nothing yet.
LEMMA ReserveKeeps ==
    ASSUME IInv, NEW p \in Owner, Reserve(p) \/ Reclaim(p)
    PROVE  IInv'
<1>1. /\ TypeOK /\ Recorder /\ proc \in [Owner -> Process] /\ Running(p) /\ Transcript
      /\ branch \in BranchRecord /\ proc[p].turn \in 0..Len(turns)
      /\ Truthful(proc[p].rounds, turns, executed, proc) /\ proc[p].rounds \in Seq(Round)
  BY Facts, ProcType DEF IInv, TypeOK
<1>2. /\ proc[p].pc = "idle" /\ Goto(p, "recover") /\ UNCHANGED <<turns, sent, executed>>
      /\ branch.life \in {"none", "pending"}
  BY DEF Reserve, Reclaim
<1>3. /\ branch' \in BranchRecord /\ branch'.life = "pending" /\ branch'.owner = p
      /\ branch'.rounds = branch.rounds
  BY <1>1 DEF Reserve, Reclaim, BranchRecord
<1>4. ProcBecomes(p, "recover", proc[p].rounds, proc[p].turn, proc[p].reply, proc[p].count,
                  proc[p].done, proc[p].forced)
  BY <1>1, <1>2, PcOnly DEF Goto, Pc
<1>5. proc'[p].pc \notin InTurn /\ proc'[p].done = <<>>
  BY <1>1, <1>2, <1>4 DEF ProcBecomes, InTurn, Asking, Tooling, Running
<1>6. Seated(p)' /\ Running(p)' /\ ~MayRun(proc'[p])
  BY <1>5, OutOfTurn
<1>7. NoNewPending(p)
  BY <1>6 DEF NoNewPending, Pending
<1>8. TypeOK'
  BY <1>1, <1>2, <1>3, <1>4 DEF TypeOK, ProcBecomes
<1>9. Evolves(p) /\ Recording
  <2>1. SentBy(p) /\ RanBy(p)
    BY <1>2 DEF SentBy, RanBy
  <2>2. QED
    BY <1>2, <1>4, <1>7, <2>1, SameTurns DEF ProcBecomes
<1>10. Truthful(proc'[p].rounds, turns', executed', proc')
  BY <1>1, <1>4, <1>8, <1>9, TruthFrame DEF ProcBecomes
<1>11. Transcript'
  BY <1>1, <1>2, <1>3, <1>8, <1>9, TranscriptKept
<1>12. Holder(p)'
  BY <1>4 DEF ProcBecomes, Holder, Working
<1>13. \A q \in Owner \ {p} : ~Live(q)'
  BY <1>3 DEF Live
<1>14. QED
  BY <1>2, <1>4, <1>6, <1>7, <1>8, <1>10, <1>11, <1>12, <1>13, Branched DEF Own, ProcBecomes

\* A lapsed lease leaves nobody in charge.
LEMMA LeaseExpiresKeeps ==
    ASSUME IInv, LeaseExpires
    PROVE  IInv'
<1>1. branch \in BranchRecord
  BY DEF IInv, TypeOK
<1>2. /\ branch' \in BranchRecord /\ branch'.life = branch.life
      /\ branch'.rounds = branch.rounds /\ branch'.leased = FALSE
      /\ UNCHANGED <<turns, proc, sent, executed>>
  BY <1>1 DEF LeaseExpires, BranchRecord
<1>3. TypeOK'
  BY <1>2 DEF IInv, TypeOK
<1>4. Recorder' /\ NoSendAfterUnresolved' /\ ExecutedOnce'
  BY <1>2 DEF IInv, Recorder, NoSendAfterUnresolved, ExecutedOnce, Admitted
<1>5. \A q \in Owner : /\ Seated(q)' /\ Running(q)'
                       /\ Truthful(proc'[q].rounds, turns', executed', proc')
  BY <1>2 DEF IInv, Seated, Running
<1>6. \A q \in Owner : ~Live(q)'
  BY <1>2 DEF Live
<1>7. Transcript'
  BY <1>2 DEF IInv, Transcript
<1>8. QED
  BY <1>3, <1>4, <1>5, <1>6, <1>7 DEF IInv

\* checkpoint: the transcript of the holder becomes that of the branch.
LEMMA CheckpointKeeps ==
    ASSUME IInv, NEW p \in Owner, Checkpoint(p)
    PROVE  IInv'
<1> DEFINE rounds == proc[p].rounds
           last == rounds[Len(rounds)]
           forced == \E k \in DOMAIN last.calls : last.calls[k] = "refused"
<1>1. /\ TypeOK /\ Recorder /\ proc \in [Owner -> Process] /\ Running(p)
      /\ branch \in BranchRecord /\ proc[p].turn \in 0..Len(turns)
      /\ Truthful(rounds, turns, executed, proc) /\ rounds \in Seq(Round)
  BY Facts, ProcType DEF IInv, TypeOK
<1>2. /\ proc[p].pc = "refuse" /\ Live(p) /\ UNCHANGED <<turns, sent, executed>>
      /\ branch' = [branch EXCEPT !.rounds = rounds]
      /\ proc' = [proc EXCEPT ![p].pc = "renew", ![p].forced = forced]
  BY DEF Checkpoint
<1>3. /\ branch' \in BranchRecord /\ branch'.life = "pending" /\ branch'.owner = p
      /\ branch'.rounds = rounds
  BY <1>1, <1>2 DEF Live, BranchRecord
<1>4. forced \in BOOLEAN
  OBVIOUS
<1> HIDE DEF forced
<1>5. ProcBecomes(p, "renew", rounds, proc[p].turn, proc[p].reply, proc[p].count,
                  proc[p].done, forced)
  BY <1>1, <1>2, <1>4, PcCheckpoint DEF Pc
<1>6. proc'[p].pc \notin InTurn /\ proc'[p].done = <<>>
  BY <1>1, <1>2, <1>5 DEF ProcBecomes, InTurn, Asking, Tooling, Running
<1>7. Seated(p)' /\ Running(p)' /\ ~MayRun(proc'[p])
  BY <1>6, OutOfTurn
<1>8. NoNewPending(p)
  BY <1>7 DEF NoNewPending, Pending
<1>9. TypeOK'
  BY <1>1, <1>2, <1>3, <1>5 DEF TypeOK, ProcBecomes
<1>10. Evolves(p)
  <2>1. SentBy(p) /\ RanBy(p)
    BY <1>2 DEF SentBy, RanBy
  <2>2. QED
    BY <1>2, <1>5, <1>8, <2>1, SameTurns DEF ProcBecomes
<1>11. Truthful(rounds, turns', executed', proc') /\ proc'[p].rounds = rounds
  BY <1>1, <1>5, <1>9, <1>10, TruthFrame DEF ProcBecomes
<1>12. Holds(proc[p], turns)
  BY <1>2, Facts DEF Holder, Working
<1>13. /\ Sorted(rounds, turns) /\ Exact(rounds, turns) /\ ~MayRun(proc[p])
       /\ \A j \in 1..Len(turns) : HasCalls(turns[j]) => Covered(j, rounds, turns)
  BY <1>2, <1>12 DEF Holds, MayRun, Tooling
<1>14. Gapless(rounds, turns)
  BY <1>13 DEF Gapless, Covered
<1>15. Transcript'
  BY <1>2, <1>3, <1>11, <1>13, <1>14 DEF Transcript
<1>16. Holder(p)'
  <2>1. Holds(proc'[p], turns)
    BY <1>2, <1>5, <1>7, <1>12, <1>13 DEF Holds, ProcBecomes, Asking, Tooling
  <2>2. Extends(proc[p].rounds)'
    BY <1>1, <1>3, <1>11 DEF Extends
  <2>3. QED
    BY <1>2, <1>5, <2>1, <2>2 DEF Holder, ProcBecomes
<1>17. \A q \in Owner \ {p} : ~Live(q)'
  BY <1>3 DEF Live
<1>18. QED
  BY <1>2, <1>5, <1>7, <1>8, <1>9, <1>11, <1>15, <1>16, <1>17, Branched DEF Own, ProcBecomes

\* complete_attempt and dead_coded: the outcome of the branch.
LEMMA EndKeeps ==
    ASSUME IInv, NEW p \in Owner, Live(p), Goto(p, "done"),
           UNCHANGED <<turns, sent, executed>>, branch' \in BranchRecord,
           branch'.life \in {"completed", "failed"},
           Truthful(branch'.rounds, turns, executed, proc),
           branch'.life = "completed" => Exact(branch'.rounds, turns),
           branch'.life = "completed" =>
               \A i \in 1..Len(turns) : HasCalls(turns[i]) => Covered(i, branch'.rounds, turns)
    PROVE  IInv'
<1>1. /\ TypeOK /\ Recorder /\ proc \in [Owner -> Process] /\ proc[p].turn \in 0..Len(turns)
      /\ Truthful(proc[p].rounds, turns, executed, proc) /\ proc[p].rounds \in Seq(Round)
      /\ branch'.rounds \in Seq(Round)
  BY Facts, ProcType DEF BranchRecord
<1>2. ProcBecomes(p, "done", proc[p].rounds, proc[p].turn, proc[p].reply, proc[p].count,
                  proc[p].done, proc[p].forced)
  BY <1>1, PcOnly DEF Goto, Pc
<1>3. proc'[p].pc \notin InTurn /\ proc'[p].pc = "done"
  BY <1>2 DEF ProcBecomes, InTurn, Asking, Tooling
<1>4. Seated(p)' /\ Running(p)' /\ ~MayRun(proc'[p])
  BY <1>3, OutOfTurn
<1>5. NoNewPending(p)
  BY <1>4 DEF NoNewPending, Pending
<1>6. TypeOK'
  BY <1>1, <1>2 DEF TypeOK, ProcBecomes
<1>7. Evolves(p)
  <2>1. SentBy(p) /\ RanBy(p)
    BY DEF SentBy, RanBy
  <2>2. QED
    BY <1>2, <1>5, <2>1, SameTurns DEF ProcBecomes
<1>8. /\ Truthful(proc'[p].rounds, turns', executed', proc')
      /\ Truthful(branch'.rounds, turns', executed', proc')
  BY <1>1, <1>2, <1>6, <1>7, TruthFrame DEF ProcBecomes
<1>9. Transcript'
  BY <1>8 DEF Transcript
<1>10. \A q \in Owner : ~Live(q)'
  BY DEF Live
<1>11. QED
  BY <1>2, <1>4, <1>5, <1>6, <1>8, <1>9, <1>10, Branched DEF Own, ProcBecomes

LEMMA FinalizeKeeps ==
    ASSUME IInv, NEW p \in Owner, Finalize(p) \/ Fail(p)
    PROVE  IInv'
<1>1. /\ TypeOK /\ proc \in [Owner -> Process] /\ Seated(p) /\ branch \in BranchRecord
      /\ turns \in Seq(TurnRecord)
      /\ Truthful(proc[p].rounds, turns, executed, proc) /\ proc[p].rounds \in Seq(Round)
  BY Facts, ProcType DEF IInv, TypeOK
<1>2. CASE Fail(p)
  <2>1. /\ Live(p) /\ Goto(p, "done") /\ UNCHANGED <<turns, sent, executed>>
        /\ branch' = [branch EXCEPT !.life = "failed", !.leased = FALSE,
                                    !.rounds = proc[p].rounds]
    BY <1>2 DEF Fail
  <2>2. /\ branch' \in BranchRecord /\ branch'.life = "failed"
        /\ branch'.rounds = proc[p].rounds
    BY <1>1, <2>1 DEF BranchRecord
  <2>3. QED
    BY <1>1, <2>1, <2>2, EndKeeps
<1>3. CASE Finalize(p)
  <2> DEFINE round == [turn |-> proc[p].turn, calls |-> <<>>]
             rounds == Append(proc[p].rounds, round)
  <2>1. /\ Live(p) /\ Goto(p, "done") /\ UNCHANGED <<turns, sent, executed>>
        /\ branch' = [branch EXCEPT !.life = "completed", !.leased = FALSE, !.rounds = rounds]
        /\ proc[p].pc = "finalize"
    BY <1>3 DEF Finalize, Summarised
  <2>2. round \in Round /\ Honest(round, turns, executed, proc)
    BY <1>1, <2>1, EmptyRound DEF Seated, InTurn
  <2> HIDE DEF round
  <2>3. /\ rounds \in Seq(Round) /\ Truthful(rounds, turns, executed, proc)
        /\ Len(proc[p].rounds) \in Nat /\ Len(rounds) = Len(proc[p].rounds) + 1
        /\ \A n \in 1..Len(proc[p].rounds) : rounds[n] = proc[p].rounds[n]
    BY <1>1, <2>2, AppendRound, TruthAppend
  <2> HIDE DEF rounds
  <2>4. branch' \in BranchRecord /\ branch'.life = "completed" /\ branch'.rounds = rounds
    BY <1>1, <2>1, <2>3 DEF BranchRecord
  <2>5. ASSUME NEW i \in 1..Len(turns), HasCalls(turns[i])
        PROVE  Covered(i, rounds, turns)
    <3>1. Covered(i, proc[p].rounds, turns)
      BY <2>1, <2>5, Facts DEF Holder, Working, Holds, MayRun, Tooling
    <3>2. Len(rounds) \in Nat /\ Len(proc[p].rounds) <= Len(rounds)
      BY <2>3
    <3>3. QED
      BY <2>3, <3>1, <3>2, CoveredMore
  <2>6. Exact(rounds, turns)
    <3>1. Exact(proc[p].rounds, turns)
      BY <2>1, Facts DEF Holder, Working, Holds
    <3>2. \A k \in 1..Len(round.calls) : FALSE
      BY DEF round
    <3>3. QED
      BY <1>1, <2>2, <3>1, <3>2, ExactAppend DEF rounds
  <2>7. QED
    BY <2>1, <2>3, <2>4, <2>5, <2>6, EndKeeps
<1>4. QED
  BY <1>2, <1>3

----------------------------------------------------------------------------
(* resume_or_begin.                                                        *)

\* What Command::Recover makes of the records.
AllResolved ==
    /\ turns' \in Seq(TurnRecord) /\ Len(turns') = Len(turns)
    /\ \A i \in 1..Len(turns) :
         /\ turns'[i] = Resolved(turns[i])
         /\ turns'[i].owner = turns[i].owner
         /\ turns'[i].status = IF turns[i].status \in {"intent", "pending"}
                               THEN "indeterminate" ELSE turns[i].status
         /\ turns[i].status \notin {"intent", "pending"} => turns'[i].reply = turns[i].reply
         /\ turns'[i].calls \in Seq(Completion \ {"none"})
         /\ Len(turns'[i].calls) = Len(turns[i].calls)
         /\ \A k \in 1..Len(turns[i].calls) :
               turns'[i].calls[k] = IF turns[i].calls[k] = "none"
                                    THEN "indeterminate" ELSE turns[i].calls[k]

LEMMA ResolvedTurns ==
    ASSUME turns \in Seq(TurnRecord), turns' = [i \in DOMAIN turns |-> Resolved(turns[i])]
    PROVE  AllResolved
<1>1. DOMAIN turns = 1..Len(turns) /\ Len(turns) \in Nat
  OBVIOUS
<1>2. ASSUME NEW t \in TurnRecord
      PROVE  /\ Resolved(t) \in TurnRecord
             /\ Resolved(t).owner = t.owner
             /\ Resolved(t).status = IF t.status \in {"intent", "pending"}
                                     THEN "indeterminate" ELSE t.status
             /\ t.status \notin {"intent", "pending"} => Resolved(t).reply = t.reply
             /\ Resolved(t).calls \in Seq(Completion \ {"none"})
             /\ Len(Resolved(t).calls) = Len(t.calls)
             /\ \A k \in 1..Len(t.calls) :
                   Resolved(t).calls[k] = IF t.calls[k] = "none"
                                          THEN "indeterminate" ELSE t.calls[k]
  <2> DEFINE s == IF t.status \in {"intent", "pending"} THEN "indeterminate" ELSE t.status
             re == IF t.status \in {"intent", "pending"} THEN "none" ELSE t.reply
             c == [k \in DOMAIN t.calls |->
                     IF t.calls[k] = "none" THEN "indeterminate" ELSE t.calls[k]]
  <2>1. Resolved(t) = [owner |-> t.owner, status |-> s, reply |-> re, calls |-> c]
    BY DEF Resolved
  <2>2. /\ t.owner \in Owner /\ s \in Status /\ re \in Reply
        /\ t.status \notin {"intent", "pending"} => re = t.reply
    BY DEF TurnRecord, Status, Reply
  <2>3. /\ t.calls \in Seq(Completion) /\ DOMAIN t.calls = 1..Len(t.calls) /\ Len(t.calls) \in Nat
        /\ \A k \in 1..Len(t.calls) : t.calls[k] \in Completion
    BY DEF TurnRecord
  <2>4. c \in Seq(Completion \ {"none"}) /\ Len(c) = Len(t.calls)
    <3>1. \A k \in 1..Len(t.calls) :
              (IF t.calls[k] = "none" THEN "indeterminate" ELSE t.calls[k])
                 \in Completion \ {"none"}
      BY <2>3 DEF Completion
    <3>2. QED
      BY <2>3, <3>1
  <2>5. \A k \in 1..Len(t.calls) :
            c[k] = IF t.calls[k] = "none" THEN "indeterminate" ELSE t.calls[k]
    BY <2>3
  <2>6. c \in Seq(Completion)
    BY <2>4
  <2> HIDE DEF s, re, c
  <2>7. /\ Resolved(t) \in TurnRecord /\ Resolved(t).owner = t.owner
        /\ Resolved(t).status = s /\ Resolved(t).reply = re /\ Resolved(t).calls = c
    BY <2>1, <2>2, <2>6 DEF TurnRecord
  <2>8. QED
    BY <2>2, <2>4, <2>5, <2>7 DEF s
<1>3. turns' = [i \in 1..Len(turns) |-> Resolved(turns[i])]
  BY <1>1
<1>4. \A i \in 1..Len(turns) : turns[i] \in TurnRecord /\ Resolved(turns[i]) \in TurnRecord
  BY <1>2
<1>5. turns' \in Seq(TurnRecord) /\ Len(turns') = Len(turns)
  BY <1>1, <1>3, <1>4
<1>6. \A i \in 1..Len(turns) : turns'[i] = Resolved(turns[i])
  BY <1>3
<1>7. QED
  BY <1>2, <1>4, <1>5, <1>6 DEF AllResolved

\* It changes no record that another invocation relies on.
LEMMA ResolvedEvolves ==
    ASSUME IInv, NEW p \in Owner, AllResolved, UNCHANGED <<sent, executed>>,
           \A q \in Owner \ {p} : proc'[q] = proc[q], NoNewPending(p)
    PROVE  Evolves(p) /\ Recording /\ NewlyAttested
<1>1. TypeOK /\ Recorder /\ Len(turns) \in Nat /\ turns \in Seq(TurnRecord)
  BY Facts
<1>2. Len(turns') = Len(turns) /\ Len(turns) <= Len(turns')
  BY <1>1 DEF AllResolved
<1>3. Grow(p, turns, turns')
  BY <1>2 DEF AllResolved, Grow, Settled
<1>4. Evolves(p)
  BY <1>3 DEF Evolves, SentBy, RanBy
<1>5. ASSUME NEW i \in 1..Len(turns') PROVE WellFormed(turns'[i])
  <2> DEFINE t == turns[i]
             n == turns'[i]
  <2>1. WellFormed(t) /\ i \in 1..Len(turns) /\ t.calls \in Seq(Completion)
    BY <1>1, <1>2, TurnType DEF Recorder
  <2>2. /\ n.status = IF t.status \in {"intent", "pending"} THEN "indeterminate" ELSE t.status
        /\ t.status \notin {"intent", "pending"} => n.reply = t.reply
        /\ n.calls \in Seq(Completion \ {"none"}) /\ Len(n.calls) = Len(t.calls)
    BY <2>1 DEF AllResolved
  <2> HIDE DEF n, t
  <2>3. n.calls = <<>> <=> t.calls = <<>>
    BY <2>1, <2>2
  <2>4. WellFormed(n)
    BY <2>1, <2>2, <2>3 DEF WellFormed
  <2>5. QED
    BY <2>4 DEF n
<1>6. Recording
  <2>1. \A i \in 1..Len(turns) : HasCalls(turns'[i]) => HasCalls(turns[i])
    BY DEF AllResolved, HasCalls
  <2>2. QED
    BY <1>1, <1>2, <1>5, <2>1 DEF Recording, Recorder
<1>7. NewlyAttested
  <2>1. ASSUME NEW i \in 1..Len(turns'), NEW k \in 1..Len(turns'[i].calls)
        PROVE  \/ /\ i \in 1..Len(turns) /\ k \in 1..Len(turns[i].calls)
                  /\ turns'[i].calls[k] = turns[i].calls[k]
               \/ turns'[i].calls[k] = "indeterminate"
    BY <1>2 DEF AllResolved
  <2>2. QED
    BY <2>1 DEF NewlyAttested
<1>8. QED
  BY <1>4, <1>6, <1>7

LEMMA RecoverIndeterminateKeeps ==
    ASSUME IInv, NEW p \in Owner, RecoverIndeterminate(p)
    PROVE  IInv'
<1>1. /\ TypeOK /\ Recorder /\ proc \in [Owner -> Process] /\ turns \in Seq(TurnRecord)
      /\ Len(turns) \in Nat /\ proc[p].turn \in 0..Len(turns)
      /\ Truthful(proc[p].rounds, turns, executed, proc) /\ proc[p].rounds \in Seq(Round)
  BY Facts, ProcType
<1>2. /\ Live(p) /\ Goto(p, "dead") /\ UNCHANGED <<branch, sent, executed>>
      /\ turns' = [i \in DOMAIN turns |-> Resolved(turns[i])]
  BY DEF RecoverIndeterminate
<1>3. ProcBecomes(p, "dead", proc[p].rounds, proc[p].turn, proc[p].reply, proc[p].count,
                  proc[p].done, proc[p].forced)
  BY <1>1, <1>2, PcOnly DEF Goto, Pc
<1>4. proc'[p].pc \notin InTurn /\ proc'[p].pc = "dead"
  BY <1>3 DEF ProcBecomes, InTurn, Asking, Tooling
<1>5. Seated(p)' /\ Running(p)' /\ ~MayRun(proc'[p])
  BY <1>4, OutOfTurn
<1>6. NoNewPending(p)
  BY <1>5 DEF NoNewPending, Pending
<1>7. AllResolved
  BY <1>1, <1>2, ResolvedTurns
<1>8. /\ turns' \in Seq(TurnRecord) /\ Len(turns') = Len(turns)
      /\ Evolves(p) /\ Recording /\ NewlyAttested
  BY <1>2, <1>3, <1>6, <1>7, ResolvedEvolves DEF ProcBecomes, AllResolved
<1>9. TypeOK'
  BY <1>1, <1>2, <1>3, <1>8, TurnTypes DEF TypeOK, ProcBecomes
<1>10. Truthful(proc'[p].rounds, turns', executed', proc')
  BY <1>1, <1>3, <1>8, <1>9, TruthFrame DEF ProcBecomes
<1>11. Holder(p)'
  BY <1>3 DEF ProcBecomes, Holder, Working
<1>12. QED
  BY <1>2, <1>5, <1>8, <1>9, <1>10, <1>11, Stored DEF Own

\* A set of numbers has a least one.
LEMMA LeastNumber ==
    ASSUME NEW T, T \subseteq Nat, T # {}
    PROVE  \E x \in T : \A y \in T : x <= y
<1> DEFINE R == OpToRel(<, Nat)
<1>1. IsWellFoundedOn(R, Nat)
  BY NatLessThanWellFounded, Zenon
<1>2. \A x, y \in Nat : (<<x, y>> \in R) <=> x < y
  BY DEF OpToRel
<1> HIDE DEF R
<1>3. PICK x \in T : \A y \in T : ~ (<<y, x>> \in R)
  BY <1>1, WFMin
<1>4. ASSUME NEW y \in T PROVE x <= y
  <2>1. x \in Nat /\ y \in Nat /\ ~ (<<y, x>> \in R)
    BY <1>3
  <2>2. ~ (y < x)
    BY <1>2, <2>1
  <2>3. QED
    BY <2>1, <2>2
<1>5. QED
  BY <1>4

\* a lists M numbers in increasing order.
Ascends(a, M) ==
    /\ M \in Nat /\ \A m \in 1..M : a[m] \in Nat
    /\ \A m, j \in 1..M : m < j => a[m] < a[j]

\* Every number of a occurs in b, and every number of b below one of a occurs in a.
Fills(a, M, b, N) ==
    /\ \A m \in 1..M : \E n \in 1..N : b[n] = a[m]
    /\ \A m \in 1..M, n \in 1..N : b[n] < a[m] => \E j \in 1..M : a[j] = b[n]

\* There is one way to list numbers in increasing order: then a is a prefix of b.
LEMMA OneOrder ==
    ASSUME NEW M, NEW N, NEW a, NEW b, Ascends(a, M), Ascends(b, N), Fills(a, M, b, N)
    PROVE  M <= N /\ \A m \in 1..M : a[m] = b[m]
<1>0. /\ M \in Nat /\ N \in Nat
      /\ \A m \in 1..M : a[m] \in Nat
      /\ \A n \in 1..N : b[n] \in Nat
      /\ \A m, j \in 1..M : m < j => a[m] < a[j]
      /\ \A n, j \in 1..N : n < j => b[n] < b[j]
      /\ \A m \in 1..M : \E n \in 1..N : b[n] = a[m]
      /\ \A m \in 1..M, n \in 1..N : b[n] < a[m] => \E j \in 1..M : a[j] = b[n]
  BY DEF Ascends, Fills
<1> DEFINE Wrong == {m \in 1..M : ~(m <= N /\ a[m] = b[m])}
<1>1. Wrong = {}
  <2>1. SUFFICES ASSUME Wrong # {} PROVE FALSE
    OBVIOUS
  <2>2. PICK m \in Wrong : \A j \in Wrong : m <= j
    <3>1. Wrong \subseteq Nat
      BY <1>0
    <3> HIDE DEF Wrong
    <3>2. QED
      BY <2>1, <3>1, LeastNumber
  <2>3. m \in 1..M /\ ~(m <= N /\ a[m] = b[m])
    OBVIOUS
  <2>4. \A j \in 1..M : j < m => j <= N /\ a[j] = b[j]
    BY <1>0, <2>2
  <2> HIDE DEF Wrong
  <2>5. PICK n \in 1..N : b[n] = a[m]
    BY <1>0, <2>3
  <2>6. ~(n < m)
    <3>1. SUFFICES ASSUME n < m PROVE FALSE
      OBVIOUS
    <3>2. n \in 1..M /\ a[n] = b[n] /\ a[n] < a[m]
      BY <1>0, <2>3, <2>4, <3>1
    <3>3. a[n] \in Nat /\ a[m] \in Nat
      BY <1>0, <2>3, <3>2
    <3>4. QED
      BY <1>0, <2>5, <3>2, <3>3
  <2>7. m \in 1..N /\ m < n
    <3>1. m \in 1..M /\ n \in 1..N /\ M \in Nat /\ N \in Nat
      BY <1>0, <2>3
    <3>2. n # m
      BY <2>3, <2>5, <3>1
    <3>3. QED
      BY <2>6, <3>1, <3>2
  <2>8. b[m] < b[n] /\ b[m] < a[m]
    BY <1>0, <2>5, <2>7
  <2>9. PICK j \in 1..M : a[j] = b[m]
    BY <1>0, <2>3, <2>7, <2>8
  <2>10. j < m
    <3>1. SUFFICES ASSUME ~(j < m) PROVE FALSE
      OBVIOUS
    <3>2. j = m \/ m < j
      BY <1>0, <2>3, <3>1
    <3>3. a[m] \in Nat /\ a[j] \in Nat /\ a[j] < a[m]
      BY <1>0, <2>3, <2>8, <2>9
    <3>4. QED
      BY <1>0, <2>3, <3>2, <3>3
  <2>11. j \in 1..N /\ b[j] = b[m] /\ b[j] < b[m]
    BY <1>0, <2>3, <2>4, <2>7, <2>9, <2>10
  <2>12. QED
    BY <1>0, <2>7, <2>11
<1>2. \A m \in 1..M : m <= N /\ a[m] = b[m]
  BY <1>1
<1>3. M <= N
  <2>1. CASE M = 0
    BY <1>0, <2>1
  <2>2. CASE M # 0
    BY <1>0, <1>2, <2>2
  <2>3. QED
    BY <2>1, <2>2
<1>4. QED
  BY <1>2, <1>3

\* The rounds that are rebuilt are those of the replies with calls, in order.
LEMMA Rebuilt ==
    ASSUME TypeOK, AllResolved, NEW order \in InOrder(RecoveredTurns)
    PROVE  LET rounds == RecoveredRounds(order) IN
           /\ rounds \in Seq(Round) /\ Len(rounds) \in Nat
           /\ \A n \in 1..Len(rounds) :
                 /\ rounds[n].turn = order[n] /\ order[n] \in 1..Len(turns)
                 /\ HasCalls(turns[order[n]]) /\ rounds[n].calls = turns'[order[n]].calls
           /\ \A m, n \in 1..Len(rounds) : m < n => order[m] < order[n]
           /\ \A i \in 1..Len(turns) :
                 HasCalls(turns[i]) => \E n \in 1..Len(rounds) : order[n] = i
<1> DEFINE rounds == RecoveredRounds(order)
           N == Cardinality(RecoveredTurns)
<1>1. turns \in Seq(TurnRecord) /\ Len(turns) \in Nat /\ DOMAIN turns = 1..Len(turns)
  BY DEF TypeOK
<1>2. \A i : i \in RecoveredTurns <=> i \in 1..Len(turns) /\ HasCalls(turns[i])
  BY <1>1 DEF RecoveredTurns, Admitted, HasCalls
<1>3. N \in Nat
  <2>1. 1 \in Int /\ Len(turns) \in Int
    BY <1>1
  <2>2. IsFiniteSet(1..Len(turns))
    BY <2>1, FS_Interval
  <2>3. RecoveredTurns \subseteq 1..Len(turns)
    BY <1>2
  <2>4. QED
    BY <2>2, <2>3, FS_Subset, FS_CardinalityType
<1> HIDE DEF N
<1>4. /\ order \in [1..N -> RecoveredTurns] /\ DOMAIN order = 1..N
      /\ \A m, n \in 1..N : m < n => order[m] < order[n]
      /\ \A i \in RecoveredTurns : \E n \in 1..N : order[n] = i
  BY DEF InOrder, N
<1>5. \A n \in 1..N : order[n] \in 1..Len(turns) /\ HasCalls(turns[order[n]])
  BY <1>2, <1>4
<1>6. rounds = [n \in 1..N |-> [turn |-> order[n], calls |-> turns'[order[n]].calls]]
  BY <1>4, <1>5 DEF RecoveredRounds, AllResolved
<1> HIDE DEF rounds
<1>7. ASSUME NEW n \in 1..N
      PROVE  [turn |-> order[n], calls |-> turns'[order[n]].calls] \in Round
  <2> DEFINE calls == turns'[order[n]].calls
  <2>1. calls \in Seq(Completion \ {"none"}) /\ order[n] \in Nat
    BY <1>1, <1>5 DEF AllResolved
  <2> HIDE DEF calls
  <2>2. calls \in Seq(Outcome)
    <3>1. Completion \ {"none"} \subseteq Outcome
      BY DEF Completion, Outcome
    <3>2. \A k \in 1..Len(calls) : calls[k] \in Outcome
      BY <2>1, <3>1
    <3>3. Len(calls) \in Nat /\ calls = [k \in 1..Len(calls) |-> calls[k]]
      BY <2>1
    <3>4. QED
      BY <3>2, <3>3
  <2>3. [turn |-> order[n], calls |-> calls] \in Round
    BY <2>1, <2>2 DEF Round
  <2>4. QED
    BY <2>3 DEF calls
<1>8. rounds \in Seq(Round) /\ Len(rounds) = N
  BY <1>3, <1>6, <1>7
<1>9. \A n \in 1..N : rounds[n].turn = order[n] /\ rounds[n].calls = turns'[order[n]].calls
  BY <1>6
<1>10. QED
  BY <1>2, <1>3, <1>4, <1>5, <1>8, <1>9 DEF rounds

\* Two sequences of one length with the same elements are one sequence.
LEMMA SameSequence ==
    ASSUME NEW S, NEW T, NEW c \in Seq(S), NEW d \in Seq(T), Len(c) = Len(d),
           \A k \in 1..Len(c) : c[k] = d[k]
    PROVE  c = d
<1>1. /\ c = [k \in 1..Len(c) |-> c[k]]
      /\ d = [k \in 1..Len(d) |-> d[k]]
  OBVIOUS
<1>2. QED
  BY <1>1

\* They extend what was checkpointed, if nothing was refused.
LEMMA RebuiltExtends ==
    ASSUME IInv, NEW p \in Owner, Live(p), Refusals = {}, AllResolved,
           NEW order, NEW rounds \in Seq(Round),
           \A n \in 1..Len(rounds) :
              /\ rounds[n].turn = order[n] /\ order[n] \in 1..Len(turns)
              /\ HasCalls(turns[order[n]]) /\ rounds[n].calls = turns'[order[n]].calls,
           \A m, n \in 1..Len(rounds) : m < n => order[m] < order[n],
           \A i \in 1..Len(turns) :
              HasCalls(turns[i]) => \E n \in 1..Len(rounds) : order[n] = i
    PROVE  Extends(rounds)
<1> DEFINE old == branch.rounds
           M == Len(old)
           N == Len(rounds)
           a == [m \in 1..M |-> old[m].turn]
<1>1. TypeOK /\ turns \in Seq(TurnRecord) /\ old \in Seq(Round) /\ Transcript
  BY Facts DEF IInv, TypeOK, BranchRecord
<1>2. /\ M \in Nat /\ N \in Nat /\ Sorted(old, turns) /\ Gapless(old, turns)
      /\ Exact(old, turns)
  BY <1>1 DEF Transcript, Live
<1>3. \A m \in 1..M : \A k \in 1..Len(old[m].calls) : old[m].calls[k] # "refused"
  BY <1>1, RoundType DEF Refusals
<1> HIDE DEF old
<1>4. \A m \in 1..M : a[m] = old[m].turn /\ a[m] \in 1..Len(turns) /\ HasCalls(turns[a[m]])
  BY <1>2 DEF Sorted
<1>5. \A m, j \in 1..M : m < j => a[m] < a[j]
  BY <1>2, <1>4 DEF Sorted
<1>6. \A m \in 1..M, n \in 1..N : order[n] < a[m] => \E j \in 1..M : a[j] = order[n]
  BY <1>2, <1>4 DEF Gapless
<1>7. \A m \in 1..M : \E n \in 1..N : order[n] = a[m]
  BY <1>4
<1> HIDE DEF a
<1>8. /\ \A m \in 1..M : a[m] \in Nat
      /\ \A n \in 1..N : order[n] \in Nat
  <2>1. \A i \in 1..Len(turns) : i \in Nat
    BY <1>1
  <2>2. \A n \in 1..N : order[n] \in 1..Len(turns)
    OBVIOUS
  <2> HIDE DEF M, N
  <2>3. QED
    BY <1>4, <2>1, <2>2
<1>9. M <= N /\ \A m \in 1..M : a[m] = order[m]
  <2>1. \A n, j \in 1..N : n < j => order[n] < order[j]
    OBVIOUS
  <2> HIDE DEF M, N
  <2>2. Ascends(a, M) /\ Ascends(order, N)
    BY <1>2, <1>5, <1>8, <2>1 DEF Ascends
  <2>3. Fills(a, M, order, N)
    BY <1>6, <1>7 DEF Fills
  <2>4. QED
    BY <2>2, <2>3, OneOrder
<1>10. ASSUME NEW m \in 1..M PROVE old[m] = rounds[m]
  <2> DEFINE i == order[m]
             c == old[m].calls
             d == turns'[i].calls
  <2>1. m \in 1..N /\ old[m].turn = i /\ i \in 1..Len(turns)
    BY <1>2, <1>4, <1>9
  <2>2. /\ old[m] \in Round /\ rounds[m] \in Round /\ rounds[m].turn = i /\ rounds[m].calls = d
        /\ c \in Seq(Outcome) /\ \A k \in 1..Len(c) : c[k] \in Outcome
    BY <1>1, <2>1, RoundType
  <2>3. Len(c) = Len(turns[i].calls) /\ Len(d) = Len(turns[i].calls) /\ Len(c) \in Nat
    BY <1>2, <2>1, <2>2 DEF Sorted, AllResolved
  <2>4. ASSUME NEW k \in 1..Len(c) PROVE c[k] = d[k]
    <3>1. c[k] = turns[i].calls[k]
      BY <1>2, <1>3, <2>1 DEF Exact
    <3>2. c[k] # "none"
      BY <2>2 DEF Outcome
    <3>3. d[k] = turns[i].calls[k]
      BY <2>1, <2>3, <3>1, <3>2 DEF AllResolved
    <3>4. QED
      BY <3>1, <3>3
  <2>5. c = d
    <3>1. d \in Seq(Completion \ {"none"})
      BY <2>1 DEF AllResolved
    <3>2. c \in Seq(Outcome) /\ Len(c) = Len(d)
      BY <2>2, <2>3
    <3>3. \A k \in 1..Len(c) : c[k] = d[k]
      BY <2>4
    <3> HIDE DEF c, d
    <3>4. QED
      BY <3>1, <3>2, <3>3, SameSequence
  <2>6. old[m].turn = rounds[m].turn /\ old[m].calls = rounds[m].calls
    BY <2>1, <2>2, <2>5
  <2> DEFINE x == old[m]
             y == rounds[m]
  <2>7. x \in Round /\ y \in Round /\ x.turn = y.turn /\ x.calls = y.calls
    BY <2>2, <2>6
  <2> HIDE DEF x, y
  <2>8. x = y
    BY <2>7 DEF Round
  <2>9. QED
    BY <2>8 DEF x, y
<1>11. QED
  BY <1>9, <1>10 DEF Extends, old

\* recover_provider_turns with every request resolved.
LEMMA RecoverKeeps ==
    ASSUME IInv, NEW p \in Owner, Recover(p)
    PROVE  IInv'
<1>1. /\ TypeOK /\ Recorder /\ proc \in [Owner -> Process] /\ turns \in Seq(TurnRecord)
      /\ Len(turns) \in Nat /\ proc[p].turn \in 0..Len(turns) /\ Running(p)
  BY Facts
<1>2. /\ proc[p].pc = "recover" /\ Live(p) /\ Unresolved = {}
      /\ UNCHANGED <<branch, sent, executed>>
      /\ turns' = [i \in DOMAIN turns |-> Resolved(turns[i])]
  BY DEF Recover
<1>3. AllResolved
  BY <1>1, <1>2, ResolvedTurns
<1>4. PICK order \in InOrder(RecoveredTurns) :
        IF FinalReply = {}
        THEN proc' = [proc EXCEPT ![p].pc = "renew", ![p].rounds = RecoveredRounds(order)]
        ELSE \E i \in FinalReply :
               proc' = [proc EXCEPT ![p].pc = "reply", ![p].rounds = RecoveredRounds(order),
                                    ![p].turn = i, ![p].reply = turns[i].reply]
  BY DEF Recover
<1> DEFINE rounds == RecoveredRounds(order)
<1>5. /\ rounds \in Seq(Round) /\ Len(rounds) \in Nat
      /\ \A n \in 1..Len(rounds) :
            /\ rounds[n].turn = order[n] /\ order[n] \in 1..Len(turns)
            /\ HasCalls(turns[order[n]]) /\ rounds[n].calls = turns'[order[n]].calls
      /\ \A m, n \in 1..Len(rounds) : m < n => order[m] < order[n]
      /\ \A i \in 1..Len(turns) :
            HasCalls(turns[i]) => \E n \in 1..Len(rounds) : order[n] = i
  BY <1>1, <1>3, Rebuilt
<1> HIDE DEF rounds
<1>6. \A i \in 1..Len(turns) :
          /\ Settled(turns[i]) /\ turns'[i].status = turns[i].status
          /\ turns'[i].reply = turns[i].reply /\ turns'[i].owner = turns[i].owner
  <2>1. ASSUME NEW i \in 1..Len(turns)
        PROVE  turns[i].status \in {"admitted", "rejected"}
    BY <1>1, <1>2, TurnType DEF Unresolved, Status
  <2>2. QED
    BY <1>3, <2>1 DEF AllResolved, Settled
<1>7. \/ ProcBecomes(p, "renew", rounds, proc[p].turn, proc[p].reply, proc[p].count,
                     proc[p].done, proc[p].forced)
      \/ \E i \in FinalReply :
            ProcBecomes(p, "reply", rounds, i, turns[i].reply, proc[p].count,
                        proc[p].done, proc[p].forced)
  <2>1. CASE FinalReply = {}
    <3>1. proc' = [proc EXCEPT ![p].pc = "renew", ![p].rounds = rounds]
      BY <1>4, <2>1 DEF rounds
    <3>2. QED
      BY <1>1, <1>5, <3>1, PcRounds DEF Pc
  <2>2. CASE FinalReply # {}
    <3>1. PICK i \in FinalReply :
            proc' = [proc EXCEPT ![p].pc = "reply", ![p].rounds = rounds,
                                 ![p].turn = i, ![p].reply = turns[i].reply]
      BY <1>4, <2>2 DEF rounds
    <3>2. i \in 1..Len(turns)
      BY <1>1 DEF FinalReply, Admitted
    <3>3. i \in Nat /\ turns[i].reply \in Reply
      BY <1>1, <3>2, TurnType
    <3>4. QED
      BY <1>1, <1>5, <3>1, <3>3, PcFinal DEF Pc
  <2>3. QED
    BY <2>1, <2>2
<1>8. /\ proc' \in [Owner -> Process] /\ \A q \in Owner \ {p} : proc'[q] = proc[q]
      /\ proc'[p].pc \in {"renew", "reply"} /\ proc'[p].rounds = rounds
      /\ proc'[p].done = <<>> /\ proc'[p].turn \in 0..Len(turns)
      /\ proc'[p].pc = "reply" =>
            /\ proc'[p].turn \in 1..Len(turns) /\ proc'[p].reply # "calls"
            /\ turns[proc'[p].turn].status = "admitted"
            /\ turns[proc'[p].turn].reply = proc'[p].reply
  <2>1. proc[p].done = <<>>
    BY <1>1, <1>2 DEF Running, Tooling
  <2>2. \A i \in FinalReply : /\ i \in 1..Len(turns) /\ i \in 0..Len(turns)
                              /\ turns[i].status = "admitted" /\ turns[i].reply # "calls"
    BY <1>1 DEF FinalReply, Admitted
  <2>3. CASE ProcBecomes(p, "renew", rounds, proc[p].turn, proc[p].reply, proc[p].count,
                         proc[p].done, proc[p].forced)
    BY <1>1, <2>1, <2>3 DEF ProcBecomes
  <2>4. CASE \E i \in FinalReply :
                ProcBecomes(p, "reply", rounds, i, turns[i].reply, proc[p].count,
                            proc[p].done, proc[p].forced)
    <3>1. PICK i \in FinalReply :
            ProcBecomes(p, "reply", rounds, i, turns[i].reply, proc[p].count,
                        proc[p].done, proc[p].forced)
      BY <2>4
    <3>2. QED
      BY <2>1, <2>2, <3>1 DEF ProcBecomes
  <2>5. QED
    BY <1>7, <2>3, <2>4
<1>9. ~MayRun(proc'[p])
  BY <1>8 DEF MayRun, Tooling
<1>10. NoNewPending(p)
  BY <1>9 DEF NoNewPending, Pending
<1>11. Evolves(p) /\ Recording /\ NewlyAttested
  BY <1>2, <1>3, <1>8, <1>10, ResolvedEvolves
<1>12. turns' \in Seq(TurnRecord) /\ Len(turns') = Len(turns)
  BY <1>3 DEF AllResolved
<1>13. TypeOK'
  BY <1>1, <1>2, <1>8, <1>12, TurnTypes DEF TypeOK
<1>14. Seated(p)'
  <2>1. CASE proc'[p].pc = "renew"
    BY <2>1 DEF Seated, InTurn, Asking, Tooling
  <2>2. CASE proc'[p].pc = "reply"
    <3> DEFINE i == proc'[p].turn
    <3>1. /\ i \in 1..Len(turns') /\ turns'[i].status = "admitted"
          /\ turns'[i].reply = proc'[p].reply
      BY <1>6, <1>8, <1>12, <2>2
    <3>2. SeatedIn(p, proc'[p], turns'[i], sent'[i])
      BY <1>9, <2>2, <3>1 DEF SeatedIn, Asking, Tooling
    <3>3. QED
      BY <3>1, <3>2 DEF Seated
  <2>3. QED
    BY <1>8, <2>1, <2>2
<1>15. Running(p)'
  <2>1. RunningIn(proc'[p], turns'[proc'[p].turn], executed'[proc'[p].turn])
    BY <1>8, <1>9 DEF RunningIn, Tooling
  <2>2. QED
    BY <1>8, <2>1 DEF Running
<1>16. Truthful(rounds, turns', executed', proc')
  <2>1. SUFFICES ASSUME NEW n \in 1..Len(rounds)
                 PROVE  Honest(rounds[n], turns', executed', proc')
    BY DEF Truthful
  <2>2. /\ rounds[n].turn \in 1..Len(turns') /\ rounds[n].calls = turns'[rounds[n].turn].calls
        /\ rounds[n].calls \in Seq(Completion \ {"none"})
    BY <1>3, <1>5, <1>12 DEF AllResolved
  <2>3. /\ Len(rounds[n].calls) \in Nat
        /\ \A k \in 1..Len(rounds[n].calls) : rounds[n].calls[k] # "refused"
    BY <2>2 DEF Completion
  <2>4. QED
    BY <2>2, <2>3 DEF Honest
<1>17. Holder(p)'
  <2>1. \A i \in 1..Len(turns') :
            Settled(turns'[i]) /\ (HasCalls(turns'[i]) => HasCalls(turns[i]))
    BY <1>6, <1>12 DEF Settled, HasCalls
  <2>2. ASSUME NEW i \in 1..Len(turns'), HasCalls(turns'[i])
        PROVE  Covered(i, rounds, turns')
    <3>1. PICK n \in 1..Len(rounds) : order[n] = i
      BY <1>5, <1>12, <2>1, <2>2
    <3>2. QED
      BY <1>5, <3>1 DEF Covered
  <2>3. Sorted(rounds, turns')
    <3>1. \A n \in 1..Len(rounds) :
            /\ rounds[n].turn \in 1..Len(turns') /\ HasCalls(turns'[rounds[n].turn])
            /\ Len(rounds[n].calls) = Len(turns'[rounds[n].turn].calls)
      BY <1>5, <1>6, <1>12 DEF HasCalls
    <3>2. \A m, n \in 1..Len(rounds) : m < n => rounds[m].turn < rounds[n].turn
      BY <1>5
    <3>3. QED
      BY <3>1, <3>2 DEF Sorted
  <2>4. Exact(rounds, turns')
    BY <1>5 DEF Exact
  <2>5. Holds(proc'[p], turns')
    BY <1>8, <1>9, <2>1, <2>2, <2>3, <2>4 DEF Holds, Asking, Tooling
  <2>6. Refusals = {} => Extends(rounds)
    BY <1>2, <1>3, <1>5, RebuiltExtends
  <2>7. Refusals' = Refusals /\ (Refusals = {} => Extends(proc[p].rounds)')
    BY <1>2, <1>8, <2>6 DEF Refusals, Extends
  <2>8. QED
    BY <1>8, <2>5, <2>7 DEF Holder
<1>18. QED
  BY <1>2, <1>8, <1>11, <1>13, <1>14, <1>15, <1>16, <1>17, Stored DEF Own

----------------------------------------------------------------------------
(* The theorems.                                                           *)

LEMMA InitInvariant == Init => IInv
<1> SUFFICES ASSUME Init PROVE IInv
  OBVIOUS
<1>1. /\ branch \in BranchRecord /\ branch.life = "none" /\ branch.rounds = <<>>
      /\ turns = <<>> /\ turns \in Seq(TurnRecord) /\ Len(turns) = 0
  BY DEF Init, BranchRecord
<1>2. Start("idle") \in Process /\ Start("idle").turn = 0
  BY DEF Start, Process, Pc, Reply
<1>3. \A p \in Owner : /\ proc[p] = Start("idle") /\ proc[p].pc = "idle"
                       /\ proc[p].rounds = <<>> /\ proc[p].done = <<>> /\ proc[p].turn = 0
  BY DEF Init, Start
<1>4. proc \in [Owner -> Process]
  BY <1>2 DEF Init
<1>5. /\ sent \in [1..MaxTurn -> Nat] /\ \A i \in 1..MaxTurn : sent[i] = 0
      /\ executed \in [1..MaxTurn -> [1..MaxCall -> Nat]]
      /\ \A i \in 1..MaxTurn, k \in 1..MaxCall : executed[i][k] = 0
  BY DEF Init
<1>6. TypeOK
  BY <1>1, <1>3, <1>4, <1>5 DEF TypeOK
<1>7. Recorder
  BY <1>1, <1>5, AgentAssumption DEF Recorder
<1>8. NoSendAfterUnresolved /\ ExecutedOnce
  BY <1>1, <1>5 DEF NoSendAfterUnresolved, ExecutedOnce
<1>9. \A p \in Owner : Seated(p) /\ Running(p) /\ Truthful(proc[p].rounds, turns, executed, proc)
  BY <1>3 DEF Seated, Running, InTurn, Asking, Tooling, Truthful
<1>10. \A p \in Owner : ~Live(p)
  BY <1>1 DEF Live
<1>11. Transcript
  BY <1>1 DEF Transcript, Truthful, Sorted, Gapless, Exact
<1>12. QED
  BY <1>6, <1>7, <1>8, <1>9, <1>10, <1>11 DEF IInv

LEMMA StepInvariant ==
    ASSUME IInv, NEW p \in Owner, Step(p)
    PROVE  IInv'
<1>1. CASE InvalidReply(p)
  BY <1>1, InvalidReplyKeeps DEF InvalidReply, InTurn, Asking
<1>2. CASE \/ Reserve(p) \/ Reclaim(p) \/ Recover(p) \/ RecoverIndeterminate(p)
           \/ Renew(p) \/ Intent(p) \/ AdmitSend(p) \/ Send(p)
           \/ NotSent(p) \/ Interrupted(p) \/ Truncated(p) \/ Replied(p)
  BY <1>2, ReserveKeeps, RecoverKeeps, RecoverIndeterminateKeeps, RenewKeeps, IntentKeeps,
     AdmitSendKeeps, SendKeeps, InterruptedKeeps, RepliedKeeps
<1>3. CASE \/ Stage(p) \/ Admit(p) \/ Settle(p) \/ TakeReply(p)
           \/ BeginTool(p) \/ Execute(p) \/ Fence(p) \/ CompleteTool(p) \/ CloseRound(p)
           \/ RefuseTool(p) \/ Checkpoint(p)
  BY <1>3, StageKeeps, AdmitKeeps, SettleKeeps, TakeReplyKeeps, BeginToolKeeps, ExecuteKeeps,
     FenceKeeps, CompleteToolKeeps, CloseRoundKeeps, RefuseToolKeeps, CheckpointKeeps
<1>4. CASE Finalize(p) \/ GiveUp(p) \/ Fail(p) \/ Refused(p) \/ Crash(p)
  BY <1>4, FinalizeKeeps, GiveUpKeeps, CrashKeeps
<1>5. QED
  BY <1>1, <1>2, <1>3, <1>4 DEF Step

LEMMA StutterInvariant ==
    ASSUME IInv, UNCHANGED vars
    PROVE  IInv'
<1>1. /\ branch' = branch /\ turns' = turns /\ proc' = proc
      /\ sent' = sent /\ executed' = executed
  BY DEF vars
<1>2. TypeOK' /\ Recorder' /\ NoSendAfterUnresolved' /\ ExecutedOnce'
  BY <1>1 DEF IInv, TypeOK, Recorder, NoSendAfterUnresolved, ExecutedOnce, Admitted
<1>3. \A q \in Owner : /\ Seated(q)' /\ Running(q)'
                       /\ Truthful(proc'[q].rounds, turns', executed', proc')
  BY <1>1 DEF IInv, Seated, Running
<1>4. \A q \in Owner : Live(q)' => Holder(q)'
  <2>1. ASSUME NEW q \in Owner, Live(q)' PROVE Holder(q)'
    <3>1. Live(q)
      BY <1>1, <2>1 DEF Live
    <3>2. Holder(q)
      BY <3>1 DEF IInv
    <3>3. QED
      BY <1>1, <3>2, HolderFrame
  <2>2. QED
    BY <2>1
<1>5. Transcript'
  BY <1>1 DEF IInv, Transcript
<1>6. QED
  BY <1>2, <1>3, <1>4, <1>5 DEF IInv

\* The invariant holds in every reachable state, whatever owners there are and whatever
\* the bounds: the store operations, sends and tool runs of all owners in any order.
THEOREM Invariant == Spec => []IInv
<1>1. IInv /\ [Next]_vars => IInv'
  BY LeaseExpiresKeeps, StepInvariant, StutterInvariant DEF Next
<1>2. QED
  BY <1>1, InitInvariant, PTL DEF Spec

\* Every invocation, record and counter of the agent loop keeps its type; an invocation is
\* never in a provider turn that was not recorded.
THEOREM TypeCorrect == Spec => []TypeOK
<1>1. IInv => TypeOK
  BY DEF IInv
<1>2. QED
  BY <1>1, Invariant, PTL

\* provider_intent, admit_send and recover_provider_turns together: no request goes out
\* while an earlier one may have reached the provider unanswered, and none goes out twice.
THEOREM RequestsAreResolved == Spec => []NoSendAfterUnresolved
<1>1. IInv => NoSendAfterUnresolved
  BY DEF IInv
<1>2. QED
  BY <1>1, Invariant, PTL

\* with_tool_lease and restore_responses together: a tool call runs at most once over all
\* owners, and only after the reply that asks for it was admitted.
THEOREM CallsRunOnce == Spec => []ExecutedOnce
<1>1. IInv => ExecutedOnce
  BY DEF IInv
<1>2. QED
  BY <1>1, Invariant, PTL

\* An owner that recovered or worked on can commit: its transcript extends, round for round,
\* what earlier owners checkpointed, as long as they checkpointed no refused call.
THEOREM WorkIsCommittable == Spec => []OwnerCanCommit
<1>1. IInv => OwnerCanCommit
  BY DEF IInv, OwnerCanCommit, Holder
<1>2. QED
  BY <1>1, Invariant, PTL

\* What the branch records for a call agrees with the provider records and with what ran.
LEMMA RecordedFacts ==
    ASSUME IInv, NEW i \in 1..MaxTurn, NEW k \in 1..MaxCall, NEW v \in Recorded(i, k)
    PROVE  /\ v \in Outcome
           /\ v = "refused" => executed[i][k] = 0
           /\ v = "refusal" => executed[i][k] = 0
           /\ v = "done" => executed[i][k] = 1
           /\ (branch.life # "failed" /\ v # "refused") => v = turns[i].calls[k]
<1>1. /\ branch.rounds \in Seq(Round) /\ Truthful(branch.rounds, turns, executed, proc)
      /\ Recorder /\ turns \in Seq(TurnRecord) /\ MaxCall \in Nat
      /\ branch.life # "failed" => Exact(branch.rounds, turns)
  BY AgentAssumption DEF IInv, TypeOK, BranchRecord, Transcript
<1>2. PICK n \in 1..Len(branch.rounds) :
        /\ branch.rounds[n].turn = i /\ k <= Len(branch.rounds[n].calls)
        /\ v = branch.rounds[n].calls[k]
  BY <1>1 DEF Recorded
<1> DEFINE r == branch.rounds[n]
<1>3. /\ Honest(r, turns, executed, proc) /\ Len(r.calls) \in Nat
      /\ \A j \in 1..Len(r.calls) : r.calls[j] \in Outcome
  BY <1>1, RoundType DEF Truthful
<1>4. r.turn = i /\ v = r.calls[k] /\ k \in 1..Len(r.calls)
  BY <1>1, <1>2, <1>3
<1> HIDE DEF r
<1>5. i \in 1..Len(turns) /\ Len(r.calls) <= Len(turns[i].calls)
  BY <1>3, <1>4 DEF Honest
<1>6. Len(turns[i].calls) \in Nat /\ k \in 1..Len(turns[i].calls)
  BY <1>1, <1>3, <1>4, <1>5, TurnType
<1>7. /\ turns[i].calls[k] = "done" => executed[i][k] = 1
      /\ turns[i].calls[k] = "refusal" => executed[i][k] = 0
  BY <1>1, <1>5, <1>6 DEF Recorder, Attested
<1>8. /\ v = "refused" => executed[i][k] = 0
      /\ v # "refused" => v = turns[i].calls[k] \/ (v = "done" /\ executed[i][k] = 1)
  BY <1>3, <1>4 DEF Honest
<1>9. (branch.life # "failed" /\ v # "refused") => v = turns[i].calls[k]
  BY <1>1, <1>4 DEF Exact, r
<1>10. QED
  BY <1>3, <1>4, <1>7, <1>8, <1>9

\* checkpoint, complete_attempt and dead_coded record what happened: what the transcript of
\* the branch calls done ran, what it calls refused never runs, and a completed branch
\* lacks no call that ran, by whichever owner.
THEOREM TranscriptIsHonest == Spec => []TranscriptHonest
<1>1. ASSUME IInv PROVE TranscriptHonest
  <2>1. SUFFICES ASSUME NEW i \in 1..MaxTurn, NEW k \in 1..MaxCall
                 PROVE  /\ "done" \in Recorded(i, k) => executed[i][k] = 1
                        /\ Recorded(i, k) \cap {"refused", "refusal"} # {} => executed[i][k] = 0
                        /\ (branch.life = "completed" /\ executed[i][k] > 0)
                              => Recorded(i, k) \in {{"done"}, {"indeterminate"}}
    BY DEF TranscriptHonest
  <2>2. \A v \in Recorded(i, k) :
           /\ v \in Outcome
           /\ v = "refused" => executed[i][k] = 0
           /\ v = "refusal" => executed[i][k] = 0
           /\ v = "done" => executed[i][k] = 1
           /\ (branch.life # "failed" /\ v # "refused") => v = turns[i].calls[k]
    BY <1>1, RecordedFacts
  <2>3. "done" \in Recorded(i, k) => executed[i][k] = 1
    BY <2>2
  <2>4. Recorded(i, k) \cap {"refused", "refusal"} # {} => executed[i][k] = 0
    BY <2>2
  <2>5. ASSUME branch.life = "completed", executed[i][k] > 0
        PROVE  Recorded(i, k) \in {{"done"}, {"indeterminate"}}
    <3>1. \A v \in Recorded(i, k) : v \in {"done", "indeterminate"} /\ v = turns[i].calls[k]
      BY <2>2, <2>5 DEF Outcome
    <3>2. /\ branch.rounds \in Seq(Round) /\ turns \in Seq(TurnRecord) /\ Recorder /\ Transcript
      BY <1>1 DEF IInv, TypeOK, BranchRecord
    <3>3. i \in 1..Len(turns) /\ turns[i].status = "admitted" /\ k <= Len(turns[i].calls)
      BY <1>1, <2>5, <3>2 DEF IInv, ExecutedOnce, Admitted
    <3>4. HasCalls(turns[i])
      <4>1. turns[i].calls # <<>>
        BY <3>3
      <4>2. QED
        BY <3>2, <3>3, <4>1 DEF Recorder, WellFormed, HasCalls
    <3>5. PICK n \in 1..Len(branch.rounds) :
            branch.rounds[n].turn = i /\ Len(branch.rounds[n].calls) = Len(turns[i].calls)
      BY <2>5, <3>2, <3>3, <3>4 DEF Transcript, Covered
    <3>6. branch.rounds[n].calls[k] \in Recorded(i, k)
      BY <3>2, <3>3, <3>5 DEF Recorded
    <3>7. QED
      BY <3>1, <3>6
  <2>6. QED
    BY <2>3, <2>4, <2>5
<1>2. QED
  BY <1>1, Invariant, PTL

\* live_branch fences every write: once the branch is completed or failed, no step of any
\* owner, late replies and late tool results included, changes it or its provider records.
THEOREM OutcomesAreFinal == Spec => OutcomeFinal
<1>1. ASSUME branch.life \in {"completed", "failed"}, [Next]_vars
      PROVE  UNCHANGED <<branch, turns>>
  <2>1. \A p \in Owner : ~Live(p)
    BY <1>1 DEF Live
  <2>2. CASE UNCHANGED vars
    BY <2>2 DEF vars
  <2>3. CASE LeaseExpires
    BY <1>1, <2>3 DEF LeaseExpires
  <2>4. ASSUME NEW p \in Owner, Step(p) PROVE UNCHANGED <<branch, turns>>
    <3>1. ~Live(p)
      BY <2>1
    <3>2. CASE \/ Reserve(p) \/ Reclaim(p) \/ Recover(p) \/ RecoverIndeterminate(p)
               \/ Renew(p) \/ Intent(p) \/ AdmitSend(p) \/ Send(p)
      BY <1>1, <3>1, <3>2
      DEF Reserve, Reclaim, Recover, RecoverIndeterminate, Renew, Intent, AdmitSend, Send
    <3>3. CASE \/ NotSent(p) \/ Interrupted(p) \/ Truncated(p) \/ InvalidReply(p) \/ Replied(p)
               \/ Stage(p) \/ Admit(p) \/ Settle(p) \/ TakeReply(p)
      BY <3>1, <3>3
      DEF NotSent, Interrupted, Truncated, InvalidReply, Replied, Stage, Admit, Settle, TakeReply
    <3>4. CASE \/ BeginTool(p) \/ Execute(p) \/ Fence(p) \/ CompleteTool(p) \/ CloseRound(p)
               \/ RefuseTool(p) \/ Checkpoint(p)
      BY <3>1, <3>4
      DEF BeginTool, Execute, Fence, CompleteTool, CompleteCall, CloseRound, RefuseTool, Checkpoint
    <3>5. CASE Finalize(p) \/ GiveUp(p) \/ Fail(p) \/ Refused(p) \/ Crash(p)
      BY <3>1, <3>5 DEF Finalize, GiveUp, Fail, Refused, Crash
    <3>6. QED
      BY <2>4, <3>2, <3>3, <3>4, <3>5 DEF Step
  <2>5. QED
    BY <1>1, <2>2, <2>3, <2>4 DEF Next
<1>2. QED
  BY <1>1, PTL DEF Spec, OutcomeFinal
=============================================================================
