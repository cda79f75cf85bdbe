-------------------------- MODULE ContextAdmission --------------------------
(***************************************************************************)
(* The operations that change the durable context of a session, over the   *)
(* publication of ContextPublish (src/src/session/context_persist.rs,      *)
(* session.rs, session/context_recover.rs, context_policy/runtime.rs,      *)
(* context_ingress/filter.rs).                                             *)
(*                                                                         *)
(* A process changes its ContextState in memory and then publishes all of  *)
(* it: a raise of the digest floor, the admission of a bulk tool result, a *)
(* checkpoint or failure of the branch, and the finalization, which        *)
(* publishes twice before it appends BranchCompleted.  Any of the          *)
(* publications may fail and leave the change in memory, and the process   *)
(* may end at any step.  Beside the units the state holds the next number  *)
(* of the kernel chain, the digest floor, the region admitted by this      *)
(* process, and the terminal outcome of the policy.                        *)
(***************************************************************************)
EXTENDS ContextPublish

CONSTANTS
    MaxChain,   \* bound on the numbers of the kernel chain
    MaxFloor,   \* bound on the raises of the floor
    Room        \* the region at which a wrap-up no longer fits

ASSUME AdmissionAssumption == MaxChain \in Nat /\ MaxFloor \in Nat /\ Room \in Nat

VARIABLES
    context,    \* the ContextState of every process, without its units
    op,         \* the operation that a process publishes for
    kept,       \* what each directory holds beside the units
    fallback,   \* context-quiesce.json: the outcome it records
    reached,    \* the chain and the floor of publications that returned success
    sealed,     \* one of them recorded a quiesced policy, and no bulk result was
                \* admitted since
    completed   \* the units of the context when a branch was completed

facets == <<context, op, kept, fallback, reached, sealed, completed>>
allVars == <<vars, facets>>

Outcome == {"none", "wrap_up", "quiesce_unwritable"}

\* write_failed is the policy's terminal_write_failed: wrap_up leaves the outcome alone.
Context == [chain : 0..MaxChain, floor : 0..MaxFloor, region : 0..MaxChain,
            outcome : Outcome, write_failed : BOOLEAN]

Written == [chain : 0..MaxChain, floor : 0..MaxFloor, outcome : Outcome]

TypeOKAdmission ==
    /\ TypeOK
    /\ context \in [Proc -> Context]
    /\ op \in [Proc -> {"none", "floor", "ingest", "exchange", "finalize", "wrap_up"}]
    /\ kept \in [Dir -> Written]
    /\ fallback \in Outcome
    /\ reached \in [chain : 0..MaxChain, floor : 0..MaxFloor]
    /\ sealed \in BOOLEAN
    /\ completed \subseteq Unit

\* new_context_state
NewContext == [chain |-> 0, floor |-> 0, region |-> 0, outcome |-> "none",
               write_failed |-> FALSE]

Blank == [chain |-> 0, floor |-> 0, outcome |-> "none"]

InitAdmission ==
    /\ Init
    /\ context = [p \in Proc |-> NewContext]
    /\ op = [p \in Proc |-> "none"]
    /\ kept = [d \in Dir |-> Blank]
    /\ fallback = "none"
    /\ reached = [chain |-> 0, floor |-> 0]
    /\ sealed = FALSE
    /\ completed = {}

----------------------------------------------------------------------------
(* The artifacts.                                                          *)

\* What a step on the directories does to them: the kernel chain is written with the
\* spine, the filter rules and the policy's outcome are in the manifest.
Files(p) ==
    kept' = [d \in Dir |->
        LET old == dirs[d]
            new == dirs'[d]
        IN [chain |-> IF new.spine = None THEN 0
                      ELSE IF new.spine = old.spine THEN kept[d].chain ELSE context[p].chain,
            floor |-> IF new.manifest = None THEN 0
                      ELSE IF new.manifest = old.manifest THEN kept[d].floor
                      ELSE context[p].floor,
            outcome |-> IF new.manifest = None THEN "none"
                        ELSE IF new.manifest = old.manifest THEN kept[d].outcome
                        ELSE context[p].outcome]]

----------------------------------------------------------------------------
(* recover_context_state                                                   *)

\* Mutant of Restored: a restored refusal may be superseded by the next wrap-up.
RestoredOpen(chain, floor, outcome) ==
    [NewContext EXCEPT !.chain = chain, !.floor = floor, !.outcome = outcome]

\* restore_histories and restore_terminal_outcome: no wrap-up supersedes a recorded
\* refusal.  The region admitted before the restart is not restored.
Restored(chain, floor, outcome) ==
    [NewContext EXCEPT !.chain = chain, !.floor = floor, !.outcome = outcome,
                       !.write_failed = (outcome = "quiesce_unwritable")]

\* Mutant of Loaded: the kernel chain is not read back and starts over.
LoadedGenesis(p, name) ==
    LET d == kept[slot[name]] IN
    context' = [context EXCEPT ![p] = Restored(0, d.floor, d.outcome)]

Loaded(p, name) ==
    LET d == kept[slot[name]] IN
    context' = [context EXCEPT ![p] = Restored(d.chain, d.floor, d.outcome)]

\* Without a generation only the marker beside the session is read
\* (recover_quiesce_marker).
Recover(p) ==
    /\ \/ RecoverCommitted(p) /\ Loaded(p, "committed")
       \/ RecoverPrevious(p) /\ Loaded(p, "prev")
       \/ RecoverFresh(p) /\ context' = [context EXCEPT ![p] = Restored(0, 0, fallback)]
    /\ Files(p)
    /\ UNCHANGED <<op, fallback, reached, sealed, completed>>

----------------------------------------------------------------------------
(* The operations.  Each holds the context's mutex to the end of its       *)
(* publication.                                                            *)

Idle(p) == proc[p].pc = "up" /\ op[p] = "none"

\* The state c of process p is published for operation o.
PublishFor(p, o, c) ==
    /\ Persist(p)
    /\ context' = [context EXCEPT ![p] = c]
    /\ op' = [op EXCEPT ![p] = o]
    /\ sealed' = (sealed /\ c.chain = context[p].chain)
    /\ UNCHANGED <<kept, fallback, reached, completed>>

\* ingest_bulk of one result: sequence_admission moves the chain and the region, and
\* complete_bulk clears the terminal outcome, but not terminal_write_failed.
Admitted(c) == [c EXCEPT !.chain = @ + 1, !.region = @ + 1, !.outcome = "none"]

\* set_digest_size_floor: the floor is raised, or is the active one; it is published
\* either way.  A lower floor is refused before anything changes.
SetDigestSizeFloor(p) ==
    /\ Idle(p)
    /\ \E raise \in {0, 1} :
          /\ context[p].floor + raise <= MaxFloor
          /\ PublishFor(p, "floor", [context[p] EXCEPT !.floor = @ + raise])

\* compact_tool_result of a bulk result.
CompactToolResult(p) ==
    /\ Idle(p) /\ context[p].chain < MaxChain
    /\ PublishFor(p, "ingest", Admitted(context[p]))

\* ingest_bulk fails, before or after the executor committed: abort_bulk enters the
\* terminal outcome, and nothing is published.
IngestFails(p) ==
    /\ Idle(p) /\ context[p].chain < MaxChain
    /\ \E c \in {context[p], Admitted(context[p])} :
          context' = [context EXCEPT ![p] =
              [c EXCEPT !.outcome = "quiesce_unwritable", !.write_failed = TRUE]]
    /\ UNCHANGED vars /\ UNCHANGED <<op, kept, fallback, reached, sealed, completed>>

\* context_exchange, for a checkpoint or a failure of the branch, or the first half of a
\* finalization; it admits a bulk result that was not compacted before.
ContextExchange(p) ==
    /\ Idle(p)
    /\ \E o \in {"exchange", "finalize"}, bulk \in BOOLEAN :
          /\ bulk => context[p].chain < MaxChain
          /\ PublishFor(p, o, IF bulk THEN Admitted(context[p]) ELSE context[p])

\* wrap_up: after a failed write it changes nothing; otherwise the room left decides.
WrappedUp(c) ==
    IF c.write_failed THEN c
    ELSE [c EXCEPT !.outcome = IF c.region < Room THEN "wrap_up" ELSE "quiesce_unwritable"]

\* finalize_context, after the exchange of the finalization.
FinalizeContext(p) ==
    /\ proc[p].pc = "up" /\ op[p] = "finalize"
    /\ PublishFor(p, "wrap_up", WrappedUp(context[p]))

\* Mutant of Complete: the branch is completed when the exchange has been published.
CompleteEarly(p) ==
    /\ proc[p].pc \notin {"down", "up"} /\ op[p] = "wrap_up"
    /\ context[p].outcome # "quiesce_unwritable"
    /\ completed' = completed \cup proc[p].units
    /\ op' = [op EXCEPT ![p] = "none"]
    /\ UNCHANGED vars /\ UNCHANGED <<context, kept, fallback, reached, sealed>>

\* finalize appends BranchCompleted once that publication succeeded.
Complete(p) ==
    /\ proc[p].pc = "up" /\ op[p] = "wrap_up"
    /\ context[p].outcome # "quiesce_unwritable"
    /\ completed' = completed \cup proc[p].units
    /\ op' = [op EXCEPT ![p] = "none"]
    /\ UNCHANGED vars /\ UNCHANGED <<context, kept, fallback, reached, sealed>>

\* A quiesced policy refuses the completion, though the publication succeeded, and the
\* refusal is recorded.
RefuseCompletion(p) ==
    /\ proc[p].pc = "up" /\ op[p] = "wrap_up"
    /\ context[p].outcome = "quiesce_unwritable"
    /\ Goto(p, "quiesce")
    /\ UNCHANGED <<dirs, slot, pubs, durable, forgot, crashes>> /\ UNCHANGED facets

----------------------------------------------------------------------------
(* The steps of a publication, and its ends.                               *)

PublishStep(p) ==
    /\ \/ ClearStage(p) \/ OpenStage(p) \/ WriteSpine(p) \/ WriteVault(p) \/ WriteManifest(p)
       \/ DropPrevious(p) \/ SetAside(p) \/ Swap(p) \/ Cleanup(p) \/ TruncateManifest(p)
    /\ Files(p)
    /\ UNCHANGED <<context, op, fallback, reached, sealed, completed>>

\* It succeeds: a finalization goes on, every other operation is done.
PublishSucceeds(p) ==
    /\ PublishIndex(p)
    /\ op' = [op EXCEPT ![p] = IF @ \in {"finalize", "wrap_up"} THEN @ ELSE "none"]
    /\ reached' = [chain |-> IF context[p].chain > reached.chain THEN context[p].chain
                             ELSE reached.chain,
                   floor |-> IF context[p].floor > reached.floor THEN context[p].floor
                             ELSE reached.floor]
    /\ sealed' = (sealed \/ context[p].outcome = "quiesce_unwritable")
    /\ UNCHANGED <<context, kept, fallback, completed>>

\* It fails: context_exchange and finalize_context record the refusal, the others return.
\* The state keeps the change, a raised floor too: update_rules ignores the older version
\* that set_digest_size_floor hands it back.
PublishFails(p) ==
    /\ Error(p)
    /\ proc'[p].pc = IF op[p] \in {"exchange", "finalize", "wrap_up"} THEN "quiesce" ELSE "up"
    /\ op' = [op EXCEPT ![p] = IF proc'[p].pc = "quiesce" THEN @ ELSE "none"]
    /\ UNCHANGED <<context, kept, fallback, reached, sealed, completed>>

\* record_quiesce_manifest, and for finalize_context record_quiesce_fallback, which may
\* fail unnoticed.
RecordRefusal(p) ==
    /\ RewriteManifest(p)
    /\ fallback' \in {fallback} \cup (IF op[p] = "wrap_up" THEN {context[p].outcome} ELSE {})
    /\ op' = [op EXCEPT ![p] = "none"]
    /\ Files(p)
    /\ UNCHANGED <<context, reached, sealed, completed>>

End(p) ==
    /\ Crash(p)
    /\ context' = [context EXCEPT ![p] = NewContext]
    /\ op' = [op EXCEPT ![p] = "none"]
    /\ UNCHANGED <<kept, fallback, reached, sealed, completed>>

NextAdmission ==
    \E p \in Proc :
        \/ Recover(p) \/ ContextExchange(p) \/ CompactToolResult(p) \/ IngestFails(p)
        \/ SetDigestSizeFloor(p) \/ FinalizeContext(p) \/ Complete(p) \/ RefuseCompletion(p)
        \/ PublishStep(p) \/ PublishSucceeds(p) \/ PublishFails(p) \/ RecordRefusal(p)
        \/ End(p)

SpecAdmission == InitAdmission /\ [][NextAdmission]_allVars

----------------------------------------------------------------------------
(* Properties.                                                             *)

\* A process that has loaded the context is never behind a publication that returned
\* success: it goes on from the kernel chain reached there, so it mints no number again,
\* and from a floor no lower, through every crash, failed publication and fallback.
NotBehind ==
    \A p \in Proc :
        (proc[p].pc # "down" /\ ~forgot) =>
            context[p].chain >= reached.chain /\ context[p].floor >= reached.floor

\* What the context held when BranchCompleted was appended stays in the generation that
\* recovery turns to: completion is never observable for a context that was not kept.
CompletionDurable ==
    (completed # {} /\ ~forgot) =>
        LET name == IF slot["committed"] = None \/ (~Published("committed") /\ Published("prev"))
                    THEN "prev" ELSE "committed"
        IN slot[name] # None /\ completed \subseteq UnitsOf(name)

\* Once a quiesced policy has been published no branch of the session is completed before
\* a bulk result is admitted again, in this process or in a later one that recovers the
\* context: no number of failed, retried or interrupted wrap-ups lifts the refusal.
RefusalStands == [][completed' # completed => (~sealed \/ forgot)]_allVars
=============================================================================
