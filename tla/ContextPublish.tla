--------------------------- MODULE ContextPublish ---------------------------
(***************************************************************************)
(* Publication of the durable context of a session, and its recovery       *)
(* (src/src/session/context_publish.rs, session/context_recover.rs,        *)
(* session/context_persist.rs).                                            *)
(*                                                                         *)
(* One publication writes its artifacts into the staging directory, sets   *)
(* the committed directory aside, and renames the staging directory onto   *)
(* the committed name.  A process loads the context once, keeps it in      *)
(* memory and publishes all of it each time.  Publications hold the mutex  *)
(* of their own process; most callers (compact_tool_result,                *)
(* record_request_prefix, observe_epoch_usage) do not hold the session's   *)
(* lock, so two processes on one session may publish at the same time.     *)
(*                                                                         *)
(* A directory is an object with an identity: a process that opened it     *)
(* keeps writing into it wherever it was renamed.  The context is the set  *)
(* of units admitted to it; an artifact carries the number of the          *)
(* publication that wrote it.  The spine stands for the artifacts written  *)
(* before the vault, the manifest for the last one.                        *)
(***************************************************************************)
EXTENDS Naturals, FiniteSets

CONSTANTS
    Proc,       \* the processes that work on the session
    None,       \* no directory, no artifact
    MaxPub,     \* bound on the publications
    MaxCrash    \* bound on the crashes

ASSUME PublishAssumption == MaxPub \in Nat /\ MaxCrash \in Nat

VARIABLES
    dirs,       \* the directories made so far: their artifacts
    slot,       \* which of them the names .stage, committed and .prev stand for
    proc,       \* the processes
    pubs,       \* the publications started
    durable,    \* the units of publications that returned success
    forgot,     \* a process started from an empty context beside a set-aside one
    crashes     \* the crashes so far

vars == <<dirs, slot, proc, pubs, durable, forgot, crashes>>

Dir == 1..MaxPub
Unit == 1..MaxPub
Artifact == [by : 1..MaxPub, units : SUBSET Unit]

\* None is neither a directory nor an artifact.
ASSUME NoneAssumption == None \notin Dir /\ None \notin Artifact

Pc == {"down", "up", "clear", "open", "spine", "vault", "manifest", "drop", "aside",
       "swap", "cleanup", "index", "quiesce", "rewrite"}

TypeOK ==
    /\ dirs \in [Dir -> [spine : Artifact \cup {None}, vault : Artifact \cup {None},
                         manifest : Artifact \cup {None}, linked : BOOLEAN]]
    /\ slot \in [{"stage", "committed", "prev"} -> Dir \cup {None}]
    /\ proc \in [Proc -> [pc : Pc, units : SUBSET Unit, pub : 0..MaxPub,
                          dir : Dir \cup {None}]]
    /\ pubs \in 0..MaxPub
    /\ durable \subseteq Unit
    /\ forgot \in BOOLEAN
    /\ crashes \in 0..MaxCrash

Empty == [spine |-> None, vault |-> None, manifest |-> None, linked |-> FALSE]

Init ==
    /\ dirs = [d \in Dir |-> Empty]
    /\ slot = [n \in {"stage", "committed", "prev"} |-> None]
    /\ proc = [p \in Proc |-> [pc |-> "down", units |-> {}, pub |-> 0, dir |-> None]]
    /\ pubs = 0 /\ durable = {}
    /\ forgot = FALSE /\ crashes = 0

----------------------------------------------------------------------------
(* The file system.                                                        *)

\* remove_dir_all on a name: its directory, if any, is emptied and unlinked.
Removed(name) ==
    [d \in Dir |-> IF d = slot[name] THEN Empty ELSE dirs[d]]

\* A directory that a reader accepts (validate_generation).
Published(name) == slot[name] # None /\ dirs[slot[name]].manifest # None

Goto(p, pc) == proc' = [proc EXCEPT ![p].pc = pc]

----------------------------------------------------------------------------
(* recover_context_state: the first use of the context by a process.       *)

Loads(p, units) == proc' = [proc EXCEPT ![p].pc = "up", ![p].units = units]

\* The units a directory gives a reader; without a spine it starts a fresh context.
UnitsOf(name) ==
    IF dirs[slot[name]].spine = None THEN {} ELSE dirs[slot[name]].spine.units

\* The committed directory is valid; a staging directory is removed as garbage.
RecoverCommitted(p) ==
    /\ proc[p].pc = "down" /\ Published("committed")
    /\ Loads(p, UnitsOf("committed"))
    /\ dirs' = Removed("stage")
    /\ slot' = [slot EXCEPT !["stage"] = None]
    /\ UNCHANGED <<pubs, durable, forgot, crashes>>

\* It is torn and the previous one is valid.  With no valid previous one recovery is
\* refused, and the process stays down.
RecoverPrevious(p) ==
    /\ proc[p].pc = "down"
    /\ slot["committed"] # None /\ ~Published("committed") /\ Published("prev")
    /\ Loads(p, UnitsOf("prev"))
    /\ UNCHANGED <<dirs, slot, pubs, durable, forgot, crashes>>

\* There is no committed directory: open_committed_generation reports the flat layout
\* of earlier builds, which holds no spine, so the context starts empty.
RecoverFresh(p) ==
    /\ proc[p].pc = "down" /\ slot["committed"] = None
    /\ Loads(p, {})
    /\ forgot' = (forgot \/ slot["prev"] # None)
    /\ UNCHANGED <<dirs, slot, pubs, durable, crashes>>

----------------------------------------------------------------------------
(* persist_context, one action per step on the file system.                *)

\* A unit joins the context of the process, and the publication begins.
Persist(p) ==
    /\ proc[p].pc = "up" /\ pubs < MaxPub
    /\ pubs' = pubs + 1
    /\ proc' = [proc EXCEPT ![p] = [pc |-> "clear", units |-> @.units \cup {pubs'},
                                    pub |-> pubs', dir |-> None]]
    /\ UNCHANGED <<dirs, slot, durable, forgot, crashes>>

\* Mutant of ClearStage: a directory that a crashed publisher left is reused, and an
\* artifact it already holds is not written again.
ClearStageReuses(p) ==
    /\ proc[p].pc = "clear"
    /\ IF slot["stage"] # None /\ dirs[slot["stage"]].spine # None
       THEN proc' = [proc EXCEPT ![p].pc = "vault", ![p].dir = slot["stage"]]
       ELSE Goto(p, "open")
    /\ UNCHANGED <<dirs, slot, pubs, durable, forgot, crashes>>

\* A staging directory left behind is removed.
ClearStage(p) ==
    /\ proc[p].pc = "clear"
    /\ dirs' = Removed("stage")
    /\ slot' = [slot EXCEPT !["stage"] = None]
    /\ Goto(p, "open")
    /\ UNCHANGED <<pubs, durable, forgot, crashes>>

\* Mutant of OpenStage: the name of the staging directory is never entered.
OpenStageUnlinked(p) ==
    /\ proc[p].pc = "open"
    /\ proc' = [proc EXCEPT ![p].pc = "spine", ![p].dir = 0]
    /\ UNCHANGED <<dirs, slot, pubs, durable, forgot, crashes>>

\* ensure_private_subdir makes the staging directory, or opens the one that is there.
OpenStage(p) ==
    /\ proc[p].pc = "open"
    /\ LET d == IF slot["stage"] = None THEN proc[p].pub ELSE slot["stage"] IN
        /\ dirs' = [dirs EXCEPT ![d].linked = TRUE]
        /\ slot' = [slot EXCEPT !["stage"] = d]
        /\ proc' = [proc EXCEPT ![p].pc = "spine", ![p].dir = d]
    /\ UNCHANGED <<pubs, durable, forgot, crashes>>

\* write_artifact into the open directory; it fails once the directory is unlinked.
Write(p, artifact, next) ==
    /\ proc[p].pc = artifact /\ dirs[proc[p].dir].linked
    /\ dirs' = [dirs EXCEPT ![proc[p].dir] =
          [@ EXCEPT ![artifact] = [by |-> proc[p].pub, units |-> proc[p].units]]]
    /\ Goto(p, next)
    /\ UNCHANGED <<slot, pubs, durable, forgot, crashes>>

WriteSpine(p) == Write(p, "spine", "vault")
WriteVault(p) == Write(p, "vault", "manifest")
WriteManifest(p) == Write(p, "manifest", "drop")

\* commit_generation: with a committed directory in place, an old .prev is removed ...
DropPrevious(p) ==
    /\ proc[p].pc = "drop"
    /\ IF slot["committed"] = None
       THEN Goto(p, "swap") /\ UNCHANGED <<dirs, slot>>
       ELSE /\ dirs' = Removed("prev")
            /\ slot' = [slot EXCEPT !["prev"] = None]
            /\ Goto(p, "aside")
    /\ UNCHANGED <<pubs, durable, forgot, crashes>>

\* Mutant of SetAside: the committed directory is removed and not kept as .prev.
SetAsideRemoves(p) ==
    /\ proc[p].pc = "aside" /\ slot["committed"] # None
    /\ dirs' = Removed("committed")
    /\ slot' = [slot EXCEPT !["committed"] = None]
    /\ Goto(p, "swap")
    /\ UNCHANGED <<pubs, durable, forgot, crashes>>

\* ... and the committed directory takes its name ...
SetAside(p) ==
    /\ proc[p].pc = "aside" /\ slot["committed"] # None /\ slot["prev"] = None
    /\ slot' = [slot EXCEPT !["prev"] = slot["committed"], !["committed"] = None]
    /\ Goto(p, "swap")
    /\ UNCHANGED <<dirs, pubs, durable, forgot, crashes>>

\* ... then one rename publishes what is staged.
Swap(p) ==
    /\ proc[p].pc = "swap" /\ slot["stage"] # None /\ slot["committed"] = None
    /\ slot' = [slot EXCEPT !["committed"] = slot["stage"], !["stage"] = None]
    /\ Goto(p, "cleanup")
    /\ UNCHANGED <<dirs, pubs, durable, forgot, crashes>>

\* The previous generation is removed.
Cleanup(p) ==
    /\ proc[p].pc = "cleanup"
    /\ dirs' = Removed("prev")
    /\ slot' = [slot EXCEPT !["prev"] = None]
    /\ Goto(p, "index")
    /\ UNCHANGED <<pubs, durable, forgot, crashes>>

\* persist_context publishes the unit index beside the slots and reports success.
PublishIndex(p) ==
    /\ proc[p].pc = "index"
    /\ durable' = durable \cup proc[p].units
    /\ Goto(p, "up")
    /\ UNCHANGED <<dirs, slot, pubs, forgot, crashes>>

\* A step fails: the caller gets an error and keeps its context in memory.  A checkpoint
\* or a finalization (context_exchange, finalize_context) goes on to record the refusal.
Error(p) ==
    /\ proc[p].pc \in {"open", "spine", "vault", "manifest", "aside", "swap", "index"}
    /\ \E pc \in {"up", "quiesce"} : Goto(p, pc)
    /\ UNCHANGED <<dirs, slot, pubs, durable, forgot, crashes>>

\* record_quiesce_manifest rewrites the manifest of the committed directory in place: it
\* is opened with O_TRUNC; without a committed directory the flat one is rewritten ...
TruncateManifest(p) ==
    /\ proc[p].pc = "quiesce"
    /\ proc' = [proc EXCEPT ![p].pc = "rewrite", ![p].dir = slot["committed"]]
    /\ dirs' = [d \in Dir |-> IF d = slot["committed"]
                              THEN [dirs[d] EXCEPT !.manifest = None] ELSE dirs[d]]
    /\ UNCHANGED <<slot, pubs, durable, forgot, crashes>>

\* ... then written; a write that fails is ignored.
RewriteManifest(p) ==
    /\ proc[p].pc = "rewrite"
    /\ Goto(p, "up")
    /\ \/ dirs' = [d \in Dir |-> IF d = proc[p].dir /\ dirs[d].linked
                THEN [dirs[d] EXCEPT !.manifest = [by |-> proc[p].pub, units |-> proc[p].units]]
                ELSE dirs[d]]
       \/ UNCHANGED dirs
    /\ UNCHANGED <<slot, pubs, durable, forgot, crashes>>

\* The process ends; a later one starts from what is on the disk.
Crash(p) ==
    /\ proc[p].pc # "down" /\ crashes < MaxCrash
    /\ crashes' = crashes + 1
    /\ proc' = [proc EXCEPT ![p] = [pc |-> "down", units |-> {}, pub |-> 0, dir |-> None]]
    /\ UNCHANGED <<dirs, slot, pubs, durable, forgot>>

Step(p) ==
    \/ RecoverCommitted(p) \/ RecoverPrevious(p) \/ RecoverFresh(p) \/ Persist(p)
    \/ ClearStage(p) \/ OpenStage(p) \/ WriteSpine(p) \/ WriteVault(p) \/ WriteManifest(p)
    \/ DropPrevious(p) \/ SetAside(p) \/ Swap(p) \/ Cleanup(p) \/ PublishIndex(p)
    \/ Error(p) \/ TruncateManifest(p) \/ RewriteManifest(p) \/ Crash(p)

Next == \E p \in Proc : Step(p)

Spec == Init /\ [][Next]_vars

----------------------------------------------------------------------------
(* Properties.                                                             *)

\* A reader never finds the spine of one publication beside the vault of another, in
\* the committed directory or in the one it falls back to.
NoMixedGeneration ==
    \A name \in {"committed", "prev"} :
        Published(name) =>
            /\ dirs[slot[name]].spine # None /\ dirs[slot[name]].vault # None
            /\ dirs[slot[name]].spine.by = dirs[slot[name]].vault.by

\* What a publication reported as durable stays in the spine of the slot that recovery
\* turns to: the committed directory, or .prev when that one is missing, or torn beside
\* a valid .prev.  It stays there through every crash, failed rename and interrupted
\* rewrite of the manifest, unless a process has since started from an empty context.
PublishedKept ==
    (durable # {} /\ ~forgot) =>
        LET name == IF slot["committed"] = None \/ (~Published("committed") /\ Published("prev"))
                    THEN "prev" ELSE "committed"
        IN slot[name] # None /\ durable \subseteq UnitsOf(name)

\* A process never starts from an empty context while .prev holds a generation:
\* recovery falls back to .prev when the committed directory is missing.
RecoveryFallsBack == ~forgot
=============================================================================
