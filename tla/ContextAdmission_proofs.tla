----------------------- MODULE ContextAdmission_proofs -----------------------
(***************************************************************************)
(* Proofs about the durable context, for any bounds on publications,       *)
(* crashes, admissions and raises, and any room: types with any number of  *)
(* processes at once, and for one process at a time (ContextRace shows two *)
(* that disturb each other) that a reader gets one generation, that what   *)
(* was reported is kept, known to every later process and completed only   *)
(* when kept, and that a published refusal stands until an admission.      *)
(***************************************************************************)
EXTENDS ContextAdmission, TLAPS

----------------------------------------------------------------------------
(* Types.  They hold for any number of processes at once.                  *)

\* A process publishes under a number, and writes into a directory it has opened; what a
\* process has admitted is in its kernel chain.
SizedAt(r, c, o) ==
    /\ c.region <= c.chain
    /\ (r.pc \notin {"down", "up"} \/ o # "none") => r.pub # 0
    /\ r.pc \in {"spine", "vault", "manifest"} => r.dir # None
    /\ r.pc = "down" => o = "none"

Sized == \A p \in Proc : SizedAt(proc[p], context[p], op[p])

TInv == TypeOKAdmission /\ Sized

----------------------------------------------------------------------------
(* The inductive invariant for one process at a time.  Its parts are stated *)
(* of values: x is a directory and k what it holds beside the units, s the  *)
(* names, r the process and c its context.                                  *)

\* The spine and the vault of a directory are those of one publication.
Whole(x) == x.spine # None /\ x.vault # None /\ x.spine.by = x.vault.by

\* The three names stand for different directories, all of earlier publications, or of
\* this one once it has opened its own.
SlotsOK(s, r, pb) ==
    /\ s["stage"] # None => s["stage"] # s["committed"] /\ s["stage"] # s["prev"]
    /\ s["committed"] # None => s["committed"] # s["prev"]
    /\ \A n \in {"stage", "committed", "prev"} : s[n] # None => s[n] <= pb
    /\ r.pub # 0 => r.pub = pb
    /\ r.pc \in {"clear", "open"} => \A n \in {"stage", "committed", "prev"} : s[n] # pb
    /\ r.pc = "open" => s["stage"] = None

\* A directory that no publication has opened yet is empty.
FreshOK(ds, r, pb) ==
    \A d \in Dir : (d > pb \/ (d = pb /\ r.pc \in {"clear", "open"})) => ds[d] = Empty

\* The directory x is written up to the artifacts of process r: spine, vault, manifest.
Staged(x, r) ==
    LET a == [by |-> r.pub, units |-> r.units] IN
    /\ x.spine = IF r.pc = "spine" THEN None ELSE a
    /\ x.vault = IF r.pc \in {"spine", "vault"} THEN None ELSE a
    /\ x.manifest = IF r.pc \in {"spine", "vault", "manifest"} THEN None ELSE a

\* ... with the chain, floor and outcome of its context c.
Recorded(x, k, c) ==
    /\ x.spine # None => k.chain = c.chain
    /\ x.manifest # None => k.floor = c.floor /\ k.outcome = c.outcome

\* Where a publication stands: its directory has the staging name until the swap, and the
\* committed name after it.
StageOK(ds, kp, s, r, c) ==
    /\ r.pc \in {"spine", "vault", "manifest", "drop", "aside", "swap"} =>
        s["stage"] # None /\ r.dir = s["stage"]
        /\ Staged(ds[s["stage"]], r) /\ Recorded(ds[s["stage"]], kp[s["stage"]], c)
    /\ r.pc = "aside" => s["committed"] # None /\ s["prev"] = None
    /\ r.pc = "swap" => s["committed"] = None
    /\ r.pc \in {"cleanup", "index"} =>
        s["committed"] # None
        /\ Staged(ds[s["committed"]], r) /\ Recorded(ds[s["committed"]], kp[s["committed"]], c)
    /\ r.pc = "index" => s["prev"] = None
    /\ r.pc = "rewrite" => /\ r.dir = s["committed"]
                           /\ s["committed"] # None => ds[s["committed"]].manifest = None

\* A published directory holds all that was reported before: the units, the chain with
\* the spine, and while it has a manifest the floor and the refusal.
Holds(x, k, du, re, se) ==
    /\ du \subseteq x.spine.units
    /\ k.chain >= re.chain
    /\ x.manifest # None => /\ k.floor >= re.floor
                            /\ se => k.outcome = "quiesce_unwritable"

\* A process that has loaded the context has all that was reported, and its refusal is
\* final: a failed write or a full region keeps it.
KnowsOK(r, c, du, re, se) ==
    /\ du \subseteq r.units
    /\ c.chain >= re.chain /\ c.floor >= re.floor
    /\ se => c.outcome = "quiesce_unwritable"

RefusalOK(c) == c.outcome = "quiesce_unwritable" => c.write_failed \/ c.region >= Room

SlotOK(n) ==
    slot[n] # None =>
        /\ Whole(dirs[slot[n]])
        /\ ~forgot => Holds(dirs[slot[n]], kept[slot[n]], durable, reached, sealed)

ProcOK(p) ==
    /\ SlotsOK(slot, proc[p], pubs)
    /\ FreshOK(dirs, proc[p], pubs)
    /\ StageOK(dirs, kept, slot, proc[p], context[p])
    /\ RefusalOK(context[p])
    /\ proc[p].pc \notin {"down", "up", "quiesce", "rewrite"} => proc[p].units # {}
    /\ (proc[p].pc = "up" /\ op[p] = "wrap_up") => proc[p].units \subseteq durable
    /\ (proc[p].pc # "down" /\ ~forgot) =>
          KnowsOK(proc[p], context[p], durable, reached, sealed)

\* Before the first success nothing was reported; what was completed was reported; and
\* what was reported is under one of the two names.
ReportedOK ==
    /\ durable = {} => reached = [chain |-> 0, floor |-> 0] /\ ~sealed
    /\ completed \subseteq durable
    /\ (durable # {} /\ ~forgot) => slot["committed"] # None \/ slot["prev"] # None

IInv ==
    /\ TInv
    /\ SlotOK("committed") /\ SlotOK("prev")
    /\ \A p \in Proc : ProcOK(p)
    /\ ReportedOK

----------------------------------------------------------------------------
(* Type correctness.                                                       *)

Slot == {"stage", "committed", "prev"}
Directory == [spine : Artifact \cup {None}, vault : Artifact \cup {None},
              manifest : Artifact \cup {None}, linked : BOOLEAN]
Process == [pc : Pc, units : SUBSET Unit, pub : 0..MaxPub, dir : Dir \cup {None}]

LEMMA Typed ==
    ASSUME TInv, NEW p \in Proc
    PROVE  /\ dirs \in [Dir -> Directory] /\ slot \in [Slot -> Dir \cup {None}]
           /\ proc \in [Proc -> Process] /\ context \in [Proc -> Context]
           /\ proc[p].pc \in Pc /\ proc[p].units \subseteq Unit /\ proc[p].pub \in 0..MaxPub
           /\ proc[p].dir \in Dir \cup {None}
           /\ context[p].chain \in 0..MaxChain /\ context[p].floor \in 0..MaxFloor
           /\ context[p].region \in 0..MaxChain /\ context[p].outcome \in Outcome
           /\ context[p].write_failed \in BOOLEAN
           /\ MaxPub \in Nat /\ MaxCrash \in Nat /\ MaxChain \in Nat /\ MaxFloor \in Nat
<1>1. /\ dirs \in [Dir -> Directory] /\ slot \in [Slot -> Dir \cup {None}]
      /\ proc \in [Proc -> Process] /\ context \in [Proc -> Context]
    BY DEF TInv, TypeOKAdmission, TypeOK, Directory, Slot, Process
<1>2. proc[p] \in Process /\ context[p] \in Context
    BY <1>1
<1> QED BY <1>1, <1>2, PublishAssumption, AdmissionAssumption DEF Process, Context

\* Removing a directory leaves directories.
LEMMA RemovedTyped ==
    ASSUME dirs \in [Dir -> Directory], NEW n
    PROVE  Removed(n) \in [Dir -> Directory]
BY DEF Removed, Empty, Directory

\* A process is a process with another step, units, number or directory.
LEMMA ProcessTyped ==
    ASSUME NEW r \in Process, NEW pc \in Pc, NEW u \in SUBSET Unit, NEW d \in Dir \cup {None}
    PROVE  /\ [r EXCEPT !.pc = pc] \in Process
           /\ [r EXCEPT !.pc = pc, !.units = u] \in Process
           /\ [r EXCEPT !.pc = pc, !.dir = d] \in Process
BY DEF Process

\* What the artifacts of a step record is well formed.
LEMMA FilesTyped ==
    ASSUME TInv, NEW p \in Proc, Files(p)
    PROVE  kept' \in [Dir -> Written]
<1>1. /\ context[p].chain \in 0..MaxChain /\ context[p].floor \in 0..MaxFloor
      /\ context[p].outcome \in Outcome /\ MaxChain \in Nat /\ MaxFloor \in Nat
    BY Typed
<1>2. ASSUME NEW d \in Dir
      PROVE  /\ kept[d].chain \in 0..MaxChain /\ kept[d].floor \in 0..MaxFloor
             /\ kept[d].outcome \in Outcome
  <2>1. kept[d] \in Written
      BY DEF TInv, TypeOKAdmission
  <2> QED BY <2>1 DEF Written
<1>3. "none" \in Outcome /\ 0 \in 0..MaxChain /\ 0 \in 0..MaxFloor
    BY <1>1 DEF Outcome
<1> QED BY <1>1, <1>2, <1>3 DEF Files, Written

\* The parts of TypeOK that a step on the directories may change.
Typical ==
    /\ dirs' \in [Dir -> Directory] /\ slot' \in [Slot -> Dir \cup {None}]
    /\ proc' \in [Proc -> Process]
    /\ pubs' \in 0..MaxPub /\ durable' \subseteq Unit /\ forgot' \in BOOLEAN
    /\ crashes' \in 0..MaxCrash

LEMMA TypicalOK == Typical => TypeOK'
BY DEF Typical, TypeOK, Directory, Slot, Process

LEMMA Untouched ==
    ASSUME TInv
    PROVE  /\ pubs \in 0..MaxPub /\ durable \subseteq Unit /\ forgot \in BOOLEAN
           /\ crashes \in 0..MaxCrash
BY DEF TInv, TypeOKAdmission, TypeOK

LEMMA GotoTyped ==
    ASSUME TInv, NEW p \in Proc, NEW pc \in Pc, Goto(p, pc)
    PROVE  proc' \in [Proc -> Process]
BY Typed, ProcessTyped DEF Goto

LEMMA LoadsTyped ==
    ASSUME TInv, NEW p \in Proc, NEW u \in SUBSET Unit, Loads(p, u)
    PROVE  proc' \in [Proc -> Process]
<1>1. proc \in [Proc -> Process] /\ proc[p] \in Process /\ "up" \in Pc
    BY Typed DEF Pc
<1>2. [proc[p] EXCEPT !.pc = "up", !.units = u] \in Process
    BY <1>1 DEF Process
<1>3. proc' = [proc EXCEPT ![p] = [proc[p] EXCEPT !.pc = "up", !.units = u]]
    BY <1>1 DEF Loads
<1> QED BY <1>1, <1>2, <1>3

LEMMA UnitsTyped ==
    ASSUME TInv, NEW n \in Slot, Published(n)
    PROVE  UnitsOf(n) \in SUBSET Unit
<1>1. dirs \in [Dir -> Directory] /\ slot \in [Slot -> Dir \cup {None}]
    BY DEF TInv, TypeOKAdmission, TypeOK, Directory, Slot
<1>2. dirs[slot[n]] \in Directory
    BY <1>1 DEF Published
<1> QED BY <1>2 DEF UnitsOf, Directory, Artifact

LEMMA RecoverCommittedTyped ==
    ASSUME TInv, NEW p \in Proc, RecoverCommitted(p)
    PROVE  Typical
<1>1. dirs' \in [Dir -> Directory] /\ slot' \in [Slot -> Dir \cup {None}]
    BY Typed, RemovedTyped DEF RecoverCommitted
<1>2. proc' \in [Proc -> Process]
    BY UnitsTyped, LoadsTyped DEF RecoverCommitted, Slot
<1> QED BY <1>1, <1>2, Untouched DEF RecoverCommitted, Typical

LEMMA RecoverPreviousTyped ==
    ASSUME TInv, NEW p \in Proc, RecoverPrevious(p)
    PROVE  Typical
<1>1. proc' \in [Proc -> Process]
    BY UnitsTyped, LoadsTyped DEF RecoverPrevious, Slot
<1> QED BY <1>1, Typed, Untouched DEF RecoverPrevious, Typical

LEMMA RecoverFreshTyped ==
    ASSUME TInv, NEW p \in Proc, RecoverFresh(p)
    PROVE  Typical
<1>1. proc' \in [Proc -> Process]
    BY LoadsTyped DEF RecoverFresh
<1> QED BY <1>1, Typed, Untouched DEF RecoverFresh, Typical

LEMMA PersistTyped ==
    ASSUME TInv, NEW p \in Proc, Persist(p)
    PROVE  Typical
<1> DEFINE r == [pc |-> "clear", units |-> proc[p].units \cup {pubs'}, pub |-> pubs',
                 dir |-> None]
<1>1. pubs' \in 0..MaxPub /\ pubs' \in Unit
    BY Untouched, PublishAssumption DEF Persist, Unit
<1>2. r \in Process
    BY <1>1, Typed DEF Process, Pc
<1>3. proc' = [proc EXCEPT ![p] = r]
    BY DEF Persist
<1> HIDE DEF r
<1>4. proc' \in [Proc -> Process]
    BY <1>2, <1>3, Typed
<1> QED BY <1>1, <1>4, Typed, Untouched DEF Persist, Typical

LEMMA ClearStageTyped ==
    ASSUME TInv, NEW p \in Proc, ClearStage(p)
    PROVE  Typical
<1>1. proc' \in [Proc -> Process]
    BY GotoTyped DEF ClearStage, Pc
<1> QED BY <1>1, Typed, RemovedTyped, Untouched DEF ClearStage, Typical

LEMMA OpenStageTyped ==
    ASSUME TInv, NEW p \in Proc, OpenStage(p)
    PROVE  Typical
<1> DEFINE d == IF slot["stage"] = None THEN proc[p].pub ELSE slot["stage"]
<1>1. d \in Dir
  <2>1. proc[p].pub # 0 /\ slot["stage"] \in Dir \cup {None}
      BY Typed DEF OpenStage, TInv, Sized, SizedAt, Slot
  <2>2. proc[p].pub \in Dir
      BY <2>1, Typed DEF Dir
  <2> QED BY <2>1, <2>2
<1>2. /\ dirs' = [dirs EXCEPT ![d] = [dirs[d] EXCEPT !.linked = TRUE]]
      /\ slot' = [slot EXCEPT !["stage"] = d]
      /\ proc' = [proc EXCEPT ![p] = [proc[p] EXCEPT !.pc = "spine", !.dir = d]]
    BY <1>1, Typed DEF OpenStage
<1> HIDE DEF d
<1>3. [dirs[d] EXCEPT !.linked = TRUE] \in Directory
    BY <1>1, Typed DEF Directory
<1>4. [proc[p] EXCEPT !.pc = "spine", !.dir = d] \in Process
    BY <1>1, Typed, ProcessTyped DEF Pc
<1>5. dirs' \in [Dir -> Directory]
    BY <1>1, <1>2, <1>3, Typed
<1>6. proc' \in [Proc -> Process]
    BY <1>2, <1>4, Typed
<1>7. slot' \in [Slot -> Dir \cup {None}]
    BY <1>1, <1>2, Typed
<1> QED BY <1>5, <1>6, <1>7, Untouched DEF OpenStage, Typical

\* What a write does to the directory.
LEMMA WriteIs ==
    ASSUME TInv, NEW p \in Proc, NEW a \in {"spine", "vault", "manifest"},
           NEW next \in Pc, Write(p, a, next)
    PROVE  /\ proc[p].dir \in Dir /\ dirs[proc[p].dir] \in Directory
           /\ [by |-> proc[p].pub, units |-> proc[p].units] \in Artifact
           /\ dirs' = [dirs EXCEPT ![proc[p].dir] = [dirs[proc[p].dir] EXCEPT
                          ![a] = [by |-> proc[p].pub, units |-> proc[p].units]]]
<1>1. proc[p].pub # 0 /\ proc[p].dir # None
    BY DEF Write, TInv, Sized, SizedAt
<1>2. proc[p].dir \in Dir
    BY <1>1, Typed
<1>3. [by |-> proc[p].pub, units |-> proc[p].units] \in Artifact
    BY <1>1, Typed DEF Artifact
<1> QED BY <1>2, <1>3, Typed DEF Write

LEMMA WriteTyped ==
    ASSUME TInv, NEW p \in Proc, NEW a \in {"spine", "vault", "manifest"},
           NEW next \in Pc, Write(p, a, next)
    PROVE  Typical
<1> DEFINE x == dirs[proc[p].dir]
           v == [by |-> proc[p].pub, units |-> proc[p].units]
<1>1. x \in Directory /\ v \in Artifact /\ proc[p].dir \in Dir
    BY WriteIs
<1>2. dirs' = [dirs EXCEPT ![proc[p].dir] = [x EXCEPT ![a] = v]]
    BY WriteIs
<1> HIDE DEF x, v
<1>3. [x EXCEPT ![a] = v] \in Directory
  <2>1. CASE a = "spine"
      BY <1>1, <2>1 DEF Directory
  <2>2. CASE a = "vault"
      BY <1>1, <2>2 DEF Directory
  <2>3. CASE a = "manifest"
      BY <1>1, <2>3 DEF Directory
  <2> QED BY <2>1, <2>2, <2>3
<1>4. dirs' \in [Dir -> Directory]
    BY <1>1, <1>2, <1>3, Typed
<1>5. proc' \in [Proc -> Process]
    BY GotoTyped DEF Write
<1> QED BY <1>4, <1>5, Typed, Untouched DEF Write, Typical

LEMMA DropPreviousTyped ==
    ASSUME TInv, NEW p \in Proc, DropPrevious(p)
    PROVE  Typical
<1>1. proc' \in [Proc -> Process]
    BY GotoTyped DEF DropPrevious, Pc
<1>2. dirs' \in [Dir -> Directory] /\ slot' \in [Slot -> Dir \cup {None}]
    BY Typed, RemovedTyped DEF DropPrevious
<1> QED BY <1>1, <1>2, Untouched DEF DropPrevious, Typical

LEMMA SetAsideTyped ==
    ASSUME TInv, NEW p \in Proc, SetAside(p)
    PROVE  Typical
<1>1. proc' \in [Proc -> Process]
    BY GotoTyped DEF SetAside, Pc
<1>2. slot' \in [Slot -> Dir \cup {None}]
    BY Typed DEF SetAside, Slot
<1> QED BY <1>1, <1>2, Typed, Untouched DEF SetAside, Typical

LEMMA SwapTyped ==
    ASSUME TInv, NEW p \in Proc, Swap(p)
    PROVE  Typical
<1>1. proc' \in [Proc -> Process]
    BY GotoTyped DEF Swap, Pc
<1>2. slot' \in [Slot -> Dir \cup {None}]
    BY Typed DEF Swap, Slot
<1> QED BY <1>1, <1>2, Typed, Untouched DEF Swap, Typical

LEMMA CleanupTyped ==
    ASSUME TInv, NEW p \in Proc, Cleanup(p)
    PROVE  Typical
<1>1. proc' \in [Proc -> Process]
    BY GotoTyped DEF Cleanup, Pc
<1> QED BY <1>1, Typed, RemovedTyped, Untouched DEF Cleanup, Typical

LEMMA PublishIndexTyped ==
    ASSUME TInv, NEW p \in Proc, PublishIndex(p)
    PROVE  Typical
<1>1. proc' \in [Proc -> Process]
    BY GotoTyped DEF PublishIndex, Pc
<1> QED BY <1>1, Typed, Untouched DEF PublishIndex, Typical

LEMMA ErrorTyped ==
    ASSUME TInv, NEW p \in Proc, Error(p)
    PROVE  Typical
<1>1. proc' \in [Proc -> Process]
    BY GotoTyped DEF Error, Pc
<1> QED BY <1>1, Typed, Untouched DEF Error, Typical

LEMMA TruncateTyped ==
    ASSUME TInv, NEW p \in Proc, TruncateManifest(p)
    PROVE  Typical
<1>1. slot["committed"] \in Dir \cup {None} /\ proc[p] \in Process
    BY Typed DEF Slot
<1>2. [proc[p] EXCEPT !.pc = "rewrite", !.dir = slot["committed"]] \in Process
    BY <1>1, ProcessTyped DEF Pc
<1>3. proc' = [proc EXCEPT ![p] = [proc[p] EXCEPT !.pc = "rewrite", !.dir = slot["committed"]]]
    BY <1>1, Typed DEF TruncateManifest
<1>4. proc' \in [Proc -> Process]
    BY <1>2, <1>3, Typed
<1>5. ASSUME NEW d \in Dir
      PROVE  [dirs[d] EXCEPT !.manifest = None] \in Directory /\ dirs[d] \in Directory
    BY Typed DEF Directory
<1>6. dirs' \in [Dir -> Directory]
    BY <1>5 DEF TruncateManifest
<1> QED BY <1>4, <1>6, Typed, Untouched DEF TruncateManifest, Typical

LEMMA RewriteTyped ==
    ASSUME TInv, NEW p \in Proc, RewriteManifest(p)
    PROVE  Typical
<1> DEFINE v == [by |-> proc[p].pub, units |-> proc[p].units]
<1>1. proc' \in [Proc -> Process]
    BY GotoTyped DEF RewriteManifest, Pc
<1>2. proc[p].pub # 0
    BY DEF RewriteManifest, TInv, Sized, SizedAt
<1>3. v \in Artifact
    BY <1>2, Typed DEF Artifact
<1>4. \/ dirs' = [d \in Dir |-> IF d = proc[p].dir /\ dirs[d].linked
                THEN [dirs[d] EXCEPT !.manifest = v] ELSE dirs[d]]
      \/ dirs' = dirs
    BY DEF RewriteManifest
<1> HIDE DEF v
<1>5. ASSUME NEW d \in Dir
      PROVE  [dirs[d] EXCEPT !.manifest = v] \in Directory /\ dirs[d] \in Directory
    BY <1>3, Typed DEF Directory
<1>6. dirs' \in [Dir -> Directory]
    BY <1>4, <1>5, Typed
<1> QED BY <1>1, <1>6, Typed, Untouched DEF RewriteManifest, Typical

LEMMA CrashTyped ==
    ASSUME TInv, NEW p \in Proc, Crash(p)
    PROVE  Typical
<1> DEFINE r == [pc |-> "down", units |-> {}, pub |-> 0, dir |-> None]
<1>1. r \in Process
    BY PublishAssumption DEF Process, Pc
<1>2. proc' = [proc EXCEPT ![p] = r]
    BY DEF Crash
<1> HIDE DEF r
<1>3. proc' \in [Proc -> Process]
    BY <1>1, <1>2, Typed
<1> QED BY <1>3, Typed, Untouched DEF Crash, Typical

Operation == {"none", "floor", "ingest", "exchange", "finalize", "wrap_up"}

\* Only process p takes the step.
Alone(p) ==
    \A q \in Proc : q # p => proc'[q] = proc[q] /\ context'[q] = context[q] /\ op'[q] = op[q]

LEMMA TypesKept ==
    ASSUME TInv, NEW p \in Proc, Typical, Alone(p),
           context' \in [Proc -> Context], op' \in [Proc -> Operation],
           kept' \in [Dir -> Written], fallback' \in Outcome,
           reached' \in [chain : 0..MaxChain, floor : 0..MaxFloor],
           sealed' \in BOOLEAN, completed' \subseteq Unit,
           SizedAt(proc'[p], context'[p], op'[p])
    PROVE  TInv'
<1>1. TypeOKAdmission'
    BY TypicalOK DEF TypeOKAdmission, Operation
<1>2. Sized'
    BY DEF Sized, TInv, Alone
<1> QED BY <1>1, <1>2 DEF TInv

LEMMA FacetsTyped ==
    ASSUME TInv, NEW p \in Proc
    PROVE  /\ context \in [Proc -> Context] /\ op \in [Proc -> Operation]
           /\ kept \in [Dir -> Written] /\ fallback \in Outcome
           /\ reached \in [chain : 0..MaxChain, floor : 0..MaxFloor]
           /\ sealed \in BOOLEAN /\ completed \subseteq Unit
           /\ SizedAt(proc[p], context[p], op[p])
           /\ reached.chain \in 0..MaxChain /\ reached.floor \in 0..MaxFloor
           /\ context[p] \in Context /\ op[p] \in Operation /\ proc[p] \in Process
BY Typed DEF TInv, TypeOKAdmission, Sized, Operation

\* What a step of p leaves of p and of the others.
LEMMA GotoIs ==
    ASSUME TInv, NEW p \in Proc, NEW pc, Goto(p, pc)
    PROVE  /\ proc'[p].pc = pc /\ proc'[p].units = proc[p].units
           /\ proc'[p].pub = proc[p].pub /\ proc'[p].dir = proc[p].dir
           /\ \A q \in Proc : q # p => proc'[q] = proc[q]
BY Typed DEF Goto, Process

\* The steps of a publication: what they do to the process.
LEMMA StepIs ==
    ASSUME TInv, NEW p \in Proc,
           \/ ClearStage(p) \/ OpenStage(p) \/ WriteSpine(p) \/ WriteVault(p) \/ WriteManifest(p)
           \/ DropPrevious(p) \/ SetAside(p) \/ Swap(p) \/ Cleanup(p) \/ TruncateManifest(p)
    PROVE  /\ \A q \in Proc : q # p => proc'[q] = proc[q]
           /\ Typical
           /\ proc'[p].pub = proc[p].pub /\ proc'[p].units = proc[p].units
           /\ proc[p].pc \notin {"down", "up"} /\ proc'[p].pc \notin {"down", "up"}
           /\ proc'[p].pc \in {"spine", "vault", "manifest"} => proc'[p].dir # None
<1>1. proc[p].pc \in {"spine", "vault", "manifest"} => proc[p].dir # None
    BY DEF TInv, Sized, SizedAt
<1>2. proc \in [Proc -> Process] /\ proc[p] \in Process
    BY Typed
<1>3. CASE ClearStage(p)
    BY <1>2, <1>3, GotoIs, ClearStageTyped DEF ClearStage, Process
<1>4. CASE OpenStage(p)
  <2>1. PICK d : proc' = [proc EXCEPT ![p].pc = "spine", ![p].dir = d] /\ slot' = [slot EXCEPT !["stage"] = d]
      BY <1>4 DEF OpenStage
  <2>2. Typical
      BY <1>4, OpenStageTyped
  <2>3. proc'[p] = [proc[p] EXCEPT !.pc = "spine", !.dir = d]
      BY <1>2, <2>1
  <2>4. d # None
    <3>1. slot["stage"] = None => proc[p].pub \in Dir
      <4>1. proc[p].pub # 0
          BY <1>4 DEF OpenStage, TInv, Sized, SizedAt
      <4> QED BY <4>1, Typed DEF Dir
    <3>2. d = IF slot["stage"] = None THEN proc[p].pub ELSE slot["stage"]
      <4>1. proc'[p].dir = IF slot["stage"] = None THEN proc[p].pub ELSE slot["stage"]
          BY <1>2, <1>4 DEF OpenStage, Process
      <4> QED BY <4>1, <2>3, <1>2 DEF Process
    <3> QED BY <3>1, <3>2, NoneAssumption
  <2> QED BY <1>2, <1>4, <2>1, <2>2, <2>3, <2>4 DEF OpenStage, Process
<1>5. CASE WriteSpine(p)
  <2>1. Write(p, "spine", "vault") /\ "vault" \in Pc
      BY <1>5 DEF WriteSpine, Pc
  <2>2. Typical
      BY <2>1, WriteTyped
  <2>3. proc[p].pc = "spine" /\ Goto(p, "vault")
      BY <2>1 DEF Write
  <2> QED BY <1>1, <2>2, <2>3, GotoIs
<1>6. CASE WriteVault(p)
  <2>1. Write(p, "vault", "manifest") /\ "manifest" \in Pc
      BY <1>6 DEF WriteVault, Pc
  <2>2. Typical
      BY <2>1, WriteTyped
  <2>3. proc[p].pc = "vault" /\ Goto(p, "manifest")
      BY <2>1 DEF Write
  <2> QED BY <1>1, <2>2, <2>3, GotoIs
<1>7. CASE WriteManifest(p)
  <2>1. Write(p, "manifest", "drop") /\ "drop" \in Pc
      BY <1>7 DEF WriteManifest, Pc
  <2>2. Typical
      BY <2>1, WriteTyped
  <2>3. proc[p].pc = "manifest" /\ Goto(p, "drop")
      BY <2>1 DEF Write
  <2> QED BY <1>1, <2>2, <2>3, GotoIs
<1>8. CASE DropPrevious(p)
    BY <1>2, <1>8, GotoIs, DropPreviousTyped DEF DropPrevious, Process
<1>9. CASE SetAside(p)
    BY <1>2, <1>9, GotoIs, SetAsideTyped DEF SetAside, Process
<1>10. CASE Swap(p)
    BY <1>2, <1>10, GotoIs, SwapTyped DEF Swap, Process
<1>11. CASE Cleanup(p)
    BY <1>2, <1>11, GotoIs, CleanupTyped DEF Cleanup, Process
<1>12. CASE TruncateManifest(p)
    BY <1>2, <1>12, TruncateTyped DEF TruncateManifest, Process
<1> QED BY <1>3, <1>4, <1>5, <1>6, <1>7, <1>8, <1>9, <1>10, <1>11, <1>12

LEMMA PublishStepTypes ==
    ASSUME TInv, NEW p \in Proc, PublishStep(p)
    PROVE  TInv'
<1>1. /\ \A q \in Proc : q # p => proc'[q] = proc[q]
      /\ Typical
      /\ proc'[p].pub = proc[p].pub /\ proc[p].pc \notin {"down", "up"}
      /\ proc'[p].pc \notin {"down", "up"}
      /\ proc'[p].pc \in {"spine", "vault", "manifest"} => proc'[p].dir # None
    BY StepIs DEF PublishStep
<1>2. kept' \in [Dir -> Written]
    BY FilesTyped DEF PublishStep
<1>3. SizedAt(proc'[p], context'[p], op'[p])
    BY <1>1, FacetsTyped DEF PublishStep, SizedAt
<1> QED BY <1>1, <1>2, <1>3, FacetsTyped, TypesKept DEF PublishStep, Alone

\* A change of the context of p.
LEMMA ContextSet ==
    ASSUME TInv, NEW p \in Proc, NEW c \in Context, context' = [context EXCEPT ![p] = c]
    PROVE  /\ context' \in [Proc -> Context] /\ context'[p] = c
           /\ \A q \in Proc : q # p => context'[q] = context[q]
BY Typed

LEMMA OperationSet ==
    ASSUME TInv, NEW p \in Proc, NEW o \in Operation, op' = [op EXCEPT ![p] = o]
    PROVE  /\ op' \in [Proc -> Operation] /\ op'[p] = o
           /\ \A q \in Proc : q # p => op'[q] = op[q]
BY FacetsTyped

LEMMA RestoredTyped ==
    ASSUME NEW chain \in 0..MaxChain, NEW floor \in 0..MaxFloor, NEW outcome \in Outcome
    PROVE  /\ Restored(chain, floor, outcome) \in Context
           /\ Restored(chain, floor, outcome).chain = chain
           /\ Restored(chain, floor, outcome).floor = floor
           /\ Restored(chain, floor, outcome).region = 0
           /\ Restored(chain, floor, outcome).outcome = outcome
           /\ Restored(chain, floor, outcome).write_failed = (outcome = "quiesce_unwritable")
<1>1. 0 \in 0..MaxChain /\ (outcome = "quiesce_unwritable") \in BOOLEAN
    BY AdmissionAssumption
<1> QED BY <1>1 DEF Context, Restored, NewContext

\* What a process loads: from a directory, or without one from the marker.
LEMMA RecoverIs ==
    ASSUME TInv, NEW p \in Proc, Recover(p)
    PROVE  \E chain \in 0..MaxChain, floor \in 0..MaxFloor, outcome \in Outcome :
              context' = [context EXCEPT ![p] = Restored(chain, floor, outcome)]
<1>1. ASSUME NEW n \in Slot, slot[n] # None, Loaded(p, n)
      PROVE  \E chain \in 0..MaxChain, floor \in 0..MaxFloor, outcome \in Outcome :
              context' = [context EXCEPT ![p] = Restored(chain, floor, outcome)]
  <2>1. kept[slot[n]] \in Written
      BY <1>1, Typed, FacetsTyped
  <2>2. /\ kept[slot[n]].chain \in 0..MaxChain /\ kept[slot[n]].floor \in 0..MaxFloor
        /\ kept[slot[n]].outcome \in Outcome
      BY <2>1 DEF Written
  <2> QED BY <1>1, <2>2 DEF Loaded
<1>2. CASE RecoverCommitted(p) /\ Loaded(p, "committed")
    BY <1>1, <1>2 DEF RecoverCommitted, Published, Slot
<1>3. CASE RecoverPrevious(p) /\ Loaded(p, "prev")
    BY <1>1, <1>3 DEF RecoverPrevious, Published, Slot
<1>4. CASE RecoverFresh(p) /\ context' = [context EXCEPT ![p] = Restored(0, 0, fallback)]
  <2>1. 0 \in 0..MaxChain /\ 0 \in 0..MaxFloor /\ fallback \in Outcome
      BY FacetsTyped, AdmissionAssumption
  <2> QED BY <1>4, <2>1
<1> QED BY <1>2, <1>3, <1>4 DEF Recover

LEMMA RecoverTypes ==
    ASSUME TInv, NEW p \in Proc, Recover(p)
    PROVE  TInv'
<1>1. PICK chain \in 0..MaxChain, floor \in 0..MaxFloor, outcome \in Outcome :
              context' = [context EXCEPT ![p] = Restored(chain, floor, outcome)]
    BY RecoverIs
<1>2. /\ context' \in [Proc -> Context] /\ context'[p] = Restored(chain, floor, outcome)
      /\ \A q \in Proc : q # p => context'[q] = context[q]
    BY <1>1, RestoredTyped, ContextSet
<1>3. context'[p].region = 0 /\ context'[p].chain \in 0..MaxChain
    BY <1>2, RestoredTyped
<1>4. Typical /\ proc[p].pc = "down"
    BY RecoverCommittedTyped, RecoverPreviousTyped, RecoverFreshTyped
    DEF Recover, RecoverCommitted, RecoverPrevious, RecoverFresh
<1>5. proc'[p].pc = "up" /\ \A q \in Proc : q # p => proc'[q] = proc[q]
    BY Typed DEF Recover, RecoverCommitted, RecoverPrevious, RecoverFresh, Loads, Process
<1>6. op[p] = "none"
    BY <1>4, FacetsTyped DEF SizedAt
<1>7. SizedAt(proc'[p], context'[p], op'[p])
    BY <1>3, <1>5, <1>6, AdmissionAssumption DEF SizedAt, Recover
<1>8. kept' \in [Dir -> Written]
    BY FilesTyped DEF Recover
<1> QED BY <1>2, <1>4, <1>5, <1>7, <1>8, FacetsTyped, TypesKept DEF Recover, Alone

LEMMA AdmittedIs ==
    ASSUME NEW c \in Context, c.chain < MaxChain, c.region <= c.chain
    PROVE  /\ Admitted(c) \in Context
           /\ Admitted(c).chain = c.chain + 1 /\ Admitted(c).region = c.region + 1
           /\ Admitted(c).floor = c.floor /\ Admitted(c).outcome = "none"
           /\ Admitted(c).write_failed = c.write_failed
<1>1. /\ c.chain \in 0..MaxChain /\ c.region \in 0..MaxChain /\ c.floor \in 0..MaxFloor
      /\ MaxChain \in Nat
    BY AdmissionAssumption DEF Context
<1>2. c.chain + 1 \in 0..MaxChain /\ c.region + 1 \in 0..MaxChain
    BY <1>1
<1> QED BY <1>2 DEF Admitted, Context, Outcome

LEMMA WrappedUpIs ==
    ASSUME NEW c \in Context
    PROVE  /\ WrappedUp(c) \in Context
           /\ WrappedUp(c).chain = c.chain /\ WrappedUp(c).region = c.region
           /\ WrappedUp(c).floor = c.floor /\ WrappedUp(c).write_failed = c.write_failed
           /\ c.write_failed => WrappedUp(c).outcome = c.outcome
           /\ ~c.write_failed => WrappedUp(c).outcome =
                                   IF c.region < Room THEN "wrap_up" ELSE "quiesce_unwritable"
BY DEF WrappedUp, Context, Outcome

\* A publication begins: what it does to the process.
LEMMA PersistIs ==
    ASSUME TInv, NEW p \in Proc, Persist(p)
    PROVE  /\ proc[p].pc = "up" /\ pubs' = pubs + 1 /\ pubs' # 0 /\ pubs' \in Dir
           /\ proc'[p].pc = "clear" /\ proc'[p].pub = pubs' /\ proc'[p].dir = None
           /\ proc'[p].units = proc[p].units \cup {pubs'}
           /\ \A q \in Proc : q # p => proc'[q] = proc[q]
<1>1. pubs' # 0 /\ pubs' \in Dir
    BY Untouched, PublishAssumption DEF Persist, Dir
<1> QED BY <1>1, Typed DEF Persist, Process

LEMMA PublishForTypes ==
    ASSUME TInv, NEW p \in Proc, NEW o \in Operation, NEW c \in Context,
           c.region <= c.chain, PublishFor(p, o, c)
    PROVE  TInv'
<1>1. Persist(p) /\ Typical
    BY PersistTyped DEF PublishFor
<1>2. /\ context' \in [Proc -> Context] /\ context'[p] = c
      /\ \A q \in Proc : q # p => context'[q] = context[q]
    BY ContextSet DEF PublishFor
<1>3. /\ op' \in [Proc -> Operation] /\ op'[p] = o
      /\ \A q \in Proc : q # p => op'[q] = op[q]
    BY OperationSet DEF PublishFor
<1>4. Alone(p) /\ SizedAt(proc'[p], context'[p], op'[p])
    BY <1>1, <1>2, <1>3, PersistIs DEF Alone, SizedAt
<1>5. sealed' \in BOOLEAN
    BY FacetsTyped DEF PublishFor
<1> QED BY <1>1, <1>2, <1>3, <1>4, <1>5, FacetsTyped, TypesKept DEF PublishFor

\* The four callers of a publication, with the context each of them publishes.
LEMMA CallersPublish ==
    ASSUME TInv, NEW p \in Proc,
           \/ SetDigestSizeFloor(p) \/ CompactToolResult(p)
           \/ ContextExchange(p) \/ FinalizeContext(p)
    PROVE  \E o \in Operation, c \in Context :
              /\ PublishFor(p, o, c)
              /\ c.region <= c.chain /\ c.region >= context[p].region
              /\ c.chain >= context[p].chain /\ c.floor >= context[p].floor
              /\ c.write_failed = context[p].write_failed
              /\ \/ c.outcome = context[p].outcome
                 \/ c.outcome = "none" /\ c.chain # context[p].chain
                 \/ ~c.write_failed /\ c.outcome =
                       IF c.region < Room THEN "wrap_up" ELSE "quiesce_unwritable"
<1> DEFINE old == context[p]
<1>1. /\ old \in Context /\ old.chain \in Nat /\ old.floor \in Nat /\ old.region \in Nat
      /\ old.region <= old.chain /\ MaxFloor \in Nat
    BY Typed, FacetsTyped DEF SizedAt
<1> HIDE DEF old
<1>2. CASE SetDigestSizeFloor(p)
  <2>1. PICK raise \in {0, 1} : /\ old.floor + raise <= MaxFloor
                                /\ PublishFor(p, "floor", [old EXCEPT !.floor = @ + raise])
      BY <1>2 DEF SetDigestSizeFloor, old
  <2> DEFINE c == [old EXCEPT !.floor = @ + raise]
  <2>2. old.floor + raise \in 0..MaxFloor /\ old.floor + raise >= old.floor
      BY <1>1, <2>1
  <2>3. /\ c \in Context /\ c.region = old.region /\ c.chain = old.chain
        /\ c.floor = old.floor + raise /\ c.write_failed = old.write_failed
        /\ c.outcome = old.outcome
      BY <1>1, <2>2 DEF Context
  <2>4. PublishFor(p, "floor", c) /\ "floor" \in Operation
      BY <2>1 DEF Operation
  <2> HIDE DEF c
  <2>5. /\ c.region <= c.chain /\ c.region >= old.region
        /\ c.chain >= old.chain /\ c.floor >= old.floor
      BY <1>1, <2>2, <2>3
  <2> QED BY <2>3, <2>4, <2>5 DEF old
<1>3. ASSUME old.chain < MaxChain
      PROVE  /\ Admitted(old) \in Context /\ Admitted(old).region <= Admitted(old).chain
             /\ Admitted(old).region >= old.region /\ Admitted(old).chain >= old.chain
             /\ Admitted(old).floor >= old.floor
             /\ Admitted(old).write_failed = old.write_failed
             /\ Admitted(old).outcome = "none" /\ Admitted(old).chain # old.chain
  <2>1. /\ Admitted(old) \in Context
        /\ Admitted(old).chain = old.chain + 1 /\ Admitted(old).region = old.region + 1
        /\ Admitted(old).floor = old.floor /\ Admitted(old).outcome = "none"
        /\ Admitted(old).write_failed = old.write_failed
      BY <1>1, <1>3, AdmittedIs
  <2> QED BY <1>1, <2>1
<1>4. CASE CompactToolResult(p)
  <2>1. PublishFor(p, "ingest", Admitted(old)) /\ "ingest" \in Operation /\ old.chain < MaxChain
      BY <1>4 DEF CompactToolResult, Operation, old
  <2> QED BY <2>1, <1>3 DEF old
<1>5. CASE ContextExchange(p)
  <2>1. PICK o \in {"exchange", "finalize"}, bulk \in BOOLEAN :
              /\ bulk => old.chain < MaxChain
              /\ PublishFor(p, o, IF bulk THEN Admitted(old) ELSE old)
      BY <1>5 DEF ContextExchange, old
  <2>2. o \in Operation
      BY DEF Operation
  <2>3. CASE bulk
    <3>1. PublishFor(p, o, Admitted(old)) /\ old.chain < MaxChain
        BY <2>1, <2>3
    <3> QED BY <2>2, <3>1, <1>3 DEF old
  <2>4. CASE ~bulk
    <3>1. PublishFor(p, o, old)
        BY <2>1, <2>4
    <3>2. old.region >= old.region /\ old.chain >= old.chain /\ old.floor >= old.floor
        BY <1>1
    <3> QED BY <1>1, <2>2, <3>1, <3>2 DEF old
  <2> QED BY <2>3, <2>4
<1>6. CASE FinalizeContext(p)
  <2>1. PublishFor(p, "wrap_up", WrappedUp(old)) /\ "wrap_up" \in Operation
      BY <1>6 DEF FinalizeContext, Operation, old
  <2>2. /\ WrappedUp(old) \in Context
        /\ WrappedUp(old).chain = old.chain /\ WrappedUp(old).region = old.region
        /\ WrappedUp(old).floor = old.floor /\ WrappedUp(old).write_failed = old.write_failed
        /\ old.write_failed => WrappedUp(old).outcome = old.outcome
        /\ ~old.write_failed => WrappedUp(old).outcome =
                                   IF old.region < Room THEN "wrap_up" ELSE "quiesce_unwritable"
      BY <1>1, WrappedUpIs
  <2> DEFINE c == WrappedUp(old)
  <2> HIDE DEF c
  <2>3. /\ c.region <= c.chain /\ c.region >= old.region
        /\ c.chain >= old.chain /\ c.floor >= old.floor
      BY <1>1, <2>2 DEF c
  <2> QED BY <2>1, <2>2, <2>3 DEF c, old
<1> QED BY <1>2, <1>4, <1>5, <1>6

LEMMA CallersTypes ==
    ASSUME TInv, NEW p \in Proc,
           \/ SetDigestSizeFloor(p) \/ CompactToolResult(p)
           \/ ContextExchange(p) \/ FinalizeContext(p)
    PROVE  TInv'
<1>1. PICK o \in Operation, c \in Context : PublishFor(p, o, c) /\ c.region <= c.chain
    BY CallersPublish
<1> QED BY <1>1, PublishForTypes

\* A failed ingest changes the context of p only: it admits or not, and refuses.
LEMMA IngestFailsIs ==
    ASSUME TInv, NEW p \in Proc, IngestFails(p)
    PROVE  \E c \in Context :
              /\ context' = [context EXCEPT ![p] = c]
              /\ c.region <= c.chain
              /\ c.chain >= context[p].chain /\ c.floor = context[p].floor
              /\ c.outcome = "quiesce_unwritable" /\ c.write_failed
<1> DEFINE old == context[p]
           Refused(c) == [c EXCEPT !.outcome = "quiesce_unwritable", !.write_failed = TRUE]
<1>1. /\ old \in Context /\ old.chain \in Nat /\ old.region \in Nat /\ old.region <= old.chain
    BY Typed, FacetsTyped DEF SizedAt
<1>2. old.chain < MaxChain /\ \E c \in {old, Admitted(old)} : context' = [context EXCEPT ![p] = Refused(c)]
    BY DEF IngestFails
<1> HIDE DEF old
<1>3. PICK c \in {old, Admitted(old)} : context' = [context EXCEPT ![p] = Refused(c)]
    BY <1>2
<1>4. c \in Context /\ c.region <= c.chain /\ c.chain >= old.chain /\ c.floor = old.floor
  <2>1. CASE c = old
      BY <1>1, <2>1
  <2>2. CASE c = Admitted(old)
    <3>1. /\ Admitted(old) \in Context
          /\ Admitted(old).chain = old.chain + 1 /\ Admitted(old).region = old.region + 1
          /\ Admitted(old).floor = old.floor
        BY <1>1, <1>2, AdmittedIs
    <3> QED BY <1>1, <2>2, <3>1
  <2> QED BY <2>1, <2>2
<1>5. /\ Refused(c) \in Context /\ Refused(c).region = c.region /\ Refused(c).chain = c.chain
      /\ Refused(c).floor = c.floor /\ Refused(c).outcome = "quiesce_unwritable"
      /\ Refused(c).write_failed = TRUE
    BY <1>4 DEF Context, Outcome
<1> QED BY <1>3, <1>4, <1>5 DEF old

LEMMA StillTypical ==
    ASSUME TInv, UNCHANGED vars
    PROVE  Typical
BY Untouched DEF TInv, TypeOKAdmission, TypeOK, Typical, Directory, Slot, Process, vars

LEMMA IngestFailsTypes ==
    ASSUME TInv, NEW p \in Proc, IngestFails(p)
    PROVE  TInv'
<1>1. PICK c \in Context : /\ context' = [context EXCEPT ![p] = c]
                           /\ c.region <= c.chain
    BY IngestFailsIs
<1>2. /\ context' \in [Proc -> Context] /\ context'[p] = c
      /\ \A q \in Proc : q # p => context'[q] = context[q]
    BY <1>1, ContextSet
<1>3. SizedAt(proc'[p], context'[p], op'[p]) /\ Alone(p)
    BY <1>1, <1>2, FacetsTyped DEF IngestFails, SizedAt, Alone, vars
<1> QED BY <1>2, <1>3, FacetsTyped, StillTypical, TypesKept DEF IngestFails

LEMMA CompleteTypes ==
    ASSUME TInv, NEW p \in Proc, Complete(p)
    PROVE  TInv'
<1>1. /\ op' \in [Proc -> Operation] /\ op'[p] = "none"
      /\ \A q \in Proc : q # p => op'[q] = op[q]
    BY OperationSet DEF Complete, Operation
<1>2. SizedAt(proc'[p], context'[p], op'[p]) /\ Alone(p)
    BY <1>1, FacetsTyped DEF Complete, SizedAt, Alone, vars
<1>3. completed' \subseteq Unit
    BY Typed, FacetsTyped DEF Complete
<1> QED BY <1>1, <1>2, <1>3, FacetsTyped, StillTypical, TypesKept DEF Complete

LEMMA RefuseCompletionTypes ==
    ASSUME TInv, NEW p \in Proc, RefuseCompletion(p)
    PROVE  TInv'
<1>1. Goto(p, "quiesce") /\ "quiesce" \in Pc
    BY DEF RefuseCompletion, Pc
<1>2. Typical
    BY <1>1, GotoTyped, Typed, Untouched DEF RefuseCompletion, Typical
<1>3. SizedAt(proc'[p], context'[p], op'[p]) /\ Alone(p)
    BY <1>1, GotoIs, FacetsTyped DEF RefuseCompletion, SizedAt, Alone, facets
<1> QED BY <1>2, <1>3, FacetsTyped, TypesKept DEF RefuseCompletion, facets

LEMMA PublishSucceedsTypes ==
    ASSUME TInv, NEW p \in Proc, PublishSucceeds(p)
    PROVE  TInv'
<1>1. Typical /\ Goto(p, "up") /\ proc[p].pc = "index"
    BY PublishIndexTyped DEF PublishSucceeds, PublishIndex
<1> DEFINE o == IF op[p] \in {"finalize", "wrap_up"} THEN op[p] ELSE "none"
<1>2. o \in Operation /\ op' = [op EXCEPT ![p] = o]
    BY FacetsTyped DEF PublishSucceeds, Operation
<1> HIDE DEF o
<1>3. /\ op' \in [Proc -> Operation] /\ op'[p] = o
      /\ \A q \in Proc : q # p => op'[q] = op[q]
    BY <1>2, OperationSet
<1>4. SizedAt(proc'[p], context'[p], op'[p]) /\ Alone(p)
    BY <1>1, <1>3, GotoIs, FacetsTyped DEF PublishSucceeds, SizedAt, Alone
<1>5. reached' \in [chain : 0..MaxChain, floor : 0..MaxFloor]
    BY Typed, FacetsTyped DEF PublishSucceeds
<1>6. sealed' \in BOOLEAN
    BY DEF PublishSucceeds
<1> QED BY <1>1, <1>3, <1>4, <1>5, <1>6, FacetsTyped, TypesKept DEF PublishSucceeds

LEMMA PublishFailsTypes ==
    ASSUME TInv, NEW p \in Proc, PublishFails(p)
    PROVE  TInv'
<1>1. Typical /\ proc[p].pc \notin {"up", "down"}
    BY ErrorTyped DEF PublishFails, Error
<1>2. PICK pc \in {"up", "quiesce"} : Goto(p, pc)
    BY DEF PublishFails, Error
<1> DEFINE o == IF proc'[p].pc = "quiesce" THEN op[p] ELSE "none"
<1>3. o \in Operation /\ op' = [op EXCEPT ![p] = o]
    BY FacetsTyped DEF PublishFails, Operation
<1> HIDE DEF o
<1>4. /\ op' \in [Proc -> Operation] /\ op'[p] = o
      /\ \A q \in Proc : q # p => op'[q] = op[q]
    BY <1>3, OperationSet
<1>5. SizedAt(proc'[p], context'[p], op'[p]) /\ Alone(p)
    BY <1>1, <1>2, <1>4, GotoIs, FacetsTyped DEF PublishFails, SizedAt, Alone
<1> QED BY <1>1, <1>4, <1>5, FacetsTyped, TypesKept DEF PublishFails

LEMMA RecordRefusalTypes ==
    ASSUME TInv, NEW p \in Proc, RecordRefusal(p)
    PROVE  TInv'
<1>1. Typical /\ Goto(p, "up") /\ proc[p].pc = "rewrite"
    BY RewriteTyped DEF RecordRefusal, RewriteManifest
<1>2. /\ op' \in [Proc -> Operation] /\ op'[p] = "none"
      /\ \A q \in Proc : q # p => op'[q] = op[q]
    BY OperationSet DEF RecordRefusal, Operation
<1>3. SizedAt(proc'[p], context'[p], op'[p]) /\ Alone(p)
    BY <1>1, <1>2, GotoIs, FacetsTyped DEF RecordRefusal, SizedAt, Alone
<1>4. fallback' \in Outcome
    BY Typed, FacetsTyped DEF RecordRefusal
<1>5. kept' \in [Dir -> Written]
    BY FilesTyped DEF RecordRefusal
<1> QED BY <1>1, <1>2, <1>3, <1>4, <1>5, FacetsTyped, TypesKept DEF RecordRefusal

LEMMA CrashIs ==
    ASSUME TInv, NEW p \in Proc, Crash(p)
    PROVE  /\ proc'[p].pc = "down" /\ proc'[p].units = {} /\ proc'[p].pub = 0
           /\ \A q \in Proc : q # p => proc'[q] = proc[q]
BY Typed DEF Crash

LEMMA EndTypes ==
    ASSUME TInv, NEW p \in Proc, End(p)
    PROVE  TInv'
<1>1. Typical /\ Crash(p)
    BY CrashTyped DEF End
<1>2. NewContext \in Context /\ NewContext.region = 0 /\ NewContext.chain = 0
    BY AdmissionAssumption DEF NewContext, Context, Outcome
<1>3. /\ context' \in [Proc -> Context] /\ context'[p] = NewContext
      /\ \A q \in Proc : q # p => context'[q] = context[q]
    BY <1>2, ContextSet DEF End
<1>4. /\ op' \in [Proc -> Operation] /\ op'[p] = "none"
      /\ \A q \in Proc : q # p => op'[q] = op[q]
    BY OperationSet DEF End, Operation
<1>5. SizedAt(proc'[p], context'[p], op'[p]) /\ Alone(p)
    BY <1>1, <1>2, <1>3, <1>4, CrashIs DEF SizedAt, Alone
<1> QED BY <1>1, <1>3, <1>4, <1>5, FacetsTyped, TypesKept DEF End

LEMMA InitTypes == InitAdmission => TInv
<1> SUFFICES ASSUME InitAdmission PROVE TInv
    OBVIOUS
<1>1. 0 \in 0..MaxPub /\ 0 \in 0..MaxCrash /\ 0 \in 0..MaxChain /\ 0 \in 0..MaxFloor
    BY PublishAssumption, AdmissionAssumption
<1>2. TypeOK
    BY <1>1 DEF InitAdmission, Init, TypeOK, Empty, Pc
<1>3. NewContext \in Context /\ Blank \in Written /\ NewContext.region = 0 /\ NewContext.chain = 0
    BY <1>1 DEF NewContext, Context, Blank, Written, Outcome
<1>4. TypeOKAdmission
    BY <1>1, <1>2, <1>3 DEF InitAdmission, TypeOKAdmission, Outcome
<1>5. Sized
    BY <1>3 DEF InitAdmission, Init, Sized, SizedAt
<1> QED BY <1>4, <1>5 DEF TInv

LEMMA NextTypes == TInv /\ [NextAdmission]_allVars => TInv'
<1> SUFFICES ASSUME TInv, [NextAdmission]_allVars PROVE TInv'
    OBVIOUS
<1>1. CASE UNCHANGED allVars
    BY <1>1 DEF TInv, TypeOKAdmission, TypeOK, Sized, allVars, vars, facets
<1>2. CASE NextAdmission
    BY <1>2, RecoverTypes, CallersTypes, IngestFailsTypes, CompleteTypes,
       RefuseCompletionTypes, PublishStepTypes, PublishSucceedsTypes, PublishFailsTypes,
       RecordRefusalTypes, EndTypes DEF NextAdmission
<1> QED BY <1>1, <1>2

\* The directories, the names, the processes and their contexts keep their types, for any
\* number of processes that publish at once (context_publish.rs, context_persist.rs).
THEOREM TypeCorrect == SpecAdmission => []TypeOKAdmission
<1>1. TInv => TypeOKAdmission
    BY DEF TInv
<1> QED BY <1>1, InitTypes, NextTypes, PTL DEF SpecAdmission

----------------------------------------------------------------------------
(* What a step leaves of the directories.                                  *)

\* Directory d is left alone, with all it records.
Kept(d) ==
    /\ dirs'[d] = dirs[d]
    /\ dirs[d].spine # None => kept'[d].chain = kept[d].chain
    /\ dirs[d].manifest # None => kept'[d].floor = kept[d].floor /\ kept'[d].outcome = kept[d].outcome

LEMMA FilesKeep ==
    ASSUME NEW p \in Proc, Files(p), NEW d \in Dir, dirs'[d] = dirs[d]
    PROVE  Kept(d)
<1>1. /\ kept'[d].chain = IF dirs'[d].spine = None THEN 0
                      ELSE IF dirs'[d].spine = dirs[d].spine THEN kept[d].chain ELSE context[p].chain
      /\ kept'[d].floor = IF dirs'[d].manifest = None THEN 0
                      ELSE IF dirs'[d].manifest = dirs[d].manifest THEN kept[d].floor
                      ELSE context[p].floor
      /\ kept'[d].outcome = IF dirs'[d].manifest = None THEN "none"
                        ELSE IF dirs'[d].manifest = dirs[d].manifest THEN kept[d].outcome
                        ELSE context[p].outcome
    BY DEF Files
<1> QED BY <1>1 DEF Kept

LEMMA StillKept ==
    ASSUME UNCHANGED <<dirs, kept>>
    PROVE  \A d : Kept(d)
BY DEF Kept

\* A directory that is left alone is as good as it was.
LEMMA KeptIsSame ==
    ASSUME NEW d, Kept(d)
    PROVE  /\ Whole(dirs[d]) => Whole(dirs'[d])
           /\ \A r : Staged(dirs[d], r) => Staged(dirs'[d], r)
           /\ \A c : Recorded(dirs[d], kept[d], c) => Recorded(dirs'[d], kept'[d], c)
           /\ \A du, re, se :
                 Whole(dirs[d]) /\ Holds(dirs[d], kept[d], du, re, se)
                    => Holds(dirs'[d], kept'[d], du, re, se)
BY DEF Kept, Whole, Staged, Recorded, Holds

\* A directory that stays, under its name or another, while nothing is reported.
LEMMA SlotKept ==
    ASSUME NEW m, NEW n, SlotOK(m), slot'[n] = slot[m], slot[m] # None => Kept(slot[m]),
           UNCHANGED <<durable, reached>>, sealed' => sealed, forgot => forgot'
    PROVE  SlotOK(n)'
<1> SUFFICES ASSUME slot'[n] # None
             PROVE  /\ Whole(dirs'[slot'[n]])
                    /\ ~forgot' => Holds(dirs'[slot'[n]], kept'[slot'[n]], durable', reached', sealed')
    BY DEF SlotOK
<1> DEFINE d == slot[m]
<1>1. d # None /\ Kept(d) /\ slot'[n] = d
    OBVIOUS
<1>2. Whole(dirs[d]) /\ (~forgot => Holds(dirs[d], kept[d], durable, reached, sealed))
    BY <1>1 DEF SlotOK
<1> HIDE DEF d
<1>3. Whole(dirs'[d])
    BY <1>1, <1>2, KeptIsSame
<1>4. ASSUME ~forgot'
      PROVE  Holds(dirs'[d], kept'[d], durable', reached', sealed')
  <2>1. Holds(dirs[d], kept[d], durable', reached', sealed')
      BY <1>2, <1>4 DEF Holds
  <2> QED BY <1>1, <1>2, <2>1, KeptIsSame
<1> QED BY <1>1, <1>3, <1>4

LEMMA RemovedFrame ==
    ASSUME NEW n, dirs' = Removed(n), NEW d \in Dir
    PROVE  /\ d # slot[n] => dirs'[d] = dirs[d]
           /\ d = slot[n] => dirs'[d] = Empty
           /\ dirs[d] = Empty => dirs'[d] = Empty
BY DEF Removed

----------------------------------------------------------------------------
(* The steps of one process that works alone.                              *)

\* What the invariant says when p is the only process.
LEMMA Facts ==
    ASSUME IInv, NEW p \in Proc
    PROVE  /\ TInv /\ SlotOK("committed") /\ SlotOK("prev") /\ ReportedOK
           /\ SlotsOK(slot, proc[p], pubs) /\ FreshOK(dirs, proc[p], pubs)
           /\ StageOK(dirs, kept, slot, proc[p], context[p]) /\ RefusalOK(context[p])
           /\ proc[p].pc \notin {"down", "up", "quiesce", "rewrite"} => proc[p].units # {}
           /\ (proc[p].pc = "up" /\ op[p] = "wrap_up") => proc[p].units \subseteq durable
           /\ (proc[p].pc # "down" /\ ~forgot) =>
                 KnowsOK(proc[p], context[p], durable, reached, sealed)
           /\ slot["stage"] \in Dir \cup {None} /\ slot["committed"] \in Dir \cup {None}
           /\ slot["prev"] \in Dir \cup {None} /\ pubs \in Nat /\ MaxPub \in Nat
<1>1. TInv /\ ProcOK(p)
    BY DEF IInv
<1> QED BY <1>1, Typed, Untouched DEF IInv, ProcOK, Slot

LEMMA Gathered ==
    ASSUME NEW p, Proc = {p}, TInv', SlotOK("committed")', SlotOK("prev")', ReportedOK',
           SlotsOK(slot', proc'[p], pubs'), FreshOK(dirs', proc'[p], pubs'),
           StageOK(dirs', kept', slot', proc'[p], context'[p]), RefusalOK(context'[p]),
           proc'[p].pc \notin {"down", "up", "quiesce", "rewrite"} => proc'[p].units # {},
           (proc'[p].pc = "up" /\ op'[p] = "wrap_up") => proc'[p].units \subseteq durable',
           (proc'[p].pc # "down" /\ ~forgot') =>
                 KnowsOK(proc'[p], context'[p], durable', reached', sealed')
    PROVE  IInv'
<1>1. ProcOK(p)'
    BY DEF ProcOK
<1>2. \A q \in Proc : ProcOK(q)'
    BY <1>1
<1> QED BY <1>2 DEF IInv

\* A step after which the process is not publishing, over the same directories.
LEMMA RestsOK ==
    ASSUME NEW ds, NEW kp, NEW s, NEW pb, NEW r, NEW q, NEW c,
           SlotsOK(s, r, pb), FreshOK(ds, r, pb), q.pc \in {"down", "up", "quiesce"},
           q.pub \in {0, r.pub}
    PROVE  SlotsOK(s, q, pb) /\ FreshOK(ds, q, pb) /\ StageOK(ds, kp, s, q, c)
BY DEF SlotsOK, FreshOK, StageOK

LEMMA LoadsIs ==
    ASSUME TInv, NEW p \in Proc, NEW u, Loads(p, u)
    PROVE  proc'[p].pc = "up" /\ proc'[p].units = u /\ proc'[p].pub = proc[p].pub
BY Typed DEF Loads, Process

\* What was reported stays in a name that stays.
LEMMA ReportedKept ==
    ASSUME ReportedOK, UNCHANGED <<durable, reached, completed>>, sealed' => sealed,
           forgot => forgot',
           (slot["committed"] # None \/ slot["prev"] # None) =>
              (slot'["committed"] # None \/ slot'["prev"] # None)
    PROVE  ReportedOK'
BY DEF ReportedOK

LEMMA RecoverCommittedKeeps ==
    ASSUME NEW p, Proc = {p}, IInv, TInv', Recover(p), RecoverCommitted(p), Loaded(p, "committed")
    PROVE  IInv'
<1> DEFINE d == slot["committed"]
           c == Restored(kept[d].chain, kept[d].floor, kept[d].outcome)
<1>1. p \in Proc /\ TInv
    BY Facts
<1>2. d # None /\ d \in Dir /\ dirs[d].manifest # None
    BY <1>1, Facts DEF RecoverCommitted, Published
<1>3. /\ kept[d].chain \in 0..MaxChain /\ kept[d].floor \in 0..MaxFloor
      /\ kept[d].outcome \in Outcome
    BY <1>1, <1>2, FacetsTyped DEF Written
<1>4. context'[p] = c
    BY <1>1, Typed DEF Loaded
<1>5. /\ c.chain = kept[d].chain /\ c.floor = kept[d].floor /\ c.outcome = kept[d].outcome
      /\ c.write_failed = (c.outcome = "quiesce_unwritable")
    BY <1>3, RestoredTyped
<1>6. /\ proc'[p].pc = "up" /\ proc'[p].units = UnitsOf("committed")
      /\ proc'[p].pub = proc[p].pub
    BY <1>1, LoadsIs DEF RecoverCommitted
<1>7. \A x \in Dir : x # slot["stage"] => Kept(x)
    BY <1>1, RemovedFrame, FilesKeep DEF Recover, RecoverCommitted
<1>8. /\ slot'["committed"] = slot["committed"] /\ slot'["prev"] = slot["prev"]
      /\ slot'["stage"] = None /\ pubs' = pubs
    BY <1>1, Typed DEF RecoverCommitted, Slot
<1>9. /\ slot["committed"] # None => Kept(slot["committed"])
      /\ slot["prev"] # None => Kept(slot["prev"])
    BY <1>1, <1>7, Facts DEF SlotsOK
<1>10. SlotOK("committed")' /\ SlotOK("prev")'
    BY <1>1, <1>8, <1>9, Facts, SlotKept DEF Recover, RecoverCommitted
<1>11. SlotsOK(slot', proc'[p], pubs')
    BY <1>1, <1>6, <1>8, Facts DEF SlotsOK
<1>12. FreshOK(dirs', proc'[p], pubs')
    BY <1>1, <1>6, <1>8, Facts, RemovedFrame DEF FreshOK, RecoverCommitted
<1>13. StageOK(dirs', kept', slot', proc'[p], context'[p])
    BY <1>6 DEF StageOK
<1>14. RefusalOK(context'[p])
    BY <1>4, <1>5 DEF RefusalOK
<1>15. proc[p].pc = "down" /\ op'[p] = "none"
    BY <1>1, FacetsTyped DEF RecoverCommitted, Recover, SizedAt
<1>16. ASSUME ~forgot'
       PROVE  KnowsOK(proc'[p], context'[p], durable', reached', sealed')
  <2>1. /\ Whole(dirs[d]) /\ Holds(dirs[d], kept[d], durable, reached, sealed)
      BY <1>1, <1>2, <1>16, Facts DEF SlotOK, RecoverCommitted
  <2>2. UnitsOf("committed") = dirs[d].spine.units
      BY <2>1 DEF UnitsOf, Whole
  <2> QED BY <1>2, <1>4, <1>5, <1>6, <2>1, <2>2 DEF Holds, KnowsOK, Recover, RecoverCommitted
<1>17. ReportedOK'
    BY <1>1, <1>8, Facts, ReportedKept DEF Recover, RecoverCommitted
<1> QED BY <1>6, <1>10, <1>11, <1>12, <1>13, <1>14, <1>15, <1>16, <1>17, Gathered

LEMMA RecoverPreviousKeeps ==
    ASSUME NEW p, Proc = {p}, IInv, TInv', Recover(p), RecoverPrevious(p), Loaded(p, "prev")
    PROVE  IInv'
<1> DEFINE d == slot["prev"]
           c == Restored(kept[d].chain, kept[d].floor, kept[d].outcome)
<1>1. p \in Proc /\ TInv
    BY Facts
<1>2. d # None /\ d \in Dir /\ dirs[d].manifest # None
    BY <1>1, Facts DEF RecoverPrevious, Published
<1>3. /\ kept[d].chain \in 0..MaxChain /\ kept[d].floor \in 0..MaxFloor
      /\ kept[d].outcome \in Outcome
    BY <1>1, <1>2, FacetsTyped DEF Written
<1>4. context'[p] = c
    BY <1>1, Typed DEF Loaded
<1>5. /\ c.chain = kept[d].chain /\ c.floor = kept[d].floor /\ c.outcome = kept[d].outcome
      /\ c.write_failed = (c.outcome = "quiesce_unwritable")
    BY <1>3, RestoredTyped
<1>6. /\ proc'[p].pc = "up" /\ proc'[p].units = UnitsOf("prev")
      /\ proc'[p].pub = proc[p].pub
    BY <1>1, LoadsIs DEF RecoverPrevious
<1>7. \A x \in Dir : Kept(x)
    BY <1>1, FilesKeep DEF Recover, RecoverPrevious
<1>8. SlotOK("committed")' /\ SlotOK("prev")'
    BY <1>1, <1>7, Facts, SlotKept DEF Recover, RecoverPrevious
<1>9. /\ SlotsOK(slot', proc'[p], pubs') /\ FreshOK(dirs', proc'[p], pubs')
      /\ StageOK(dirs', kept', slot', proc'[p], context'[p])
    BY <1>1, <1>6, Facts, RestsOK DEF RecoverPrevious
<1>10. RefusalOK(context'[p])
    BY <1>4, <1>5 DEF RefusalOK
<1>11. proc[p].pc = "down" /\ op'[p] = "none"
    BY <1>1, FacetsTyped DEF RecoverPrevious, Recover, SizedAt
<1>12. ASSUME ~forgot'
       PROVE  KnowsOK(proc'[p], context'[p], durable', reached', sealed')
  <2>1. /\ Whole(dirs[d]) /\ Holds(dirs[d], kept[d], durable, reached, sealed)
      BY <1>1, <1>2, <1>12, Facts DEF SlotOK, RecoverPrevious
  <2>2. UnitsOf("prev") = dirs[d].spine.units
      BY <2>1 DEF UnitsOf, Whole
  <2> QED BY <1>2, <1>4, <1>5, <1>6, <2>1, <2>2 DEF Holds, KnowsOK, Recover, RecoverPrevious
<1>13. ReportedOK'
    BY <1>1, Facts, ReportedKept DEF Recover, RecoverPrevious
<1> QED BY <1>6, <1>8, <1>9, <1>10, <1>11, <1>12, <1>13, Gathered

\* Without a committed directory a process starts empty, which is all there is unless a
\* generation is set aside.
LEMMA RecoverFreshKeeps ==
    ASSUME NEW p, Proc = {p}, IInv, TInv', Recover(p), RecoverFresh(p),
           context' = [context EXCEPT ![p] = Restored(0, 0, fallback)]
    PROVE  IInv'
<1> DEFINE c == Restored(0, 0, fallback)
<1>1. p \in Proc /\ TInv
    BY Facts
<1>2. context'[p] = c
    BY <1>1, Typed
<1>3. c.chain = 0 /\ c.floor = 0 /\ c.write_failed = (c.outcome = "quiesce_unwritable")
  <2>1. 0 \in 0..MaxChain /\ 0 \in 0..MaxFloor /\ fallback \in Outcome
      BY <1>1, FacetsTyped, AdmissionAssumption
  <2> QED BY <2>1, RestoredTyped
<1>4. proc'[p].pc = "up" /\ proc'[p].units = {} /\ proc'[p].pub = proc[p].pub
    BY <1>1, LoadsIs DEF RecoverFresh
<1>5. \A x \in Dir : Kept(x)
    BY <1>1, FilesKeep DEF Recover, RecoverFresh
<1>6. /\ forgot => forgot'
      /\ slot["prev"] # None => forgot'
      /\ slot["committed"] = None /\ UNCHANGED <<dirs, slot, pubs, durable>>
      /\ UNCHANGED <<op, reached, sealed, completed>>
      /\ proc[p].pc = "down"
    BY DEF Recover, RecoverFresh
<1>7. SlotOK("committed")' /\ SlotOK("prev")'
    BY <1>1, <1>5, <1>6, Facts, SlotKept
<1>8. /\ SlotsOK(slot', proc'[p], pubs') /\ FreshOK(dirs', proc'[p], pubs')
      /\ StageOK(dirs', kept', slot', proc'[p], context'[p])
    BY <1>1, <1>4, <1>6, Facts, RestsOK
<1>9. RefusalOK(context'[p])
    BY <1>2, <1>3 DEF RefusalOK
<1>10. op'[p] = "none"
    BY <1>1, <1>6, FacetsTyped DEF SizedAt
<1>11. ASSUME ~forgot'
       PROVE  KnowsOK(proc'[p], context'[p], durable', reached', sealed')
  <2>1. slot["committed"] = None /\ slot["prev"] = None /\ ~forgot
      BY <1>6, <1>11
  <2>2. durable = {} /\ reached = [chain |-> 0, floor |-> 0] /\ ~sealed
      BY <1>1, <2>1, Facts DEF ReportedOK
  <2> QED BY <1>2, <1>3, <1>6, <2>2 DEF KnowsOK
<1>12. ReportedOK'
    BY <1>1, <1>6, Facts, ReportedKept
<1> QED BY <1>4, <1>7, <1>8, <1>9, <1>10, <1>11, <1>12, Gathered

LEMMA RecoverKeeps ==
    ASSUME NEW p, Proc = {p}, IInv, TInv', Recover(p)
    PROVE  IInv'
BY RecoverCommittedKeeps, RecoverPreviousKeeps, RecoverFreshKeeps DEF Recover

\* A context that grew has what the old one had, and its refusal unless it admitted
\* something: se is the refusal known before, sf after.
LEMMA ContextGrows ==
    ASSUME NEW r, NEW q, NEW old \in Context, NEW c \in Context, NEW du,
           NEW re \in [chain : 0..MaxChain, floor : 0..MaxFloor], NEW se, NEW sf,
           sf => se /\ c.chain = old.chain,
           RefusalOK(old), r.units \subseteq q.units, c.region >= old.region,
           c.chain >= old.chain, c.floor >= old.floor, c.write_failed = old.write_failed,
           \/ c.outcome = old.outcome
           \/ c.outcome = "none" /\ c.chain # old.chain
           \/ ~c.write_failed /\ c.outcome =
                       IF c.region < Room THEN "wrap_up" ELSE "quiesce_unwritable"
    PROVE  /\ RefusalOK(c)
           /\ KnowsOK(r, old, du, re, se) => KnowsOK(q, c, du, re, sf)
<1>1. /\ old.chain \in Nat /\ old.floor \in Nat /\ old.region \in Nat
      /\ c.chain \in Nat /\ c.floor \in Nat /\ c.region \in Nat /\ Room \in Nat
      /\ re.chain \in Nat /\ re.floor \in Nat
    BY AdmissionAssumption DEF Context
<1>2. ASSUME old.outcome = "quiesce_unwritable", c.chain = old.chain
      PROVE  c.outcome = "quiesce_unwritable"
  <2>1. old.write_failed \/ old.region >= Room
      BY <1>2 DEF RefusalOK
  <2>2. CASE old.region >= Room
    <3>1. ~(c.region < Room)
        BY <1>1, <2>2
    <3> QED BY <1>2, <3>1
  <2> QED BY <1>2, <2>1, <2>2
<1>3. RefusalOK(c)
  <2>1. CASE c.outcome = old.outcome \/ c.outcome = "none"
      BY <1>1, <2>1 DEF RefusalOK
  <2>2. CASE ~c.write_failed /\ c.outcome =
                       IF c.region < Room THEN "wrap_up" ELSE "quiesce_unwritable"
      BY <1>1, <2>2 DEF RefusalOK
  <2> QED BY <2>1, <2>2
<1>4. ASSUME KnowsOK(r, old, du, re, se)
      PROVE  KnowsOK(q, c, du, re, sf)
  <2>1. /\ du \subseteq r.units /\ old.chain >= re.chain /\ old.floor >= re.floor
        /\ se => old.outcome = "quiesce_unwritable"
      BY <1>4 DEF KnowsOK
  <2>2. c.chain >= re.chain /\ c.floor >= re.floor
      BY <1>1, <2>1
  <2> QED BY <1>2, <2>1, <2>2 DEF KnowsOK
<1> QED BY <1>3, <1>4

LEMMA CallersKeep ==
    ASSUME NEW p, Proc = {p}, IInv, TInv',
           \/ SetDigestSizeFloor(p) \/ CompactToolResult(p)
           \/ ContextExchange(p) \/ FinalizeContext(p)
    PROVE  IInv'
<1>1. p \in Proc /\ TInv
    BY Facts
<1>2. PICK o \in Operation, c \in Context :
              /\ PublishFor(p, o, c)
              /\ c.region <= c.chain /\ c.region >= context[p].region
              /\ c.chain >= context[p].chain /\ c.floor >= context[p].floor
              /\ c.write_failed = context[p].write_failed
              /\ \/ c.outcome = context[p].outcome
                 \/ c.outcome = "none" /\ c.chain # context[p].chain
                 \/ ~c.write_failed /\ c.outcome =
                       IF c.region < Room THEN "wrap_up" ELSE "quiesce_unwritable"
    BY <1>1, CallersPublish
<1>3. /\ UNCHANGED <<dirs, slot, kept, durable, forgot, reached, completed>>
      /\ sealed' = (sealed /\ c.chain = context[p].chain)
      /\ Persist(p) /\ context'[p] = c
    BY <1>1, <1>2, Typed DEF PublishFor, Persist
<1>4. /\ proc[p].pc = "up" /\ pubs' = pubs + 1
      /\ proc'[p].pc = "clear" /\ proc'[p].pub = pubs'
      /\ proc'[p].units = proc[p].units \cup {pubs'}
    BY <1>1, <1>3, PersistIs
<1>5. SlotOK("committed")' /\ SlotOK("prev")'
    BY <1>1, <1>3, Facts, StillKept, SlotKept
<1>6. SlotsOK(slot', proc'[p], pubs')
  <2>1. \A n \in {"stage", "committed", "prev"} : slot[n] # None => slot[n] <= pubs
      BY <1>1, Facts DEF SlotsOK
  <2>2. ASSUME NEW n \in {"stage", "committed", "prev"}
        PROVE  (slot[n] # None => slot[n] <= pubs + 1) /\ slot[n] # pubs + 1
    <3>1. slot[n] \in Dir \cup {None} /\ pubs \in Nat /\ pubs + 1 \in Dir
        BY <1>1, <1>3, <1>4, Facts, PersistIs
    <3>2. CASE slot[n] = None
        BY <3>1, <3>2, NoneAssumption
    <3>3. CASE slot[n] # None
        BY <2>1, <3>1, <3>3 DEF Dir
    <3> QED BY <3>2, <3>3
  <2> QED BY <1>1, <1>3, <1>4, <2>2, Facts DEF SlotsOK
<1>7. FreshOK(dirs', proc'[p], pubs')
  <2>1. ASSUME NEW d \in Dir, d > pubs + 1 \/ d = pubs + 1
        PROVE  d > pubs
      BY <1>1, <2>1, Facts DEF Dir
  <2> QED BY <1>1, <1>3, <1>4, <2>1, Facts DEF FreshOK
<1>8. StageOK(dirs', kept', slot', proc'[p], context'[p])
    BY <1>4 DEF StageOK
<1>9. RefusalOK(c) /\ (~forgot => KnowsOK(proc'[p], c, durable, reached, sealed'))
  <2>1. /\ context[p] \in Context /\ reached \in [chain : 0..MaxChain, floor : 0..MaxFloor]
        /\ RefusalOK(context[p])
        /\ ~forgot => KnowsOK(proc[p], context[p], durable, reached, sealed)
      BY <1>1, <1>4, Facts, FacetsTyped
  <2>2. sealed' => sealed /\ c.chain = context[p].chain
      BY <1>3, Zenon
  <2>3. proc[p].units \subseteq proc'[p].units
      BY <1>4
  <2>4. /\ RefusalOK(c)
        /\ KnowsOK(proc[p], context[p], durable, reached, sealed)
              => KnowsOK(proc'[p], c, durable, reached, sealed')
      BY <1>2, <2>1, <2>2, <2>3, ContextGrows
  <2> QED BY <2>1, <2>4
<1>10. ReportedOK'
    BY <1>1, <1>3, Facts, ReportedKept
<1> QED BY <1>3, <1>4, <1>5, <1>6, <1>7, <1>8, <1>9, <1>10, Gathered

LEMMA IngestFailsKeeps ==
    ASSUME NEW p, Proc = {p}, IInv, TInv', IngestFails(p)
    PROVE  IInv'
<1>1. p \in Proc /\ TInv
    BY Facts
<1>2. PICK c \in Context :
              /\ context' = [context EXCEPT ![p] = c]
              /\ c.chain >= context[p].chain /\ c.floor = context[p].floor
              /\ c.outcome = "quiesce_unwritable" /\ c.write_failed
    BY <1>1, IngestFailsIs
<1>3. /\ UNCHANGED <<dirs, slot, proc, pubs, durable, forgot>>
      /\ UNCHANGED <<op, kept, reached, sealed, completed>>
      /\ proc[p].pc = "up" /\ op[p] = "none" /\ context'[p] = c
    BY <1>1, <1>2, Typed DEF IngestFails, Idle, vars
<1>4. SlotOK("committed")' /\ SlotOK("prev")'
    BY <1>1, <1>3, Facts, StillKept, SlotKept
<1>5. /\ SlotsOK(slot', proc'[p], pubs') /\ FreshOK(dirs', proc'[p], pubs')
      /\ StageOK(dirs', kept', slot', proc'[p], context'[p])
    BY <1>1, <1>3, Facts, RestsOK
<1>6. RefusalOK(c)
    BY <1>2 DEF RefusalOK
<1>7. ASSUME ~forgot
      PROVE  KnowsOK(proc[p], c, durable, reached, sealed)
  <2>1. KnowsOK(proc[p], context[p], durable, reached, sealed)
      BY <1>1, <1>3, <1>7, Facts
  <2>2. /\ context[p].chain \in Nat /\ c.chain \in Nat /\ reached.chain \in Nat
      BY <1>1, Typed, FacetsTyped DEF Context
  <2> QED BY <1>2, <2>1, <2>2 DEF KnowsOK
<1>8. ReportedOK'
    BY <1>1, <1>3, Facts, ReportedKept
<1> QED BY <1>3, <1>4, <1>5, <1>6, <1>7, <1>8, Gathered

\* The branch is completed over units that were reported.
LEMMA CompleteKeeps ==
    ASSUME NEW p, Proc = {p}, IInv, TInv', Complete(p)
    PROVE  IInv'
<1>1. p \in Proc /\ TInv
    BY Facts
<1>2. /\ UNCHANGED <<dirs, slot, proc, pubs, durable, forgot>>
      /\ UNCHANGED <<context, kept, reached, sealed>>
      /\ proc[p].pc = "up" /\ op[p] = "wrap_up" /\ op'[p] = "none"
      /\ completed' = completed \cup proc[p].units
    BY <1>1, FacetsTyped DEF Complete, vars
<1>3. SlotOK("committed")' /\ SlotOK("prev")'
    BY <1>1, <1>2, Facts, StillKept, SlotKept
<1>4. ReportedOK'
  <2>1. proc[p].units \subseteq durable /\ ReportedOK
      BY <1>1, <1>2, Facts
  <2> QED BY <1>2, <2>1 DEF ReportedOK
<1> QED BY <1>1, <1>2, <1>3, <1>4, Facts, Gathered

LEMMA RefuseCompletionKeeps ==
    ASSUME NEW p, Proc = {p}, IInv, TInv', RefuseCompletion(p)
    PROVE  IInv'
<1>1. p \in Proc /\ TInv
    BY Facts
<1>2. /\ UNCHANGED <<dirs, slot, pubs, durable, forgot>>
      /\ UNCHANGED <<context, op, kept, reached, sealed, completed>>
      /\ proc[p].pc = "up" /\ op[p] = "wrap_up" /\ Goto(p, "quiesce")
    BY DEF RefuseCompletion, facets
<1>3. /\ proc'[p].pc = "quiesce" /\ proc'[p].units = proc[p].units
      /\ proc'[p].pub = proc[p].pub
    BY <1>1, <1>2, GotoIs
<1>4. SlotOK("committed")' /\ SlotOK("prev")'
    BY <1>1, <1>2, Facts, StillKept, SlotKept
<1>5. /\ SlotsOK(slot', proc'[p], pubs') /\ FreshOK(dirs', proc'[p], pubs')
      /\ StageOK(dirs', kept', slot', proc'[p], context'[p])
    BY <1>1, <1>2, <1>3, Facts, RestsOK
<1>6. ~forgot => KnowsOK(proc'[p], context[p], durable, reached, sealed)
    BY <1>1, <1>2, <1>3, Facts DEF KnowsOK
<1>7. ReportedOK'
    BY <1>1, <1>2, Facts, ReportedKept
<1> QED BY <1>1, <1>2, <1>3, <1>4, <1>5, <1>6, <1>7, Facts, Gathered

\* A publication succeeds: the committed directory holds what the process knows, and that
\* is now all that was reported.
LEMMA PublishSucceedsKeeps ==
    ASSUME NEW p, Proc = {p}, IInv, TInv', PublishSucceeds(p)
    PROVE  IInv'
<1> DEFINE d == slot["committed"]
           c == context[p]
<1>1. p \in Proc /\ TInv
    BY Facts
<1>2. /\ UNCHANGED <<dirs, slot, pubs, forgot>>
      /\ UNCHANGED <<context, kept, completed>>
      /\ proc[p].pc = "index" /\ Goto(p, "up")
      /\ durable' = durable \cup proc[p].units
      /\ sealed' = (sealed \/ c.outcome = "quiesce_unwritable")
    BY DEF PublishSucceeds, PublishIndex
<1>3. /\ reached'.chain = IF c.chain > reached.chain THEN c.chain ELSE reached.chain
      /\ reached'.floor = IF c.floor > reached.floor THEN c.floor ELSE reached.floor
    BY DEF PublishSucceeds
<1>4. /\ proc'[p].pc = "up" /\ proc'[p].units = proc[p].units
      /\ proc'[p].pub = proc[p].pub
    BY <1>1, <1>2, GotoIs
<1>5. /\ d # None /\ Staged(dirs[d], proc[p]) /\ Recorded(dirs[d], kept[d], c)
      /\ slot["prev"] = None
    BY <1>1, <1>2, Facts DEF StageOK
<1>6. /\ dirs[d].spine.units = proc[p].units /\ dirs[d].spine # None
      /\ dirs[d].manifest # None
    <2>1. [by |-> proc[p].pub, units |-> proc[p].units] \in Artifact
      <3>1. proc[p].pub # 0
          BY <1>1, <1>2, FacetsTyped DEF SizedAt
      <3> QED BY <1>1, <3>1, Typed DEF Artifact
    <2>2. /\ dirs[d].spine = [by |-> proc[p].pub, units |-> proc[p].units]
          /\ dirs[d].manifest = [by |-> proc[p].pub, units |-> proc[p].units]
        BY <1>2, <1>5 DEF Staged
    <2> QED BY <2>1, <2>2, NoneAssumption
<1>7. kept[d].chain = c.chain /\ kept[d].floor = c.floor /\ kept[d].outcome = c.outcome
    BY <1>5, <1>6 DEF Recorded
<1>8. ASSUME ~forgot
      PROVE  /\ durable' = proc[p].units
             /\ reached'.chain = c.chain /\ reached'.floor = c.floor
             /\ sealed' => c.outcome = "quiesce_unwritable"
  <2>1. KnowsOK(proc[p], c, durable, reached, sealed)
      BY <1>1, <1>2, <1>8, Facts
  <2>2. /\ c.chain \in Nat /\ c.floor \in Nat /\ reached.chain \in Nat /\ reached.floor \in Nat
        /\ sealed \in BOOLEAN
      BY <1>1, Typed, FacetsTyped
  <2>3. durable \subseteq proc[p].units
      BY <2>1 DEF KnowsOK
  <2>4. c.chain >= reached.chain /\ c.floor >= reached.floor
      BY <2>1 DEF KnowsOK
  <2>5. sealed => c.outcome = "quiesce_unwritable"
      BY <2>1 DEF KnowsOK
  <2> HIDE DEF c
  <2>6. reached'.chain = c.chain /\ reached'.floor = c.floor
      BY <1>3, <2>2, <2>4
  <2>7. sealed' => c.outcome = "quiesce_unwritable"
      BY <1>2, <2>2, <2>5
  <2> QED BY <1>2, <2>3, <2>6, <2>7
<1>9. c.chain \in Nat /\ c.floor \in Nat
    BY <1>1, Typed
<1>10. SlotOK("committed")'
  <2>1. Whole(dirs[d])
      BY <1>1, <1>5, Facts DEF SlotOK
  <2>2. ~forgot => Holds(dirs[d], kept[d], durable', reached', sealed')
      BY <1>6, <1>7, <1>8, <1>9 DEF Holds
  <2> QED BY <1>2, <2>1, <2>2 DEF SlotOK
<1>11. SlotOK("prev")'
    BY <1>2, <1>5 DEF SlotOK
<1>12. /\ SlotsOK(slot', proc'[p], pubs') /\ FreshOK(dirs', proc'[p], pubs')
       /\ StageOK(dirs', kept', slot', proc'[p], context'[p])
    BY <1>1, <1>2, <1>4, Facts, RestsOK
<1>13. ~forgot => KnowsOK(proc'[p], c, durable', reached', sealed')
    BY <1>4, <1>8, <1>9 DEF KnowsOK
<1>14. ReportedOK'
  <2>1. durable' # {}
      BY <1>1, <1>2, Facts
  <2> QED BY <1>1, <1>2, <1>5, <2>1, Facts DEF ReportedOK
<1> QED BY <1>1, <1>2, <1>4, <1>10, <1>11, <1>12, <1>13, <1>14, Facts, Gathered

LEMMA PublishFailsKeeps ==
    ASSUME NEW p, Proc = {p}, IInv, TInv', PublishFails(p)
    PROVE  IInv'
<1>1. p \in Proc /\ TInv
    BY Facts
<1>2. /\ UNCHANGED <<dirs, slot, pubs, durable, forgot>>
      /\ UNCHANGED <<context, kept, reached, sealed, completed>>
      /\ proc[p].pc \notin {"down", "up"}
    BY DEF PublishFails, Error
<1>3. PICK pc \in {"up", "quiesce"} : Goto(p, pc)
    BY DEF PublishFails, Error
<1>4. /\ proc'[p].pc \in {"up", "quiesce"} /\ proc'[p].units = proc[p].units
      /\ proc'[p].pub = proc[p].pub
    BY <1>1, <1>3, GotoIs
<1>5. SlotOK("committed")' /\ SlotOK("prev")'
    BY <1>1, <1>2, Facts, StillKept, SlotKept
<1>6. /\ SlotsOK(slot', proc'[p], pubs') /\ FreshOK(dirs', proc'[p], pubs')
      /\ StageOK(dirs', kept', slot', proc'[p], context'[p])
    BY <1>1, <1>2, <1>4, Facts, RestsOK
<1>7. proc'[p].pc = "up" => op'[p] = "none"
    BY <1>1, FacetsTyped DEF PublishFails
<1>8. ~forgot => KnowsOK(proc'[p], context[p], durable, reached, sealed)
    BY <1>1, <1>2, <1>4, Facts DEF KnowsOK
<1>9. ReportedOK'
    BY <1>1, <1>2, Facts, ReportedKept
<1> QED BY <1>1, <1>2, <1>4, <1>5, <1>6, <1>7, <1>8, <1>9, Facts, Gathered

LEMMA EndKeeps ==
    ASSUME NEW p, Proc = {p}, IInv, TInv', End(p)
    PROVE  IInv'
<1>1. p \in Proc /\ TInv
    BY Facts
<1>2. /\ UNCHANGED <<dirs, slot, pubs, durable, forgot>>
      /\ UNCHANGED <<kept, reached, sealed, completed>> /\ Crash(p)
      /\ context'[p] = NewContext
    BY <1>1, Typed DEF End, Crash
<1>3. proc'[p].pc = "down" /\ proc'[p].pub = 0
    BY <1>1, <1>2, CrashIs
<1>4. SlotOK("committed")' /\ SlotOK("prev")'
    BY <1>1, <1>2, Facts, StillKept, SlotKept
<1>5. /\ SlotsOK(slot', proc'[p], pubs') /\ FreshOK(dirs', proc'[p], pubs')
      /\ StageOK(dirs', kept', slot', proc'[p], context'[p])
    BY <1>1, <1>2, <1>3, Facts, RestsOK
<1>6. RefusalOK(context'[p])
    BY <1>2 DEF RefusalOK, NewContext
<1>7. ReportedOK'
    BY <1>1, <1>2, Facts, ReportedKept
<1> QED BY <1>3, <1>4, <1>5, <1>6, <1>7, Gathered

\* The manifest of the committed directory is rewritten, or not: its floor and its outcome
\* are those the process knows.
LEMMA RecordRefusalKeeps ==
    ASSUME NEW p, Proc = {p}, IInv, TInv', RecordRefusal(p)
    PROVE  IInv'
<1> DEFINE d == slot["committed"]
           v == [by |-> proc[p].pub, units |-> proc[p].units]
<1>1. p \in Proc /\ TInv
    BY Facts
<1>2. /\ UNCHANGED <<slot, pubs, durable, forgot>>
      /\ UNCHANGED <<context, reached, sealed, completed>>
      /\ proc[p].pc = "rewrite" /\ Goto(p, "up") /\ Files(p) /\ op'[p] = "none"
    BY <1>1, FacetsTyped DEF RecordRefusal, RewriteManifest
<1>3. /\ proc'[p].pc = "up" /\ proc'[p].units = proc[p].units
      /\ proc'[p].pub = proc[p].pub
    BY <1>1, <1>2, GotoIs
<1>4. proc[p].dir = d /\ (d # None => dirs[d].manifest = None)
    BY <1>1, <1>2, Facts DEF StageOK
<1>5. ASSUME NEW x \in Dir
      PROVE  /\ x # d => dirs'[x] = dirs[x]
             /\ x = d => \/ dirs'[x] = dirs[x]
                         \/ dirs'[x] = [dirs[x] EXCEPT !.manifest = v]
    BY <1>4 DEF RecordRefusal, RewriteManifest
<1>6. \A x \in Dir : x # d => Kept(x)
    BY <1>1, <1>2, <1>5, FilesKeep
<1>7. SlotOK("prev")'
  <2>1. slot["prev"] # None => Kept(slot["prev"])
      BY <1>1, <1>6, Facts DEF SlotsOK
  <2> QED BY <1>1, <1>2, <2>1, Facts, SlotKept
<1>8. SlotOK("committed")'
  <2>1. CASE d = None
      BY <1>2, <2>1 DEF SlotOK
  <2>2. CASE d # None
    <3>1. d \in Dir /\ dirs[d].manifest = None
        BY <1>1, <1>4, <2>2, Facts
    <3>2. /\ Whole(dirs[d]) /\ (~forgot => Holds(dirs[d], kept[d], durable, reached, sealed))
        BY <1>1, <2>2, Facts DEF SlotOK
    <3>3. CASE dirs'[d] = dirs[d]
      <4>1. Kept(d)
          BY <1>1, <1>2, <3>1, <3>3, FilesKeep
      <4> QED BY <1>1, <1>2, <4>1, Facts, SlotKept
    <3>4. CASE dirs'[d] = [dirs[d] EXCEPT !.manifest = v]
      <4>1. dirs[d] \in Directory
          BY <1>1, <3>1, Typed
      <4>2. /\ dirs'[d].spine = dirs[d].spine /\ dirs'[d].vault = dirs[d].vault
            /\ dirs'[d].manifest = v
          BY <3>4, <4>1 DEF Directory
      <4>3. v # None
        <5>1. proc[p].pub # 0
            BY <1>1, <1>2, FacetsTyped DEF SizedAt
        <5>2. v \in Artifact
            BY <1>1, <5>1, Typed DEF Artifact
        <5> QED BY <5>2, NoneAssumption
      <4> HIDE DEF v
      <4>4. /\ kept'[d].chain = kept[d].chain
            /\ kept'[d].floor = context[p].floor /\ kept'[d].outcome = context[p].outcome
        <5>1. dirs[d].spine # None
            BY <3>2 DEF Whole
        <5>2. d \in Dir
            BY <3>1
        <5> QED BY <1>2, <3>1, <4>2, <4>3, <5>1, <5>2 DEF Files
      <4>5. Whole(dirs'[d])
          BY <3>2, <4>2 DEF Whole
      <4>6. ~forgot => Holds(dirs'[d], kept'[d], durable, reached, sealed)
        <5>1. ~forgot => KnowsOK(proc[p], context[p], durable, reached, sealed)
            BY <1>1, <1>2, Facts
        <5> QED BY <3>2, <4>2, <4>4, <5>1 DEF Holds, KnowsOK
      <4> QED BY <1>2, <4>5, <4>6 DEF SlotOK
    <3> QED BY <1>5, <3>1, <3>3, <3>4
  <2> QED BY <2>1, <2>2
<1>9. SlotsOK(slot', proc'[p], pubs')
    BY <1>1, <1>2, <1>3, Facts DEF SlotsOK
<1>10. FreshOK(dirs', proc'[p], pubs')
  <2>1. ASSUME NEW x \in Dir, x > pubs
        PROVE  x # d
    <3>1. d # None => d <= pubs
        BY <1>1, Facts DEF SlotsOK
    <3> QED BY <1>1, <2>1, <3>1, Facts, NoneAssumption DEF Dir
  <2> QED BY <1>1, <1>2, <1>3, <1>5, <2>1, Facts DEF FreshOK
<1>11. StageOK(dirs', kept', slot', proc'[p], context'[p])
    BY <1>3 DEF StageOK
<1>12. ~forgot => KnowsOK(proc'[p], context[p], durable, reached, sealed)
    BY <1>1, <1>2, <1>3, Facts DEF KnowsOK
<1>13. ReportedOK'
    BY <1>1, <1>2, Facts, ReportedKept
<1> QED BY <1>1, <1>2, <1>3, <1>7, <1>8, <1>9, <1>10, <1>11, <1>12, <1>13, Facts, Gathered

----------------------------------------------------------------------------
(* The steps of a publication.                                             *)

LEMMA StepFrame ==
    ASSUME NEW p, Proc = {p}, IInv, PublishStep(p)
    PROVE  /\ p \in Proc /\ TInv /\ Files(p)
           /\ UNCHANGED <<context, op, fallback, reached, sealed, completed>>
           /\ UNCHANGED <<pubs, durable, forgot, crashes>>
           /\ proc'[p].pub = proc[p].pub /\ proc'[p].units = proc[p].units
           /\ proc[p].pc \notin {"down", "up"} /\ proc'[p].pc \notin {"down", "up"}
<1>1. p \in Proc /\ TInv
    BY Facts
<1>2. /\ proc'[p].pub = proc[p].pub /\ proc'[p].units = proc[p].units
      /\ proc[p].pc \notin {"down", "up"} /\ proc'[p].pc \notin {"down", "up"}
    BY <1>1, StepIs DEF PublishStep
<1>3. UNCHANGED <<pubs, durable, forgot, crashes>>
    BY DEF PublishStep, ClearStage, OpenStage, WriteSpine, WriteVault, WriteManifest, Write,
           DropPrevious, SetAside, Swap, Cleanup, TruncateManifest
<1> QED BY <1>1, <1>2, <1>3 DEF PublishStep

\* What is left to show of a step: the directories and where the publication stands.
LEMMA StepGathered ==
    ASSUME NEW p, Proc = {p}, IInv, TInv', PublishStep(p),
           proc[p].pc \notin {"quiesce", "rewrite"} \/ proc'[p].pc = "rewrite",
           SlotOK("committed")', SlotOK("prev")',
           slot'["committed"] # None \/ slot'["prev"] # None
               \/ (slot["committed"] = None /\ slot["prev"] = None),
           SlotsOK(slot', proc'[p], pubs'), FreshOK(dirs', proc'[p], pubs'),
           StageOK(dirs', kept', slot', proc'[p], context'[p])
    PROVE  IInv'
<1>1. /\ p \in Proc /\ TInv
      /\ UNCHANGED <<context, op, fallback, reached, sealed, completed>>
      /\ UNCHANGED <<pubs, durable, forgot, crashes>>
      /\ proc'[p].pub = proc[p].pub /\ proc'[p].units = proc[p].units
      /\ proc[p].pc \notin {"down", "up"} /\ proc'[p].pc \notin {"down", "up"}
    BY StepFrame
<1>2. /\ RefusalOK(context'[p])
      /\ proc'[p].pc \notin {"down", "up", "quiesce", "rewrite"} => proc'[p].units # {}
    BY <1>1, Facts
<1>3. ~forgot' => KnowsOK(proc'[p], context'[p], durable', reached', sealed')
    BY <1>1, Facts DEF KnowsOK
<1>4. ReportedOK'
    BY <1>1, Facts, ReportedKept
<1> QED BY <1>1, <1>2, <1>3, <1>4, Gathered

\* A complete directory stays complete as the publication goes on.
LEMMA StagedSame ==
    ASSUME NEW x, NEW r, NEW q, Staged(x, r), q.pub = r.pub, q.units = r.units,
           {r.pc, q.pc} \subseteq {"drop", "aside", "swap", "cleanup", "index"}
    PROVE  Staged(x, q)
BY DEF Staged

LEMMA ClearStageKeeps ==
    ASSUME NEW p, Proc = {p}, IInv, TInv', PublishStep(p), ClearStage(p)
    PROVE  IInv'
<1>1. /\ p \in Proc /\ TInv /\ Files(p) /\ proc'[p].pub = proc[p].pub
      /\ UNCHANGED <<reached, sealed, pubs, durable, forgot>>
    BY StepFrame
<1>2. /\ dirs' = Removed("stage") /\ proc[p].pc = "clear" /\ proc'[p].pc = "open"
    BY <1>1, GotoIs DEF ClearStage
<1>3. /\ slot'["committed"] = slot["committed"] /\ slot'["prev"] = slot["prev"]
      /\ slot'["stage"] = None
    BY <1>1, Typed DEF ClearStage, Slot
<1>4. \A d \in Dir : d # slot["stage"] => Kept(d)
    BY <1>1, <1>2, RemovedFrame, FilesKeep
<1>5. /\ slot["committed"] # None => Kept(slot["committed"])
      /\ slot["prev"] # None => Kept(slot["prev"])
    BY <1>1, <1>4, Facts DEF SlotsOK
<1>6. SlotOK("committed")' /\ SlotOK("prev")'
    BY <1>1, <1>3, <1>5, Facts, SlotKept
<1>7. pubs # None
  <2>1. proc[p].pub = pubs /\ pubs # 0 /\ proc[p].pub \in 0..MaxPub
      BY <1>1, <1>2, Facts, FacetsTyped, Typed DEF SizedAt, SlotsOK
  <2>2. pubs \in Dir
      BY <2>1, PublishAssumption DEF Dir
  <2> QED BY <2>2, NoneAssumption
<1>8. SlotsOK(slot', proc'[p], pubs')
    BY <1>1, <1>2, <1>3, <1>7, Facts DEF SlotsOK
<1>9. FreshOK(dirs', proc'[p], pubs')
    BY <1>1, <1>2, Facts, RemovedFrame DEF FreshOK
<1>10. StageOK(dirs', kept', slot', proc'[p], context'[p])
    BY <1>2 DEF StageOK
<1> QED BY <1>2, <1>3, <1>6, <1>8, <1>9, <1>10, StepGathered

\* The staging directory is made anew, and is empty.
LEMMA OpenStageKeeps ==
    ASSUME NEW p, Proc = {p}, IInv, TInv', PublishStep(p), OpenStage(p)
    PROVE  IInv'
<1>1. /\ p \in Proc /\ TInv /\ Files(p) /\ proc'[p].pub = proc[p].pub
      /\ UNCHANGED <<reached, sealed, pubs, durable, forgot, context>>
    BY StepFrame
<1>2. proc[p].pc = "open" /\ slot["stage"] = None /\ proc[p].pub = pubs /\ pubs # 0
    BY <1>1, Facts, FacetsTyped DEF OpenStage, SizedAt, SlotsOK
<1>3. pubs \in Dir /\ pubs # None
  <2>1. pubs \in Dir
      BY <1>1, <1>2, Typed, PublishAssumption DEF Dir
  <2> QED BY <2>1, NoneAssumption
<1>4. dirs[pubs] = Empty
    BY <1>1, <1>2, <1>3, Facts DEF FreshOK
<1>5. /\ dirs' = [dirs EXCEPT ![pubs].linked = TRUE]
      /\ slot' = [slot EXCEPT !["stage"] = pubs]
      /\ proc' = [proc EXCEPT ![p].pc = "spine", ![p].dir = pubs]
    BY <1>2 DEF OpenStage
<1>6. proc'[p].pc = "spine" /\ proc'[p].dir = pubs
    BY <1>1, <1>5, Typed DEF Process
<1>7. /\ slot'["committed"] = slot["committed"] /\ slot'["prev"] = slot["prev"]
      /\ slot'["stage"] = pubs
    BY <1>1, <1>5, Typed DEF Slot
<1>8. \A d \in Dir : d # pubs => dirs'[d] = dirs[d]
    BY <1>1, <1>5, Typed
<1>9. dirs'[pubs].spine = None /\ dirs'[pubs].vault = None /\ dirs'[pubs].manifest = None
    BY <1>1, <1>3, <1>4, <1>5, Typed DEF Empty
<1>10. slot["committed"] # pubs /\ slot["prev"] # pubs
    BY <1>1, <1>2, Facts DEF SlotsOK
<1>11. /\ slot["committed"] # None => Kept(slot["committed"])
       /\ slot["prev"] # None => Kept(slot["prev"])
    BY <1>1, <1>8, <1>10, Facts, FilesKeep
<1>12. SlotOK("committed")' /\ SlotOK("prev")'
    BY <1>1, <1>7, <1>11, Facts, SlotKept
<1>13. SlotsOK(slot', proc'[p], pubs')
  <2>1. \A n \in {"committed", "prev"} : slot[n] # None => slot[n] <= pubs
      BY <1>1, Facts DEF SlotsOK
  <2>2. pubs <= pubs
      BY <1>1, Facts
  <2>3. slot["committed"] # None => slot["committed"] # slot["prev"]
      BY <1>1, Facts DEF SlotsOK
  <2> QED BY <1>1, <1>2, <1>6, <1>7, <1>10, <2>1, <2>2, <2>3 DEF SlotsOK
<1>14. FreshOK(dirs', proc'[p], pubs')
  <2>1. ASSUME NEW d \in Dir, d > pubs
        PROVE  dirs'[d] = Empty
    <3>1. d # pubs
        BY <1>1, <2>1, Facts DEF Dir
    <3> QED BY <1>1, <1>8, <2>1, <3>1, Facts DEF FreshOK
  <2> QED BY <1>1, <1>6, <2>1 DEF FreshOK
<1>15. StageOK(dirs', kept', slot', proc'[p], context'[p])
    BY <1>3, <1>6, <1>7, <1>9 DEF StageOK, Staged, Recorded
<1> QED BY <1>2, <1>6, <1>7, <1>12, <1>13, <1>14, <1>15, StepGathered

\* One artifact is written into the staging directory, and with it what it records.
LEMMA WriteStages ==
    ASSUME NEW p, Proc = {p}, IInv, TInv', PublishStep(p),
           NEW a \in {"spine", "vault", "manifest"}, NEW next \in {"vault", "manifest", "drop"},
           a = "spine" => next = "vault", a = "vault" => next = "manifest",
           a = "manifest" => next = "drop", Write(p, a, next)
    PROVE  IInv'
<1> DEFINE d == slot["stage"]
           v == [by |-> proc[p].pub, units |-> proc[p].units]
<1>1. /\ p \in Proc /\ TInv /\ Files(p) /\ proc'[p].pub = proc[p].pub
      /\ proc'[p].units = proc[p].units
      /\ UNCHANGED <<reached, sealed, pubs, durable, forgot, context>>
    BY StepFrame
<1>2. proc[p].pc = a /\ Goto(p, next) /\ UNCHANGED slot /\ next \in Pc
    BY DEF Write, Pc
<1>3. proc'[p].pc = next /\ proc'[p].dir = proc[p].dir
    BY <1>1, <1>2, GotoIs
<1>4. /\ d # None /\ proc[p].dir = d /\ Staged(dirs[d], proc[p])
      /\ Recorded(dirs[d], kept[d], context[p])
    BY <1>1, <1>2, Facts DEF StageOK
<1>5. /\ d \in Dir /\ dirs[d] \in Directory /\ v \in Artifact
      /\ dirs' = [dirs EXCEPT ![d] = [dirs[d] EXCEPT ![a] = v]]
    BY <1>1, <1>2, <1>4, WriteIs
<1>6. v # None
    BY <1>5, NoneAssumption
<1>7. dirs'[d] = [dirs[d] EXCEPT ![a] = v] /\ \A x \in Dir : x # d => dirs'[x] = dirs[x]
    BY <1>1, <1>5, Typed
<1>8. /\ dirs[d].spine = IF a = "spine" THEN None ELSE v
      /\ dirs[d].vault = IF a \in {"spine", "vault"} THEN None ELSE v
      /\ dirs[d].manifest = None
    BY <1>2, <1>4 DEF Staged
<1> HIDE DEF d, v
<1>9. /\ dirs'[d].spine = v
      /\ dirs'[d].vault = IF a = "spine" THEN None ELSE v
      /\ dirs'[d].manifest = IF a = "manifest" THEN v ELSE None
  <2>1. CASE a = "spine"
      BY <1>5, <1>7, <1>8, <2>1 DEF Directory
  <2>2. CASE a = "vault"
      BY <1>5, <1>7, <1>8, <2>2 DEF Directory
  <2>3. CASE a = "manifest"
      BY <1>5, <1>7, <1>8, <2>3 DEF Directory
  <2> QED BY <2>1, <2>2, <2>3
<1>10. Staged(dirs'[d], proc'[p])
    BY <1>1, <1>3, <1>9 DEF Staged, v
<1>11. Recorded(dirs'[d], kept'[d], context'[p])
  <2>1. /\ kept'[d].chain = IF dirs'[d].spine = None THEN 0
               ELSE IF dirs'[d].spine = dirs[d].spine THEN kept[d].chain ELSE context[p].chain
        /\ kept'[d].floor = IF dirs'[d].manifest = None THEN 0
               ELSE IF dirs'[d].manifest = dirs[d].manifest THEN kept[d].floor ELSE context[p].floor
        /\ kept'[d].outcome = IF dirs'[d].manifest = None THEN "none"
               ELSE IF dirs'[d].manifest = dirs[d].manifest THEN kept[d].outcome
               ELSE context[p].outcome
      BY <1>1, <1>5 DEF Files
  <2>2. kept'[d].chain = context[p].chain
      BY <1>4, <1>6, <1>8, <1>9, <2>1 DEF Recorded
  <2>3. dirs'[d].manifest # None => /\ kept'[d].floor = context[p].floor
                                    /\ kept'[d].outcome = context[p].outcome
      BY <1>8, <2>1
  <2> QED BY <1>1, <2>2, <2>3 DEF Recorded
<1>12. \A x \in Dir : x # d => Kept(x)
    BY <1>1, <1>7, FilesKeep
<1>13. /\ slot["committed"] # None => Kept(slot["committed"])
       /\ slot["prev"] # None => Kept(slot["prev"])
    BY <1>1, <1>4, <1>12, Facts DEF SlotsOK, d
<1>14. SlotOK("committed")' /\ SlotOK("prev")'
    BY <1>1, <1>2, <1>13, Facts, SlotKept
<1>15. SlotsOK(slot', proc'[p], pubs')
    BY <1>1, <1>2, <1>3, Facts DEF SlotsOK
<1>16. FreshOK(dirs', proc'[p], pubs')
  <2>1. ASSUME NEW x \in Dir, x > pubs
        PROVE  x # d
    <3>1. d <= pubs
        BY <1>1, <1>4, Facts DEF SlotsOK, d
    <3> QED BY <1>1, <1>5, <2>1, <3>1, Facts DEF Dir
  <2> QED BY <1>1, <1>2, <1>3, <1>7, <2>1, Facts DEF FreshOK
<1>17. StageOK(dirs', kept', slot', proc'[p], context'[p])
    BY <1>2, <1>3, <1>4, <1>10, <1>11 DEF StageOK, d
<1> QED BY <1>2, <1>14, <1>15, <1>16, <1>17, StepGathered

LEMMA DropPreviousKeeps ==
    ASSUME NEW p, Proc = {p}, IInv, TInv', PublishStep(p), DropPrevious(p)
    PROVE  IInv'
<1> DEFINE d == slot["stage"]
<1>1. /\ p \in Proc /\ TInv /\ Files(p) /\ proc'[p].pub = proc[p].pub
      /\ proc'[p].units = proc[p].units
      /\ UNCHANGED <<reached, sealed, pubs, durable, forgot, context>>
    BY StepFrame
<1>2. proc[p].pc = "drop"
    BY DEF DropPrevious
<1>3. /\ d # None /\ d \in Dir /\ proc[p].dir = d /\ Staged(dirs[d], proc[p])
      /\ Recorded(dirs[d], kept[d], context[p])
    BY <1>1, <1>2, Facts DEF StageOK
<1>4. CASE slot["committed"] = None
  <2>1. UNCHANGED <<dirs, slot>> /\ Goto(p, "swap")
      BY <1>4 DEF DropPrevious
  <2>2. proc'[p].pc = "swap" /\ proc'[p].dir = proc[p].dir
      BY <1>1, <2>1, GotoIs
  <2>3. \A x \in Dir : Kept(x)
      BY <1>1, <2>1, FilesKeep
  <2>4. SlotOK("committed")' /\ SlotOK("prev")'
      BY <1>1, <2>1, <2>3, Facts, SlotKept
  <2>5. SlotsOK(slot', proc'[p], pubs') /\ FreshOK(dirs', proc'[p], pubs')
      BY <1>1, <2>1, <2>2, Facts DEF SlotsOK, FreshOK
  <2>6. Staged(dirs'[d], proc'[p]) /\ Recorded(dirs'[d], kept'[d], context'[p])
    <3>1. Staged(dirs[d], proc'[p])
        BY <1>1, <1>2, <1>3, <2>2, StagedSame
    <3> QED BY <1>1, <1>3, <2>3, <3>1, KeptIsSame
  <2>7. StageOK(dirs', kept', slot', proc'[p], context'[p])
      BY <1>3, <1>4, <2>1, <2>2, <2>6 DEF StageOK
  <2> QED BY <1>2, <2>1, <2>4, <2>5, <2>7, StepGathered
<1>5. CASE slot["committed"] # None
  <2>1. dirs' = Removed("prev") /\ slot' = [slot EXCEPT !["prev"] = None] /\ Goto(p, "aside")
      BY <1>5 DEF DropPrevious
  <2>2. proc'[p].pc = "aside" /\ proc'[p].dir = proc[p].dir
      BY <1>1, <2>1, GotoIs
  <2>3. /\ slot'["committed"] = slot["committed"] /\ slot'["stage"] = slot["stage"]
        /\ slot'["prev"] = None
      BY <1>1, <2>1, Typed DEF Slot
  <2>4. \A x \in Dir : x # slot["prev"] => Kept(x)
      BY <1>1, <2>1, RemovedFrame, FilesKeep
  <2>5. Kept(slot["committed"]) /\ Kept(d)
      BY <1>1, <1>3, <1>5, <2>4, Facts DEF SlotsOK
  <2>6. SlotOK("committed")' /\ SlotOK("prev")'
    <3>1. SlotOK("committed")'
        BY <1>1, <2>3, <2>5, Facts, SlotKept
    <3> QED BY <2>3, <3>1 DEF SlotOK
  <2>7. SlotsOK(slot', proc'[p], pubs')
      BY <1>1, <1>3, <1>5, <2>2, <2>3, Facts DEF SlotsOK
  <2>8. FreshOK(dirs', proc'[p], pubs')
      BY <1>1, <2>1, <2>2, Facts, RemovedFrame DEF FreshOK
  <2>9. Staged(dirs'[d], proc'[p]) /\ Recorded(dirs'[d], kept'[d], context'[p])
    <3>1. Staged(dirs[d], proc'[p])
        BY <1>1, <1>2, <1>3, <2>2, StagedSame
    <3> QED BY <1>1, <1>3, <2>5, <3>1, KeptIsSame
  <2>10. StageOK(dirs', kept', slot', proc'[p], context'[p])
      BY <1>3, <1>5, <2>2, <2>3, <2>9 DEF StageOK
  <2> QED BY <1>2, <1>5, <2>3, <2>6, <2>7, <2>8, <2>10, StepGathered
<1> QED BY <1>4, <1>5

\* The committed directory takes the name .prev with all it holds.
LEMMA SetAsideKeeps ==
    ASSUME NEW p, Proc = {p}, IInv, TInv', PublishStep(p), SetAside(p)
    PROVE  IInv'
<1> DEFINE d == slot["stage"]
<1>1. /\ p \in Proc /\ TInv /\ Files(p) /\ proc'[p].pub = proc[p].pub
      /\ proc'[p].units = proc[p].units
      /\ UNCHANGED <<reached, sealed, pubs, durable, forgot, context>>
    BY StepFrame
<1>2. /\ proc[p].pc = "aside" /\ slot["committed"] # None /\ UNCHANGED dirs /\ Goto(p, "swap")
      /\ slot' = [slot EXCEPT !["prev"] = slot["committed"], !["committed"] = None]
    BY DEF SetAside
<1>3. /\ d # None /\ d \in Dir /\ proc[p].dir = d /\ Staged(dirs[d], proc[p])
      /\ Recorded(dirs[d], kept[d], context[p])
    BY <1>1, <1>2, Facts DEF StageOK
<1>4. proc'[p].pc = "swap" /\ proc'[p].dir = proc[p].dir
    BY <1>1, <1>2, GotoIs
<1>5. /\ slot'["prev"] = slot["committed"] /\ slot'["committed"] = None
      /\ slot'["stage"] = slot["stage"]
    BY <1>1, <1>2, Typed DEF Slot
<1>6. \A x \in Dir : Kept(x)
    BY <1>1, <1>2, FilesKeep
<1>7. SlotOK("prev")'
    BY <1>1, <1>5, <1>6, Facts, SlotKept
<1>8. SlotOK("committed")'
    BY <1>5 DEF SlotOK
<1>9. SlotsOK(slot', proc'[p], pubs') /\ FreshOK(dirs', proc'[p], pubs')
    BY <1>1, <1>2, <1>3, <1>4, <1>5, Facts DEF SlotsOK, FreshOK
<1>10. Staged(dirs'[d], proc'[p]) /\ Recorded(dirs'[d], kept'[d], context'[p])
  <2>1. Staged(dirs[d], proc'[p])
      BY <1>1, <1>2, <1>3, <1>4, StagedSame
  <2> QED BY <1>1, <1>3, <1>6, <2>1, KeptIsSame
<1>11. StageOK(dirs', kept', slot', proc'[p], context'[p])
    BY <1>3, <1>4, <1>5, <1>10 DEF StageOK
<1> QED BY <1>2, <1>5, <1>7, <1>8, <1>9, <1>11, StepGathered

\* The staging directory takes the committed name: it is whole and holds what was reported,
\* because the process that wrote it knew that much.
LEMMA SwapKeeps ==
    ASSUME NEW p, Proc = {p}, IInv, TInv', PublishStep(p), Swap(p)
    PROVE  IInv'
<1> DEFINE d == slot["stage"]
           v == [by |-> proc[p].pub, units |-> proc[p].units]
<1>1. /\ p \in Proc /\ TInv /\ Files(p) /\ proc'[p].pub = proc[p].pub
      /\ proc'[p].units = proc[p].units
      /\ UNCHANGED <<reached, sealed, pubs, durable, forgot, context>>
    BY StepFrame
<1>2. /\ proc[p].pc = "swap" /\ slot["committed"] = None /\ UNCHANGED dirs /\ Goto(p, "cleanup")
      /\ slot' = [slot EXCEPT !["committed"] = slot["stage"], !["stage"] = None]
    BY DEF Swap
<1>3. /\ d # None /\ d \in Dir /\ Staged(dirs[d], proc[p])
      /\ Recorded(dirs[d], kept[d], context[p])
    BY <1>1, <1>2, Facts DEF StageOK
<1>4. proc'[p].pc = "cleanup"
    BY <1>1, <1>2, GotoIs
<1>5. /\ slot'["committed"] = d /\ slot'["stage"] = None /\ slot'["prev"] = slot["prev"]
    BY <1>1, <1>2, Typed DEF Slot
<1>6. \A x \in Dir : Kept(x)
    BY <1>1, <1>2, FilesKeep
<1>7. SlotOK("prev")'
    BY <1>1, <1>5, <1>6, Facts, SlotKept
<1>8. dirs[d].spine = v /\ dirs[d].vault = v /\ dirs[d].manifest = v
    BY <1>2, <1>3 DEF Staged
<1>9. v # None
  <2>1. proc[p].pub # 0
      BY <1>1, <1>2, FacetsTyped DEF SizedAt
  <2>2. v \in Artifact
      BY <1>1, <2>1, Typed DEF Artifact
  <2> QED BY <2>2, NoneAssumption
<1>10. Staged(dirs'[d], proc'[p]) /\ Recorded(dirs'[d], kept'[d], context'[p])
  <2>1. Staged(dirs[d], proc'[p])
      BY <1>1, <1>2, <1>3, <1>4, StagedSame
  <2> QED BY <1>1, <1>3, <1>6, <2>1, KeptIsSame
<1>11. SlotOK("committed")'
  <2>1. Whole(dirs[d])
      BY <1>8, <1>9 DEF Whole
  <2>2. ASSUME ~forgot
        PROVE  Holds(dirs[d], kept[d], durable, reached, sealed)
    <3>1. KnowsOK(proc[p], context[p], durable, reached, sealed)
        BY <1>1, <1>2, <2>2, Facts
    <3>2. dirs[d].spine.units = proc[p].units
        BY <1>8
    <3>3. /\ kept[d].chain = context[p].chain /\ kept[d].floor = context[p].floor
          /\ kept[d].outcome = context[p].outcome
        BY <1>3, <1>8, <1>9 DEF Recorded
    <3> QED BY <3>1, <3>2, <3>3 DEF Holds, KnowsOK
  <2>3. Whole(dirs'[d]) /\ (~forgot => Holds(dirs'[d], kept'[d], durable, reached, sealed))
      BY <1>3, <1>6, <2>1, <2>2, KeptIsSame
  <2> QED BY <1>1, <1>5, <2>3 DEF SlotOK
<1>12. SlotsOK(slot', proc'[p], pubs') /\ FreshOK(dirs', proc'[p], pubs')
    BY <1>1, <1>2, <1>3, <1>4, <1>5, Facts DEF SlotsOK, FreshOK
<1>13. StageOK(dirs', kept', slot', proc'[p], context'[p])
    BY <1>3, <1>4, <1>5, <1>10 DEF StageOK
<1> QED BY <1>2, <1>3, <1>5, <1>7, <1>11, <1>12, <1>13, StepGathered

LEMMA CleanupKeeps ==
    ASSUME NEW p, Proc = {p}, IInv, TInv', PublishStep(p), Cleanup(p)
    PROVE  IInv'
<1> DEFINE d == slot["committed"]
<1>1. /\ p \in Proc /\ TInv /\ Files(p) /\ proc'[p].pub = proc[p].pub
      /\ proc'[p].units = proc[p].units
      /\ UNCHANGED <<reached, sealed, pubs, durable, forgot, context>>
    BY StepFrame
<1>2. /\ proc[p].pc = "cleanup" /\ dirs' = Removed("prev") /\ Goto(p, "index")
      /\ slot' = [slot EXCEPT !["prev"] = None]
    BY DEF Cleanup
<1>3. /\ d # None /\ d \in Dir /\ Staged(dirs[d], proc[p])
      /\ Recorded(dirs[d], kept[d], context[p])
    BY <1>1, <1>2, Facts DEF StageOK
<1>4. proc'[p].pc = "index"
    BY <1>1, <1>2, GotoIs
<1>5. /\ slot'["committed"] = d /\ slot'["stage"] = slot["stage"] /\ slot'["prev"] = None
    BY <1>1, <1>2, Typed DEF Slot
<1>6. Kept(d)
  <2>1. d # slot["prev"]
      BY <1>1, <1>3, Facts DEF SlotsOK
  <2> QED BY <1>1, <1>2, <1>3, <2>1, RemovedFrame, FilesKeep
<1>7. SlotOK("committed")' /\ SlotOK("prev")'
  <2>1. SlotOK("committed")'
      BY <1>1, <1>5, <1>6, Facts, SlotKept
  <2> QED BY <1>5, <2>1 DEF SlotOK
<1>8. SlotsOK(slot', proc'[p], pubs')
    BY <1>1, <1>2, <1>3, <1>4, <1>5, Facts DEF SlotsOK
<1>9. FreshOK(dirs', proc'[p], pubs')
    BY <1>1, <1>2, <1>4, Facts, RemovedFrame DEF FreshOK
<1>10. Staged(dirs'[d], proc'[p]) /\ Recorded(dirs'[d], kept'[d], context'[p])
  <2>1. Staged(dirs[d], proc'[p])
      BY <1>1, <1>2, <1>3, <1>4, StagedSame
  <2> QED BY <1>1, <1>3, <1>6, <2>1, KeptIsSame
<1>11. StageOK(dirs', kept', slot', proc'[p], context'[p])
    BY <1>3, <1>4, <1>5, <1>10 DEF StageOK
<1> QED BY <1>2, <1>3, <1>5, <1>7, <1>8, <1>9, <1>11, StepGathered

\* The committed manifest is truncated; the directory keeps its units and its chain.
LEMMA TruncateKeeps ==
    ASSUME NEW p, Proc = {p}, IInv, TInv', PublishStep(p), TruncateManifest(p)
    PROVE  IInv'
<1> DEFINE d == slot["committed"]
<1>1. /\ p \in Proc /\ TInv /\ Files(p) /\ proc'[p].pub = proc[p].pub
      /\ UNCHANGED <<reached, sealed, pubs, durable, forgot, context>>
    BY StepFrame
<1>2. /\ proc[p].pc = "quiesce" /\ UNCHANGED slot
      /\ proc' = [proc EXCEPT ![p].pc = "rewrite", ![p].dir = d]
      /\ dirs' = [x \in Dir |-> IF x = d THEN [dirs[x] EXCEPT !.manifest = None] ELSE dirs[x]]
    BY DEF TruncateManifest
<1>3. proc'[p].pc = "rewrite" /\ proc'[p].dir = d
    BY <1>1, <1>2, Typed DEF Process
<1>4. /\ \A x \in Dir : x # d => dirs'[x] = dirs[x]
      /\ d \in Dir => dirs'[d] = [dirs[d] EXCEPT !.manifest = None]
    BY <1>2
<1>5. SlotOK("prev")'
  <2>1. slot["prev"] # None => Kept(slot["prev"])
      BY <1>1, <1>4, Facts, FilesKeep DEF SlotsOK
  <2> QED BY <1>1, <1>2, <2>1, Facts, SlotKept
<1>6. ASSUME d # None
      PROVE  /\ d \in Dir /\ dirs'[d].manifest = None
             /\ dirs'[d].spine = dirs[d].spine /\ dirs'[d].vault = dirs[d].vault
  <2>1. d \in Dir /\ dirs[d] \in Directory
      BY <1>1, <1>6, Facts, Typed
  <2> QED BY <1>4, <2>1 DEF Directory
<1>7. SlotOK("committed")'
  <2> SUFFICES ASSUME d # None
               PROVE  /\ Whole(dirs'[d])
                      /\ ~forgot => Holds(dirs'[d], kept'[d], durable, reached, sealed)
      BY <1>1, <1>2 DEF SlotOK
  <2>1. Whole(dirs[d]) /\ (~forgot => Holds(dirs[d], kept[d], durable, reached, sealed))
      BY <1>1, Facts DEF SlotOK
  <2>2. kept'[d].chain = kept[d].chain
    <3>1. dirs'[d].spine # None
        BY <1>6, <2>1 DEF Whole
    <3> QED BY <1>1, <1>6, <3>1 DEF Files
  <2> QED BY <1>6, <2>1, <2>2 DEF Whole, Holds
<1>8. SlotsOK(slot', proc'[p], pubs')
    BY <1>1, <1>2, <1>3, Facts DEF SlotsOK
<1>9. FreshOK(dirs', proc'[p], pubs')
  <2>1. ASSUME NEW x \in Dir, x > pubs
        PROVE  x # d
    <3>1. d # None => d <= pubs
        BY <1>1, Facts DEF SlotsOK
    <3> QED BY <1>1, <2>1, <3>1, Facts, NoneAssumption DEF Dir
  <2> QED BY <1>1, <1>2, <1>3, <1>4, <2>1, Facts DEF FreshOK
<1>10. StageOK(dirs', kept', slot', proc'[p], context'[p])
    BY <1>2, <1>3, <1>6 DEF StageOK
<1> QED BY <1>2, <1>3, <1>5, <1>7, <1>8, <1>9, <1>10, StepGathered

LEMMA PublishStepKeeps ==
    ASSUME NEW p, Proc = {p}, IInv, TInv', PublishStep(p)
    PROVE  IInv'
<1>1. CASE WriteSpine(p)
  <2>1. Write(p, "spine", "vault")
      BY <1>1 DEF WriteSpine
  <2> QED BY <2>1, WriteStages
<1>2. CASE WriteVault(p)
  <2>1. Write(p, "vault", "manifest")
      BY <1>2 DEF WriteVault
  <2> QED BY <2>1, WriteStages
<1>3. CASE WriteManifest(p)
  <2>1. Write(p, "manifest", "drop")
      BY <1>3 DEF WriteManifest
  <2> QED BY <2>1, WriteStages
<1> QED BY <1>1, <1>2, <1>3, ClearStageKeeps, OpenStageKeeps, DropPreviousKeeps, SetAsideKeeps,
           SwapKeeps, CleanupKeeps, TruncateKeeps DEF PublishStep

----------------------------------------------------------------------------
(* Theorems for one process at a time.                                     *)

LEMMA InitInvariant ==
    ASSUME NEW p, Proc = {p}, InitAdmission
    PROVE  IInv
<1>1. /\ TInv /\ p \in Proc
      /\ slot = [n \in {"stage", "committed", "prev"} |-> None]
      /\ dirs = [d \in Dir |-> Empty] /\ pubs = 0 /\ durable = {} /\ ~forgot
      /\ proc[p] = [pc |-> "down", units |-> {}, pub |-> 0, dir |-> None]
      /\ context[p] = NewContext
      /\ reached = [chain |-> 0, floor |-> 0] /\ ~sealed /\ completed = {}
    BY InitTypes DEF InitAdmission, Init
<1>2. slot["stage"] = None /\ slot["committed"] = None /\ slot["prev"] = None
    BY <1>1
<1>3. SlotOK("committed") /\ SlotOK("prev")
    BY <1>2 DEF SlotOK
<1>4. ReportedOK
    BY <1>1 DEF ReportedOK
<1>5. SlotsOK(slot, proc[p], pubs) /\ FreshOK(dirs, proc[p], pubs)
    BY <1>1, <1>2 DEF SlotsOK, FreshOK
<1>6. StageOK(dirs, kept, slot, proc[p], context[p])
    BY <1>1 DEF StageOK
<1>7. RefusalOK(context[p])
    BY <1>1 DEF RefusalOK, NewContext
<1>8. ProcOK(p)
    BY <1>1, <1>5, <1>6, <1>7 DEF ProcOK
<1> QED BY <1>1, <1>3, <1>4, <1>8 DEF IInv

LEMMA NextInvariant ==
    ASSUME NEW p, Proc = {p}, IInv, [NextAdmission]_allVars
    PROVE  IInv'
<1>1. TInv'
    BY NextTypes DEF IInv
<1>2. CASE UNCHANGED allVars
    BY <1>1, <1>2 DEF IInv, SlotOK, ProcOK, ReportedOK, allVars, vars, facets
<1>3. CASE NextAdmission
  <2>1. \/ Recover(p) \/ SetDigestSizeFloor(p) \/ CompactToolResult(p) \/ IngestFails(p)
        \/ ContextExchange(p) \/ FinalizeContext(p) \/ Complete(p) \/ RefuseCompletion(p)
        \/ PublishStep(p) \/ PublishSucceeds(p) \/ PublishFails(p) \/ RecordRefusal(p)
        \/ End(p)
      BY <1>3 DEF NextAdmission
  <2> QED BY <1>1, <2>1, RecoverKeeps, CallersKeep, IngestFailsKeeps, CompleteKeeps,
             RefuseCompletionKeeps, PublishStepKeeps, PublishSucceedsKeeps, PublishFailsKeeps,
             RecordRefusalKeeps, EndKeeps
<1> QED BY <1>2, <1>3

\* With one process at a time every reachable state satisfies the inductive invariant: where
\* the publication stands, what the directories hold, and what the process knows.
THEOREM Invariant == ASSUME NEW p, Proc = {p} PROVE SpecAdmission => []IInv
<1>1. InitAdmission => IInv
    BY InitInvariant
<1>2. IInv /\ [NextAdmission]_allVars => IInv'
    BY NextInvariant
<1> QED BY <1>1, <1>2, PTL DEF SpecAdmission

\* A reader never finds the spine of one publication beside the vault of another, through
\* crashes, failed renames and rewrites of the manifest (commit_generation, validate_generation).
THEOREM OneGeneration == ASSUME NEW p, Proc = {p} PROVE SpecAdmission => []NoMixedGeneration
<1>1. IInv => NoMixedGeneration
    BY DEF IInv, SlotOK, NoMixedGeneration, Published, Whole
<1> QED BY <1>1, Invariant, PTL

\* The slot that recovery turns to holds everything reported before.
LEMMA ReportedIsKept ==
    ASSUME NEW p, Proc = {p}, IInv, durable # {}, ~forgot
    PROVE  LET name == IF slot["committed"] = None \/ (~Published("committed") /\ Published("prev"))
                       THEN "prev" ELSE "committed"
           IN slot[name] # None /\ durable \subseteq UnitsOf(name)
<1>1. ASSUME NEW n \in {"committed", "prev"}, slot[n] # None
      PROVE  durable \subseteq UnitsOf(n)
  <2>1. Whole(dirs[slot[n]]) /\ Holds(dirs[slot[n]], kept[slot[n]], durable, reached, sealed)
      BY <1>1 DEF IInv, SlotOK
  <2> QED BY <2>1 DEF Whole, Holds, UnitsOf
<1>2. slot["committed"] # None \/ slot["prev"] # None
    BY DEF IInv, ReportedOK
<1> QED BY <1>1, <1>2 DEF Published

\* What a publication reported as durable stays in the slot that recovery turns to
\* (persist_context, recover_context_state).
THEOREM PublishedIsKept == ASSUME NEW p, Proc = {p} PROVE SpecAdmission => []PublishedKept
<1>1. IInv => PublishedKept
    BY ReportedIsKept DEF PublishedKept
<1> QED BY <1>1, Invariant, PTL

\* A process that has loaded the context is never behind a publication that returned success,
\* so it mints no kernel number again and lowers no floor (restore_histories).
THEOREM NeverBehind == ASSUME NEW p, Proc = {p} PROVE SpecAdmission => []NotBehind
<1>1. IInv => NotBehind
    BY DEF IInv, ProcOK, KnowsOK, NotBehind
<1> QED BY <1>1, Invariant, PTL

\* What the context held when BranchCompleted was appended stays in the generation that
\* recovery turns to (finalize, finalize_context).
THEOREM CompletionIsDurable ==
    ASSUME NEW p, Proc = {p} PROVE SpecAdmission => []CompletionDurable
<1>1. ASSUME IInv PROVE CompletionDurable
  <2>1. completed \subseteq durable
      BY <1>1 DEF IInv, ReportedOK
  <2> SUFFICES ASSUME completed # {}, ~forgot
               PROVE  LET name == IF slot["committed"] = None
                                     \/ (~Published("committed") /\ Published("prev"))
                                  THEN "prev" ELSE "committed"
                      IN slot[name] # None /\ completed \subseteq UnitsOf(name)
      BY DEF CompletionDurable
  <2>2. durable # {}
      BY <2>1
  <2> QED BY <1>1, <2>1, <2>2, ReportedIsKept
<1> QED BY <1>1, Invariant, PTL

\* After a publication that recorded a refusal no branch is completed before a bulk result is
\* admitted again, in this process or in a later one that recovers the context (wrap_up,
\* restore_terminal_outcome, complete_bulk).
THEOREM RefusalIsKept == ASSUME NEW p, Proc = {p} PROVE SpecAdmission => RefusalStands
<1>1. IInv /\ [NextAdmission]_allVars => [completed' # completed => (~sealed \/ forgot)]_allVars
  <2> SUFFICES ASSUME IInv, [NextAdmission]_allVars, completed' # completed, sealed, ~forgot
               PROVE  FALSE
      OBVIOUS
  <2>1. Complete(p)
      BY DEF NextAdmission, allVars, facets, Recover, SetDigestSizeFloor, CompactToolResult,
             IngestFails, ContextExchange, FinalizeContext, RefuseCompletion, PublishStep,
             PublishSucceeds, PublishFails, RecordRefusal, End, PublishFor
  <2>2. ProcOK(p) /\ proc[p].pc = "up" /\ context[p].outcome # "quiesce_unwritable"
      BY <2>1 DEF IInv, Complete
  <2> QED BY <2>2 DEF ProcOK, KnowsOK
<1> QED BY <1>1, Invariant, PTL DEF RefusalStands, SpecAdmission
=============================================================================
