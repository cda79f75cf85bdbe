----------------------------- MODULE SegmentLog -----------------------------
(***************************************************************************)
(* The files of one session: a manifest, snapshots, and append-only        *)
(* segments (src/src/session/snapshot.rs, session/log.rs).                 *)
(*                                                                         *)
(* The manifest names a current recovery set, a snapshot and the segment   *)
(* of the events after it, and the sealed set before it.  Every handle     *)
(* works under the session's exclusive lock, keeps a cache of what it read *)
(* and consumes only the frames appended since.  A handle may fail or die  *)
(* at every step; so may the machine.                                      *)
(*                                                                         *)
(* A set is named by its generation and the sequence number it starts at,  *)
(* as its files are.  The state of a session is the sequence of its        *)
(* events, so the sequence number is its length.  A frame that does not    *)
(* verify is marked by its position in `bad'.  A file that was renamed or  *)
(* created stays; what was appended and not synced may be lost with the    *)
(* machine.                                                                *)
(***************************************************************************)
EXTENDS Naturals, Sequences

CONSTANTS
    Handle,     \* the open stores of the session
    None,       \* no manifest, set or cache; no holder of the lock
    Threshold,  \* EVENT_THRESHOLD: the frames that make a segment rotate
    MaxEvent,   \* bound on the events appended
    MaxDamage,  \* bound on the files that are damaged
    MaxLoss     \* bound on the failures of the machine

ASSUME BoundsAssumption == Threshold \in Nat \ {0} /\ {MaxEvent, MaxDamage, MaxLoss} \subseteq Nat

VARIABLES
    manifest,   \* session.manifest.json
    snaps,      \* the snapshot files, by name
    segs,       \* the segment files, by name
    lock,       \* the holder of the exclusive lock
    handle,     \* the handles: their step, their cache, the set they are publishing
    issued,     \* how many events were given to append
    acked,      \* the events reported as committed
    damages,    \* how many files were damaged
    losses      \* how often the machine failed

vars == <<manifest, snaps, segs, lock, handle, issued, acked, damages, losses>>
disk == <<manifest, snaps, segs>>

Event == 1..MaxEvent
State == Seq(Event)
Name == Nat \X Nat

\* RecoverySet: `sealed' is the content whose length and digest the seal records.
Segment == [frames : State, bad : Nat, torn : BOOLEAN, synced : Nat]
Set == [name : Name, base : Nat, last : Nat, sealed : Segment \cup {None}]
Manifest == [gen : Nat, cur : Set, prev : Set \cup {None}]

\* LoadedStore.
Cache == [gen : Nat, name : Name, state : State, off : Nat]

\* "snap", "seg", "publish" and "remove" are the steps of publishing the set in `plan'.
Pc == {"idle", "read", "ready", "written", "snap", "seg", "publish", "remove"}
Plan == [gen : Nat, state : State, prev : Set \cup {None}, old : Set \cup {None},
         rotate : BOOLEAN]

\* None is no holder of the lock and none of the records it takes the place of.
ASSUME NoneAssumption ==
    /\ None \notin Handle
    /\ None \notin Segment /\ None \notin Set /\ None \notin Manifest
    /\ None \notin Cache /\ None \notin Plan

\* A handle; `refused' tells that it found the session in a state it cannot open.
Store == [pc : Pc, cache : Cache \cup {None}, plan : Plan \cup {None}, refused : BOOLEAN]

Idle(cache) == [pc |-> "idle", cache |-> cache, plan |-> None, refused |-> FALSE]

TypeOK ==
    /\ manifest \in Manifest \cup {None}
    /\ DOMAIN snaps \subseteq Name
    /\ \A n \in DOMAIN snaps : snaps[n] \in [state : State, bad : BOOLEAN]
    /\ DOMAIN segs \subseteq Name
    /\ \A n \in DOMAIN segs : segs[n] \in Segment
    /\ lock \in Handle \cup {None}
    /\ DOMAIN handle = Handle
    /\ \A h \in Handle : handle[h] \in Store
    /\ issued \in 0..MaxEvent
    /\ acked \subseteq Event
    /\ damages \in 0..MaxDamage /\ losses \in 0..MaxLoss

Init ==
    /\ manifest = None
    /\ snaps = <<>> /\ segs = <<>>
    /\ lock = None
    /\ handle = [h \in Handle |-> Idle(None)]
    /\ issued = 0 /\ acked = {}
    /\ damages = 0 /\ losses = 0

----------------------------------------------------------------------------
(* Reading.                                                                *)

\* replay_from: the frames from an offset on all verify.
Replays(seg, off) == off <= Len(seg.frames) /\ (seg.bad = 0 \/ seg.bad <= off)

\* Mutant: the last sequence number of a sealed set is off by one.
LoadsSetOffByOne(set, active) ==
    /\ set.name \in DOMAIN snaps /\ ~snaps[set.name].bad
    /\ set.name \in DOMAIN segs /\ Replays(segs[set.name], 0)
    /\ ~active => /\ set.sealed # None
                  /\ segs[set.name] = set.sealed
                  /\ set.base + Len(set.sealed.frames) + 1 = set.last

\* load_set: the snapshot and the segment exist and verify; a retained set is sealed
\* and its segment is what was sealed.
LoadsSet(set, active) ==
    /\ set.name \in DOMAIN snaps /\ ~snaps[set.name].bad
    /\ set.name \in DOMAIN segs /\ Replays(segs[set.name], 0)
    /\ ~active => /\ set.sealed # None
                  /\ segs[set.name] = set.sealed
                  /\ set.base + Len(set.sealed.frames) = set.last

StateOf(name) == snaps[name].state \o segs[name].frames

CacheOf(m) ==
    [gen |-> m.gen, name |-> m.cur.name, state |-> StateOf(m.cur.name),
     off |-> Len(segs[m.cur.name].frames)]

\* Mutant: the repair also cuts the last complete frame.
RepairedTooShort(seg) ==
    LET n == IF Len(seg.frames) = 0 THEN 0 ELSE Len(seg.frames) - 1
    IN  IF seg.torn THEN [seg EXCEPT !.frames = SubSeq(@, 1, n), !.torn = FALSE, !.synced = n]
        ELSE seg

\* repair_tail: an incomplete frame at the end is cut off, and the file synced.
Repaired(seg) ==
    IF seg.torn THEN [seg EXCEPT !.torn = FALSE, !.synced = Len(seg.frames)] ELSE seg

\* The cache still describes the manifest (catch_up); otherwise everything is loaded.
Current(h) ==
    /\ handle[h].cache # None
    /\ handle[h].cache.gen = manifest.gen
    /\ handle[h].cache.name = manifest.cur.name

\* The current set can be read, from the cached offset or from its snapshot.
Readable(h) ==
    /\ manifest # None
    /\ IF Current(h) THEN Replays(segs[manifest.cur.name], handle[h].cache.off)
       ELSE LoadsSet(manifest.cur, TRUE)

\* Mutant: the frame before the cached offset is applied again.
CaughtUpTwice(h) ==
    LET cache == handle[h].cache
        frames == segs[manifest.cur.name].frames
        from == IF cache.off = 0 THEN 1 ELSE cache.off
    IN  IF Current(h)
        THEN [cache EXCEPT !.state = @ \o SubSeq(frames, from, Len(frames)), !.off = Len(frames)]
        ELSE CacheOf(manifest)

\* A current cache takes in the frames after its offset; another one is replaced.
CaughtUp(h) ==
    LET cache == handle[h].cache
        frames == segs[manifest.cur.name].frames
    IN  IF Current(h)
        THEN [cache EXCEPT !.state = @ \o SubSeq(frames, cache.off + 1, Len(frames)),
                           !.off = Len(frames)]
        ELSE CacheOf(manifest)

----------------------------------------------------------------------------
(* One operation of a handle.                                              *)

Goto(h, pc) == handle' = [handle EXCEPT ![h].pc = pc]

\* Mutant: the error path leaves the lock file held.
ReturnHolding(h, cache, refused) ==
    /\ handle' = [handle EXCEPT ![h] = [Idle(cache) EXCEPT !.refused = refused]]
    /\ lock' = IF refused THEN lock ELSE None

\* The operation returns and releases the lock; `refused' tells that it found the
\* session in a state it cannot open.
Return(h, cache, refused) ==
    /\ handle' = [handle EXCEPT ![h] = [Idle(cache) EXCEPT !.refused = refused]]
    /\ lock' = None

Acquire(h) ==
    /\ handle[h].pc = "idle" /\ lock = None
    /\ lock' = h
    /\ Goto(h, "read")
    /\ UNCHANGED <<disk, issued, acked, damages, losses>>

\* catch_up and load_state find a readable current set.
CatchUp(h) ==
    /\ handle[h].pc = "read" /\ Readable(h)
    /\ segs' = [segs EXCEPT ![manifest.cur.name] = Repaired(@)]
    /\ handle' = [handle EXCEPT ![h].pc = "ready", ![h].cache = CaughtUp(h)]
    /\ UNCHANGED <<manifest, snaps, lock, issued, acked, damages, losses>>

\* The first operation on the session publishes an empty set (initial_manifest).
PlanInitial(h) ==
    /\ handle[h].pc = "read" /\ manifest = None
    /\ handle' = [handle EXCEPT ![h].pc = "snap",
           ![h].plan = [gen |-> 0, state |-> <<>>, prev |-> None, old |-> None,
                        rotate |-> FALSE]]
    /\ UNCHANGED <<disk, lock, issued, acked, damages, losses>>

\* recover_previous: the retained set becomes the base of a new generation.
PlanRecovery(h) ==
    /\ handle[h].pc = "read" /\ manifest # None /\ ~Readable(h)
    /\ manifest.prev # None /\ LoadsSet(manifest.prev, FALSE)
    /\ handle' = [handle EXCEPT ![h].pc = "snap",
           ![h].plan = [gen |-> manifest.gen + 1, state |-> StateOf(manifest.prev.name),
                        prev |-> manifest.prev, old |-> None, rotate |-> FALSE]]
    /\ UNCHANGED <<disk, lock, issued, acked, damages, losses>>

\* Neither set can be read.
Unreadable(h) ==
    /\ handle[h].pc = "read" /\ manifest # None /\ ~Readable(h)
    /\ manifest.prev # None => ~LoadsSet(manifest.prev, FALSE)
    /\ Return(h, handle[h].cache, TRUE)
    /\ UNCHANGED <<disk, issued, acked, damages, losses>>

\* An operation that appends nothing.
ReadOnly(h) ==
    /\ handle[h].pc = "ready"
    /\ Return(h, handle[h].cache, FALSE)
    /\ UNCHANGED <<disk, issued, acked, damages, losses>>

\* append_frame: the segment must be as long as the cached offset says.
AppendFrame(h) ==
    LET name == handle[h].cache.name IN
    /\ handle[h].pc = "ready" /\ issued < MaxEvent
    /\ Len(segs[name].frames) = handle[h].cache.off /\ ~segs[name].torn
    /\ issued' = issued + 1
    /\ segs' = [segs EXCEPT ![name].frames = Append(@, issued')]
    /\ Goto(h, "written")
    /\ UNCHANGED <<manifest, snaps, lock, acked, damages, losses>>

\* A write that fails half way leaves an incomplete frame; the handle does not know.
ShortWrite(h) ==
    LET name == handle[h].cache.name IN
    /\ handle[h].pc = "ready" /\ issued < MaxEvent
    /\ issued' = issued + 1
    /\ segs' = [segs EXCEPT ![name].torn = TRUE]
    /\ Return(h, handle[h].cache, FALSE)
    /\ UNCHANGED <<manifest, snaps, acked, damages, losses>>

\* sync_all succeeds: the event is committed.  The handle advances its cursor, and
\* rotates when the segment is full.
SyncFrame(h) ==
    LET name == handle[h].cache.name
        frames == segs[name].frames
        cache == [handle[h].cache EXCEPT !.state = Append(@, issued), !.off = @ + 1]
        sealed == [segs[name] EXCEPT !.synced = Len(frames)]
        prev == [manifest.cur EXCEPT !.last = Len(cache.state), !.sealed = sealed]
    IN
    /\ handle[h].pc = "written"
    /\ segs' = [segs EXCEPT ![name] = sealed]
    /\ acked' = acked \cup {issued}
    /\ IF cache.off < Threshold
       THEN Return(h, cache, FALSE)
       ELSE /\ handle' = [handle EXCEPT ![h].pc = "snap", ![h].cache = cache,
                 ![h].plan = [gen |-> cache.gen + 1, state |-> cache.state,
                              prev |-> prev, old |-> manifest.prev, rotate |-> TRUE]]
            /\ UNCHANGED lock
    /\ UNCHANGED <<manifest, snaps, issued, damages, losses>>

----------------------------------------------------------------------------
(* Publishing a set: initial_manifest and compact.                         *)

PlanName(h) == <<handle[h].plan.gen, Len(handle[h].plan.state)>>

Put(files, name, file) ==
    [n \in DOMAIN files \cup {name} |-> IF n = name THEN file ELSE files[n]]

\* Mutant: the snapshot lacks the event that made the segment rotate.
WriteSnapshotStale(h) ==
    LET state == handle[h].plan.state
        n == IF Len(state) = 0 THEN 0 ELSE Len(state) - 1
    IN
    /\ handle[h].pc = "snap"
    /\ snaps' = Put(snaps, PlanName(h), [state |-> SubSeq(state, 1, n), bad |-> FALSE])
    /\ Goto(h, "seg")
    /\ UNCHANGED <<manifest, segs, lock, issued, acked, damages, losses>>

\* write_snapshot replaces a file of that name.
WriteSnapshot(h) ==
    /\ handle[h].pc = "snap"
    /\ snaps' = Put(snaps, PlanName(h), [state |-> handle[h].plan.state, bad |-> FALSE])
    /\ Goto(h, "seg")
    /\ UNCHANGED <<manifest, segs, lock, issued, acked, damages, losses>>

\* create_empty opens with O_EXCL: a file of that name is an error.
CreateEmpty(h) ==
    /\ handle[h].pc = "seg" /\ PlanName(h) \notin DOMAIN segs
    /\ segs' = Put(segs, PlanName(h),
                    [frames |-> <<>>, bad |-> 0, torn |-> FALSE, synced |-> 0])
    /\ Goto(h, "publish")
    /\ UNCHANGED <<manifest, snaps, lock, issued, acked, damages, losses>>

SegmentExists(h) ==
    /\ handle[h].pc = "seg" /\ PlanName(h) \in DOMAIN segs
    /\ Return(h, handle[h].cache, TRUE)
    /\ UNCHANGED <<disk, issued, acked, damages, losses>>

\* Mutant: the whole old manifest is retained in place of its current set.
PublishedNested(h) ==
    LET plan == handle[h].plan IN
    [gen |-> plan.gen,
     cur |-> [name |-> PlanName(h), base |-> Len(plan.state), last |-> Len(plan.state),
              sealed |-> None],
     prev |-> IF plan.prev = None THEN None ELSE manifest]

\* The manifest that makes the planned set current.
Published(h) ==
    LET plan == handle[h].plan IN
    [gen |-> plan.gen,
     cur |-> [name |-> PlanName(h), base |-> Len(plan.state), last |-> Len(plan.state),
              sealed |-> None],
     prev |-> plan.prev]

\* publish_manifest.  A load goes on with the new set; a rotation has a set to remove.
PublishManifest(h) ==
    /\ handle[h].pc = "publish"
    /\ manifest' = Published(h)
    /\ IF handle[h].plan.rotate
       THEN Goto(h, "remove")
       ELSE handle' = [handle EXCEPT ![h].pc = "ready", ![h].plan = None,
                                     ![h].cache = CacheOf(manifest')]
    /\ UNCHANGED <<snaps, segs, lock, issued, acked, damages, losses>>

Without(files, gone) == [n \in DOMAIN files \ gone |-> files[n]]

\* Mutant: the set that was just sealed is removed.
RemoveRetained(h) ==
    /\ handle[h].pc = "remove"
    /\ snaps' = Without(snaps, {manifest.prev.name})
    /\ segs' = Without(segs, {manifest.prev.name})
    /\ Return(h, CacheOf(manifest), FALSE)
    /\ UNCHANGED <<manifest, issued, acked, damages, losses>>

\* remove_set deletes the files of the old retained set, except those still named.
RemoveOld(h) ==
    LET old == handle[h].plan.old
        gone == (IF old = None THEN {} ELSE {old.name})
                  \ {manifest.cur.name, manifest.prev.name}
    IN
    /\ handle[h].pc = "remove"
    /\ snaps' = Without(snaps, gone)
    /\ segs' = Without(segs, gone)
    /\ Return(h, CacheOf(manifest), FALSE)
    /\ UNCHANGED <<manifest, issued, acked, damages, losses>>

----------------------------------------------------------------------------
(* Failures.                                                               *)

\* A system call of the operation fails, sync_all after a write among them: what it did
\* so far stays, and the caller gets an error.
Fails(h) ==
    /\ handle[h].pc # "idle"
    /\ Return(h, handle[h].cache, FALSE)
    /\ UNCHANGED <<disk, issued, acked, damages, losses>>

\* The process of a handle ends; the kernel releases its lock.
Crash(h) ==
    /\ handle[h] # Idle(None)
    /\ handle' = [handle EXCEPT ![h] = Idle(None)]
    /\ lock' = IF lock = h THEN None ELSE lock
    /\ UNCHANGED <<disk, issued, acked, damages, losses>>

\* The machine fails: every process ends, and what was not synced may be gone.
PowerLoss ==
    /\ losses < MaxLoss /\ losses' = losses + 1
    /\ handle' = [h \in Handle |-> Idle(None)]
    /\ lock' = None
    /\ IF manifest = None THEN UNCHANGED segs
       ELSE LET name == manifest.cur.name
                seg == segs[name]
            IN  \E n \in seg.synced..Len(seg.frames), torn \in BOOLEAN :
                    /\ torn => seg.torn \/ n < Len(seg.frames)
                    /\ segs' = [segs EXCEPT ![name] =
                           [seg EXCEPT !.frames = SubSeq(@, 1, n), !.torn = torn]]
    /\ UNCHANGED <<manifest, snaps, issued, acked, damages>>

\* A file that the manifest names is damaged while nobody is at work on it.
Damage ==
    /\ damages < MaxDamage /\ damages' = damages + 1
    /\ lock = None /\ manifest # None
    /\ \E set \in {manifest.cur, manifest.prev} \ {None} :
        \/ /\ snaps' = [snaps EXCEPT ![set.name].bad = TRUE]
           /\ UNCHANGED segs
        \/ /\ \E k \in 1..Len(segs[set.name].frames) :
                segs' = [segs EXCEPT ![set.name].bad = k]
           /\ UNCHANGED snaps
    /\ UNCHANGED <<manifest, lock, handle, issued, acked, losses>>

Step(h) ==
    \/ Acquire(h) \/ CatchUp(h) \/ PlanInitial(h) \/ PlanRecovery(h) \/ Unreadable(h)
    \/ ReadOnly(h) \/ AppendFrame(h) \/ ShortWrite(h) \/ SyncFrame(h)
    \/ WriteSnapshot(h) \/ CreateEmpty(h) \/ SegmentExists(h) \/ PublishManifest(h)
    \/ RemoveOld(h) \/ Fails(h)

Next == PowerLoss \/ Damage \/ \E h \in Handle : Step(h) \/ Crash(h)

\* An operation that holds the lock goes on: the code between taking and releasing it
\* waits for nobody.
Fairness == \A h \in Handle : WF_vars(handle[h].pc # "idle" /\ Step(h))

Spec == Init /\ [][Next]_vars /\ Fairness

----------------------------------------------------------------------------
(* Properties.                                                             *)

\* The log on the disk, what a new handle would load if every file verified.
Log == IF manifest = None THEN <<>> ELSE StateOf(manifest.cur.name)

CurrentDamaged ==
    manifest # None /\ (snaps[manifest.cur.name].bad \/ segs[manifest.cur.name].bad # 0)

\* How many events of the log are synced, and how many the last rotation holds.
Stable == IF manifest = None THEN 0 ELSE manifest.cur.base + segs[manifest.cur.name].synced

Floor == IF manifest = None THEN 0 ELSE manifest.cur.base

\* The store is a durable log: rotation, recovery and repair are invisible in it, only
\* unsynced events are lost, and damage takes it back no further than the last rotation.
Durable == INSTANCE DurableLog WITH
    log <- Log, stable <- Stable, floor <- Floor, damaged <- CurrentDamaged

ImplementsDurableLog == Durable!Spec

\* Without damage, an event reported as committed is in the log, whatever handle wrote
\* it and whoever crashed, repaired a tail or rotated since.
AckedSurvive ==
    damages = 0 => \A e \in acked : \E i \in 1..Len(Log) : Log[i] = e

\* What a handle remembers under the manifest's generation is a prefix of the log, so
\* catching up from its offset gives what loading everything would give.
CacheIsPrefix ==
    \A h \in Handle :
        (manifest # None /\ Current(h)) =>
            LET cache == handle[h].cache IN
            /\ cache.off <= Len(segs[manifest.cur.name].frames)
            /\ Len(cache.state) = manifest.cur.base + cache.off
            /\ cache.state = SubSeq(Log, 1, Len(cache.state))

\* The retained set ends where the current one begins, and all its files are there, in
\* every step of a rotation and of a recovery: falling back loses only the segment.
PreviousMatches ==
    manifest # None =>
        /\ manifest.cur.name \in DOMAIN snaps /\ manifest.cur.name \in DOMAIN segs
        /\ manifest.prev # None =>
            /\ manifest.prev.name \in DOMAIN snaps /\ manifest.prev.name \in DOMAIN segs
            /\ StateOf(manifest.prev.name) = snaps[manifest.cur.name].state

\* One damaged file never leaves a session that has rotated without a readable set.
OneFaultRecoverable ==
    (damages <= 1 /\ manifest # None /\ manifest.prev # None)
        => LoadsSet(manifest.cur, TRUE) \/ LoadsSet(manifest.prev, FALSE)

\* A process that finds the retained set valid is not refused, wherever an earlier write
\* of a set was interrupted: the preceding generation is available for recovery.
InterruptedWriteRecovers ==
    \A h \in Handle :
        (manifest # None /\ manifest.prev # None /\ LoadsSet(manifest.prev, FALSE))
            => ~handle[h].refused

\* The session lock is free again and again: every operation that takes it gives it back,
\* whether it commits, fails, repairs a tail, recovers or dies, so no process waits for ever.
LockReleased == []<>(lock = None)
=============================================================================
