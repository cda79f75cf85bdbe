------------------------- MODULE SegmentLog_proofs -------------------------
(***************************************************************************)
(* Proofs about the files of a session, for any handles, any threshold of  *)
(* rotation and any bounds: the cache of a handle, the retained set and    *)
(* the committed events through appends, repairs, rotations, recoveries,   *)
(* crashes, power losses and damage, and that the files implement the      *)
(* durable log of DurableLog.                                              *)
(***************************************************************************)
EXTENDS SegmentLog, SequenceTheorems, TLAPS

----------------------------------------------------------------------------
(* The inductive invariant.  Its parts are stated of values, so that a step *)
(* is a change of the values.                                               *)

\* Only the holder of the lock is at work.
Locked == \A h \in Handle : handle[h].pc # "idle" => lock = h

Filed(name, sn, sg) == name \in DOMAIN sn /\ name \in DOMAIN sg

\* The current set of a manifest has its files, named after its generation.
CurrentOK(m, sn, sg) ==
    /\ Filed(m.cur.name, sn, sg)
    /\ m.cur.name[1] = m.gen
    /\ m.cur.base = Len(sn[m.cur.name].state)
    /\ sg[m.cur.name].synced <= Len(sg[m.cur.name].frames)

\* A sealed set has its files, and its segment is what was sealed or is damaged.
SealedOK(set, sn, sg) ==
    /\ set.sealed # None
    /\ Filed(set.name, sn, sg)
    /\ set.base = Len(sn[set.name].state)
    /\ set.last = set.base + Len(set.sealed.frames)
    /\ sg[set.name].frames = set.sealed.frames
    /\ sg[set.name].torn = set.sealed.torn
    /\ sg[set.name].synced = set.sealed.synced
    /\ set.sealed.bad # 0 => sg[set.name].bad # 0

\* The events that the files of a name hold.
Joined(name, sn, sg) == sn[name].state \o sg[name].frames

\* The retained set is sealed, older, and ends where the current one begins.
RetainedOK(m, sn, sg) ==
    /\ SealedOK(m.prev, sn, sg)
    /\ m.prev.name[1] < m.gen
    /\ Joined(m.prev.name, sn, sg) = sn[m.cur.name].state

FilesOK(m, sn, sg) ==
    m # None => /\ CurrentOK(m, sn, sg)
                /\ m.prev # None => RetainedOK(m, sn, sg)

Whole(name, sn, sg) == ~sn[name].bad /\ sg[name].bad = 0

\* No file is bad before the first damage, and the first one leaves one set whole.
FaultsOK(d, m, sn, sg) ==
    /\ d = 0 => /\ \A n \in DOMAIN sn : ~sn[n].bad
                /\ \A n \in DOMAIN sg : sg[n].bad = 0
    /\ (d <= 1 /\ m # None /\ m.prev # None)
          => Whole(m.cur.name, sn, sg) \/ Whole(m.prev.name, sn, sg)

\* The events on the disk were issued, and without damage every committed one is among
\* those that were synced.
EventsOK(is, ack, d, m, sn, sg) ==
    /\ m # None => \A i \in 1..Len(Joined(m.cur.name, sn, sg)) :
                      Joined(m.cur.name, sn, sg)[i] <= is
    /\ d = 0 => \A e \in ack :
                   /\ m # None
                   /\ \E i \in 1..(m.cur.base + sg[m.cur.name].synced) :
                         Joined(m.cur.name, sn, sg)[i] = e

\* A cache is no newer than the manifest, and under its name a prefix of the log.
CacheOK(c, m, sn, sg) ==
    c # None =>
        /\ m # None
        /\ c.gen <= m.gen
        /\ (c.gen = m.gen /\ c.name = m.cur.name) =>
            /\ c.off <= Len(sg[m.cur.name].frames)
            /\ Len(c.state) = m.cur.base + c.off
            /\ \A i \in 1..Len(c.state) : c.state[i] = Joined(m.cur.name, sn, sg)[i]

\* A handle that has read the log has a current cache, and one that has appended a frame
\* has not yet taken it into the cache.
ReadOK(r, is, m, sg) ==
    /\ r.pc \in {"ready", "written"} =>
        r.cache # None /\ r.cache.gen = m.gen /\ r.cache.name = m.cur.name
    /\ r.pc = "written" =>
        /\ Len(sg[m.cur.name].frames) = r.cache.off + 1
        /\ sg[m.cur.name].frames[r.cache.off + 1] = is

NewName(plan) == <<plan.gen, Len(plan.state)>>

\* A planned set is the next generation.  It goes on from the sealed set that it retains:
\* the current one, whose events are all synced, or the one before it, because the
\* current one is damaged.
PlanOK(plan, m, sn, sg) ==
    /\ plan # None
    /\ m = None => plan.gen = 0 /\ plan.state = <<>> /\ plan.prev = None /\ ~plan.rotate
    /\ m # None =>
        /\ plan.gen = m.gen + 1
        /\ plan.prev # None
        /\ SealedOK(plan.prev, sn, sg)
        /\ plan.prev.name[1] <= m.gen
        /\ Joined(plan.prev.name, sn, sg) = plan.state
        /\ plan.rotate => /\ plan.prev.name = m.cur.name
                          /\ sg[m.cur.name].synced = Len(sg[m.cur.name].frames)
        /\ ~plan.rotate => plan.prev = m.prev /\ ~Whole(m.cur.name, sn, sg)

EmptySegment == [frames |-> <<>>, bad |-> 0, torn |-> FALSE, synced |-> 0]

\* The files of the planned set are there when the manifest is about to name them.
WrittenOK(r, m, sn, sg) ==
    /\ r.pc \in {"snap", "seg", "publish"} => PlanOK(r.plan, m, sn, sg)
    /\ r.pc \in {"seg", "publish"} =>
        /\ NewName(r.plan) \in DOMAIN sn
        /\ sn[NewName(r.plan)] = [state |-> r.plan.state, bad |-> FALSE]
    /\ r.pc = "publish" =>
        NewName(r.plan) \in DOMAIN sg /\ sg[NewName(r.plan)] = EmptySegment
    /\ r.pc = "remove" => r.plan # None /\ m # None /\ m.prev # None

HandleOK(r, is, m, sn, sg) ==
    CacheOK(r.cache, m, sn, sg) /\ ReadOK(r, is, m, sg) /\ WrittenOK(r, m, sn, sg)

IInv ==
    /\ TypeOK /\ Locked
    /\ FilesOK(manifest, snaps, segs)
    /\ FaultsOK(damages, manifest, snaps, segs)
    /\ EventsOK(issued, acked, damages, manifest, snaps, segs)
    /\ \A h \in Handle : HandleOK(handle[h], issued, manifest, snaps, segs)

----------------------------------------------------------------------------
(* Facts about files.                                                      *)

Snapshot == [state : State, bad : BOOLEAN]

DiskType(m, sn, sg) ==
    /\ m \in Manifest \cup {None}
    /\ DOMAIN sn \subseteq Name
    /\ \A n \in DOMAIN sn : sn[n] \in Snapshot
    /\ DOMAIN sg \subseteq Name
    /\ \A n \in DOMAIN sg : sg[n] \in Segment

\* The files g are the files f, but for the file x, which is v.
Changed(f, x, v, g) ==
    /\ DOMAIN g = DOMAIN f \cup {x}
    /\ g[x] = v
    /\ \A y \in DOMAIN f : y # x => g[y] = f[y]

\* The files of a name are left alone.
Same(name, sn, sg, sn1, sg1) ==
    Filed(name, sn, sg) =>
        Filed(name, sn1, sg1) /\ sn1[name] = sn[name] /\ sg1[name] = sg[name]

LEMMA PutChanges ==
    ASSUME NEW f, NEW x, NEW v
    PROVE  Changed(f, x, v, Put(f, x, v))
BY DEF Changed, Put

LEMMA ExceptChanges ==
    ASSUME NEW f, NEW x \in DOMAIN f, NEW v
    PROVE  Changed(f, x, v, [f EXCEPT ![x] = v])
BY DEF Changed

LEMMA SnapshotTyped ==
    ASSUME NEW m, NEW sn, NEW sg, DiskType(m, sn, sg), NEW x \in Name, NEW v \in Snapshot,
           NEW sn1, Changed(sn, x, v, sn1)
    PROVE  DiskType(m, sn1, sg)
BY DEF DiskType, Changed

LEMMA SegmentTyped ==
    ASSUME NEW m, NEW sn, NEW sg, DiskType(m, sn, sg), NEW x \in Name, NEW v \in Segment,
           NEW sg1, Changed(sg, x, v, sg1)
    PROVE  DiskType(m, sn, sg1)
BY DEF DiskType, Changed

\* The type of what a manifest names.
LEMMA NamedTypes ==
    ASSUME NEW m \in Manifest
    PROVE  /\ m.gen \in Nat /\ m.cur \in Set /\ m.prev \in Set \cup {None}
           /\ m.cur.name \in Name /\ m.cur.base \in Nat /\ m.cur.last \in Nat
           /\ m.prev # None => m.prev.name \in Name /\ m.prev.base \in Nat
BY DEF Manifest, Set

LEMMA FileTypes ==
    ASSUME NEW m, NEW sn, NEW sg, DiskType(m, sn, sg), NEW x, Filed(x, sn, sg)
    PROVE  /\ x \in Name
           /\ sn[x].state \in State /\ sn[x].bad \in BOOLEAN
           /\ sg[x].frames \in State /\ sg[x].bad \in Nat /\ sg[x].torn \in BOOLEAN
           /\ sg[x].synced \in Nat
           /\ Len(sn[x].state) \in Nat /\ Len(sg[x].frames) \in Nat
<1>1. sn[x] \in Snapshot /\ sg[x] \in Segment /\ x \in Name
    BY DEF DiskType, Filed
<1> QED BY <1>1, LenProperties DEF Snapshot, Segment, State

\* The events j are those of s, then those of t.
IsJoin(j, s, t) ==
    /\ j \in State
    /\ Len(j) = Len(s) + Len(t)
    /\ \A i \in 1..(Len(s) + Len(t)) : j[i] = IF i <= Len(s) THEN s[i] ELSE t[i - Len(s)]

\* The events of a name are those of its snapshot, then those of its segment.
LEMMA JoinedShape ==
    ASSUME NEW m, NEW sn, NEW sg, DiskType(m, sn, sg), NEW x, Filed(x, sn, sg)
    PROVE  IsJoin(Joined(x, sn, sg), sn[x].state, sg[x].frames)
<1> DEFINE s == sn[x].state
           t == sg[x].frames
<1>1. s \in State /\ t \in State
    BY FileTypes
<1> HIDE DEF s, t
<1>2. IsJoin(s \o t, s, t)
    BY <1>1, ConcatProperties DEF IsJoin, State
<1> QED BY <1>2 DEF Joined, s, t

\* Where an event of a join comes from.
LEMMA JoinAt ==
    ASSUME NEW j, NEW s \in State, NEW t \in State, IsJoin(j, s, t)
    PROVE  /\ Len(s) \in Nat /\ Len(t) \in Nat /\ Len(j) \in Nat
           /\ \A i \in 1..Len(s) : i \in 1..Len(j) /\ j[i] = s[i]
           /\ \A i \in 1..Len(t) : Len(s) + i \in 1..Len(j) /\ j[Len(s) + i] = t[i]
           /\ \A i \in 1..Len(j) : \/ i \in 1..Len(s) /\ j[i] = s[i]
                                   \/ i - Len(s) \in 1..Len(t) /\ j[i] = t[i - Len(s)]
<1>1. Len(s) \in Nat /\ Len(t) \in Nat
    BY LenProperties DEF State
<1>2. /\ Len(j) = Len(s) + Len(t)
      /\ \A i \in 1..(Len(s) + Len(t)) : j[i] = IF i <= Len(s) THEN s[i] ELSE t[i - Len(s)]
    BY DEF IsJoin
<1>3. ASSUME NEW i \in 1..Len(s)
      PROVE  i \in 1..Len(j) /\ j[i] = s[i]
  <2>1. i \in 1..(Len(s) + Len(t)) /\ i <= Len(s)
      BY <1>1
  <2> QED BY <2>1, <1>2
<1>4. ASSUME NEW i \in 1..Len(t)
      PROVE  Len(s) + i \in 1..Len(j) /\ j[Len(s) + i] = t[i]
  <2>1. /\ Len(s) + i \in 1..(Len(s) + Len(t)) /\ ~(Len(s) + i <= Len(s))
        /\ (Len(s) + i) - Len(s) = i
      BY <1>1
  <2>2. j[Len(s) + i] = t[(Len(s) + i) - Len(s)]
      BY <2>1, <1>2
  <2> QED BY <2>1, <2>2, <1>2
<1>5. ASSUME NEW i \in 1..Len(j)
      PROVE  \/ i \in 1..Len(s) /\ j[i] = s[i]
             \/ i - Len(s) \in 1..Len(t) /\ j[i] = t[i - Len(s)]
  <2>1. i \in 1..(Len(s) + Len(t))
      BY <1>2
  <2>2. CASE i <= Len(s)
      BY <2>1, <2>2, <1>1, <1>2
  <2>3. CASE ~(i <= Len(s))
    <3>1. i - Len(s) \in 1..Len(t)
        BY <2>1, <2>3, <1>1
    <3> QED BY <2>1, <2>3, <3>1, <1>2
  <2> QED BY <2>2, <2>3
<1> QED BY <1>1, <1>2, <1>3, <1>4, <1>5

\* What an untouched set holds.
LEMMA SealedKept ==
    ASSUME NEW set, NEW sn, NEW sg, NEW sn1, NEW sg1, SealedOK(set, sn, sg),
           Same(set.name, sn, sg, sn1, sg1)
    PROVE  SealedOK(set, sn1, sg1) /\ Joined(set.name, sn1, sg1) = Joined(set.name, sn, sg)
BY DEF SealedOK, Same, Joined

\* A step that leaves the files of the manifest alone keeps what they hold.
LEMMA Beside ==
    ASSUME NEW m, NEW sn, NEW sg, NEW sn1, NEW sg1, FilesOK(m, sn, sg),
           m # None => /\ Same(m.cur.name, sn, sg, sn1, sg1)
                       /\ m.prev # None => Same(m.prev.name, sn, sg, sn1, sg1)
    PROVE  /\ FilesOK(m, sn1, sg1)
           /\ \A c : CacheOK(c, m, sn, sg) => CacheOK(c, m, sn1, sg1)
           /\ \A is, ack, d : EventsOK(is, ack, d, m, sn, sg) => EventsOK(is, ack, d, m, sn1, sg1)
           /\ \A x : m # None /\ (x = m.cur.name \/ (m.prev # None /\ x = m.prev.name)) =>
                /\ Whole(x, sn, sg) <=> Whole(x, sn1, sg1)
                /\ Joined(x, sn, sg) = Joined(x, sn1, sg1)
                /\ sg1[x] = sg[x] /\ sn1[x] = sn[x]
<1>1. CASE m = None
    BY <1>1 DEF FilesOK, CacheOK, EventsOK
<1>2. CASE m # None
  <2>1. /\ Filed(m.cur.name, sn, sg) /\ Filed(m.cur.name, sn1, sg1)
        /\ sn1[m.cur.name] = sn[m.cur.name] /\ sg1[m.cur.name] = sg[m.cur.name]
      BY <1>2 DEF FilesOK, CurrentOK, Same
  <2>2. Joined(m.cur.name, sn1, sg1) = Joined(m.cur.name, sn, sg)
      BY <2>1 DEF Joined
  <2>3. CurrentOK(m, sn1, sg1)
      BY <1>2, <2>1 DEF FilesOK, CurrentOK
  <2>4. ASSUME m.prev # None
        PROVE  /\ RetainedOK(m, sn1, sg1) /\ Joined(m.prev.name, sn1, sg1) = Joined(m.prev.name, sn, sg)
               /\ sn1[m.prev.name] = sn[m.prev.name] /\ sg1[m.prev.name] = sg[m.prev.name]
    <3>1. RetainedOK(m, sn, sg) /\ SealedOK(m.prev, sn, sg) /\ Same(m.prev.name, sn, sg, sn1, sg1)
        BY <1>2, <2>4 DEF FilesOK, RetainedOK
    <3>2. SealedOK(m.prev, sn1, sg1) /\ Joined(m.prev.name, sn1, sg1) = Joined(m.prev.name, sn, sg)
        BY <3>1, SealedKept
    <3>3. sn1[m.prev.name] = sn[m.prev.name] /\ sg1[m.prev.name] = sg[m.prev.name]
        BY <3>1 DEF Same, SealedOK
    <3> QED BY <3>1, <3>2, <3>3, <2>1 DEF RetainedOK
  <2>5. FilesOK(m, sn1, sg1)
      BY <2>3, <2>4 DEF FilesOK
  <2>6. \A c : CacheOK(c, m, sn, sg) => CacheOK(c, m, sn1, sg1)
      BY <2>1, <2>2 DEF CacheOK
  <2>7. \A is, ack, d : EventsOK(is, ack, d, m, sn, sg) => EventsOK(is, ack, d, m, sn1, sg1)
      BY <2>1, <2>2 DEF EventsOK
  <2>8. ASSUME NEW x, x = m.cur.name \/ (m.prev # None /\ x = m.prev.name)
        PROVE  /\ Whole(x, sn, sg) <=> Whole(x, sn1, sg1)
               /\ Joined(x, sn, sg) = Joined(x, sn1, sg1)
               /\ sg1[x] = sg[x] /\ sn1[x] = sn[x]
      BY <2>1, <2>2, <2>4, <2>8 DEF Whole
  <2> QED BY <1>2, <2>5, <2>6, <2>7, <2>8
<1> QED BY <1>1, <1>2

\* The retained set has other files than the current one.
LEMMA NamesDiffer ==
    ASSUME NEW m \in Manifest, NEW sn, NEW sg, FilesOK(m, sn, sg)
    PROVE  m.prev # None => m.prev.name # m.cur.name
<1>1. m # None /\ m.gen \in Nat
    BY NoneAssumption, NamedTypes
<1> QED BY <1>1 DEF FilesOK, CurrentOK, RetainedOK

\* A step that changes the current segment.
LEMMA SegmentChanges ==
    ASSUME NEW m \in Manifest, NEW sn, NEW sg, DiskType(m, sn, sg), FilesOK(m, sn, sg),
           NEW t \in Segment, t.synced <= Len(t.frames),
           NEW sg1, Changed(sg, m.cur.name, t, sg1)
    PROVE  /\ DiskType(m, sn, sg1) /\ FilesOK(m, sn, sg1)
           /\ Filed(m.cur.name, sn, sg1) /\ sg1[m.cur.name] = t
           /\ m.prev # None => Same(m.prev.name, sn, sg, sn, sg1)
           /\ m.prev # None => (Whole(m.prev.name, sn, sg) <=> Whole(m.prev.name, sn, sg1))
<1>1. /\ m # None /\ CurrentOK(m, sn, sg) /\ (m.prev # None => RetainedOK(m, sn, sg))
      /\ m.cur.name \in Name
    BY NoneAssumption, NamedTypes DEF FilesOK
<1>2. DiskType(m, sn, sg1)
    BY <1>1, SegmentTyped
<1>3. CurrentOK(m, sn, sg1) /\ Filed(m.cur.name, sn, sg1) /\ sg1[m.cur.name] = t
    BY <1>1 DEF CurrentOK, Filed, Changed
<1>4. ASSUME m.prev # None
      PROVE  RetainedOK(m, sn, sg1) /\ Same(m.prev.name, sn, sg, sn, sg1)
             /\ (Whole(m.prev.name, sn, sg) <=> Whole(m.prev.name, sn, sg1))
  <2>1. m.prev.name # m.cur.name
      BY <1>4, NamesDiffer
  <2>2. Same(m.prev.name, sn, sg, sn, sg1)
      BY <2>1 DEF Same, Filed, Changed
  <2>3. /\ SealedOK(m.prev, sn, sg1)
        /\ Joined(m.prev.name, sn, sg1) = Joined(m.prev.name, sn, sg)
      BY <1>1, <1>4, <2>2, SealedKept DEF RetainedOK
  <2>4. sg1[m.prev.name] = sg[m.prev.name]
      BY <1>1, <1>4, <2>2 DEF RetainedOK, SealedOK, Same
  <2> QED BY <1>1, <1>4, <2>2, <2>3, <2>4 DEF RetainedOK, Whole
<1> QED BY <1>1, <1>2, <1>3, <1>4 DEF FilesOK

\* What a step of the holder does to the current segment t0, when it becomes t.
Extended(t0, t) ==
    /\ t \in Segment /\ t.synced <= Len(t.frames) /\ t.bad = t0.bad
    /\ t0.synced <= t.synced
    /\ Len(t0.frames) <= Len(t.frames)
    /\ \A i \in 1..Len(t0.frames) : t.frames[i] = t0.frames[i]

\* A segment that only grows keeps the events before its end.
LEMMA SegmentGrows ==
    ASSUME NEW m \in Manifest, NEW sn, NEW sg, DiskType(m, sn, sg), FilesOK(m, sn, sg),
           NEW t, Extended(sg[m.cur.name], t),
           NEW sg1, Changed(sg, m.cur.name, t, sg1)
    PROVE  /\ Len(Joined(m.cur.name, sn, sg)) <= Len(Joined(m.cur.name, sn, sg1))
           /\ \A i \in 1..Len(Joined(m.cur.name, sn, sg)) :
                 Joined(m.cur.name, sn, sg1)[i] = Joined(m.cur.name, sn, sg)[i]
           /\ \A c \in Cache \cup {None} : CacheOK(c, m, sn, sg) => CacheOK(c, m, sn, sg1)
<1> DEFINE x == m.cur.name
           s == sn[x].state
           f == sg[x].frames
           ft == t.frames
           J == Joined(x, sn, sg)
           J1 == Joined(x, sn, sg1)
<1>1. /\ m # None /\ Filed(x, sn, sg) /\ Filed(x, sn, sg1) /\ DiskType(m, sn, sg1)
      /\ sg1[x] = t /\ m.cur.base = Len(s)
    BY NoneAssumption, SegmentChanges DEF FilesOK, CurrentOK, Extended
<1>2. s \in State /\ f \in State /\ ft \in State
    BY <1>1, FileTypes
<1>3. IsJoin(J, s, f)
    BY <1>1, JoinedShape
<1>4. IsJoin(J1, s, ft)
  <2>1. IsJoin(J1, s, sg1[x].frames)
      BY <1>1, JoinedShape
  <2> QED BY <2>1, <1>1
<1>5. Len(f) <= Len(ft) /\ \A i \in 1..Len(f) : ft[i] = f[i]
    BY DEF Extended
<1>a. /\ Len(J) = Len(s) + Len(f) /\ Len(J1) = Len(s) + Len(ft)
      /\ Len(s) \in Nat /\ Len(f) \in Nat /\ Len(ft) \in Nat
  <2> HIDE DEF J, J1, s, f, x
  <2> QED BY <1>2, <1>3, <1>4, JoinAt DEF IsJoin
<1>6. Len(J) <= Len(J1)
    BY <1>a, <1>5
<1>7. ASSUME NEW i \in 1..Len(J)
      PROVE  J1[i] = J[i]
  <2> HIDE DEF J, J1, s, f, ft, x
  <2>0. /\ \A k \in 1..Len(s) : J1[k] = s[k]
        /\ \A k \in 1..Len(ft) : J1[Len(s) + k] = ft[k]
      BY <1>2, <1>4, JoinAt
  <2>1. \/ i \in 1..Len(s) /\ J[i] = s[i]
        \/ i - Len(s) \in 1..Len(f) /\ J[i] = f[i - Len(s)]
      BY <1>2, <1>3, JoinAt
  <2>2. CASE i \in 1..Len(s) /\ J[i] = s[i]
    <3>1. J1[i] = s[i]
        BY <2>2, <2>0
    <3> QED BY <2>2, <3>1
  <2>3. CASE i - Len(s) \in 1..Len(f) /\ J[i] = f[i - Len(s)]
    <3>1. i - Len(s) \in 1..Len(ft) /\ Len(s) + (i - Len(s)) = i
        BY <2>3, <1>a, <1>5
    <3>2. J1[Len(s) + (i - Len(s))] = ft[i - Len(s)]
        BY <3>1, <2>0
    <3> QED BY <2>3, <3>1, <3>2, <1>5
  <2> QED BY <2>1, <2>2, <2>3
<1>8. ASSUME NEW c \in Cache \cup {None}, CacheOK(c, m, sn, sg)
      PROVE  CacheOK(c, m, sn, sg1)
  <2>1. CASE c = None
      BY <2>1 DEF CacheOK
  <2>2. CASE c # None
    <3>1. /\ c.gen <= m.gen
          /\ (c.gen = m.gen /\ c.name = x) =>
                /\ c.off <= Len(f) /\ Len(c.state) = m.cur.base + c.off
                /\ \A i \in 1..Len(c.state) : c.state[i] = J[i]
        BY <1>8, <2>2 DEF CacheOK
    <3>2. c.off \in Nat
        BY <2>2 DEF Cache
    <3>3. ASSUME c.gen = m.gen, c.name = x
          PROVE  /\ c.off <= Len(sg1[x].frames)
                 /\ \A i \in 1..Len(c.state) : c.state[i] = J1[i]
      <4>1. sg1[x].frames = t.frames
          BY <1>1
      <4>2. c.off <= Len(sg1[x].frames)
          BY <3>1, <3>2, <3>3, <4>1, <1>a, <1>5
      <4>3. ASSUME NEW i \in 1..Len(c.state)
            PROVE  i \in 1..Len(J)
        <5>1. /\ Len(c.state) = Len(s) + c.off /\ c.off <= Len(f) /\ Len(J) = Len(s) + Len(f)
            BY <3>1, <3>3, <1>1, <1>a
        <5> HIDE DEF J, s, f, x
        <5> QED BY <5>1, <3>2, <1>a
      <4> QED BY <4>2, <4>3, <3>1, <3>3, <1>7
    <3> QED BY <3>1, <3>3, <1>1 DEF CacheOK
  <2> QED BY <2>1, <2>2
<1> QED BY <1>6, <1>7, <1>8

----------------------------------------------------------------------------
(* Steps.                                                                  *)

LEMMA Disk ==
    ASSUME IInv
    PROVE  /\ DiskType(manifest, snaps, segs) /\ FilesOK(manifest, snaps, segs)
           /\ FaultsOK(damages, manifest, snaps, segs)
           /\ EventsOK(issued, acked, damages, manifest, snaps, segs)
           /\ manifest # None => manifest \in Manifest
           /\ issued \in 0..MaxEvent /\ acked \subseteq Event
           /\ damages \in 0..MaxDamage /\ losses \in 0..MaxLoss
           /\ MaxEvent \in Nat /\ MaxDamage \in Nat /\ MaxLoss \in Nat
<1>1. TypeOK BY DEF IInv
<1> QED BY <1>1, BoundsAssumption DEF IInv, TypeOK, DiskType, Snapshot

LEMMA Handles ==
    ASSUME IInv
    PROVE  /\ DOMAIN handle = Handle /\ lock \in Handle \cup {None}
           /\ \A h \in Handle : /\ handle[h] \in Store
                                /\ HandleOK(handle[h], issued, manifest, snaps, segs)
                                /\ handle[h].pc # "idle" => lock = h
                                /\ handle[h].cache \in Cache \cup {None}
                                /\ handle[h].plan \in Plan \cup {None}
<1>1. TypeOK /\ Locked /\ \A h \in Handle : HandleOK(handle[h], issued, manifest, snaps, segs)
    BY DEF IInv
<1>2. \A h \in Handle : handle[h] \in Store
    BY <1>1 DEF TypeOK
<1>3. \A h \in Handle : handle[h].cache \in Cache \cup {None} /\ handle[h].plan \in Plan \cup {None}
    BY <1>2 DEF Store
<1> QED BY <1>1, <1>2, <1>3 DEF TypeOK, Locked

\* An idle handle only has a cache to keep.
LEMMA IdleOK ==
    ASSUME NEW r, r.pc = "idle", NEW is, NEW m, NEW sn, NEW sg, CacheOK(r.cache, m, sn, sg)
    PROVE  HandleOK(r, is, m, sn, sg)
BY DEF HandleOK, ReadOK, WrittenOK

\* A step of one handle: the others are idle, or the disk does not change.
LEMMA HandleSteps ==
    ASSUME IInv, NEW h \in Handle, NEW n \in Store,
           handle' = [handle EXCEPT ![h] = n],
           n.pc # "idle" => lock' = h,
           lock' \in {h, lock, None},
           lock # h => lock' \in {h, lock},
           lock' = h => lock \in {h, None},
           HandleOK(n, issued', manifest', snaps', segs'),
           \/ issued' = issued /\ manifest' = manifest /\ snaps' = snaps /\ segs' = segs
           \/ /\ handle[h].pc # "idle"
              /\ \A c \in Cache \cup {None} :
                    CacheOK(c, manifest, snaps, segs) => CacheOK(c, manifest', snaps', segs')
    PROVE  /\ DOMAIN handle' = Handle /\ lock' \in Handle \cup {None}
           /\ \A k \in Handle : handle'[k] \in Store
           /\ Locked'
           /\ \A k \in Handle : HandleOK(handle'[k], issued', manifest', snaps', segs')
<1>1. /\ DOMAIN handle' = Handle /\ handle'[h] = n
      /\ \A k \in Handle : k # h => handle'[k] = handle[k]
    BY Handles
<1>2. lock' \in Handle \cup {None}
    BY Handles
<1>3. ASSUME NEW k \in Handle
      PROVE  /\ handle'[k] \in Store /\ (handle'[k].pc # "idle" => lock' = k)
             /\ HandleOK(handle'[k], issued', manifest', snaps', segs')
  <2>1. CASE k = h
      BY <2>1, <1>1
  <2>2. CASE k # h
    <3> DEFINE r == handle[k]
    <3>1. /\ r \in Store
          /\ r.pc # "idle" => lock = k
          /\ HandleOK(r, issued, manifest, snaps, segs) /\ r.cache \in Cache \cup {None}
        BY Handles
    <3>2. handle'[k] = r
        BY <1>1, <2>2
    <3> HIDE DEF r
    <3>3. CASE r.pc = "idle"
      <4>1. CacheOK(r.cache, manifest, snaps, segs)
          BY <3>1 DEF HandleOK
      <4>2. CacheOK(r.cache, manifest', snaps', segs')
          BY <4>1, <3>1
      <4> QED BY <4>2, <3>1, <3>2, <3>3, IdleOK
    <3>4. CASE r.pc # "idle"
      <4>1. lock = k /\ k # None
          BY <3>1, <3>4, NoneAssumption
      <4>2. handle[h].pc = "idle"
          BY <4>1, <2>2, Handles
      <4>3. issued' = issued /\ manifest' = manifest /\ snaps' = snaps /\ segs' = segs
          BY <4>2
      <4>4. lock' # h
          BY <4>1, <2>2
      <4>5. lock' = k
          BY <4>1, <4>4, <2>2
      <4> QED BY <4>1, <4>3, <4>4, <4>5, <3>1, <3>2, Zenon
    <3> QED BY <3>3, <3>4
  <2> QED BY <2>1, <2>2
<1> QED BY <1>1, <1>2, <1>3 DEF Locked

LEMMA Assembled ==
    ASSUME DiskType(manifest', snaps', segs'), FilesOK(manifest', snaps', segs'),
           FaultsOK(damages', manifest', snaps', segs'),
           EventsOK(issued', acked', damages', manifest', snaps', segs'),
           issued' \in 0..MaxEvent, acked' \subseteq Event,
           damages' \in 0..MaxDamage, losses' \in 0..MaxLoss,
           DOMAIN handle' = Handle, lock' \in Handle \cup {None},
           \A k \in Handle : handle'[k] \in Store, Locked',
           \A k \in Handle : HandleOK(handle'[k], issued', manifest', snaps', segs')
    PROVE  IInv'
<1>1. TypeOK'
    BY DEF TypeOK, DiskType, Snapshot
<1> QED BY <1>1 DEF IInv

\* A step that leaves the disk alone.
LEMMA Quiet ==
    ASSUME IInv, NEW h \in Handle, NEW n \in Store,
           handle' = [handle EXCEPT ![h] = n],
           n.pc # "idle" => lock' = h,
           lock' \in {h, lock, None},
           lock # h => lock' \in {h, lock},
           lock' = h => lock \in {h, None},
           HandleOK(n, issued, manifest, snaps, segs),
           UNCHANGED <<disk, issued, acked, damages, losses>>
    PROVE  IInv'
<1>1. /\ manifest' = manifest /\ snaps' = snaps /\ segs' = segs /\ issued' = issued
      /\ acked' = acked /\ damages' = damages /\ losses' = losses
    BY DEF disk
<1>2. HandleOK(n, issued', manifest', snaps', segs')
    BY <1>1
<1>3. /\ DOMAIN handle' = Handle /\ lock' \in Handle \cup {None}
      /\ \A k \in Handle : handle'[k] \in Store
      /\ Locked'
      /\ \A k \in Handle : HandleOK(handle'[k], issued', manifest', snaps', segs')
    BY <1>1, <1>2, HandleSteps
<1>4. /\ DiskType(manifest', snaps', segs') /\ FilesOK(manifest', snaps', segs')
      /\ FaultsOK(damages', manifest', snaps', segs')
      /\ EventsOK(issued', acked', damages', manifest', snaps', segs')
      /\ issued' \in 0..MaxEvent /\ acked' \subseteq Event
      /\ damages' \in 0..MaxDamage /\ losses' \in 0..MaxLoss
    BY <1>1, Disk
<1> QED BY <1>3, <1>4, Assembled

\* A handle that is not at work on the files only has a cache to keep.
LEMMA ReadingOK ==
    ASSUME NEW r, r.pc \in {"idle", "read"}, NEW is, NEW m, NEW sn, NEW sg,
           CacheOK(r.cache, m, sn, sg)
    PROVE  HandleOK(r, is, m, sn, sg)
BY DEF HandleOK, ReadOK, WrittenOK

LEMMA ReturnShape ==
    ASSUME NEW h, NEW c \in Cache \cup {None}, NEW b \in BOOLEAN, Return(h, c, b)
    PROVE  \E n \in Store : /\ n.pc = "idle" /\ n.cache = c
                            /\ handle' = [handle EXCEPT ![h] = n]
                            /\ lock' = None
<1> DEFINE n == [Idle(c) EXCEPT !.refused = b]
<1>1. n \in Store /\ n.pc = "idle" /\ n.cache = c
    BY DEF Idle, Store, Pc
<1> QED BY <1>1 DEF Return

\* An operation that returns and leaves the disk alone.
LEMMA QuietReturn ==
    ASSUME IInv, NEW h \in Handle, handle[h].pc # "idle", NEW b \in BOOLEAN,
           Return(h, handle[h].cache, b),
           UNCHANGED <<disk, issued, acked, damages, losses>>
    PROVE  IInv'
<1>1. /\ handle[h].cache \in Cache \cup {None} /\ lock = h
      /\ CacheOK(handle[h].cache, manifest, snaps, segs)
    BY Handles DEF HandleOK
<1>2. PICK n \in Store : /\ n.pc = "idle" /\ n.cache = handle[h].cache
                         /\ handle' = [handle EXCEPT ![h] = n] /\ lock' = None
    BY <1>1, ReturnShape
<1>3. HandleOK(n, issued, manifest, snaps, segs)
    BY <1>1, <1>2, ReadingOK
<1> QED BY <1>1, <1>2, <1>3, Quiet, NoneAssumption

LEMMA UnreadableKeeps ==
    ASSUME IInv, NEW h \in Handle, Unreadable(h)
    PROVE  IInv'
BY QuietReturn DEF Unreadable

LEMMA ReadOnlyKeeps ==
    ASSUME IInv, NEW h \in Handle, ReadOnly(h)
    PROVE  IInv'
BY QuietReturn DEF ReadOnly

LEMMA SegmentExistsKeeps ==
    ASSUME IInv, NEW h \in Handle, SegmentExists(h)
    PROVE  IInv'
BY QuietReturn DEF SegmentExists

LEMMA FailsKeeps ==
    ASSUME IInv, NEW h \in Handle, Fails(h)
    PROVE  IInv'
BY QuietReturn DEF Fails

LEMMA CrashKeeps ==
    ASSUME IInv, NEW h \in Handle, Crash(h)
    PROVE  IInv'
<1> DEFINE n == Idle(None)
<1>1. n \in Store /\ n.pc = "idle" /\ n.cache = None
    BY DEF Idle, Store, Pc
<1>2. /\ handle' = [handle EXCEPT ![h] = n] /\ lock' = (IF lock = h THEN None ELSE lock)
      /\ UNCHANGED <<disk, issued, acked, damages, losses>>
    BY DEF Crash
<1> HIDE DEF n
<1>3. CacheOK(n.cache, manifest, snaps, segs)
    BY <1>1 DEF CacheOK
<1>4. HandleOK(n, issued, manifest, snaps, segs)
    BY <1>1, <1>3, ReadingOK
<1>5. /\ lock' \in {h, lock, None} /\ (lock # h => lock' \in {h, lock})
      /\ (lock' = h => lock \in {h, None})
    BY <1>2
<1> QED BY <1>1, <1>2, <1>4, <1>5, Quiet

\* The parts of a handle that go to another step.
LEMMA GotoShape ==
    ASSUME NEW h \in Handle, DOMAIN handle = Handle, handle[h] \in Store, NEW pc \in Pc, Goto(h, pc)
    PROVE  \E n \in Store : /\ n.pc = pc /\ n.cache = handle[h].cache /\ n.plan = handle[h].plan
                            /\ handle' = [handle EXCEPT ![h] = n]
<1> DEFINE r == handle[h]
           n == [r EXCEPT !.pc = pc]
<1>1. handle' = [handle EXCEPT ![h] = n]
    BY DEF Goto
<1>2. r \in Store
    OBVIOUS
<1> HIDE DEF r
<1>3. n \in Store /\ n.pc = pc /\ n.cache = r.cache /\ n.plan = r.plan
    BY <1>2 DEF Store
<1> HIDE DEF n
<1> QED BY <1>1, <1>3 DEF r

LEMMA AcquireKeeps ==
    ASSUME IInv, NEW h \in Handle, Acquire(h)
    PROVE  IInv'
<1>1. /\ Goto(h, "read") /\ lock = None /\ lock' = h
      /\ UNCHANGED <<disk, issued, acked, damages, losses>>
    BY DEF Acquire
<1>2. PICK n \in Store : /\ n.pc = "read" /\ n.cache = handle[h].cache /\ n.plan = handle[h].plan
                         /\ handle' = [handle EXCEPT ![h] = n]
    BY <1>1, Handles, GotoShape DEF Pc
<1>3. CacheOK(n.cache, manifest, snaps, segs)
    BY <1>2, Handles DEF HandleOK
<1>4. HandleOK(n, issued, manifest, snaps, segs)
    BY <1>2, <1>3, ReadingOK
<1> QED BY <1>1, <1>2, <1>4, Quiet

\* A handle that begins to publish a set.
LEMMA PlanShape ==
    ASSUME NEW h \in Handle, DOMAIN handle = Handle, handle[h] \in Store, NEW p \in Plan,
           handle' = [handle EXCEPT ![h].pc = "snap", ![h].plan = p]
    PROVE  \E n \in Store : /\ n.pc = "snap" /\ n.cache = handle[h].cache /\ n.plan = p
                            /\ handle' = [handle EXCEPT ![h] = n]
<1> DEFINE r == handle[h]
           n == [r EXCEPT !.pc = "snap", !.plan = p]
<1>1. handle' = [handle EXCEPT ![h] = n]
    OBVIOUS
<1>2. r \in Store
    OBVIOUS
<1> HIDE DEF r
<1>3. n \in Store /\ n.pc = "snap" /\ n.cache = r.cache /\ n.plan = p
    BY <1>2 DEF Store, Pc
<1> HIDE DEF n
<1> QED BY <1>1, <1>3 DEF r

LEMMA PlannedOK ==
    ASSUME NEW r, r.pc = "snap", NEW is, NEW m, NEW sn, NEW sg,
           CacheOK(r.cache, m, sn, sg), PlanOK(r.plan, m, sn, sg)
    PROVE  HandleOK(r, is, m, sn, sg)
BY DEF HandleOK, ReadOK, WrittenOK

LEMMA PlanInitialKeeps ==
    ASSUME IInv, NEW h \in Handle, PlanInitial(h)
    PROVE  IInv'
<1> DEFINE p == [gen |-> 0, state |-> <<>>, prev |-> None, old |-> None, rotate |-> FALSE]
<1>1. /\ handle[h].pc = "read" /\ manifest = None /\ UNCHANGED lock
      /\ handle' = [handle EXCEPT ![h].pc = "snap", ![h].plan = p]
      /\ UNCHANGED <<disk, issued, acked, damages, losses>>
    BY DEF PlanInitial
<1>2. <<>> \in State
    BY EmptySeq DEF State
<1>3. p \in Plan /\ p.gen = 0 /\ p.state = <<>> /\ p.prev = None /\ ~p.rotate
    BY <1>2 DEF Plan
<1> HIDE DEF p
<1>4. PICK n \in Store : /\ n.pc = "snap" /\ n.cache = handle[h].cache /\ n.plan = p
                         /\ handle' = [handle EXCEPT ![h] = n]
  <2>1. DOMAIN handle = Handle /\ handle[h] \in Store
      BY Handles
  <2>2. p \in Plan /\ handle' = [handle EXCEPT ![h].pc = "snap", ![h].plan = p]
      BY <1>1, <1>3
  <2> QED BY ONLY h \in Handle, <2>1, <2>2, PlanShape
<1>5. PlanOK(n.plan, manifest, snaps, segs)
    BY <1>1, <1>3, <1>4, NoneAssumption DEF PlanOK
<1>6. CacheOK(n.cache, manifest, snaps, segs) /\ lock = h
    BY <1>1, <1>4, Handles DEF HandleOK
<1>7. HandleOK(n, issued, manifest, snaps, segs)
    BY <1>4, <1>5, <1>6, PlannedOK
<1> QED BY <1>1, <1>4, <1>6, <1>7, Quiet

\* A current set that cannot be read, from the cache or from its snapshot, is damaged.
LEMMA UnreadIsDamaged ==
    ASSUME IInv, NEW h \in Handle, manifest # None, ~Readable(h)
    PROVE  ~Whole(manifest.cur.name, snaps, segs)
<1> DEFINE x == manifest.cur.name
<1>1. Filed(x, snaps, segs) /\ DiskType(manifest, snaps, segs)
    BY Disk DEF FilesOK, CurrentOK
<1>2. Len(segs[x].frames) \in Nat
    BY <1>1, FileTypes
<1>3. SUFFICES ASSUME Whole(x, snaps, segs) PROVE FALSE
    OBVIOUS
<1>4. segs[x].bad = 0 /\ ~snaps[x].bad
    BY <1>3 DEF Whole
<1>5. CASE Current(h)
  <2>1. handle[h].cache.off <= Len(segs[x].frames)
      BY <1>5, Handles DEF Current, HandleOK, CacheOK
  <2> QED BY <1>4, <1>5, <2>1 DEF Readable, Replays
<1>6. CASE ~Current(h)
  <2>1. LoadsSet(manifest.cur, TRUE)
      BY <1>1, <1>2, <1>4 DEF LoadsSet, Replays, Filed
  <2> QED BY <1>6, <2>1 DEF Readable
<1> QED BY <1>5, <1>6

LEMMA PlanRecoveryKeeps ==
    ASSUME IInv, NEW h \in Handle, PlanRecovery(h)
    PROVE  IInv'
<1> DEFINE y == manifest.prev.name
           p == [gen |-> manifest.gen + 1, state |-> StateOf(y),
                 prev |-> manifest.prev, old |-> None, rotate |-> FALSE]
<1>1. /\ handle[h].pc = "read" /\ manifest # None /\ manifest.prev # None
      /\ ~Readable(h) /\ UNCHANGED lock
      /\ handle' = [handle EXCEPT ![h].pc = "snap", ![h].plan = p]
      /\ UNCHANGED <<disk, issued, acked, damages, losses>>
    BY DEF PlanRecovery
<1>2. /\ manifest \in Manifest /\ DiskType(manifest, snaps, segs)
      /\ RetainedOK(manifest, snaps, segs)
    BY <1>1, Disk DEF FilesOK
<1>3. /\ manifest.gen \in Nat /\ manifest.prev \in Set /\ y \in Name
    BY <1>1, <1>2, NamedTypes
<1>4. /\ SealedOK(manifest.prev, snaps, segs) /\ Filed(y, snaps, segs)
      /\ y[1] < manifest.gen
    BY <1>2 DEF RetainedOK, SealedOK
<1>5. StateOf(y) = Joined(y, snaps, segs) /\ StateOf(y) \in State
    BY <1>2, <1>4, JoinedShape DEF StateOf, Joined, IsJoin
<1>6. y[1] <= manifest.gen
    BY <1>3, <1>4 DEF Name
<1>7. /\ p \in Plan /\ p.gen = manifest.gen + 1 /\ p.state = StateOf(y)
      /\ p.prev = manifest.prev /\ ~p.rotate
    BY <1>3, <1>5 DEF Plan
<1> HIDE DEF p
<1>8. PICK n \in Store : /\ n.pc = "snap" /\ n.cache = handle[h].cache /\ n.plan = p
                         /\ handle' = [handle EXCEPT ![h] = n]
  <2>1. DOMAIN handle = Handle /\ handle[h] \in Store
      BY Handles
  <2>2. p \in Plan /\ handle' = [handle EXCEPT ![h].pc = "snap", ![h].plan = p]
      BY <1>1, <1>7
  <2> QED BY ONLY h \in Handle, <2>1, <2>2, PlanShape
<1>9. PlanOK(n.plan, manifest, snaps, segs)
    BY <1>1, <1>4, <1>5, <1>6, <1>7, <1>8, NoneAssumption, UnreadIsDamaged DEF PlanOK
<1>10. CacheOK(n.cache, manifest, snaps, segs) /\ lock = h
    BY <1>1, <1>8, Handles DEF HandleOK
<1>11. HandleOK(n, issued, manifest, snaps, segs)
    BY <1>8, <1>9, <1>10, PlannedOK
<1> QED BY <1>1, <1>8, <1>10, <1>11, Quiet

----------------------------------------------------------------------------
(* Steps on the current segment.                                           *)

LEMMA SegmentSteps ==
    ASSUME IInv, manifest # None, NEW h \in Handle, handle[h].pc # "idle",
           NEW t, Extended(segs[manifest.cur.name], t),
           Changed(segs, manifest.cur.name, t, segs'),
           UNCHANGED <<manifest, snaps, damages, losses>>,
           issued' \in issued..MaxEvent, acked' \subseteq Event,
           \A i \in 1..Len(t.frames) :
                i \in 1..Len(segs[manifest.cur.name].frames) \/ t.frames[i] <= issued',
           \A e \in acked' : e \in acked \/ \E i \in 1..t.synced : t.frames[i] = e,
           NEW n \in Store, handle' = [handle EXCEPT ![h] = n],
           \/ n.pc = "idle" /\ lock' = None
           \/ lock' = lock,
           HandleOK(n, issued', manifest, snaps, segs')
    PROVE  IInv'
<1> DEFINE x == manifest.cur.name
           t0 == segs[x]
           J == Joined(x, snaps, segs)
           J1 == Joined(x, snaps, segs')
           s == snaps[x].state
<1>1. /\ DiskType(manifest, snaps, segs) /\ FilesOK(manifest, snaps, segs)
      /\ FaultsOK(damages, manifest, snaps, segs)
      /\ EventsOK(issued, acked, damages, manifest, snaps, segs)
      /\ manifest \in Manifest /\ issued \in 0..MaxEvent /\ MaxEvent \in Nat
      /\ damages \in 0..MaxDamage /\ losses \in 0..MaxLoss
    BY Disk
<1>2. /\ Filed(x, snaps, segs) /\ manifest.cur.base = Len(s) /\ x \in DOMAIN segs
      /\ t0.synced <= Len(t0.frames)
    BY <1>1 DEF FilesOK, CurrentOK, Filed
<1>3. Changed(segs, x, t, segs')
    OBVIOUS
<1>4. /\ t \in Segment /\ t.synced <= Len(t.frames) /\ t.bad = t0.bad
      /\ t0.synced <= t.synced /\ Len(t0.frames) <= Len(t.frames)
      /\ \A i \in 1..Len(t0.frames) : t.frames[i] = t0.frames[i]
    BY DEF Extended
<1>5. /\ DiskType(manifest, snaps, segs') /\ FilesOK(manifest, snaps, segs')
      /\ Filed(x, snaps, segs') /\ segs'[x] = t
      /\ manifest.prev # None => (Whole(manifest.prev.name, snaps, segs)
                                    <=> Whole(manifest.prev.name, snaps, segs'))
    BY <1>1, <1>3, <1>4, SegmentChanges
<1>6. /\ Len(J) <= Len(J1)
      /\ \A i \in 1..Len(J) : J1[i] = J[i]
      /\ \A c \in Cache \cup {None} :
            CacheOK(c, manifest, snaps, segs) => CacheOK(c, manifest, snaps, segs')
    BY <1>1, <1>3, SegmentGrows
<1>7. FaultsOK(damages, manifest, snaps, segs')
  <2>1. Whole(x, snaps, segs) <=> Whole(x, snaps, segs')
      BY <1>4, <1>5 DEF Whole
  <2>2. ASSUME damages = 0, NEW y \in DOMAIN segs'
        PROVE  segs'[y].bad = 0
      BY <1>1, <1>2, <1>3, <1>4, <2>2 DEF FaultsOK, Changed
  <2> QED BY <1>1, <1>5, <2>1, <2>2 DEF FaultsOK
<1>8. EventsOK(issued', acked', damages, manifest, snaps, segs')
  <2>1. /\ s \in State /\ t0.frames \in State /\ segs'[x].frames \in State /\ segs'[x].frames = t.frames
        /\ t0.synced \in Nat /\ segs'[x].synced \in Nat
      BY <1>1, <1>2, <1>5, FileTypes
  <2>2. IsJoin(J1, s, t.frames) /\ IsJoin(J, s, t0.frames)
    <3>1. IsJoin(J1, s, segs'[x].frames) /\ IsJoin(J, s, t0.frames)
        BY <1>1, <1>2, <1>5, JoinedShape, Zenon
    <3> QED BY <3>1, <2>1
  <2>3. /\ \A i \in 1..Len(J) : J[i] <= issued
        /\ damages = 0 => \A e \in acked : \E i \in 1..(manifest.cur.base + t0.synced) : J[i] = e
      BY <1>1 DEF EventsOK
  <2> DEFINE f0 == t0.frames
             f == t.frames
  <2>4. /\ \A i \in 1..Len(f) : i \in 1..Len(f0) \/ f[i] <= issued'
        /\ \A e \in acked' : e \in acked \/ \E i \in 1..t.synced : f[i] = e
        /\ s \in State /\ f0 \in State /\ f \in State
        /\ IsJoin(J1, s, f) /\ IsJoin(J, s, f0)
        /\ Len(f0) <= Len(f) /\ t.synced <= Len(f) /\ t0.synced <= Len(f0)
        /\ manifest.cur.base = Len(s) /\ t0.synced \in Nat /\ t.synced \in Nat /\ segs'[x] = t
        /\ t0.synced <= t.synced
      BY <1>2, <1>4, <1>5, <2>1, <2>2
  <2> HIDE DEF f, f0, J, J1, s
  <2>5. /\ Len(s) \in Nat /\ Len(f) \in Nat /\ Len(f0) \in Nat /\ Len(J) = Len(s) + Len(f0)
        /\ Len(J1) = Len(s) + Len(f)
      BY <2>4, JoinAt DEF IsJoin
  <2>6. ASSUME NEW i \in 1..Len(J1)
        PROVE  J1[i] <= issued'
    <3>1. CASE i \in 1..Len(J)
      <4>1. J1[i] = J[i] /\ J[i] <= issued /\ J[i] \in Event
        <5>1. J \in Seq(Event)
            BY <2>4 DEF IsJoin, State
        <5> QED BY <3>1, <5>1, <1>6, <2>3, ElementOfSeq
      <4> QED BY <4>1, <1>1 DEF Event
    <3>2. CASE i \notin 1..Len(J)
      <4>1. i - Len(s) \in 1..Len(f) /\ i - Len(s) \notin 1..Len(f0) /\ i \notin 1..Len(s)
          BY <3>2, <2>5
      <4>2. J1[i] = f[i - Len(s)]
          BY <4>1, <2>4, JoinAt
      <4> QED BY <4>1, <4>2, <2>4
    <3> QED BY <3>1, <3>2
  <2>7. ASSUME damages = 0, NEW e \in acked'
        PROVE  \E i \in 1..(manifest.cur.base + t.synced) : J1[i] = e
    <3>1. CASE e \in acked
      <4>1. PICK i \in 1..(manifest.cur.base + t0.synced) : J[i] = e
          BY <3>1, <2>3, <2>7
      <4>2. i \in 1..(manifest.cur.base + t.synced) /\ i \in 1..Len(J)
          BY <2>4, <2>5
      <4> QED BY <4>1, <4>2, <1>6
    <3>2. CASE e \notin acked
      <4>1. PICK i \in 1..t.synced : f[i] = e
          BY <3>2, <2>4
      <4>2. i \in 1..Len(f) /\ Len(s) + i \in 1..(manifest.cur.base + t.synced)
          BY <2>4, <2>5
      <4>3. J1[Len(s) + i] = f[i]
          BY <4>2, <2>4, JoinAt
      <4> QED BY <4>1, <4>2, <4>3
    <3> QED BY <3>1, <3>2
  <2> QED BY <1>5, <2>6, <2>7 DEF EventsOK, J1
<1>9. /\ manifest' = manifest /\ snaps' = snaps /\ damages' = damages /\ losses' = losses
      /\ lock = h
    BY Handles
<1>10. HandleOK(n, issued', manifest', snaps', segs')
    BY <1>9
<1>11. \A c \in Cache \cup {None} :
            CacheOK(c, manifest, snaps, segs) => CacheOK(c, manifest', snaps', segs')
    BY <1>6, <1>9
<1>12. /\ DOMAIN handle' = Handle /\ lock' \in Handle \cup {None}
       /\ \A k \in Handle : handle'[k] \in Store
       /\ Locked'
       /\ \A k \in Handle : HandleOK(handle'[k], issued', manifest', snaps', segs')
    BY <1>9, <1>10, <1>11, HandleSteps, NoneAssumption
<1>13. issued' \in 0..MaxEvent
    BY <1>1
<1> QED BY <1>1, <1>5, <1>7, <1>8, <1>9, <1>12, <1>13, Assembled

LEMMA CurrentFacts ==
    ASSUME IInv, manifest # None
    PROVE  /\ manifest \in Manifest /\ DiskType(manifest, snaps, segs)
           /\ FilesOK(manifest, snaps, segs)
           /\ manifest.cur \in Set /\ manifest.gen \in Nat
           /\ manifest.cur.name \in Name /\ manifest.cur.name \in DOMAIN segs
           /\ Filed(manifest.cur.name, snaps, segs)
           /\ segs[manifest.cur.name] \in Segment
           /\ segs[manifest.cur.name].frames \in State
           /\ segs[manifest.cur.name].synced \in Nat
           /\ segs[manifest.cur.name].synced <= Len(segs[manifest.cur.name].frames)
           /\ snaps[manifest.cur.name].state \in State
           /\ manifest.cur.base = Len(snaps[manifest.cur.name].state)
           /\ Len(snaps[manifest.cur.name].state) \in Nat
           /\ Len(segs[manifest.cur.name].frames) \in Nat
           /\ IsJoin(Joined(manifest.cur.name, snaps, segs), snaps[manifest.cur.name].state,
                     segs[manifest.cur.name].frames)
<1>1. /\ manifest \in Manifest /\ DiskType(manifest, snaps, segs) /\ FilesOK(manifest, snaps, segs)
      /\ CurrentOK(manifest, snaps, segs)
    BY Disk DEF FilesOK
<1>2. /\ Filed(manifest.cur.name, snaps, segs) /\ manifest.cur.name \in DOMAIN segs
      /\ segs[manifest.cur.name].synced <= Len(segs[manifest.cur.name].frames)
      /\ manifest.cur.base = Len(snaps[manifest.cur.name].state)
    BY <1>1 DEF CurrentOK, Filed
<1>3. segs[manifest.cur.name] \in Segment
    BY <1>1, <1>2 DEF DiskType
<1> QED BY <1>1, <1>2, <1>3, NamedTypes, FileTypes, JoinedShape

LEMMA RepairExtends ==
    ASSUME NEW seg \in Segment, seg.synced <= Len(seg.frames)
    PROVE  Extended(seg, Repaired(seg)) /\ Repaired(seg).frames = seg.frames
<1>1. seg.frames \in State /\ seg.synced \in Nat /\ Len(seg.frames) \in Nat
    BY LenProperties DEF Segment, State
<1>2. CASE ~seg.torn
    BY <1>1, <1>2 DEF Repaired, Extended
<1>3. CASE seg.torn
  <2> DEFINE t == [seg EXCEPT !.torn = FALSE, !.synced = Len(seg.frames)]
  <2>1. Repaired(seg) = t
      BY <1>3 DEF Repaired
  <2>2. /\ t \in Segment /\ t.frames = seg.frames /\ t.bad = seg.bad
        /\ t.synced = Len(seg.frames)
      BY <1>1 DEF Segment
  <2> HIDE DEF t
  <2> QED BY <1>1, <2>1, <2>2 DEF Extended
<1> QED BY <1>2, <1>3

\* The events st are the first ones of j.
Agrees(st, j) == \A i \in 1..Len(st) : st[i] = j[i]

\* So they are the prefix of their length.
LEMMA PrefixIs ==
    ASSUME NEW st \in State, NEW j \in State, Agrees(st, j), Len(st) <= Len(j)
    PROVE  st = SubSeq(j, 1, Len(st))
<1> DEFINE k == Len(st)
           u == SubSeq(j, 1, k)
<1>1. k \in Nat /\ Len(j) \in Nat
    BY LenProperties DEF State
<1>2. \A i \in 1..k : j[i] \in Event
  <2>1. \A i \in 1..k : i \in 1..Len(j)
      BY <1>1
  <2> QED BY <2>1, ElementOfSeq DEF State
<1>3. \A i \in 1..k : st[i] = j[i]
    BY DEF Agrees
<1>4. Len(st) = k
    OBVIOUS
<1> HIDE DEF k
<1>5. /\ u \in Seq(Event)
      /\ Len(u) = IF 1 <= k THEN k - 1 + 1 ELSE 0
      /\ \A i \in 1..(k - 1 + 1) : u[i] = j[1 + i - 1]
    BY <1>1, <1>2, SubSeqProperties
<1> HIDE DEF u
<1>6. Len(u) = k /\ \A i \in 1..k : u[i] = j[i]
    BY <1>1, <1>5
<1>7. st = u
    BY <1>3, <1>4, <1>5, <1>6, SeqEqual DEF State
<1> QED BY <1>7 DEF u, k

IsCatch(st1, st, f, off) == st1 = st \o SubSeq(f, off + 1, Len(f))

\* Taking in the frames after the cached offset gives all the events of the files.
LEMMA Catching ==
    ASSUME NEW s \in State, NEW f \in State, NEW j, IsJoin(j, s, f),
           NEW st \in State, NEW off \in Nat, off <= Len(f), Len(st) = Len(s) + off,
           Agrees(st, j),
           NEW st1, IsCatch(st1, st, f, off)
    PROVE  /\ st1 \in State /\ Len(st1) = Len(s) + Len(f)
           /\ Agrees(st1, j)
<1> DEFINE u == SubSeq(f, off + 1, Len(f))
<1>1. Len(s) \in Nat /\ Len(f) \in Nat /\ Len(st) \in Nat
    BY LenProperties DEF State
<1>2. \A i \in (off + 1)..Len(f) : f[i] \in Event
  <2>1. \A i \in (off + 1)..Len(f) : i \in 1..Len(f)
      BY <1>1
  <2> QED BY <2>1, ElementOfSeq DEF State
<1>3. /\ u \in Seq(Event)
      /\ Len(u) = IF off + 1 <= Len(f) THEN Len(f) - (off + 1) + 1 ELSE 0
      /\ \A i \in 1..(Len(f) - (off + 1) + 1) : u[i] = f[(off + 1) + i - 1]
  <2>1. off + 1 \in Int /\ Len(f) \in Int
      BY <1>1
  <2> QED BY <1>2, <2>1, SubSeqProperties
<1>5. st1 = st \o u
    BY DEF IsCatch
<1> HIDE DEF u
<1>4. Len(u) = Len(f) - off /\ \A i \in 1..Len(u) : u[i] = f[off + i]
  <2>1. Len(u) = Len(f) - off
      BY <1>1, <1>3
  <2>2. ASSUME NEW i \in 1..Len(u)
        PROVE  u[i] = f[off + i]
    <3>1. i \in 1..(Len(f) - (off + 1) + 1) /\ (off + 1) + i - 1 = off + i
        BY <2>1, <1>1
    <3> QED BY <3>1, <1>3
  <2> QED BY <2>1, <2>2
<1>a. IsJoin(st \o u, st, u)
    BY <1>3, ConcatProperties DEF IsJoin, State
<1>b. IsJoin(st1, st, u)
    BY <1>a, <1>5, Zenon
<1>6. /\ st1 \in State /\ Len(st1) = Len(st) + Len(u)
      /\ \A i \in 1..(Len(st) + Len(u)) : st1[i] = IF i <= Len(st) THEN st[i] ELSE u[i - Len(st)]
    BY <1>b, Zenon DEF IsJoin
<1>7. Len(st1) = Len(s) + Len(f)
  <2>1. Len(u) = Len(f) - off /\ Len(st1) = Len(st) + Len(u) /\ Len(st) = Len(s) + off
      BY <1>4, <1>6
  <2> QED BY <2>1, <1>1
<1>8. ASSUME NEW i \in 1..Len(st1)
      PROVE  st1[i] = j[i]
  <2>1. i \in 1..(Len(st) + Len(u))
      BY <1>6
  <2>2. CASE i <= Len(st)
    <3>1. i \in 1..Len(st)
        BY <2>1, <2>2, <1>1
    <3> QED BY <2>1, <2>2, <3>1, <1>6 DEF Agrees
  <2>3. CASE ~(i <= Len(st))
    <3>1. /\ i - Len(st) \in 1..Len(u) /\ off + (i - Len(st)) = i - Len(s)
          /\ i - Len(s) \in 1..Len(f) /\ Len(s) + (i - Len(s)) = i
        BY <2>1, <2>3, <1>1, <1>4
    <3>2. st1[i] = u[i - Len(st)]
        BY <2>1, <2>3, <1>6
    <3>3. u[i - Len(st)] = f[i - Len(s)]
        BY <3>1, <1>4
    <3>4. j[Len(s) + (i - Len(s))] = f[i - Len(s)]
        BY <3>1, JoinAt
    <3> QED BY <3>1, <3>2, <3>3, <3>4
  <2> QED BY <2>2, <2>3
<1> QED BY <1>6, <1>7, <1>8 DEF Agrees

\* A cache that holds all the events of the current files.
Full(c) ==
    /\ c \in Cache /\ c.gen = manifest.gen /\ c.name = manifest.cur.name
    /\ c.off = Len(segs[manifest.cur.name].frames)
    /\ Len(c.state) = manifest.cur.base + c.off
    /\ \A i \in 1..Len(c.state) : c.state[i] = Joined(manifest.cur.name, snaps, segs)[i]

\* Loading everything gives such a cache.
LEMMA LoadedIsFull ==
    ASSUME IInv, manifest # None
    PROVE  Full(CacheOf(manifest)) /\ CacheOf(manifest).state = Joined(manifest.cur.name, snaps, segs)
<1> DEFINE x == manifest.cur.name
           c == CacheOf(manifest)
           J == Joined(x, snaps, segs)
<1>1. /\ J \in State /\ Len(J) = manifest.cur.base + Len(segs[x].frames)
      /\ manifest.gen \in Nat /\ x \in Name /\ Len(segs[x].frames) \in Nat
    BY CurrentFacts DEF IsJoin
<1>2. c = [gen |-> manifest.gen, name |-> x, state |-> J, off |-> Len(segs[x].frames)]
    BY DEF CacheOf, StateOf, Joined
<1>3. /\ c \in Cache /\ c.gen = manifest.gen /\ c.name = x /\ c.state = J
      /\ c.off = Len(segs[x].frames)
  <2> HIDE DEF c, J, x
  <2> QED BY <1>1, <1>2 DEF Cache
<1> QED BY <1>1, <1>3 DEF Full

\* So does catching up from a current cache.
LEMMA CaughtUpIsFull ==
    ASSUME IInv, NEW h \in Handle, manifest # None
    PROVE  Full(CaughtUp(h))
<1> DEFINE x == manifest.cur.name
           f == segs[x].frames
           s == snaps[x].state
           J == Joined(x, snaps, segs)
           r == handle[h].cache
           st1 == r.state \o SubSeq(f, r.off + 1, Len(f))
           c == [r EXCEPT !.state = st1, !.off = Len(f)]
<1>1. CASE ~Current(h)
    BY <1>1, LoadedIsFull DEF CaughtUp
<1>2. CASE Current(h)
  <2>1. /\ r \in Cache /\ r.gen = manifest.gen /\ r.name = x /\ r.off <= Len(f)
        /\ Len(r.state) = manifest.cur.base + r.off
        /\ \A i \in 1..Len(r.state) : r.state[i] = J[i]
      BY <1>2, Handles DEF Current, HandleOK, CacheOK
  <2>2. CaughtUp(h) = c
      BY <1>2 DEF CaughtUp
  <2>3. /\ s \in State /\ f \in State /\ IsJoin(J, s, f) /\ manifest.cur.base = Len(s)
        /\ Len(f) \in Nat
      BY CurrentFacts
  <2>4. r.state \in State /\ r.off \in Nat
      BY <2>1 DEF Cache
  <2>5. /\ st1 \in State /\ Len(st1) = Len(s) + Len(f)
        /\ \A i \in 1..Len(st1) : st1[i] = J[i]
    <3> HIDE DEF x, f, s, J, r
    <3>1. Len(r.state) = Len(s) + r.off
        BY <2>1, <2>3
    <3>2. Agrees(r.state, J)
        BY <2>1 DEF Agrees
    <3>3. st1 = r.state \o SubSeq(f, r.off + 1, Len(f))
        OBVIOUS
    <3> DEFINE old == r.state
               off == r.off
    <3>4. /\ old \in State /\ off \in Nat /\ off <= Len(f) /\ Len(old) = Len(s) + off
          /\ Agrees(old, J) /\ IsCatch(st1, old, f, off)
        BY <2>1, <2>4, <3>1, <3>2, <3>3 DEF IsCatch
    <3> HIDE DEF st1, old, off
    <3>5. st1 \in State /\ Len(st1) = Len(s) + Len(f) /\ Agrees(st1, J)
        BY <2>3, <3>4, Catching
    <3> QED BY <3>5 DEF Agrees
  <2> HIDE DEF st1
  <2>6. /\ c \in Cache /\ c.gen = r.gen /\ c.name = r.name /\ c.state = st1 /\ c.off = Len(f)
    <3> HIDE DEF f, r
    <3> QED BY <2>1, <2>3, <2>5 DEF Cache
  <2> HIDE DEF c
  <2> QED BY <2>1, <2>2, <2>3, <2>5, <2>6 DEF Full
<1> QED BY <1>1, <1>2

LEMMA ReadyOK ==
    ASSUME NEW r, r.pc = "ready", NEW is, NEW m, NEW sn, NEW sg, CacheOK(r.cache, m, sn, sg),
           r.cache # None, r.cache.gen = m.gen, r.cache.name = m.cur.name
    PROVE  HandleOK(r, is, m, sn, sg)
BY DEF HandleOK, ReadOK, WrittenOK

LEMMA FullOK ==
    ASSUME IInv, manifest # None, NEW c, Full(c)
    PROVE  CacheOK(c, manifest, snaps, segs) /\ c # None
<1>1. manifest.gen \in Nat /\ c \in Cache /\ Len(segs[manifest.cur.name].frames) \in Nat
    BY CurrentFacts DEF Full
<1> QED BY <1>1, NoneAssumption DEF Full, CacheOK

LEMMA CatchUpKeeps ==
    ASSUME IInv, NEW h \in Handle, CatchUp(h)
    PROVE  IInv'
<1> DEFINE x == manifest.cur.name
           t == Repaired(segs[x])
           r == handle[h]
           c == CaughtUp(h)
           n == [r EXCEPT !.pc = "ready", !.cache = c]
<1>1. /\ r.pc = "read" /\ manifest # None
      /\ segs' = [segs EXCEPT ![x] = t] /\ handle' = [handle EXCEPT ![h] = n]
      /\ UNCHANGED <<manifest, snaps, lock, issued, acked, damages, losses>>
    BY DEF CatchUp, Readable
<1>2. Full(c)
    BY <1>1, CaughtUpIsFull
<1>3. CacheOK(c, manifest, snaps, segs) /\ c # None /\ c.gen = manifest.gen /\ c.name = x /\ c \in Cache
    BY <1>1, <1>2, FullOK DEF Full
<1>4. /\ manifest \in Manifest /\ DiskType(manifest, snaps, segs) /\ FilesOK(manifest, snaps, segs)
      /\ x \in DOMAIN segs /\ segs[x] \in Segment /\ segs[x].synced <= Len(segs[x].frames)
    BY <1>1, CurrentFacts
<1>5. Extended(segs[x], t) /\ t.frames = segs[x].frames
    BY <1>4, RepairExtends
<1>6. Changed(segs, x, t, segs')
    BY <1>1, <1>4, ExceptChanges
<1>7. r \in Store /\ r.pc # "idle"
    BY <1>1, Handles
<1> HIDE DEF r, c, t, x
<1>8. n \in Store /\ n.pc = "ready" /\ n.cache = c
    BY <1>3, <1>7 DEF Store, Pc
<1> HIDE DEF n
<1>9. CacheOK(c, manifest, snaps, segs')
  <2>1. \A d \in Cache \cup {None} : CacheOK(d, manifest, snaps, segs) => CacheOK(d, manifest, snaps, segs')
    <3> USE DEF x
    <3> QED BY <1>4, <1>5, <1>6, SegmentGrows
  <2> QED BY <1>3, <2>1
<1>10. HandleOK(n, issued', manifest, snaps, segs')
    BY <1>3, <1>8, <1>9, ReadyOK DEF x
<1>11. /\ issued \in 0..MaxEvent /\ MaxEvent \in Nat /\ acked \subseteq Event
       /\ issued' = issued /\ acked' = acked
    BY <1>1, Disk
<1>12. /\ issued' \in issued..MaxEvent /\ acked' \subseteq Event
       /\ \A i \in 1..Len(t.frames) : i \in 1..Len(segs[x].frames) \/ t.frames[i] <= issued'
       /\ \A e \in acked' : e \in acked \/ \E i \in 1..t.synced : t.frames[i] = e
    BY <1>5, <1>11
<1> QED BY <1>1, <1>5, <1>6, <1>7, <1>8, <1>10, <1>12, SegmentSteps DEF x, r

\* A handle that has read the log works on the current segment.
LEMMA AtWork ==
    ASSUME IInv, NEW h \in Handle, handle[h].pc \in {"ready", "written"}
    PROVE  /\ manifest # None /\ handle[h].cache \in Cache
           /\ handle[h].cache.gen = manifest.gen /\ handle[h].cache.name = manifest.cur.name
           /\ CacheOK(handle[h].cache, manifest, snaps, segs)
           /\ handle[h].cache.off \in Nat /\ handle[h].cache.state \in State
           /\ Len(handle[h].cache.state) = manifest.cur.base + handle[h].cache.off
           /\ Agrees(handle[h].cache.state, Joined(manifest.cur.name, snaps, segs))
           /\ handle[h].pc = "written" =>
                /\ Len(segs[manifest.cur.name].frames) = handle[h].cache.off + 1
                /\ segs[manifest.cur.name].frames[handle[h].cache.off + 1] = issued
<1> DEFINE r == handle[h]
           c == r.cache
<1>1. /\ CacheOK(c, manifest, snaps, segs) /\ ReadOK(r, issued, manifest, segs)
      /\ c \in Cache \cup {None}
    BY Handles DEF HandleOK
<1>2. c # None /\ c.gen = manifest.gen /\ c.name = manifest.cur.name
    BY <1>1 DEF ReadOK
<1>3. /\ manifest # None
      /\ Len(c.state) = manifest.cur.base + c.off
      /\ Agrees(c.state, Joined(manifest.cur.name, snaps, segs))
    BY <1>1, <1>2 DEF CacheOK, Agrees
<1>4. c \in Cache /\ c.off \in Nat /\ c.state \in State
    BY <1>1, <1>2 DEF Cache
<1>5. r.pc = "written" =>
        /\ Len(segs[manifest.cur.name].frames) = c.off + 1
        /\ segs[manifest.cur.name].frames[c.off + 1] = issued
    BY <1>1 DEF ReadOK
<1> QED BY <1>1, <1>2, <1>3, <1>4, <1>5

LEMMA AppendFrameKeeps ==
    ASSUME IInv, NEW h \in Handle, AppendFrame(h)
    PROVE  IInv'
<1> DEFINE x == manifest.cur.name
           t0 == segs[x]
           f == t0.frames
           t == [t0 EXCEPT !.frames = Append(f, issued')]
           r == handle[h]
<1>1. manifest # None /\ r.cache.name = x /\ r.cache.gen = manifest.gen /\ r.cache \in Cache
      /\ CacheOK(r.cache, manifest, snaps, segs) /\ r.cache.off \in Nat
    BY AtWork DEF AppendFrame
<1>2. /\ r.pc = "ready" /\ issued < MaxEvent /\ Len(f) = r.cache.off
      /\ issued' = issued + 1 /\ segs' = [segs EXCEPT ![x] = t] /\ Goto(h, "written")
      /\ UNCHANGED <<manifest, snaps, lock, acked, damages, losses>>
    BY <1>1 DEF AppendFrame
<1>3. /\ manifest \in Manifest /\ DiskType(manifest, snaps, segs) /\ FilesOK(manifest, snaps, segs)
      /\ x \in DOMAIN segs /\ t0 \in Segment /\ t0.synced <= Len(f) /\ f \in State
      /\ t0.synced \in Nat /\ Len(f) \in Nat
    BY <1>1, CurrentFacts
<1>4. /\ issued \in 0..MaxEvent /\ MaxEvent \in Nat /\ acked \subseteq Event /\ acked' = acked
    BY <1>2, Disk
<1>5. issued' \in Event /\ issued' \in issued..MaxEvent
    BY <1>2, <1>4 DEF Event
<1>6. Changed(segs, x, t, segs')
    BY <1>2, <1>3, ExceptChanges
<1>7. PICK n \in Store : /\ n.pc = "written" /\ n.cache = r.cache /\ n.plan = r.plan
                         /\ handle' = [handle EXCEPT ![h] = n]
    BY <1>2, Handles, GotoShape DEF Pc
<1> HIDE DEF f, r
<1>8. /\ Append(f, issued') \in State /\ Len(Append(f, issued')) = Len(f) + 1
      /\ \A i \in 1..Len(f) : Append(f, issued')[i] = f[i]
      /\ Append(f, issued')[Len(f) + 1] = issued'
    BY <1>3, <1>5, AppendProperties DEF State
<1>9. t \in Segment /\ t.frames = Append(f, issued') /\ t.synced = t0.synced /\ t.bad = t0.bad
  <2> HIDE DEF t0
  <2> QED BY <1>3, <1>8 DEF Segment
<1> HIDE DEF t
<1>10. Extended(t0, t)
  <2>1. t0.frames = f
      BY DEF f
  <2> HIDE DEF t0
  <2>2. t.synced <= Len(t.frames) /\ Len(f) <= Len(t.frames) /\ t0.synced <= t.synced
      BY <1>3, <1>8, <1>9
  <2>3. \A i \in 1..Len(f) : t.frames[i] = f[i]
      BY <1>8, <1>9
  <2> QED BY <1>9, <2>1, <2>2, <2>3 DEF Extended
<1>11. CacheOK(r.cache, manifest, snaps, segs')
  <2>1. \A d \in Cache \cup {None} : CacheOK(d, manifest, snaps, segs) => CacheOK(d, manifest, snaps, segs')
      BY <1>3, <1>6, <1>10, SegmentGrows
  <2> QED BY <1>1, <2>1
<1>12. segs'[x] = t
    BY <1>6 DEF Changed
<1>13. HandleOK(n, issued', manifest, snaps, segs')
  <2>1. ReadOK(n, issued', manifest, segs')
      BY <1>1, <1>2, <1>7, <1>8, <1>9, <1>12, NoneAssumption DEF ReadOK
  <2> QED BY <1>7, <1>11, <2>1 DEF HandleOK, WrittenOK
<1>14. \A i \in 1..Len(t.frames) : i \in 1..Len(f) \/ t.frames[i] <= issued'
  <2>1. ASSUME NEW i \in 1..Len(t.frames), i \notin 1..Len(f) PROVE i = Len(f) + 1
      BY <2>1, <1>3, <1>8, <1>9
  <2> QED BY <2>1, <1>5, <1>8, <1>9 DEF Event
<1> QED BY <1>1, <1>2, <1>4, <1>5, <1>6, <1>7, <1>10, <1>13, <1>14, SegmentSteps DEF r, f

LEMMA ShortWriteKeeps ==
    ASSUME IInv, NEW h \in Handle, ShortWrite(h)
    PROVE  IInv'
<1> DEFINE x == manifest.cur.name
           t0 == segs[x]
           t == [t0 EXCEPT !.torn = TRUE]
           r == handle[h]
<1>1. manifest # None /\ r.cache.name = x /\ r.cache.gen = manifest.gen /\ r.cache \in Cache
      /\ CacheOK(r.cache, manifest, snaps, segs)
    BY AtWork DEF ShortWrite
<1>2. /\ r.pc = "ready" /\ issued < MaxEvent /\ issued' = issued + 1
      /\ segs' = [segs EXCEPT ![x] = t] /\ Return(h, r.cache, FALSE)
      /\ UNCHANGED <<manifest, snaps, acked, damages, losses>>
    BY <1>1 DEF ShortWrite
<1>3. /\ manifest \in Manifest /\ DiskType(manifest, snaps, segs) /\ FilesOK(manifest, snaps, segs)
      /\ x \in DOMAIN segs /\ t0 \in Segment /\ t0.synced <= Len(t0.frames)
      /\ t0.synced \in Nat /\ Len(t0.frames) \in Nat
    BY <1>1, CurrentFacts
<1>4. /\ issued \in 0..MaxEvent /\ MaxEvent \in Nat /\ acked \subseteq Event /\ acked' = acked
    BY <1>2, Disk
<1>5. issued' \in issued..MaxEvent
    BY <1>2, <1>4
<1>6. Changed(segs, x, t, segs')
    BY <1>2, <1>3, ExceptChanges
<1>7. PICK n \in Store : /\ n.pc = "idle" /\ n.cache = r.cache
                         /\ handle' = [handle EXCEPT ![h] = n] /\ lock' = None
    BY <1>1, <1>2, ReturnShape
<1>8. t \in Segment /\ t.frames = t0.frames /\ t.synced = t0.synced /\ t.bad = t0.bad
  <2> HIDE DEF t0
  <2> QED BY <1>3 DEF Segment
<1> HIDE DEF t
<1>9. Extended(t0, t)
    BY <1>3, <1>8 DEF Extended
<1>10. CacheOK(n.cache, manifest, snaps, segs')
  <2>1. \A d \in Cache \cup {None} : CacheOK(d, manifest, snaps, segs) => CacheOK(d, manifest, snaps, segs')
      BY <1>3, <1>6, <1>9, SegmentGrows
  <2> QED BY <1>1, <1>7, <2>1
<1>11. HandleOK(n, issued', manifest, snaps, segs')
    BY <1>7, <1>10, ReadingOK
<1>12. \A i \in 1..Len(t.frames) : i \in 1..Len(t0.frames) \/ t.frames[i] <= issued'
    BY <1>8
<1> QED BY <1>1, <1>2, <1>4, <1>5, <1>6, <1>7, <1>9, <1>11, <1>12, SegmentSteps

IsCommit(c, r, e) == c = [r EXCEPT !.state = Append(@, e), !.off = @ + 1]

\* The cache after a committed append is the current files.
LEMMA CommittedCache ==
    ASSUME IInv, NEW h \in Handle, handle[h].pc = "written",
           NEW c, IsCommit(c, handle[h].cache, issued)
    PROVE  Full(c) /\ c.state = Joined(manifest.cur.name, snaps, segs)
<1> DEFINE x == manifest.cur.name
           f == segs[x].frames
           s == snaps[x].state
           J == Joined(x, snaps, segs)
           r == handle[h].cache
           st == r.state
           off == r.off
<1>1. /\ manifest # None /\ r \in Cache /\ r.gen = manifest.gen /\ r.name = x
      /\ off \in Nat /\ st \in State /\ Len(st) = manifest.cur.base + off
      /\ Agrees(st, J) /\ Len(f) = off + 1 /\ f[off + 1] = issued
    BY AtWork
<1>2. /\ s \in State /\ f \in State /\ IsJoin(J, s, f) /\ manifest.cur.base = Len(s)
      /\ Len(s) \in Nat
    BY <1>1, CurrentFacts
<1> DEFINE st1 == Append(st, issued)
           off1 == off + 1
<1>3. c = [r EXCEPT !.state = st1, !.off = off1]
    BY DEF IsCommit
<1> HIDE DEF r, st, off, J, f, s, x
<1>4. issued \in Event
    BY <1>1, <1>2, ElementOfSeq DEF State
<1>5. /\ st1 \in State /\ Len(st1) = Len(st) + 1
      /\ \A i \in 1..Len(st) : st1[i] = st[i]
      /\ st1[Len(st) + 1] = issued
    BY <1>1, <1>4, AppendProperties DEF State
<1> HIDE DEF st1
<1>6. J[Len(s) + (off + 1)] = f[off + 1] /\ Len(J) = Len(s) + Len(f) /\ J \in State
  <2>1. off + 1 \in 1..Len(f)
      BY <1>1
  <2> QED BY <2>1, <1>2, JoinAt DEF IsJoin
<1>7. Len(st) + 1 = Len(s) + (off + 1)
    BY <1>1, <1>2
<1>8. ASSUME NEW i \in 1..Len(st1)
      PROVE  st1[i] = J[i]
  <2>1. i \in 1..Len(st) \/ i = Len(st) + 1
      BY <1>1, <1>2, <1>5
  <2>2. CASE i \in 1..Len(st)
      BY <2>2, <1>1, <1>5 DEF Agrees
  <2>3. CASE i = Len(st) + 1
      BY <2>3, <1>1, <1>5, <1>6, <1>7
  <2> QED BY <2>1, <2>2, <2>3
<1>9. st1 = J
  <2>1. Len(st1) = Len(J)
      BY <1>1, <1>5, <1>6, <1>7
  <2> QED BY <2>1, <1>5, <1>6, <1>8, SeqEqual DEF State
<1>10. /\ c \in Cache /\ c.gen = r.gen /\ c.name = r.name /\ c.state = st1 /\ c.off = off + 1
  <2>1. off1 \in Nat /\ off1 = off + 1
      BY <1>1
  <2> HIDE DEF off1
  <2>2. /\ c \in Cache /\ c.gen = r.gen /\ c.name = r.name /\ c.state = st1 /\ c.off = off1
      BY <1>1, <1>3, <1>5, <2>1 DEF Cache
  <2> QED BY <2>1, <2>2
<1>11. Len(c.state) = manifest.cur.base + c.off
  <2>1. c.state = st1 /\ c.off = off + 1 /\ Len(st1) = Len(st) + 1 /\ Len(st) = manifest.cur.base + off
      BY <1>1, <1>5, <1>10
  <2> QED BY <2>1, <1>1, <1>2
<1> QED BY <1>1, <1>8, <1>9, <1>10, <1>11 DEF Full, x, f, J

LEMMA SyncFrameKeeps ==
    ASSUME IInv, NEW h \in Handle, SyncFrame(h)
    PROVE  IInv'
<1> DEFINE x == manifest.cur.name
           t0 == segs[x]
           t == [t0 EXCEPT !.synced = Len(t0.frames)]
           r == handle[h]
           c == [r.cache EXCEPT !.state = Append(@, issued), !.off = @ + 1]
           prev == [manifest.cur EXCEPT !.last = Len(c.state), !.sealed = t]
           p == [gen |-> c.gen + 1, state |-> c.state, prev |-> prev, old |-> manifest.prev,
                 rotate |-> TRUE]
           n == [r EXCEPT !.pc = "snap", !.cache = c, !.plan = p]
<1>1. /\ manifest # None /\ r.cache.name = x /\ r.cache.gen = manifest.gen /\ r.cache \in Cache
      /\ Len(t0.frames) = r.cache.off + 1 /\ t0.frames[r.cache.off + 1] = issued
      /\ r.pc = "written" /\ r.cache.off \in Nat
    BY AtWork DEF SyncFrame
<1>2. /\ segs' = [segs EXCEPT ![x] = t] /\ acked' = acked \cup {issued}
      /\ \/ Return(h, c, FALSE)
         \/ handle' = [handle EXCEPT ![h] = n] /\ lock' = lock
      /\ UNCHANGED <<manifest, snaps, issued, damages, losses>>
    BY <1>1 DEF SyncFrame
<1>3. /\ manifest \in Manifest /\ DiskType(manifest, snaps, segs) /\ FilesOK(manifest, snaps, segs)
      /\ x \in DOMAIN segs /\ x \in Name /\ t0 \in Segment /\ t0.synced <= Len(t0.frames)
      /\ t0.synced \in Nat /\ Len(t0.frames) \in Nat /\ t0.frames \in State /\ Filed(x, snaps, segs)
      /\ manifest.cur \in Set /\ manifest.gen \in Nat
      /\ manifest.cur.base = Len(snaps[x].state)
    BY <1>1, CurrentFacts
<1>4. Full(c) /\ c.state = Joined(x, snaps, segs)
  <2>1. IsCommit(c, r.cache, issued)
      BY DEF IsCommit
  <2> HIDE DEF c
  <2> QED BY <1>1, <2>1, CommittedCache
<1>5. CacheOK(c, manifest, snaps, segs)
    BY <1>1, <1>4, FullOK
<1>6. /\ c \in Cache /\ c.gen = manifest.gen /\ c.off = Len(t0.frames) /\ c.state \in State
      /\ Len(c.state) = manifest.cur.base + Len(t0.frames) /\ Len(c.state) \in Nat
  <2>1. /\ c \in Cache /\ c.gen = manifest.gen /\ c.off = Len(t0.frames)
        /\ Len(c.state) = manifest.cur.base + c.off
      BY <1>4 DEF Full
  <2> HIDE DEF c
  <2>2. c.state \in State
      BY <2>1 DEF Cache
  <2> QED BY <2>1, <2>2, LenProperties DEF State
<1>7. Changed(segs, x, t, segs')
    BY <1>2, <1>3, ExceptChanges
<1>8. t \in Segment /\ t.frames = t0.frames /\ t.synced = Len(t0.frames) /\ t.bad = t0.bad
  <2> HIDE DEF t0
  <2> QED BY <1>3 DEF Segment
<1> HIDE DEF t, c
<1>9. Extended(t0, t)
    BY <1>3, <1>8 DEF Extended
<1>10. /\ CacheOK(c, manifest, snaps, segs')
       /\ Filed(x, snaps, segs') /\ segs'[x] = t
       /\ FilesOK(manifest, snaps, segs')
  <2>1. \A d \in Cache \cup {None} : CacheOK(d, manifest, snaps, segs) => CacheOK(d, manifest, snaps, segs')
      BY <1>3, <1>7, <1>9, SegmentGrows
  <2>2. t.synced <= Len(t.frames)
      BY <1>9 DEF Extended
  <2> QED BY <1>3, <1>5, <1>6, <1>7, <1>8, <2>1, <2>2, SegmentChanges
<1>11. /\ issued \in 0..MaxEvent /\ MaxEvent \in Nat /\ acked \subseteq Event /\ issued' = issued
       /\ issued \in Event
  <2>1. /\ issued \in 0..MaxEvent /\ MaxEvent \in Nat /\ acked \subseteq Event /\ issued' = issued
      BY <1>2, Disk
  <2>2. r.cache.off + 1 \in 1..Len(t0.frames)
      BY <1>1
  <2>3. t0.frames[r.cache.off + 1] \in Event
      BY <1>3, <2>2, ElementOfSeq DEF State
  <2> QED BY <2>1, <2>3, <1>1
<1>12. /\ issued' \in issued..MaxEvent /\ acked' \subseteq Event
       /\ \A i \in 1..Len(t.frames) : i \in 1..Len(t0.frames) \/ t.frames[i] <= issued'
       /\ \A e \in acked' : e \in acked \/ \E i \in 1..t.synced : t.frames[i] = e
  <2>1. r.cache.off + 1 \in 1..t.synced /\ t.frames[r.cache.off + 1] = issued
      BY <1>1, <1>8
  <2> QED BY <1>2, <1>8, <1>11, <2>1
<1>13. \E k \in Store : /\ handle' = [handle EXCEPT ![h] = k]
                        /\ (k.pc = "idle" /\ lock' = None) \/ lock' = lock
                        /\ HandleOK(k, issued', manifest, snaps, segs')
  <2>1. CASE Return(h, c, FALSE)
    <3>1. PICK k \in Store : /\ k.pc = "idle" /\ k.cache = c
                             /\ handle' = [handle EXCEPT ![h] = k] /\ lock' = None
        BY <1>6, <2>1, ReturnShape
    <3>2. HandleOK(k, issued', manifest, snaps, segs')
        BY <1>10, <3>1, ReadingOK
    <3> QED BY <3>1, <3>2
  <2>2. CASE handle' = [handle EXCEPT ![h] = n] /\ lock' = lock
    <3>1. manifest.prev \in Set \cup {None} /\ r \in Store
        BY <1>3, NamedTypes, Handles
    <3>2. /\ prev \in Set /\ prev.name = x /\ prev.base = manifest.cur.base
          /\ prev.last = Len(c.state) /\ prev.sealed = t
      <4> DEFINE cur == manifest.cur
      <4>1. cur \in Set /\ cur.name = x
          BY <1>3
      <4> HIDE DEF cur, x
      <4> QED BY <1>6, <1>8, <4>1 DEF Set, cur
    <3> HIDE DEF prev
    <3>3. /\ p \in Plan /\ p.gen = manifest.gen + 1 /\ p.state = c.state /\ p.prev = prev
          /\ p.rotate
        BY <1>3, <1>6, <3>1, <3>2 DEF Plan
    <3> HIDE DEF p, r
    <3>4. n \in Store /\ n.pc = "snap" /\ n.cache = c /\ n.plan = p
        BY <1>6, <3>1, <3>3 DEF Store, Pc
    <3> HIDE DEF n
    <3>5. SealedOK(prev, snaps, segs')
        BY <1>3, <1>6, <1>8, <1>10, <3>2, NoneAssumption DEF SealedOK
    <3>6. Joined(x, snaps, segs') = c.state
        BY <1>4, <1>8, <1>10 DEF Joined
    <3>7. x[1] <= manifest.gen
        BY <1>1, <1>3 DEF FilesOK, CurrentOK
    <3>8. PlanOK(p, manifest, snaps, segs')
        BY <1>1, <1>8, <1>10, <3>2, <3>3, <3>5, <3>6, <3>7, NoneAssumption DEF PlanOK
    <3>9. HandleOK(n, issued', manifest, snaps, segs')
        BY <1>10, <3>4, <3>8, PlannedOK
    <3> QED BY <2>2, <3>4, <3>9
  <2> QED BY <1>2, <2>1, <2>2
<1>14. PICK k \in Store : /\ handle' = [handle EXCEPT ![h] = k]
                          /\ (k.pc = "idle" /\ lock' = None) \/ lock' = lock
                          /\ HandleOK(k, issued', manifest, snaps, segs')
    BY <1>13
<1>15. r.pc # "idle" /\ UNCHANGED <<manifest, snaps, damages, losses>>
    BY <1>1, <1>2
<1> HIDE DEF n, p, prev
<1> QED BY <1>1, <1>7, <1>9, <1>12, <1>14, <1>15, SegmentSteps

----------------------------------------------------------------------------
(* Publishing a set.                                                       *)

LEMMA FreshName ==
    ASSUME NEW m \in Manifest, NEW sn, NEW sg, DiskType(m, sn, sg), FilesOK(m, sn, sg),
           NEW plan \in Plan, PlanOK(plan, m, sn, sg)
    PROVE  /\ NewName(plan) # m.cur.name
           /\ m.prev # None => NewName(plan) # m.prev.name
           /\ NewName(plan) # plan.prev.name
<1>1. m # None /\ m.gen \in Nat /\ plan.gen = m.gen + 1 /\ NewName(plan)[1] = plan.gen
    BY NoneAssumption, NamedTypes DEF PlanOK, NewName
<1>2. m.cur.name[1] = m.gen /\ (m.prev # None => m.prev.name[1] < m.gen)
    BY <1>1 DEF FilesOK, CurrentOK, RetainedOK
<1>3. plan.prev.name[1] <= m.gen
    BY <1>1 DEF PlanOK
<1>4. m.prev # None => m.prev.name[1] \in Nat
    BY NamedTypes DEF Name
<1>5. plan.prev.name[1] \in Nat
  <2>1. plan.prev \in Set
      BY <1>1 DEF Plan, PlanOK
  <2> QED BY <2>1 DEF Set, Name
<1> QED BY <1>1, <1>2, <1>3, <1>4, <1>5

LEMMA NewNameTyped ==
    ASSUME NEW plan \in Plan
    PROVE  NewName(plan) \in Name /\ plan.state \in State /\ Len(plan.state) \in Nat
           /\ plan.gen \in Nat
<1>1. plan.gen \in Nat /\ plan.state \in State
    BY DEF Plan
<1>2. Len(plan.state) \in Nat
    BY <1>1, LenProperties DEF State
<1> QED BY <1>1, <1>2 DEF NewName, Name

LEMMA SnapshotElsewhere ==
    ASSUME NEW sn, NEW sg, NEW sn1, NEW x, NEW y, NEW v, Changed(sn, y, v, sn1), x # y
    PROVE  Same(x, sn, sg, sn1, sg)
BY DEF Changed, Same, Filed

LEMMA SegmentElsewhere ==
    ASSUME NEW sn, NEW sg, NEW sg1, NEW x, NEW y, NEW v, Changed(sg, y, v, sg1), x # y
    PROVE  Same(x, sn, sg, sn, sg1)
BY DEF Changed, Same, Filed

\* A plan does not depend on other files than those of the sets it goes on from.
LEMMA PlanKept ==
    ASSUME NEW m, NEW sn, NEW sg, NEW sn1, NEW sg1, NEW plan, PlanOK(plan, m, sn, sg),
           FilesOK(m, sn, sg),
           m # None => /\ Same(m.cur.name, sn, sg, sn1, sg1)
                       /\ m.prev # None => Same(m.prev.name, sn, sg, sn1, sg1)
                       /\ Same(plan.prev.name, sn, sg, sn1, sg1)
    PROVE  PlanOK(plan, m, sn1, sg1)
<1>1. CASE m = None
    BY <1>1 DEF PlanOK
<1>2. CASE m # None
  <2>1. SealedOK(plan.prev, sn, sg) /\ Same(plan.prev.name, sn, sg, sn1, sg1)
      BY <1>2 DEF PlanOK
  <2>2. /\ SealedOK(plan.prev, sn1, sg1)
        /\ Joined(plan.prev.name, sn1, sg1) = Joined(plan.prev.name, sn, sg)
      BY <2>1, SealedKept
  <2>3. /\ Whole(m.cur.name, sn, sg) <=> Whole(m.cur.name, sn1, sg1)
        /\ sg1[m.cur.name] = sg[m.cur.name]
      BY <1>2 DEF Same, FilesOK, CurrentOK, Whole
  <2> QED BY <1>2, <2>2, <2>3 DEF PlanOK
<1> QED BY <1>1, <1>2

\* A step of the holder beside the files of the manifest.
LEMMA BesideSteps ==
    ASSUME IInv, NEW h \in Handle, handle[h].pc # "idle",
           DiskType(manifest, snaps', segs'),
           manifest # None => /\ Same(manifest.cur.name, snaps, segs, snaps', segs')
                              /\ manifest.prev # None =>
                                    Same(manifest.prev.name, snaps, segs, snaps', segs'),
           damages = 0 => /\ \A x \in DOMAIN snaps' : ~snaps'[x].bad
                          /\ \A x \in DOMAIN segs' : segs'[x].bad = 0,
           UNCHANGED <<manifest, issued, acked, damages, losses>>,
           NEW n \in Store, handle' = [handle EXCEPT ![h] = n],
           \/ n.pc = "idle" /\ lock' = None
           \/ lock' = lock,
           HandleOK(n, issued, manifest, snaps', segs')
    PROVE  IInv'
<1>1. /\ manifest' = manifest /\ issued' = issued /\ acked' = acked /\ damages' = damages
      /\ losses' = losses /\ lock = h
    BY Handles
<1>2. /\ FilesOK(manifest, snaps, segs) /\ FaultsOK(damages, manifest, snaps, segs)
      /\ EventsOK(issued, acked, damages, manifest, snaps, segs)
      /\ issued \in 0..MaxEvent /\ acked \subseteq Event
      /\ damages \in 0..MaxDamage /\ losses \in 0..MaxLoss
    BY Disk
<1>3. /\ FilesOK(manifest, snaps', segs')
      /\ \A c : CacheOK(c, manifest, snaps, segs) => CacheOK(c, manifest, snaps', segs')
      /\ EventsOK(issued, acked, damages, manifest, snaps', segs')
    BY <1>2, Beside
<1>a. ASSUME manifest # None
      PROVE  Whole(manifest.cur.name, snaps, segs) => Whole(manifest.cur.name, snaps', segs')
    BY <1>2, <1>a DEF Same, FilesOK, CurrentOK, Whole
<1>b. ASSUME manifest # None, manifest.prev # None
      PROVE  Whole(manifest.prev.name, snaps, segs) => Whole(manifest.prev.name, snaps', segs')
    BY <1>2, <1>b DEF Same, FilesOK, RetainedOK, SealedOK, Whole
<1>4. FaultsOK(damages, manifest, snaps', segs')
    BY <1>2, <1>a, <1>b DEF FaultsOK
<1>5. HandleOK(n, issued', manifest', snaps', segs')
    BY <1>1
<1>6. \A c \in Cache \cup {None} :
            CacheOK(c, manifest, snaps, segs) => CacheOK(c, manifest', snaps', segs')
    BY <1>1, <1>3
<1>7. /\ DOMAIN handle' = Handle /\ lock' \in Handle \cup {None}
      /\ \A k \in Handle : handle'[k] \in Store
      /\ Locked'
      /\ \A k \in Handle : HandleOK(handle'[k], issued', manifest', snaps', segs')
    BY <1>1, <1>5, <1>6, HandleSteps, NoneAssumption
<1> QED BY <1>1, <1>2, <1>3, <1>4, <1>7, Assembled

\* What the holder knows of the set it is publishing.
LEMMA Publishing ==
    ASSUME IInv, NEW h \in Handle, handle[h].pc \in {"snap", "seg", "publish"}
    PROVE  /\ handle[h].plan \in Plan /\ PlanOK(handle[h].plan, manifest, snaps, segs)
           /\ PlanName(h) = NewName(handle[h].plan) /\ PlanName(h) \in Name
           /\ handle[h].plan.state \in State /\ Len(handle[h].plan.state) \in Nat
           /\ handle[h].plan.gen \in Nat
           /\ CacheOK(handle[h].cache, manifest, snaps, segs)
           /\ manifest # None => /\ manifest \in Manifest
                                 /\ PlanName(h) # manifest.cur.name
                                 /\ manifest.prev # None => PlanName(h) # manifest.prev.name
                                 /\ PlanName(h) # handle[h].plan.prev.name
<1> DEFINE r == handle[h]
<1>1. /\ CacheOK(r.cache, manifest, snaps, segs) /\ WrittenOK(r, manifest, snaps, segs)
      /\ r.plan \in Plan \cup {None}
    BY Handles DEF HandleOK
<1>2. PlanOK(r.plan, manifest, snaps, segs)
    BY <1>1 DEF WrittenOK
<1>3. r.plan \in Plan
    BY <1>1, <1>2 DEF PlanOK
<1>4. PlanName(h) = NewName(r.plan)
    BY DEF PlanName, NewName
<1>5. /\ DiskType(manifest, snaps, segs) /\ FilesOK(manifest, snaps, segs)
      /\ (manifest # None => manifest \in Manifest)
    BY Disk
<1> HIDE DEF r
<1>6. /\ NewName(r.plan) \in Name /\ r.plan.state \in State /\ Len(r.plan.state) \in Nat
      /\ r.plan.gen \in Nat
    BY <1>3, NewNameTyped
<1>7. manifest # None => /\ NewName(r.plan) # manifest.cur.name
                         /\ manifest.prev # None => NewName(r.plan) # manifest.prev.name
                         /\ NewName(r.plan) # r.plan.prev.name
    BY <1>2, <1>3, <1>5, FreshName
<1> QED BY <1>1, <1>2, <1>3, <1>4, <1>5, <1>6, <1>7 DEF r

LEMMA WriteSnapshotKeeps ==
    ASSUME IInv, NEW h \in Handle, WriteSnapshot(h)
    PROVE  IInv'
<1> DEFINE y == PlanName(h)
           plan == handle[h].plan
           v == [state |-> plan.state, bad |-> FALSE]
<1>1. /\ handle[h].pc = "snap" /\ snaps' = Put(snaps, y, v) /\ Goto(h, "seg")
      /\ UNCHANGED <<manifest, segs, lock, issued, acked, damages, losses>>
    BY DEF WriteSnapshot
<1>2. /\ plan \in Plan /\ PlanOK(plan, manifest, snaps, segs) /\ y = NewName(plan) /\ y \in Name
      /\ plan.state \in State /\ CacheOK(handle[h].cache, manifest, snaps, segs)
      /\ manifest # None => /\ y # manifest.cur.name
                            /\ manifest.prev # None => y # manifest.prev.name
                            /\ y # plan.prev.name
    BY <1>1, Publishing
<1>3. Changed(snaps, y, v, snaps')
    BY <1>1, PutChanges
<1>4. v \in Snapshot /\ ~v.bad
    BY <1>2 DEF Snapshot
<1>5. PICK n \in Store : /\ n.pc = "seg" /\ n.cache = handle[h].cache /\ n.plan = plan
                         /\ handle' = [handle EXCEPT ![h] = n]
    BY <1>1, Handles, GotoShape DEF Pc
<1>6. /\ DiskType(manifest, snaps, segs) /\ FilesOK(manifest, snaps, segs)
      /\ FaultsOK(damages, manifest, snaps, segs)
    BY Disk
<1> HIDE DEF plan, y, v
<1>7. segs' = segs /\ DiskType(manifest, snaps', segs)
    BY <1>1, <1>2, <1>3, <1>4, <1>6, SnapshotTyped
<1>8. manifest # None => /\ Same(manifest.cur.name, snaps, segs, snaps', segs)
                         /\ manifest.prev # None => Same(manifest.prev.name, snaps, segs, snaps', segs)
                         /\ Same(plan.prev.name, snaps, segs, snaps', segs)
    BY <1>2, <1>3, SnapshotElsewhere
<1>9. damages = 0 => /\ \A x \in DOMAIN snaps' : ~snaps'[x].bad
                     /\ \A x \in DOMAIN segs : segs[x].bad = 0
    BY <1>3, <1>4, <1>6 DEF FaultsOK, Changed
<1>10. PlanOK(plan, manifest, snaps', segs)
    BY <1>2, <1>6, <1>8, PlanKept
<1>11. CacheOK(n.cache, manifest, snaps', segs)
    BY <1>2, <1>5, <1>6, <1>8, Beside
<1>12. y \in DOMAIN snaps' /\ snaps'[y] = v
    BY <1>3 DEF Changed
<1>13. HandleOK(n, issued, manifest, snaps', segs)
  <2>1. ReadOK(n, issued, manifest, segs)
      BY <1>5 DEF ReadOK
  <2>2. WrittenOK(n, manifest, snaps', segs)
      BY <1>2, <1>5, <1>10, <1>12 DEF WrittenOK, v
  <2> QED BY <1>11, <2>1, <2>2 DEF HandleOK
<1> QED BY <1>1, <1>5, <1>7, <1>8, <1>9, <1>13, BesideSteps

LEMMA CreateEmptyKeeps ==
    ASSUME IInv, NEW h \in Handle, CreateEmpty(h)
    PROVE  IInv'
<1> DEFINE y == PlanName(h)
           plan == handle[h].plan
           v == EmptySegment
<1>1. /\ handle[h].pc = "seg" /\ segs' = Put(segs, y, v) /\ Goto(h, "publish")
      /\ UNCHANGED <<manifest, snaps, lock, issued, acked, damages, losses>>
    BY DEF CreateEmpty, EmptySegment
<1>2. /\ plan \in Plan /\ PlanOK(plan, manifest, snaps, segs) /\ y = NewName(plan) /\ y \in Name
      /\ plan.state \in State /\ CacheOK(handle[h].cache, manifest, snaps, segs)
      /\ manifest # None => /\ y # manifest.cur.name
                            /\ manifest.prev # None => y # manifest.prev.name
                            /\ y # plan.prev.name
    BY <1>1, Publishing
<1>3. Changed(segs, y, v, segs')
    BY <1>1, PutChanges
<1>4. v \in Segment /\ v.bad = 0
  <2>1. <<>> \in State
      BY EmptySeq DEF State
  <2> QED BY <2>1 DEF EmptySegment, Segment
<1>5. PICK n \in Store : /\ n.pc = "publish" /\ n.cache = handle[h].cache /\ n.plan = plan
                         /\ handle' = [handle EXCEPT ![h] = n]
    BY <1>1, Handles, GotoShape DEF Pc
<1>6. /\ DiskType(manifest, snaps, segs) /\ FilesOK(manifest, snaps, segs)
      /\ FaultsOK(damages, manifest, snaps, segs)
    BY Disk
<1>14. y \in DOMAIN snaps /\ snaps[y] = [state |-> plan.state, bad |-> FALSE]
    BY <1>1, <1>2, Handles DEF HandleOK, WrittenOK
<1> HIDE DEF plan, y, v
<1>7. snaps' = snaps /\ DiskType(manifest, snaps, segs')
    BY <1>1, <1>2, <1>3, <1>4, <1>6, SegmentTyped
<1>8. manifest # None => /\ Same(manifest.cur.name, snaps, segs, snaps, segs')
                         /\ manifest.prev # None => Same(manifest.prev.name, snaps, segs, snaps, segs')
                         /\ Same(plan.prev.name, snaps, segs, snaps, segs')
    BY <1>2, <1>3, SegmentElsewhere
<1>9. damages = 0 => /\ \A x \in DOMAIN snaps : ~snaps[x].bad
                     /\ \A x \in DOMAIN segs' : segs'[x].bad = 0
    BY <1>3, <1>4, <1>6 DEF FaultsOK, Changed
<1>10. PlanOK(plan, manifest, snaps, segs')
    BY <1>2, <1>6, <1>8, PlanKept
<1>11. CacheOK(n.cache, manifest, snaps, segs')
    BY <1>2, <1>5, <1>6, <1>8, Beside
<1>12. y \in DOMAIN segs' /\ segs'[y] = v
    BY <1>3 DEF Changed
<1>13. HandleOK(n, issued, manifest, snaps, segs')
  <2>1. ReadOK(n, issued, manifest, segs')
      BY <1>5 DEF ReadOK
  <2>2. WrittenOK(n, manifest, snaps, segs')
      BY <1>2, <1>5, <1>10, <1>12, <1>14 DEF WrittenOK, v
  <2> QED BY <1>11, <2>1, <2>2 DEF HandleOK
<1> QED BY <1>1, <1>5, <1>7, <1>8, <1>9, <1>13, BesideSteps

LEMMA LoadedOK ==
    ASSUME NEW m \in Manifest, DiskType(m, snaps, segs), FilesOK(m, snaps, segs)
    PROVE  /\ CacheOf(m) \in Cache /\ CacheOK(CacheOf(m), m, snaps, segs)
           /\ CacheOf(m).gen = m.gen /\ CacheOf(m).name = m.cur.name
<1> DEFINE x == m.cur.name
           c == CacheOf(m)
           f == segs[x].frames
           J == Joined(x, snaps, segs)
<1>1. m # None /\ CurrentOK(m, snaps, segs) /\ m.gen \in Nat /\ x \in Name
    BY NoneAssumption, NamedTypes DEF FilesOK
<1>2. Filed(x, snaps, segs) /\ m.cur.base = Len(snaps[x].state)
    BY <1>1 DEF CurrentOK
<1>3. IsJoin(J, snaps[x].state, f) /\ Len(f) \in Nat
    BY <1>2, JoinedShape, FileTypes
<1>4. J \in State /\ Len(J) = m.cur.base + Len(f)
    BY <1>2, <1>3 DEF IsJoin
<1>5. c = [gen |-> m.gen, name |-> x, state |-> J, off |-> Len(f)]
    BY DEF CacheOf, StateOf, Joined
<1> HIDE DEF c, J
<1>6. c \in Cache /\ c.gen = m.gen /\ c.name = x /\ c.state = J /\ c.off = Len(f)
  <2> HIDE DEF f, x
  <2> QED BY <1>1, <1>3, <1>4, <1>5 DEF Cache
<1>7. CacheOK(c, m, snaps, segs)
    BY <1>1, <1>3, <1>4, <1>6 DEF CacheOK, J
<1> QED BY <1>6, <1>7 DEF c

\* The manifest that is published: its files are there, they hold the planned events, and
\* the set it retains ends where they begin.
LEMMA PublishedOK ==
    ASSUME IInv, NEW h \in Handle, handle[h].pc = "publish"
    PROVE  /\ Published(h) \in Manifest /\ Published(h).gen = handle[h].plan.gen
           /\ Published(h).cur.name = PlanName(h)
           /\ Published(h).cur.base = Len(handle[h].plan.state)
           /\ Published(h).prev = handle[h].plan.prev
           /\ DiskType(Published(h), snaps, segs) /\ FilesOK(Published(h), snaps, segs)
           /\ Joined(PlanName(h), snaps, segs) = handle[h].plan.state
           /\ segs[PlanName(h)].synced = 0 /\ Whole(PlanName(h), snaps, segs)
<1> DEFINE y == PlanName(h)
           plan == handle[h].plan
           m == Published(h)
           cur == [name |-> y, base |-> Len(plan.state), last |-> Len(plan.state), sealed |-> None]
<1>1. /\ plan \in Plan /\ PlanOK(plan, manifest, snaps, segs) /\ y = NewName(plan) /\ y \in Name
      /\ plan.state \in State /\ Len(plan.state) \in Nat /\ plan.gen \in Nat
      /\ manifest # None => manifest \in Manifest
    BY Publishing
<1>2. /\ y \in DOMAIN snaps /\ snaps[y] = [state |-> plan.state, bad |-> FALSE]
      /\ y \in DOMAIN segs /\ segs[y] = EmptySegment
    BY <1>1, Handles DEF HandleOK, WrittenOK
<1>3. m = [gen |-> plan.gen, cur |-> cur, prev |-> plan.prev]
    BY DEF Published
<1>4. DiskType(manifest, snaps, segs) /\ FilesOK(manifest, snaps, segs)
    BY Disk
<1> HIDE DEF plan, y, m
<1>5. cur \in Set /\ cur.name = y /\ cur.base = Len(plan.state)
    BY <1>1 DEF Set
<1> HIDE DEF cur
<1>6. plan.prev \in Set \cup {None}
    BY <1>1 DEF Plan
<1>7. m \in Manifest /\ m.gen = plan.gen /\ m.cur = cur /\ m.prev = plan.prev
    BY <1>1, <1>3, <1>5, <1>6 DEF Manifest
<1>8. /\ snaps[y].state = plan.state /\ ~snaps[y].bad /\ segs[y].frames = <<>>
      /\ segs[y].synced = 0 /\ segs[y].bad = 0
    BY <1>2 DEF EmptySegment
<1>9. Joined(y, snaps, segs) = plan.state
    BY <1>1, <1>8, ConcatEmptySeq DEF Joined, State
<1>10. CurrentOK(m, snaps, segs)
  <2>1. y[1] = plan.gen
      BY <1>1 DEF NewName
  <2>2. Len(<<>>) = 0
      BY EmptySeq
  <2> QED BY <1>2, <1>5, <1>7, <1>8, <2>1, <2>2 DEF CurrentOK, Filed
<1>11. ASSUME plan.prev # None
       PROVE  RetainedOK(m, snaps, segs)
  <2>1. manifest # None
      BY <1>1, <1>11 DEF PlanOK
  <2>2. /\ SealedOK(plan.prev, snaps, segs) /\ plan.prev.name[1] <= manifest.gen
        /\ plan.gen = manifest.gen + 1 /\ Joined(plan.prev.name, snaps, segs) = plan.state
      BY <1>1, <2>1 DEF PlanOK
  <2>3. plan.prev.name[1] \in Nat /\ manifest.gen \in Nat
      BY <1>1, <1>6, <1>11, <2>1, NamedTypes DEF Set, Name
  <2>4. plan.prev.name[1] < plan.gen
      BY <2>2, <2>3
  <2> QED BY <1>5, <1>7, <1>8, <2>2, <2>4 DEF RetainedOK
<1>12. FilesOK(m, snaps, segs)
    BY <1>7, <1>10, <1>11 DEF FilesOK
<1>13. DiskType(m, snaps, segs)
    BY <1>4, <1>7 DEF DiskType
<1> QED BY <1>5, <1>7, <1>8, <1>9, <1>12, <1>13 DEF Whole, m, y, plan

LEMMA PublishManifestKeeps ==
    ASSUME IInv, NEW h \in Handle, PublishManifest(h)
    PROVE  IInv'
<1> DEFINE y == PlanName(h)
           r == handle[h]
           plan == r.plan
           m == Published(h)
           J == Joined(manifest.cur.name, snaps, segs)
<1>1. /\ r.pc = "publish" /\ manifest' = m
      /\ \/ plan.rotate /\ Goto(h, "remove")
         \/ ~plan.rotate /\ handle' = [handle EXCEPT ![h].pc = "ready", ![h].plan = None,
                                                     ![h].cache = CacheOf(manifest')]
      /\ UNCHANGED <<snaps, segs, lock, issued, acked, damages, losses>>
    BY DEF PublishManifest
<1>2. /\ plan \in Plan /\ PlanOK(plan, manifest, snaps, segs) /\ plan.state \in State
      /\ Len(plan.state) \in Nat /\ CacheOK(r.cache, manifest, snaps, segs)
      /\ manifest # None => manifest \in Manifest
    BY <1>1, Publishing
<1>3. /\ m \in Manifest /\ m.gen = plan.gen /\ m.cur.name = y /\ m.cur.base = Len(plan.state)
      /\ m.prev = plan.prev
      /\ DiskType(m, snaps, segs) /\ FilesOK(m, snaps, segs)
      /\ Joined(y, snaps, segs) = plan.state /\ segs[y].synced = 0 /\ Whole(y, snaps, segs)
    BY <1>1, PublishedOK
<1>4. /\ DiskType(manifest, snaps, segs) /\ FilesOK(manifest, snaps, segs)
      /\ FaultsOK(damages, manifest, snaps, segs)
      /\ EventsOK(issued, acked, damages, manifest, snaps, segs)
      /\ issued \in 0..MaxEvent /\ acked \subseteq Event
      /\ damages \in 0..MaxDamage /\ losses \in 0..MaxLoss
    BY Disk
<1>5. /\ snaps' = snaps /\ segs' = segs /\ lock' = lock /\ issued' = issued /\ acked' = acked
      /\ damages' = damages /\ losses' = losses
    BY <1>1
<1> HIDE DEF m
<1>6. FaultsOK(damages, m, snaps, segs)
    BY <1>3, <1>4 DEF FaultsOK
<1>7. \A c \in Cache \cup {None} : CacheOK(c, manifest, snaps, segs) => CacheOK(c, m, snaps, segs)
  <2> SUFFICES ASSUME NEW c \in Cache, c # None, CacheOK(c, manifest, snaps, segs)
               PROVE  CacheOK(c, m, snaps, segs)
      BY DEF CacheOK
  <2>1. manifest # None /\ c.gen <= manifest.gen
      BY DEF CacheOK
  <2>2. plan.gen = manifest.gen + 1 /\ manifest.gen \in Nat /\ c.gen \in Nat
      BY <1>2, <2>1, NamedTypes DEF PlanOK, Cache
  <2>3. c.gen <= m.gen /\ c.gen # m.gen
      BY <1>3, <2>1, <2>2
  <2> QED BY <1>3, <2>3, NoneAssumption DEF CacheOK
<1>8. EventsOK(issued, acked, damages, m, snaps, segs)
  <2> DEFINE st == plan.state
  <2>1. SUFFICES /\ \A i \in 1..Len(st) : st[i] <= issued
                 /\ damages = 0 => \A e \in acked : \E i \in 1..Len(st) : st[i] = e
    <3>1. m.cur.base + segs[y].synced = Len(st)
        BY <1>2, <1>3
    <3> QED BY <1>3, <3>1, NoneAssumption DEF EventsOK
  <2>2. CASE manifest = None
    <3>1. st = <<>> /\ Len(<<>>) = 0
        BY <1>2, <2>2, EmptySeq DEF PlanOK
    <3>2. damages = 0 => acked = {}
        BY <1>4, <2>2 DEF EventsOK
    <3> QED BY <3>1, <3>2
  <2>3. CASE manifest # None
    <3> DEFINE x == manifest.cur.name
    <3>1. /\ \A i \in 1..Len(J) : J[i] <= issued
          /\ damages = 0 => \A e \in acked : \E i \in 1..(manifest.cur.base + segs[x].synced) : J[i] = e
        BY <1>4, <2>3 DEF EventsOK
    <3>2. /\ IsJoin(J, snaps[x].state, segs[x].frames) /\ snaps[x].state \in State
          /\ segs[x].frames \in State /\ segs[x].synced <= Len(segs[x].frames)
          /\ segs[x].synced \in Nat /\ manifest.cur.base = Len(snaps[x].state)
          /\ Filed(x, snaps, segs)
        BY <2>3, CurrentFacts
    <3>3. CASE plan.rotate
      <4>1. st = J
          BY <1>2, <2>3, <3>3 DEF PlanOK
      <4>2. Len(J) = manifest.cur.base + Len(segs[x].frames) /\ manifest.cur.base \in Nat
            /\ Len(segs[x].frames) \in Nat
          BY <3>2, LenProperties DEF IsJoin, State
      <4>3. ASSUME NEW i \in 1..(manifest.cur.base + segs[x].synced)
            PROVE  i \in 1..Len(J)
        <5>1. segs[x].synced \in Nat /\ segs[x].synced <= Len(segs[x].frames)
            BY <3>2
        <5> HIDE DEF J, x
        <5> QED BY <4>2, <5>1
      <4> HIDE DEF J, st
      <4> QED BY <3>1, <4>1, <4>3
    <3>4. CASE ~plan.rotate
      <4>1. /\ plan.prev = manifest.prev /\ manifest.prev # None
            /\ Joined(manifest.prev.name, snaps, segs) = st
            /\ ~Whole(x, snaps, segs)
          BY <1>2, <2>3, <3>4 DEF PlanOK
      <4>2. st = snaps[x].state
          BY <1>4, <2>3, <4>1 DEF FilesOK, RetainedOK
      <4>3. damages # 0
          BY <1>4, <3>2, <4>1 DEF FaultsOK, Whole, Filed
      <4>4. \A i \in 1..Len(st) : i \in 1..Len(J) /\ J[i] = st[i]
        <5> DEFINE s == snaps[x].state
                   f == segs[x].frames
        <5>1. IsJoin(J, s, f) /\ s \in State /\ f \in State /\ st = s
            BY <3>2, <4>2
        <5> HIDE DEF J, s, f, st
        <5> QED BY <5>1, JoinAt
      <4> HIDE DEF J, st
      <4> QED BY <3>1, <4>3, <4>4
    <3> QED BY <3>3, <3>4
  <2> QED BY <2>2, <2>3
<1>9. \E n \in Store : handle' = [handle EXCEPT ![h] = n] /\ HandleOK(n, issued, m, snaps, segs)
                       /\ n.pc # "idle"
  <2>1. CASE plan.rotate /\ Goto(h, "remove")
    <3>1. PICK n \in Store : /\ n.pc = "remove" /\ n.cache = r.cache /\ n.plan = plan
                             /\ handle' = [handle EXCEPT ![h] = n]
        BY <2>1, Handles, GotoShape DEF Pc
    <3>2. manifest # None
        BY <1>2, <2>1 DEF PlanOK
    <3>3. m # None /\ m.prev # None /\ plan # None
        BY <1>2, <1>3, <3>2, NoneAssumption DEF PlanOK
    <3>4. CacheOK(n.cache, m, snaps, segs)
        BY <1>2, <1>7, <3>1, Handles
    <3>5. HandleOK(n, issued, m, snaps, segs)
        BY <3>1, <3>3, <3>4 DEF HandleOK, ReadOK, WrittenOK
    <3> QED BY <3>1, <3>5
  <2>2. CASE ~plan.rotate /\ handle' = [handle EXCEPT ![h].pc = "ready", ![h].plan = None,
                                                     ![h].cache = CacheOf(manifest')]
    <3> DEFINE c == CacheOf(m)
               n == [r EXCEPT !.pc = "ready", !.plan = None, !.cache = c]
    <3>1. c \in Cache /\ CacheOK(c, m, snaps, segs) /\ c.gen = m.gen /\ c.name = m.cur.name
        BY <1>3, LoadedOK
    <3>2. handle' = [handle EXCEPT ![h] = n]
        BY <1>1, <2>2
    <3>3. r \in Store
        BY Handles
    <3> HIDE DEF c, r
    <3>4. n \in Store /\ n.pc = "ready" /\ n.cache = c
        BY <3>1, <3>3 DEF Store, Pc
    <3> HIDE DEF n
    <3>5. HandleOK(n, issued, m, snaps, segs)
        BY <3>1, <3>4, ReadyOK, NoneAssumption
    <3> QED BY <3>2, <3>4, <3>5
  <2> QED BY <1>1, <2>1, <2>2
<1>10. PICK n \in Store : /\ handle' = [handle EXCEPT ![h] = n] /\ n.pc # "idle"
                          /\ HandleOK(n, issued, m, snaps, segs)
    BY <1>9
<1>11. HandleOK(n, issued', manifest', snaps', segs') /\ lock = h /\ r.pc # "idle"
    BY <1>1, <1>5, <1>10, Handles
<1>12. \A c \in Cache \cup {None} :
            CacheOK(c, manifest, snaps, segs) => CacheOK(c, manifest', snaps', segs')
    BY <1>1, <1>5, <1>7
<1>13. /\ DOMAIN handle' = Handle /\ lock' \in Handle \cup {None}
       /\ \A k \in Handle : handle'[k] \in Store
       /\ Locked'
       /\ \A k \in Handle : HandleOK(handle'[k], issued', manifest', snaps', segs')
    BY <1>5, <1>10, <1>11, <1>12, HandleSteps
<1>14. /\ DiskType(manifest', snaps', segs') /\ FilesOK(manifest', snaps', segs')
       /\ FaultsOK(damages', manifest', snaps', segs')
       /\ EventsOK(issued', acked', damages', manifest', snaps', segs')
    BY <1>1, <1>3, <1>5, <1>6, <1>8
<1>15. /\ issued' \in 0..MaxEvent /\ acked' \subseteq Event
       /\ damages' \in 0..MaxDamage /\ losses' \in 0..MaxLoss
    BY <1>4, <1>5
<1> QED BY <1>13, <1>14, <1>15, Assembled

LEMMA RemoveOldKeeps ==
    ASSUME IInv, NEW h \in Handle, RemoveOld(h)
    PROVE  IInv'
<1> DEFINE old == handle[h].plan.old
           gone == (IF old = None THEN {} ELSE {old.name})
                      \ {manifest.cur.name, manifest.prev.name}
           c == CacheOf(manifest)
<1>1. /\ handle[h].pc = "remove" /\ snaps' = Without(snaps, gone) /\ segs' = Without(segs, gone)
      /\ Return(h, c, FALSE)
      /\ UNCHANGED <<manifest, issued, acked, damages, losses>>
    BY DEF RemoveOld
<1>2. manifest.cur.name \notin gone /\ manifest.prev.name \notin gone
    OBVIOUS
<1>3. manifest # None
    BY <1>1, Handles DEF HandleOK, WrittenOK
<1>4. /\ manifest \in Manifest /\ DiskType(manifest, snaps, segs) /\ FilesOK(manifest, snaps, segs)
      /\ FaultsOK(damages, manifest, snaps, segs)
    BY <1>3, Disk
<1>5. c \in Cache /\ CacheOK(c, manifest, snaps, segs)
    BY <1>4, LoadedOK
<1> HIDE DEF c, gone, old
<1>6. PICK n \in Store : /\ n.pc = "idle" /\ n.cache = c
                         /\ handle' = [handle EXCEPT ![h] = n] /\ lock' = None
    BY <1>1, <1>5, ReturnShape
<1>7. /\ DOMAIN snaps' = DOMAIN snaps \ gone /\ DOMAIN segs' = DOMAIN segs \ gone
      /\ \A x \in DOMAIN snaps \ gone : snaps'[x] = snaps[x]
      /\ \A x \in DOMAIN segs \ gone : segs'[x] = segs[x]
    BY <1>1 DEF Without
<1>8. DiskType(manifest, snaps', segs')
    BY <1>4, <1>7 DEF DiskType
<1>9. \A x : x \notin gone => Same(x, snaps, segs, snaps', segs')
    BY <1>7 DEF Same, Filed
<1>10. damages = 0 => /\ \A x \in DOMAIN snaps' : ~snaps'[x].bad
                      /\ \A x \in DOMAIN segs' : segs'[x].bad = 0
    BY <1>4, <1>7 DEF FaultsOK
<1>11. CacheOK(c, manifest, snaps', segs')
  <2>1. Same(manifest.cur.name, snaps, segs, snaps', segs') /\ Same(manifest.prev.name, snaps, segs, snaps', segs')
      BY <1>2, <1>9
  <2> QED BY <1>4, <1>5, <2>1, Beside
<1>12. HandleOK(n, issued, manifest, snaps', segs')
    BY <1>6, <1>11, ReadingOK
<1>13. /\ Same(manifest.cur.name, snaps, segs, snaps', segs')
       /\ Same(manifest.prev.name, snaps, segs, snaps', segs')
       /\ handle[h].pc # "idle"
    BY <1>1, <1>2, <1>9
<1>14. UNCHANGED <<manifest, issued, acked, damages, losses>>
    BY <1>1
<1> QED BY <1>6, <1>8, <1>10, <1>12, <1>13, <1>14, BesideSteps

----------------------------------------------------------------------------
(* Failures of the machine.                                                *)

\* A step that ends every process, or that happens while none is at work.
LEMMA AllIdle ==
    ASSUME DOMAIN handle' = Handle, lock' \in Handle \cup {None},
           \A k \in Handle : /\ handle'[k] \in Store /\ handle'[k].pc = "idle"
                             /\ CacheOK(handle'[k].cache, manifest', snaps', segs')
    PROVE  /\ \A k \in Handle : handle'[k] \in Store
           /\ Locked'
           /\ \A k \in Handle : HandleOK(handle'[k], issued', manifest', snaps', segs')
BY ReadingOK DEF Locked

IsLost(t, t0, k, torn) == t = [t0 EXCEPT !.frames = SubSeq(@, 1, k), !.torn = torn]

\* What a power loss leaves of a segment.
LEMMA LostTail ==
    ASSUME NEW t0 \in Segment, t0.synced <= Len(t0.frames),
           NEW k \in t0.synced..Len(t0.frames), NEW torn \in BOOLEAN,
           NEW t, IsLost(t, t0, k, torn)
    PROVE  /\ t \in Segment /\ t.synced = t0.synced /\ t.bad = t0.bad
           /\ t.frames = SubSeq(t0.frames, 1, k)
           /\ Len(t.frames) = k /\ \A i \in 1..k : i \in 1..Len(t0.frames) /\ t.frames[i] = t0.frames[i]
<1> DEFINE f == t0.frames
           u == SubSeq(f, 1, k)
<1>1. f \in State /\ t0.synced \in Nat /\ Len(f) \in Nat
    BY LenProperties DEF Segment, State
<1>2. t = [t0 EXCEPT !.frames = u, !.torn = torn]
    BY DEF IsLost
<1>3. k \in Nat /\ k \in 0..Len(f)
    BY <1>1
<1> HIDE DEF f
<1>4. \A i \in 1..k : i \in 1..Len(f)
    BY <1>1, <1>3
<1>5. \A i \in 1..k : f[i] \in Event
    BY <1>1, <1>4, ElementOfSeq DEF State
<1>6. /\ u \in Seq(Event)
      /\ Len(u) = IF 1 <= k THEN k - 1 + 1 ELSE 0
      /\ \A i \in 1..(k - 1 + 1) : u[i] = f[1 + i - 1]
    BY <1>3, <1>5, SubSeqProperties
<1> HIDE DEF u
<1>7. Len(u) = k
    BY <1>3, <1>6
<1>8. \A i \in 1..k : u[i] = f[i]
    BY <1>3, <1>6
<1>9. t \in Segment /\ t.synced = t0.synced /\ t.bad = t0.bad /\ t.frames = u
    BY <1>2, <1>6 DEF Segment, State
<1> QED BY <1>4, <1>7, <1>8, <1>9 DEF f, u

LEMMA PowerLossKeeps ==
    ASSUME IInv, PowerLoss
    PROVE  IInv'
<1>1. /\ losses < MaxLoss /\ losses' = losses + 1 /\ handle' = [k \in Handle |-> Idle(None)]
      /\ lock' = None /\ manifest' = manifest /\ snaps' = snaps /\ issued' = issued
      /\ acked' = acked /\ damages' = damages
    BY DEF PowerLoss
<1>2. /\ DiskType(manifest, snaps, segs) /\ FilesOK(manifest, snaps, segs)
      /\ FaultsOK(damages, manifest, snaps, segs)
      /\ EventsOK(issued, acked, damages, manifest, snaps, segs)
      /\ issued \in 0..MaxEvent /\ acked \subseteq Event
      /\ damages \in 0..MaxDamage /\ losses \in 0..MaxLoss /\ MaxLoss \in Nat
    BY Disk
<1>3. /\ DOMAIN handle' = Handle /\ lock' \in Handle \cup {None}
      /\ \A k \in Handle : handle'[k] \in Store
      /\ Locked'
      /\ \A k \in Handle : HandleOK(handle'[k], issued', manifest', snaps', segs')
  <2>1. ASSUME NEW k \in Handle
        PROVE  handle'[k] \in Store /\ handle'[k].pc = "idle" /\ handle'[k].cache = None
      BY <1>1 DEF Idle, Store, Pc
  <2>2. DOMAIN handle' = Handle /\ lock' \in Handle \cup {None}
      BY <1>1
  <2>3. \A k \in Handle : CacheOK(handle'[k].cache, manifest', snaps', segs')
      BY <2>1 DEF CacheOK
  <2> QED BY <2>1, <2>2, <2>3, AllIdle
<1>4. /\ DiskType(manifest, snaps, segs') /\ FilesOK(manifest, snaps, segs')
      /\ FaultsOK(damages, manifest, snaps, segs')
      /\ EventsOK(issued, acked, damages, manifest, snaps, segs')
  <2>1. CASE manifest = None
      BY <1>2, <2>1 DEF PowerLoss
  <2>2. CASE manifest # None
    <3> DEFINE x == manifest.cur.name
               t0 == segs[x]
               s == snaps[x].state
               f0 == t0.frames
               J == Joined(x, snaps, segs)
               J1 == Joined(x, snaps, segs')
    <3>1. PICK k \in t0.synced..Len(t0.frames), torn \in BOOLEAN :
              segs' = [segs EXCEPT ![x] = [t0 EXCEPT !.frames = SubSeq(@, 1, k), !.torn = torn]]
        BY <2>2 DEF PowerLoss
    <3> DEFINE t == [t0 EXCEPT !.frames = SubSeq(@, 1, k), !.torn = torn]
    <3>2. /\ manifest \in Manifest /\ x \in DOMAIN segs /\ t0 \in Segment
          /\ t0.synced <= Len(f0) /\ t0.synced \in Nat /\ Len(f0) \in Nat
          /\ Filed(x, snaps, segs) /\ s \in State /\ f0 \in State /\ IsJoin(J, s, f0)
          /\ manifest.cur.base = Len(s) /\ Len(s) \in Nat
        BY <2>2, CurrentFacts
    <3>a. IsLost(t, t0, k, torn)
        BY DEF IsLost
    <3>4. segs' = [segs EXCEPT ![x] = t]
        BY <3>1
    <3> HIDE DEF t
    <3>3. /\ t \in Segment /\ t.synced = t0.synced /\ t.bad = t0.bad
          /\ Len(t.frames) = k /\ \A i \in 1..k : i \in 1..Len(f0) /\ t.frames[i] = f0[i]
        BY <3>2, <3>a, LostTail
    <3>5. Changed(segs, x, t, segs')
        BY <3>2, <3>4, ExceptChanges
    <3>6. k \in Nat /\ t0.synced <= k /\ k <= Len(f0)
        BY <3>2
    <3>7. /\ DiskType(manifest, snaps, segs') /\ FilesOK(manifest, snaps, segs')
          /\ Filed(x, snaps, segs') /\ segs'[x] = t
          /\ manifest.prev # None => (Whole(manifest.prev.name, snaps, segs)
                                        <=> Whole(manifest.prev.name, snaps, segs'))
      <4>1. t.synced <= Len(t.frames)
          BY <3>3, <3>6
      <4> QED BY <1>2, <3>2, <3>3, <3>5, <4>1, SegmentChanges
    <3>8. FaultsOK(damages, manifest, snaps, segs')
      <4>1. Whole(x, snaps, segs) <=> Whole(x, snaps, segs')
          BY <3>3, <3>7 DEF Whole
      <4>2. ASSUME damages = 0, NEW y \in DOMAIN segs'
            PROVE  segs'[y].bad = 0
          BY <1>2, <3>2, <3>3, <3>5, <4>2 DEF FaultsOK, Changed
      <4> QED BY <1>2, <3>7, <4>1, <4>2 DEF FaultsOK
    <3>9. EventsOK(issued, acked, damages, manifest, snaps, segs')
      <4> DEFINE f == t.frames
      <4>1. IsJoin(J1, s, f) /\ f \in State
        <5>1. IsJoin(J1, s, segs'[x].frames) /\ segs'[x].frames \in State
            BY <3>7, JoinedShape, FileTypes
        <5> QED BY <5>1, <3>7
      <4>2. /\ \A i \in 1..Len(J) : J[i] <= issued
            /\ damages = 0 => \A e \in acked :
                  \E i \in 1..(manifest.cur.base + t0.synced) : J[i] = e
          BY <1>2, <2>2 DEF EventsOK
      <4>3. Len(f) = k /\ \A i \in 1..k : i \in 1..Len(f0) /\ f[i] = f0[i]
          BY <3>3
      <4> HIDE DEF f, J, J1, s, f0, t0, x
      <4>4. Len(J1) = Len(s) + k /\ Len(J) = Len(s) + Len(f0)
          BY <3>2, <4>1, <4>3 DEF IsJoin
      <4>5. ASSUME NEW i \in 1..Len(J1)
            PROVE  i \in 1..Len(J) /\ J1[i] = J[i]
        <5>1. i \in 1..Len(J)
            BY <3>2, <3>6, <4>4
        <5>2. CASE i \in 1..Len(s)
            BY <5>1, <5>2, <3>2, <4>1, JoinAt
        <5>3. CASE i \notin 1..Len(s)
          <6>1. /\ i - Len(s) \in 1..k /\ i - Len(s) \in 1..Len(f) /\ i - Len(s) \in 1..Len(f0)
              BY <5>3, <3>2, <3>6, <4>3, <4>4
          <6>2. J1[i] = f[i - Len(s)]
              BY <5>3, <6>1, <4>1, <3>2, JoinAt
          <6>3. J[i] = f0[i - Len(s)]
              BY <5>1, <5>3, <6>1, <3>2, JoinAt
          <6> QED BY <5>1, <6>1, <6>2, <6>3, <4>3
        <5> QED BY <5>2, <5>3
      <4>6. ASSUME damages = 0, NEW e \in acked
            PROVE  \E i \in 1..(manifest.cur.base + t0.synced) : J1[i] = e
        <5>1. PICK i \in 1..(manifest.cur.base + t0.synced) : J[i] = e
            BY <4>2, <4>6
        <5>2. i \in 1..Len(J1)
            BY <3>2, <3>6, <4>4
        <5> QED BY <5>1, <5>2, <4>5
      <4>7. segs'[x].synced = t0.synced
          BY <3>3, <3>7
      <4>8. \A i \in 1..Len(J1) : J1[i] <= issued
          BY <4>2, <4>5
      <4> QED BY <2>2, <4>6, <4>7, <4>8 DEF EventsOK, J1, x
    <3> QED BY <3>7, <3>8, <3>9
  <2> QED BY <2>1, <2>2
<1>5. losses' \in 0..MaxLoss
    BY <1>1, <1>2
<1> QED BY <1>1, <1>2, <1>3, <1>4, <1>5, Assembled

\* Damage to a file of the name z changes no content that was written before it.
Blemished(z, sn, sg, sn1, sg1) ==
    /\ DOMAIN sn1 = DOMAIN sn /\ DOMAIN sg1 = DOMAIN sg
    /\ \A x \in DOMAIN sn : /\ sn1[x] \in Snapshot /\ sn1[x].state = sn[x].state
                            /\ sn[x].bad => sn1[x].bad
                            /\ x # z => sn1[x] = sn[x]
    /\ \A x \in DOMAIN sg : /\ sg1[x] \in Segment /\ sg1[x].frames = sg[x].frames
                            /\ sg1[x].torn = sg[x].torn /\ sg1[x].synced = sg[x].synced
                            /\ sg[x].bad # 0 => sg1[x].bad # 0
                            /\ x # z => sg1[x] = sg[x]

LEMMA BlemishKeeps ==
    ASSUME NEW m, NEW sn, NEW sg, NEW sn1, NEW sg1, NEW z, DiskType(m, sn, sg), FilesOK(m, sn, sg),
           Blemished(z, sn, sg, sn1, sg1)
    PROVE  /\ DiskType(m, sn1, sg1) /\ FilesOK(m, sn1, sg1)
           /\ \A c : CacheOK(c, m, sn, sg) => CacheOK(c, m, sn1, sg1)
           /\ \A x : Filed(x, sn, sg) => Joined(x, sn1, sg1) = Joined(x, sn, sg)
<1>1. DiskType(m, sn1, sg1)
    BY DEF DiskType, Blemished
<1>2. \A x : Filed(x, sn, sg) => /\ Filed(x, sn1, sg1) /\ Joined(x, sn1, sg1) = Joined(x, sn, sg)
                                 /\ sn1[x].state = sn[x].state /\ sg1[x].frames = sg[x].frames
                                 /\ sg1[x].torn = sg[x].torn /\ sg1[x].synced = sg[x].synced
                                 /\ sg[x].bad # 0 => sg1[x].bad # 0
    BY DEF Filed, Joined, Blemished
<1>3. \A set : SealedOK(set, sn, sg) => SealedOK(set, sn1, sg1)
    BY <1>2 DEF SealedOK
<1>4. CASE m = None
    BY <1>1, <1>2, <1>4 DEF FilesOK, CacheOK
<1>5. CASE m # None
  <2>1. Filed(m.cur.name, sn, sg)
      BY <1>5 DEF FilesOK, CurrentOK
  <2>2. CurrentOK(m, sn1, sg1)
      BY <1>2, <1>5 DEF FilesOK, CurrentOK
  <2>3. ASSUME m.prev # None PROVE RetainedOK(m, sn1, sg1)
    <3>1. RetainedOK(m, sn, sg)
        BY <1>5, <2>3 DEF FilesOK
    <3>2. Filed(m.prev.name, sn, sg)
        BY <3>1 DEF RetainedOK, SealedOK
    <3> QED BY <1>2, <1>3, <2>1, <3>1, <3>2 DEF RetainedOK
  <2>4. \A c : CacheOK(c, m, sn, sg) => CacheOK(c, m, sn1, sg1)
      BY <1>2, <2>1 DEF CacheOK
  <2> QED BY <1>1, <1>2, <2>2, <2>3, <2>4 DEF FilesOK
<1> QED BY <1>4, <1>5

\* What Damage does to the files.
LEMMA DamageBlemishes ==
    ASSUME IInv, Damage
    PROVE  \E z : Blemished(z, snaps, segs, snaps', segs')
<1>1. /\ DiskType(manifest, snaps, segs) /\ FilesOK(manifest, snaps, segs) /\ manifest # None
    BY Disk DEF Damage
<1>2. PICK set \in {manifest.cur, manifest.prev} \ {None} :
        \/ /\ snaps' = [snaps EXCEPT ![set.name].bad = TRUE]
           /\ UNCHANGED segs
        \/ /\ \E k \in 1..Len(segs[set.name].frames) :
                segs' = [segs EXCEPT ![set.name].bad = k]
           /\ UNCHANGED snaps
    BY DEF Damage
<1> DEFINE z == set.name
<1>3. z \in DOMAIN snaps /\ z \in DOMAIN segs
    BY <1>1, <1>2 DEF FilesOK, CurrentOK, RetainedOK, SealedOK, Filed
<1>4. /\ \A x \in DOMAIN snaps : snaps[x] \in Snapshot
      /\ \A x \in DOMAIN segs : segs[x] \in Segment
    BY <1>1 DEF DiskType
<1>5. CASE snaps' = [snaps EXCEPT ![z].bad = TRUE] /\ UNCHANGED segs
  <2> DEFINE v0 == snaps[z]
             v == [v0 EXCEPT !.bad = TRUE]
  <2>1. Changed(snaps, z, v, snaps')
    <3>1. snaps' = [snaps EXCEPT ![z] = v]
        BY <1>5
    <3> QED BY <1>3, <3>1, ExceptChanges
  <2>2. v0 \in Snapshot
      BY <1>3, <1>4
  <2> HIDE DEF v0
  <2>3. v \in Snapshot /\ v.state = v0.state /\ v.bad
      BY <2>2 DEF Snapshot
  <2> HIDE DEF v, z
  <2>4. Blemished(z, snaps, segs, snaps', segs')
      BY <1>3, <1>4, <1>5, <2>1, <2>3 DEF Blemished, Changed, v0
  <2> QED BY <2>4
<1>6. CASE (\E k \in 1..Len(segs[z].frames) : segs' = [segs EXCEPT ![z].bad = k]) /\ UNCHANGED snaps
  <2>1. PICK k \in 1..Len(segs[z].frames) : segs' = [segs EXCEPT ![z].bad = k]
      BY <1>6
  <2> DEFINE v0 == segs[z]
             v == [v0 EXCEPT !.bad = k]
  <2>2. Changed(segs, z, v, segs')
    <3>1. segs' = [segs EXCEPT ![z] = v]
        BY <2>1
    <3> QED BY <1>3, <3>1, ExceptChanges
  <2>3. v0 \in Segment
      BY <1>3, <1>4
  <2>4. Len(v0.frames) \in Nat
      BY <2>3, LenProperties DEF Segment, State
  <2>5. k \in Nat /\ k # 0
      BY <2>4
  <2> HIDE DEF v0
  <2>6. v \in Segment /\ v.frames = v0.frames /\ v.torn = v0.torn /\ v.synced = v0.synced /\ v.bad # 0
      BY <2>3, <2>5 DEF Segment
  <2> HIDE DEF v, z
  <2>7. Blemished(z, snaps, segs, snaps', segs')
      BY <1>3, <1>4, <1>6, <2>2, <2>6 DEF Blemished, Changed, v0
  <2> QED BY <2>7
<1> QED BY <1>2, <1>5, <1>6

LEMMA DamageKeeps ==
    ASSUME IInv, Damage
    PROVE  IInv'
<1>1. /\ damages < MaxDamage /\ damages' = damages + 1 /\ lock = None /\ manifest # None
      /\ manifest' = manifest /\ lock' = lock /\ handle' = handle /\ issued' = issued
      /\ acked' = acked /\ losses' = losses
    BY DEF Damage
<1>2. /\ DiskType(manifest, snaps, segs) /\ FilesOK(manifest, snaps, segs)
      /\ FaultsOK(damages, manifest, snaps, segs) /\ manifest \in Manifest
      /\ EventsOK(issued, acked, damages, manifest, snaps, segs)
      /\ issued \in 0..MaxEvent /\ acked \subseteq Event
      /\ damages \in 0..MaxDamage /\ losses \in 0..MaxLoss /\ MaxDamage \in Nat
    BY <1>1, Disk
<1>3. PICK z : Blemished(z, snaps, segs, snaps', segs')
    BY DamageBlemishes
<1>4. /\ DiskType(manifest, snaps', segs') /\ FilesOK(manifest, snaps', segs')
      /\ \A c : CacheOK(c, manifest, snaps, segs) => CacheOK(c, manifest, snaps', segs')
      /\ \A x : Filed(x, snaps, segs) => Joined(x, snaps', segs') = Joined(x, snaps, segs)
    BY <1>2, <1>3, BlemishKeeps
<1>5. damages' # 0 /\ damages' \in 0..MaxDamage /\ (damages' <= 1 => damages = 0)
    BY <1>1, <1>2
<1>6. Filed(manifest.cur.name, snaps, segs)
    BY <1>1, <1>2 DEF FilesOK, CurrentOK
<1>7. FaultsOK(damages', manifest, snaps', segs')
  <2> SUFFICES ASSUME damages = 0, manifest.prev # None
               PROVE  Whole(manifest.cur.name, snaps', segs') \/ Whole(manifest.prev.name, snaps', segs')
      BY <1>5 DEF FaultsOK
  <2>1. Filed(manifest.prev.name, snaps, segs) /\ manifest.prev.name # manifest.cur.name
      BY <1>1, <1>2, NamesDiffer DEF FilesOK, RetainedOK, SealedOK
  <2>2. \A x : Filed(x, snaps, segs) /\ x # z => Whole(x, snaps', segs')
      BY <1>2, <1>3 DEF Filed, FaultsOK, Blemished, Whole
  <2> QED BY <1>6, <2>1, <2>2
<1>8. EventsOK(issued, acked, damages', manifest, snaps', segs')
    BY <1>1, <1>2, <1>4, <1>5, <1>6 DEF EventsOK
<1>9. /\ DOMAIN handle' = Handle /\ lock' \in Handle \cup {None}
      /\ \A k \in Handle : /\ handle'[k] \in Store /\ handle'[k].pc = "idle"
                           /\ CacheOK(handle'[k].cache, manifest', snaps', segs')
    BY <1>1, <1>4, Handles, NoneAssumption DEF HandleOK
<1>10. /\ \A k \in Handle : handle'[k] \in Store
       /\ Locked'
       /\ \A k \in Handle : HandleOK(handle'[k], issued', manifest', snaps', segs')
    BY <1>9, AllIdle
<1> QED BY <1>1, <1>2, <1>4, <1>5, <1>7, <1>8, <1>9, <1>10, Assembled

----------------------------------------------------------------------------
(* The theorems.                                                           *)

LEMMA InitInvariant == Init => IInv
<1> SUFFICES ASSUME Init PROVE IInv
    OBVIOUS
<1>1. /\ manifest = None /\ snaps = <<>> /\ segs = <<>> /\ lock = None
      /\ handle = [h \in Handle |-> Idle(None)] /\ issued = 0 /\ acked = {}
      /\ damages = 0 /\ losses = 0
    BY DEF Init
<1>2. \A h \in Handle : handle[h] \in Store /\ handle[h].pc = "idle" /\ handle[h].cache = None
    BY <1>1 DEF Idle, Store, Pc
<1>3. DOMAIN snaps = {} /\ DOMAIN segs = {}
    BY <1>1
<1>4. TypeOK
    BY <1>1, <1>2, <1>3, BoundsAssumption DEF TypeOK
<1>5. \A h \in Handle : HandleOK(handle[h], issued, manifest, snaps, segs)
  <2>1. \A h \in Handle : CacheOK(handle[h].cache, manifest, snaps, segs)
      BY <1>2 DEF CacheOK
  <2>2. ASSUME NEW h \in Handle
        PROVE  HandleOK(handle[h], issued, manifest, snaps, segs)
    <3> DEFINE r == handle[h]
    <3>1. r.pc \in {"idle", "read"} /\ CacheOK(r.cache, manifest, snaps, segs)
        BY <1>2, <2>1
    <3> HIDE DEF r
    <3>2. HandleOK(r, issued, manifest, snaps, segs)
        BY <3>1, ReadingOK
    <3> QED BY <3>2 DEF r
  <2> QED BY <2>2
<1> QED BY <1>1, <1>2, <1>3, <1>4, <1>5
        DEF IInv, Locked, FilesOK, FaultsOK, EventsOK

LEMMA NextInvariant == IInv /\ [Next]_vars => IInv'
<1> SUFFICES ASSUME IInv, [Next]_vars PROVE IInv'
    OBVIOUS
<1>1. CASE PowerLoss
    BY <1>1, PowerLossKeeps
<1>2. CASE Damage
    BY <1>2, DamageKeeps
<1>3. ASSUME NEW h \in Handle, Step(h)
      PROVE  IInv'
    BY <1>3, AcquireKeeps, CatchUpKeeps, PlanInitialKeeps, PlanRecoveryKeeps, UnreadableKeeps,
       ReadOnlyKeeps, AppendFrameKeeps, ShortWriteKeeps, SyncFrameKeeps, WriteSnapshotKeeps,
       CreateEmptyKeeps, SegmentExistsKeeps, PublishManifestKeeps, RemoveOldKeeps, FailsKeeps
       DEF Step
<1>4. ASSUME NEW h \in Handle, Crash(h)
      PROVE  IInv'
    BY <1>4, CrashKeeps
<1>5. CASE UNCHANGED vars
  <2>1. /\ manifest' = manifest /\ snaps' = snaps /\ segs' = segs /\ lock' = lock
        /\ handle' = handle /\ issued' = issued /\ acked' = acked /\ damages' = damages
        /\ losses' = losses
      BY <1>5 DEF vars
  <2>2. TypeOK' /\ Locked'
      BY <2>1 DEF IInv, TypeOK, Locked
  <2> QED BY <2>1, <2>2 DEF IInv
<1> QED BY <1>1, <1>2, <1>3, <1>4, <1>5 DEF Next

\* Every reachable state satisfies the inductive invariant: who is at work, what the files of
\* the manifest hold, what the caches know of them, and what a set about to be published
\* goes on from.
THEOREM Invariant == Spec => []IInv
BY InitInvariant, NextInvariant, PTL DEF Spec

\* The files, the caches and the plans of the handles keep their types (session/log.rs,
\* session/snapshot.rs).
THEOREM TypeCorrect == Spec => []TypeOK
<1>1. IInv => TypeOK
    BY DEF IInv
<1> QED BY <1>1, Invariant, PTL

LEMMA LogIsJoined ==
    ASSUME IInv, manifest # None
    PROVE  Log = Joined(manifest.cur.name, snaps, segs)
BY DEF Log, StateOf, Joined

\* Without damage, a committed event stays in the log through repairs, rotations, crashes and
\* power losses (append_event, compact, repair_tail).
THEOREM CommittedEventsSurvive == Spec => []AckedSurvive
<1>1. IInv => AckedSurvive
  <2> SUFFICES ASSUME IInv, damages = 0, NEW e \in acked
               PROVE  \E i \in 1..Len(Log) : Log[i] = e
      BY DEF AckedSurvive
  <2> DEFINE x == manifest.cur.name
             J == Joined(x, snaps, segs)
  <2>1. /\ manifest # None
        /\ \E i \in 1..(manifest.cur.base + segs[x].synced) : J[i] = e
      BY Disk DEF EventsOK
  <2>2. Log = J
      BY <2>1, LogIsJoined
  <2>3. /\ Len(J) = manifest.cur.base + Len(segs[x].frames) /\ manifest.cur.base \in Nat
        /\ segs[x].synced \in Nat /\ segs[x].synced <= Len(segs[x].frames)
        /\ Len(segs[x].frames) \in Nat
      BY <2>1, CurrentFacts DEF IsJoin
  <2> HIDE DEF J, x
  <2>4. \A i \in 1..(manifest.cur.base + segs[x].synced) : i \in 1..Len(J)
      BY <2>3
  <2> QED BY <2>1, <2>2, <2>4
<1> QED BY <1>1, Invariant, PTL

\* A cache under the current manifest is a prefix of the log, so catching up from its offset
\* is the same as loading everything (catch_up, load_state).
THEOREM CachesArePrefixes == Spec => []CacheIsPrefix
<1>1. IInv => CacheIsPrefix
  <2> SUFFICES ASSUME IInv, NEW h \in Handle, manifest # None, Current(h)
               PROVE  /\ handle[h].cache.off <= Len(segs[manifest.cur.name].frames)
                      /\ Len(handle[h].cache.state) = manifest.cur.base + handle[h].cache.off
                      /\ handle[h].cache.state = SubSeq(Log, 1, Len(handle[h].cache.state))
      BY DEF CacheIsPrefix
  <2> DEFINE x == manifest.cur.name
             J == Joined(x, snaps, segs)
             c == handle[h].cache
             st == c.state
  <2>1. /\ c \in Cache /\ c.off <= Len(segs[x].frames)
        /\ Len(st) = manifest.cur.base + c.off
        /\ \A i \in 1..Len(st) : st[i] = J[i]
      BY Handles DEF Current, HandleOK, CacheOK
  <2>2. /\ Len(J) = manifest.cur.base + Len(segs[x].frames) /\ manifest.cur.base \in Nat
        /\ Len(segs[x].frames) \in Nat /\ J \in State
      BY CurrentFacts DEF IsJoin
  <2>3. c.off \in Nat /\ st \in State
      BY <2>1 DEF Cache
  <2>4. Log = J
      BY LogIsJoined
  <2> HIDE DEF c, J, x
  <2>5. Len(st) \in Nat /\ Len(st) <= Len(J)
      BY <2>1, <2>2, <2>3
  <2> HIDE DEF st
  <2>6. st = SubSeq(J, 1, Len(st))
      BY <2>1, <2>2, <2>3, <2>5, PrefixIs DEF Agrees
  <2> QED BY <2>1, <2>4, <2>6 DEF st, c, x
<1> QED BY <1>1, Invariant, PTL

\* The retained set has its files and ends where the current one begins, in every step of a
\* rotation and of a recovery (compact, recover_previous, remove_set).
THEOREM RetainedSetMatches == Spec => []PreviousMatches
<1>1. IInv => PreviousMatches
  <2> SUFFICES ASSUME IInv, manifest # None PROVE PreviousMatches
      BY DEF PreviousMatches
  <2>1. CurrentOK(manifest, snaps, segs) /\ (manifest.prev # None => RetainedOK(manifest, snaps, segs))
      BY Disk DEF FilesOK
  <2> QED BY <2>1 DEF PreviousMatches, CurrentOK, RetainedOK, SealedOK, Filed, StateOf, Joined
<1> QED BY <1>1, Invariant, PTL

\* A first damaged file leaves one of the two sets of a rotated session readable (load_set).
THEOREM OneFaultIsRecoverable == Spec => []OneFaultRecoverable
<1>1. IInv => OneFaultRecoverable
  <2> SUFFICES ASSUME IInv, damages <= 1, manifest # None, manifest.prev # None
               PROVE  LoadsSet(manifest.cur, TRUE) \/ LoadsSet(manifest.prev, FALSE)
      BY DEF OneFaultRecoverable
  <2>1. /\ Whole(manifest.cur.name, snaps, segs) \/ Whole(manifest.prev.name, snaps, segs)
        /\ CurrentOK(manifest, snaps, segs) /\ RetainedOK(manifest, snaps, segs)
        /\ DiskType(manifest, snaps, segs) /\ manifest \in Manifest
      BY Disk DEF FaultsOK, FilesOK
  <2>2. CASE Whole(manifest.cur.name, snaps, segs)
    <3>1. Filed(manifest.cur.name, snaps, segs) /\ Len(segs[manifest.cur.name].frames) \in Nat
        BY <2>1, FileTypes DEF CurrentOK
    <3> QED BY <2>2, <3>1 DEF LoadsSet, Replays, Whole, Filed
  <2>3. CASE Whole(manifest.prev.name, snaps, segs)
    <3> DEFINE y == manifest.prev.name
               z == manifest.prev.sealed
    <3>1. SealedOK(manifest.prev, snaps, segs) /\ Filed(y, snaps, segs)
        BY <2>1 DEF RetainedOK, SealedOK
    <3>2. Len(segs[y].frames) \in Nat /\ segs[y] \in Segment
        BY <2>1, <3>1, FileTypes DEF DiskType, Filed
    <3>3. z \in Segment /\ z # None
      <4>1. manifest.prev \in Set
          BY <2>1, NamedTypes
      <4> QED BY <3>1, <4>1 DEF Set, SealedOK
    <3>4. /\ segs[y].frames = z.frames /\ segs[y].torn = z.torn /\ segs[y].synced = z.synced
          /\ segs[y].bad = z.bad
        BY <2>3, <3>1 DEF SealedOK, Whole
    <3>5. segs[y] = z
      <4> DEFINE w == segs[y]
      <4> HIDE DEF w, z
      <4>1. w \in Segment /\ z \in Segment /\ w.frames = z.frames /\ w.torn = z.torn
            /\ w.synced = z.synced /\ w.bad = z.bad
          BY <3>2, <3>3, <3>4 DEF w
      <4>2. w = z
          BY <4>1 DEF Segment
      <4> QED BY <4>2 DEF w
    <3>6. manifest.prev.base + Len(z.frames) = manifest.prev.last
        BY <3>1 DEF SealedOK
    <3> QED BY <2>3, <3>1, <3>2, <3>3, <3>5, <3>6 DEF LoadsSet, Replays, Whole, Filed
  <2> QED BY <2>1, <2>2, <2>3
<1> QED BY <1>1, Invariant, PTL

----------------------------------------------------------------------------
(* The files implement the durable log.                                    *)

Abstract == <<Log, Stable, Floor, CurrentDamaged>>

\* What the durable log is, while there is a manifest.
LEMMA AbstractNow ==
    ASSUME manifest # None
    PROVE  /\ Log = Joined(manifest.cur.name, snaps, segs)
           /\ Stable = manifest.cur.base + segs[manifest.cur.name].synced
           /\ Floor = manifest.cur.base
           /\ CurrentDamaged = ~Whole(manifest.cur.name, snaps, segs)
<1>1. CurrentDamaged <=> ~Whole(manifest.cur.name, snaps, segs)
    BY DEF CurrentDamaged, Whole
<1>2. CurrentDamaged \in BOOLEAN /\ (~Whole(manifest.cur.name, snaps, segs)) \in BOOLEAN
    BY DEF CurrentDamaged, Whole
<1> QED BY <1>1, <1>2 DEF Log, Stable, Floor, StateOf, Joined

LEMMA AbstractNext ==
    ASSUME manifest' # None
    PROVE  /\ Log' = Joined(manifest'.cur.name, snaps', segs')
           /\ Stable' = manifest'.cur.base + segs'[manifest'.cur.name].synced
           /\ Floor' = manifest'.cur.base
           /\ CurrentDamaged' = ~Whole(manifest'.cur.name, snaps', segs')
<1>1. CurrentDamaged' <=> ~Whole(manifest'.cur.name, snaps', segs')
    BY DEF CurrentDamaged, Whole
<1>2. CurrentDamaged' \in BOOLEAN /\ (~Whole(manifest'.cur.name, snaps', segs')) \in BOOLEAN
    BY DEF CurrentDamaged, Whole
<1> QED BY <1>1, <1>2 DEF Log, Stable, Floor, StateOf, Joined

\* Steps that leave the manifest and its current files alone are invisible.
LEMMA Invisible ==
    ASSUME IInv, manifest' = manifest,
           manifest # None => Same(manifest.cur.name, snaps, segs, snaps', segs')
    PROVE  UNCHANGED Abstract
<1>1. CASE manifest = None
    BY <1>1 DEF Abstract, Log, Stable, Floor, CurrentDamaged
<1>2. CASE manifest # None
  <2>1. /\ snaps'[manifest.cur.name] = snaps[manifest.cur.name]
        /\ segs'[manifest.cur.name] = segs[manifest.cur.name]
      BY <1>2, CurrentFacts DEF Same
  <2> QED BY <1>2, <2>1 DEF Abstract, Log, Stable, Floor, CurrentDamaged, StateOf
<1> QED BY <1>1, <1>2

LEMMA QuietIsInvisible ==
    ASSUME IInv, UNCHANGED disk
    PROVE  UNCHANGED Abstract
BY Invisible DEF disk, Same

\* A step of the holder on the current segment: what it does to the log.
LEMMA SegmentView ==
    ASSUME IInv, manifest # None, NEW t, Changed(segs, manifest.cur.name, t, segs'),
           UNCHANGED <<manifest, snaps>>, t.bad = segs[manifest.cur.name].bad
    PROVE  /\ Log = snaps[manifest.cur.name].state \o segs[manifest.cur.name].frames
           /\ Log' = snaps[manifest.cur.name].state \o t.frames
           /\ Stable' = manifest.cur.base + t.synced
           /\ Floor' = Floor /\ CurrentDamaged' = CurrentDamaged
<1>1. segs'[manifest.cur.name] = t
    BY DEF Changed
<1> QED BY <1>1 DEF Log, StateOf, Stable, Floor, CurrentDamaged

LEMMA CatchUpImplements ==
    ASSUME IInv, NEW h \in Handle, CatchUp(h)
    PROVE  Durable!Sync \/ UNCHANGED Abstract
<1> DEFINE x == manifest.cur.name
           t == Repaired(segs[x])
<1>1. /\ manifest # None /\ segs' = [segs EXCEPT ![x] = t] /\ UNCHANGED <<manifest, snaps>>
    BY DEF CatchUp, Readable
<1>2. /\ x \in DOMAIN segs /\ segs[x] \in Segment /\ segs[x].synced <= Len(segs[x].frames)
      /\ manifest.cur.base = Len(snaps[x].state)
      /\ IsJoin(Joined(x, snaps, segs), snaps[x].state, segs[x].frames)
    BY <1>1, CurrentFacts
<1>3. Extended(segs[x], t) /\ t.frames = segs[x].frames
    BY <1>2, RepairExtends
<1>4. Changed(segs, x, t, segs') /\ t.bad = segs[x].bad
    BY <1>1, <1>2, <1>3, ExceptChanges DEF Extended
<1>5. t.synced = segs[x].synced \/ t.synced = Len(segs[x].frames)
    BY <1>2 DEF Repaired, Segment
<1> HIDE DEF t
<1>6. /\ Log = snaps[x].state \o segs[x].frames
      /\ Log' = snaps[x].state \o t.frames
      /\ Stable' = manifest.cur.base + t.synced
      /\ Floor' = Floor /\ CurrentDamaged' = CurrentDamaged
    BY <1>1, <1>4, SegmentView
<1>7. Log' = Log
    BY <1>3, <1>6
<1>8. Len(Log) = manifest.cur.base + Len(segs[x].frames)
    BY <1>1, <1>2, LogIsJoined DEF IsJoin
<1>9. Stable = manifest.cur.base + segs[x].synced
    BY <1>1 DEF Stable
<1> QED BY <1>5, <1>6, <1>7, <1>8, <1>9 DEF Durable!Sync, Abstract

LEMMA SyncFrameImplements ==
    ASSUME IInv, NEW h \in Handle, SyncFrame(h)
    PROVE  Durable!Sync
<1> DEFINE x == manifest.cur.name
           t0 == segs[x]
           t == [t0 EXCEPT !.synced = Len(t0.frames)]
<1>1. /\ manifest # None /\ handle[h].cache.name = x
    BY AtWork DEF SyncFrame
<1>2. /\ segs' = [segs EXCEPT ![x] = t] /\ UNCHANGED <<manifest, snaps>>
    BY <1>1 DEF SyncFrame
<1>3. /\ x \in DOMAIN segs /\ t0 \in Segment /\ manifest.cur.base = Len(snaps[x].state)
      /\ IsJoin(Joined(x, snaps, segs), snaps[x].state, t0.frames)
    BY <1>1, CurrentFacts
<1>4. Changed(segs, x, t, segs')
    BY <1>2, <1>3, ExceptChanges
<1>5. t.frames = t0.frames /\ t.bad = t0.bad /\ t.synced = Len(t0.frames)
  <2> HIDE DEF t0
  <2> QED BY <1>3 DEF Segment
<1> HIDE DEF t
<1>6. /\ Log = snaps[x].state \o t0.frames
      /\ Log' = snaps[x].state \o t.frames
      /\ Stable' = manifest.cur.base + t.synced
      /\ Floor' = Floor /\ CurrentDamaged' = CurrentDamaged
    BY <1>1, <1>2, <1>4, <1>5, SegmentView
<1>7. Len(Log) = manifest.cur.base + Len(t0.frames)
    BY <1>1, <1>3, LogIsJoined DEF IsJoin
<1> QED BY <1>5, <1>6, <1>7 DEF Durable!Sync

LEMMA ShortWriteImplements ==
    ASSUME IInv, NEW h \in Handle, ShortWrite(h)
    PROVE  UNCHANGED Abstract
<1> DEFINE x == manifest.cur.name
           t0 == segs[x]
           t == [t0 EXCEPT !.torn = TRUE]
<1>1. /\ manifest # None /\ handle[h].cache.name = x
    BY AtWork DEF ShortWrite
<1>2. /\ segs' = [segs EXCEPT ![x] = t] /\ UNCHANGED <<manifest, snaps>>
    BY <1>1 DEF ShortWrite
<1>3. x \in DOMAIN segs /\ t0 \in Segment
    BY <1>1, CurrentFacts
<1>4. Changed(segs, x, t, segs')
    BY <1>2, <1>3, ExceptChanges
<1>5. t.frames = t0.frames /\ t.bad = t0.bad /\ t.synced = t0.synced
  <2> HIDE DEF t0
  <2> QED BY <1>3 DEF Segment
<1> HIDE DEF t
<1>6. /\ Log = snaps[x].state \o t0.frames
      /\ Log' = snaps[x].state \o t.frames
      /\ Stable' = manifest.cur.base + t.synced
      /\ Floor' = Floor /\ CurrentDamaged' = CurrentDamaged
    BY <1>1, <1>2, <1>4, <1>5, SegmentView
<1>7. Stable = manifest.cur.base + t0.synced
    BY <1>1 DEF Stable
<1> QED BY <1>5, <1>6, <1>7 DEF Abstract

LEMMA AppendFrameImplements ==
    ASSUME IInv, NEW h \in Handle, AppendFrame(h)
    PROVE  Durable!Write
<1> DEFINE x == manifest.cur.name
           t0 == segs[x]
           f == t0.frames
           s == snaps[x].state
           e == issued'
           t == [t0 EXCEPT !.frames = Append(f, e)]
<1>1. /\ manifest # None /\ handle[h].cache.name = x
    BY AtWork DEF AppendFrame
<1>2. /\ segs' = [segs EXCEPT ![x] = t] /\ UNCHANGED <<manifest, snaps>>
      /\ issued < MaxEvent /\ e = issued + 1
    BY <1>1 DEF AppendFrame
<1>3. /\ x \in DOMAIN segs /\ t0 \in Segment /\ s \in State /\ f \in State
      /\ IsJoin(Joined(x, snaps, segs), s, f)
    BY <1>1, CurrentFacts
<1>4. Changed(segs, x, t, segs')
    BY <1>2, <1>3, ExceptChanges
<1>5. t.frames = Append(f, e) /\ t.bad = t0.bad /\ t.synced = t0.synced
  <2> HIDE DEF t0
  <2> QED BY <1>3 DEF Segment
<1> HIDE DEF t
<1>6. /\ Log = s \o f /\ Log' = s \o t.frames
      /\ Stable' = manifest.cur.base + t.synced
      /\ Floor' = Floor /\ CurrentDamaged' = CurrentDamaged
    BY <1>1, <1>2, <1>4, <1>5, SegmentView
<1>7. Stable = manifest.cur.base + t0.synced
    BY <1>1 DEF Stable
<1>8. issued \in 0..MaxEvent /\ MaxEvent \in Nat
    BY Disk
<1>9. e \in Event
    BY <1>2, <1>8 DEF Event
<1>10. Log' = Append(Log, e)
  <2> HIDE DEF s, f, e
  <2>1. f \in Seq(Event) /\ s \in Seq(Event) /\ <<e>> \in Seq(Event) /\ s \o f \in Seq(Event)
      BY <1>3, <1>9, ConcatProperties DEF State
  <2>2. Append(f, e) = f \o <<e>> /\ Append(s \o f, e) = (s \o f) \o <<e>>
      BY <1>9, <2>1, AppendIsConcat
  <2>3. (s \o f) \o <<e>> = s \o (f \o <<e>>)
      BY <2>1, ConcatAssociative
  <2> QED BY <1>5, <1>6, <2>2, <2>3
<1>11. e \notin {Log[i] : i \in 1..Len(Log)}
  <2>1. \A i \in 1..Len(Log) : Log[i] <= issued
      BY <1>1, Disk, LogIsJoined DEF EventsOK
  <2> QED BY <1>2, <1>8, <2>1
<1> QED BY <1>5, <1>6, <1>7, <1>9, <1>10, <1>11 DEF Durable!Write, Durable!Entries

LEMMA PublishImplements ==
    ASSUME IInv, NEW h \in Handle, PublishManifest(h)
    PROVE  Durable!Rotate \/ Durable!FallBack \/ UNCHANGED Abstract
<1> DEFINE y == PlanName(h)
           plan == handle[h].plan
           m == Published(h)
           x == manifest.cur.name
           J == Joined(x, snaps, segs)
           s == snaps[x].state
           f == segs[x].frames
<1>1. handle[h].pc = "publish" /\ manifest' = m /\ snaps' = snaps /\ segs' = segs
    BY DEF PublishManifest
<1>2. /\ m \in Manifest /\ m.cur.name = y /\ m.cur.base = Len(plan.state)
      /\ Joined(y, snaps, segs) = plan.state /\ segs[y].synced = 0 /\ Whole(y, snaps, segs)
    BY <1>1, PublishedOK
<1>3. /\ plan \in Plan /\ PlanOK(plan, manifest, snaps, segs) /\ plan.state \in State
      /\ Len(plan.state) \in Nat
    BY <1>1, Publishing
<1>4. /\ Log' = plan.state /\ Stable' = Len(plan.state) /\ Floor' = Len(plan.state)
      /\ CurrentDamaged' = FALSE
  <2>1. manifest' # None
      BY <1>1, <1>2, NoneAssumption
  <2>2. /\ Log' = Joined(manifest'.cur.name, snaps', segs')
        /\ Stable' = manifest'.cur.base + segs'[manifest'.cur.name].synced
        /\ Floor' = manifest'.cur.base
        /\ CurrentDamaged' = ~Whole(manifest'.cur.name, snaps', segs')
      BY <2>1, AbstractNext
  <2>3. manifest'.cur.name = y /\ manifest'.cur.base = Len(plan.state)
      BY <1>1, <1>2
  <2>4. Joined(manifest'.cur.name, snaps', segs') = plan.state
    <3>1. Joined(manifest'.cur.name, snaps', segs') = Joined(y, snaps, segs)
        BY <1>1, <2>3, Zenon
    <3> QED BY <1>2, <3>1
  <2>5. Whole(manifest'.cur.name, snaps', segs') = Whole(y, snaps, segs)
      BY <1>1, <2>3, Zenon
  <2>6. segs'[manifest'.cur.name].synced = 0
      BY <1>1, <1>2, <2>3
  <2> HIDE DEF m, y, plan
  <2>7. Log' = plan.state /\ Floor' = Len(plan.state)
      BY <2>2, <2>3, <2>4, Zenon
  <2>8. Stable' = Len(plan.state)
      BY <1>3, <2>2, <2>3, <2>6
  <2>9. CurrentDamaged' = FALSE
      BY <1>2, <2>2, <2>5
  <2> QED BY <2>7, <2>8, <2>9
<1>5. CASE manifest = None
  <2>1. plan.state = <<>> /\ Len(<<>>) = 0
      BY <1>3, <1>5, EmptySeq DEF PlanOK
  <2>2. Log = <<>> /\ Stable = 0 /\ Floor = 0 /\ CurrentDamaged = FALSE
      BY <1>5 DEF Log, Stable, Floor, CurrentDamaged
  <2> QED BY <1>4, <2>1, <2>2 DEF Abstract
<1>6. CASE manifest # None
  <2>1. /\ Log = J /\ Stable = manifest.cur.base + segs[x].synced
        /\ Floor = manifest.cur.base /\ CurrentDamaged = ~Whole(x, snaps, segs)
      BY <1>6, AbstractNow
  <2>2. /\ IsJoin(J, s, f) /\ s \in State /\ f \in State /\ manifest.cur.base = Len(s)
        /\ FilesOK(manifest, snaps, segs)
      BY <1>6, CurrentFacts
  <2>3. CASE plan.rotate
    <3>1. J = plan.state /\ segs[x].synced = Len(f)
        BY <1>3, <1>6, <2>3 DEF PlanOK
    <3>2. Len(J) = Len(s) + Len(f)
        BY <2>2 DEF IsJoin
    <3>3. Stable = Len(Log)
        BY <2>1, <2>2, <3>1, <3>2
    <3> QED BY <1>4, <2>1, <3>1, <3>3 DEF Durable!Rotate
  <2>4. CASE ~plan.rotate
    <3>1. /\ ~Whole(x, snaps, segs) /\ manifest.prev # None
          /\ plan.state = Joined(manifest.prev.name, snaps, segs)
        BY <1>3, <1>6, <2>4 DEF PlanOK
    <3>2. plan.state = s
        BY <1>6, <2>2, <3>1 DEF FilesOK, RetainedOK
    <3>3. s = SubSeq(J, 1, Len(s))
      <4> HIDE DEF J, s, f
      <4>1. Agrees(s, J) /\ Len(s) \in Nat /\ Len(s) <= Len(J)
        <5>1. /\ \A i \in 1..Len(s) : J[i] = s[i]
              /\ Len(s) \in Nat /\ Len(f) \in Nat /\ Len(J) = Len(s) + Len(f)
            BY <2>2, JoinAt DEF IsJoin
        <5> QED BY <5>1 DEF Agrees
      <4> QED BY <2>2, <4>1, PrefixIs DEF IsJoin
    <3>4. Log' = SubSeq(Log, 1, Floor) /\ Stable' = Floor /\ Floor' = Floor
        BY <1>4, <2>1, <2>2, <3>2, <3>3
    <3> QED BY <1>4, <2>1, <3>1, <3>4 DEF Durable!FallBack
  <2> QED BY <2>3, <2>4
<1> QED BY <1>5, <1>6

LEMMA PowerLossImplements ==
    ASSUME IInv, PowerLoss
    PROVE  Durable!Lose \/ UNCHANGED Abstract
<1>1. manifest' = manifest /\ snaps' = snaps
    BY DEF PowerLoss
<1>2. CASE manifest = None
  <2>1. UNCHANGED disk
      BY <1>1, <1>2 DEF PowerLoss, disk
  <2> QED BY <2>1, QuietIsInvisible
<1>3. CASE manifest # None
  <2> DEFINE x == manifest.cur.name
             t0 == segs[x]
             s == snaps[x].state
             f0 == t0.frames
             J == Joined(x, snaps, segs)
  <2>1. PICK k \in t0.synced..Len(t0.frames), torn \in BOOLEAN :
            segs' = [segs EXCEPT ![x] = [t0 EXCEPT !.frames = SubSeq(@, 1, k), !.torn = torn]]
      BY <1>3 DEF PowerLoss
  <2> DEFINE t == [t0 EXCEPT !.frames = SubSeq(@, 1, k), !.torn = torn]
             f == t.frames
             n == Len(s) + k
  <2>2. /\ x \in DOMAIN segs /\ t0 \in Segment
        /\ t0.synced <= Len(f0) /\ t0.synced \in Nat /\ Len(f0) \in Nat
        /\ s \in State /\ f0 \in State /\ IsJoin(J, s, f0)
        /\ manifest.cur.base = Len(s) /\ Len(s) \in Nat
      BY <1>3, CurrentFacts
  <2>3. IsLost(t, t0, k, torn)
      BY DEF IsLost
  <2>4. Changed(segs, x, t, segs')
      BY <2>1, <2>2, ExceptChanges
  <2> HIDE DEF t
  <2>5. /\ t \in Segment /\ t.synced = t0.synced /\ t.bad = t0.bad
        /\ Len(f) = k /\ \A i \in 1..k : i \in 1..Len(f0) /\ f[i] = f0[i]
      BY <2>2, <2>3, LostTail
  <2>6. k \in Nat /\ t0.synced <= k /\ k <= Len(f0) /\ f \in State
      BY <2>2, <2>5 DEF Segment
  <2>7. /\ Log = s \o f0 /\ Log' = s \o f /\ Stable' = manifest.cur.base + t.synced
        /\ Floor' = Floor /\ CurrentDamaged' = CurrentDamaged
    <3> HIDE DEF f
    <3> QED BY <1>1, <1>3, <2>4, <2>5, SegmentView DEF f
  <2>8. Stable = Len(s) + t0.synced
      BY <1>3, <2>2 DEF Stable
  <2> HIDE DEF f0, s, t0, J
  <2>9. IsJoin(Log, s, f0) /\ Log = J
      BY <1>3, <2>2, LogIsJoined DEF J
  <2>10. IsJoin(Log', s, f)
    <3> DEFINE L == s \o f
    <3>1. IsJoin(L, s, f)
        BY <2>2, <2>6, ConcatProperties DEF IsJoin, State
    <3> QED BY <2>7, <3>1
  <2>11. Len(Log) = Len(s) + Len(f0) /\ Len(Log') = n /\ Log \in State /\ Log' \in State
      BY <2>5, <2>9, <2>10 DEF IsJoin
  <2>12. n \in Stable..Len(Log)
      BY <2>2, <2>6, <2>8, <2>11
  <2> DEFINE L == Log
             L1 == Log'
  <2>13. Agrees(L1, L)
    <3> SUFFICES ASSUME NEW i \in 1..Len(L1) PROVE L1[i] = L[i]
        BY DEF Agrees
    <3>1. /\ IsJoin(L, s, f0) /\ IsJoin(L1, s, f) /\ Len(L) = Len(s) + Len(f0) /\ Len(L1) = Len(s) + k
        BY <2>9, <2>10, <2>11
    <3> HIDE DEF L, L1, f
    <3>2. \A j \in 1..Len(s) : L[j] = s[j] /\ L1[j] = s[j]
        BY <2>2, <2>6, <3>1, JoinAt
    <3>3. /\ \A j \in 1..Len(f0) : L[Len(s) + j] = f0[j]
          /\ \A j \in 1..Len(f) : L1[Len(s) + j] = f[j]
        BY <2>2, <2>6, <3>1, JoinAt
    <3>4. CASE i \in 1..Len(s)
        BY <3>2, <3>4
    <3>5. CASE i \notin 1..Len(s)
      <4> DEFINE j == i - Len(s)
      <4>1. j \in 1..k /\ Len(s) + j = i
          BY <3>1, <3>5, <2>2, <2>6
      <4> HIDE DEF j
      <4>2. j \in 1..Len(f0) /\ j \in 1..Len(f) /\ f[j] = f0[j]
          BY <4>1, <2>5
      <4>3. L[Len(s) + j] = f0[j] /\ L1[Len(s) + j] = f[j]
          BY <4>2, <3>3
      <4> QED BY <4>1, <4>2, <4>3
    <3> QED BY <3>4, <3>5
  <2>14. Log' = SubSeq(Log, 1, n)
    <3>1. /\ L1 \in State /\ L \in State /\ Len(L1) = n /\ Agrees(L1, L) /\ n \in Nat /\ n <= Len(L)
        BY <2>2, <2>6, <2>11, <2>12, <2>13
    <3> HIDE DEF L, L1, n
    <3>2. L1 = SubSeq(L, 1, Len(L1))
        BY <3>1, PrefixIs
    <3> QED BY <3>1, <3>2 DEF L, L1
  <2>15. Stable' = Stable
      BY <2>2, <2>5, <2>7, <2>8
  <2> QED BY <2>7, <2>12, <2>14, <2>15 DEF Durable!Lose
<1> QED BY <1>2, <1>3

LEMMA DamageImplements ==
    ASSUME IInv, Damage
    PROVE  Durable!Damage \/ UNCHANGED Abstract
<1> DEFINE x == manifest.cur.name
<1>1. manifest # None /\ manifest' = manifest
    BY DEF Damage
<1>2. PICK z : Blemished(z, snaps, segs, snaps', segs')
    BY DamageBlemishes
<1>3. x \in DOMAIN snaps /\ x \in DOMAIN segs
    BY <1>1, CurrentFacts DEF Filed
<1>4. /\ snaps'[x].state = snaps[x].state /\ (snaps[x].bad => snaps'[x].bad)
      /\ segs'[x].frames = segs[x].frames /\ segs'[x].synced = segs[x].synced
      /\ (segs[x].bad # 0 => segs'[x].bad # 0)
    BY <1>2, <1>3 DEF Blemished
<1>5. Log' = Log /\ Stable' = Stable /\ Floor' = Floor
    BY <1>1, <1>4 DEF Log, Stable, Floor, StateOf
<1>6. CurrentDamaged => CurrentDamaged'
    BY <1>1, <1>4 DEF CurrentDamaged
<1>7. CurrentDamaged \in BOOLEAN /\ CurrentDamaged' \in BOOLEAN
    BY DEF CurrentDamaged
<1>8. CASE CurrentDamaged' = TRUE
    BY <1>5, <1>8 DEF Durable!Damage
<1>9. CASE CurrentDamaged' = FALSE
    BY <1>5, <1>6, <1>7, <1>9 DEF Abstract
<1> QED BY <1>7, <1>8, <1>9

LEMMA WriteSnapshotImplements ==
    ASSUME IInv, NEW h \in Handle, WriteSnapshot(h)
    PROVE  UNCHANGED Abstract
<1> DEFINE y == PlanName(h)
           v == [state |-> handle[h].plan.state, bad |-> FALSE]
<1>1. handle[h].pc = "snap" /\ snaps' = Put(snaps, y, v) /\ segs' = segs /\ manifest' = manifest
    BY DEF WriteSnapshot
<1>2. Changed(snaps, y, v, snaps')
    BY <1>1, PutChanges
<1>3. manifest # None => y # manifest.cur.name
    BY <1>1, Publishing
<1> HIDE DEF y, v
<1>4. manifest # None => Same(manifest.cur.name, snaps, segs, snaps', segs)
    BY <1>2, <1>3, SnapshotElsewhere
<1> QED BY <1>1, <1>4, Invisible

LEMMA CreateEmptyImplements ==
    ASSUME IInv, NEW h \in Handle, CreateEmpty(h)
    PROVE  UNCHANGED Abstract
<1> DEFINE y == PlanName(h)
           v == EmptySegment
<1>1. handle[h].pc = "seg" /\ segs' = Put(segs, y, v) /\ snaps' = snaps /\ manifest' = manifest
    BY DEF CreateEmpty, EmptySegment
<1>2. Changed(segs, y, v, segs')
    BY <1>1, PutChanges
<1>3. manifest # None => y # manifest.cur.name
    BY <1>1, Publishing
<1> HIDE DEF y, v
<1>4. manifest # None => Same(manifest.cur.name, snaps, segs, snaps, segs')
    BY <1>2, <1>3, SegmentElsewhere
<1> QED BY <1>1, <1>4, Invisible

LEMMA RemoveOldImplements ==
    ASSUME IInv, NEW h \in Handle, RemoveOld(h)
    PROVE  UNCHANGED Abstract
<1> DEFINE old == handle[h].plan.old
           gone == (IF old = None THEN {} ELSE {old.name})
                      \ {manifest.cur.name, manifest.prev.name}
<1>1. snaps' = Without(snaps, gone) /\ segs' = Without(segs, gone) /\ manifest' = manifest
    BY DEF RemoveOld
<1>2. manifest.cur.name \notin gone
    OBVIOUS
<1> HIDE DEF gone
<1>3. Same(manifest.cur.name, snaps, segs, snaps', segs')
    BY <1>1, <1>2 DEF Same, Filed, Without
<1> QED BY <1>1, <1>3, Invisible

LEMMA NextImplements ==
    IInv /\ [Next]_vars => [Durable!Next]_Abstract
<1> SUFFICES ASSUME IInv, [Next]_vars PROVE Durable!Next \/ UNCHANGED Abstract
    OBVIOUS
<1>1. CASE PowerLoss
    BY <1>1, PowerLossImplements DEF Durable!Next
<1>2. CASE Damage
    BY <1>2, DamageImplements DEF Durable!Next
<1>3. ASSUME NEW h \in Handle, Step(h)
      PROVE  Durable!Next \/ UNCHANGED Abstract
  <2>1. CASE Acquire(h) \/ PlanInitial(h) \/ PlanRecovery(h) \/ Unreadable(h) \/ ReadOnly(h)
             \/ SegmentExists(h) \/ Fails(h)
    <3>1. UNCHANGED disk
        BY <2>1 DEF Acquire, PlanInitial, PlanRecovery, Unreadable, ReadOnly, SegmentExists,
                    Fails, disk
    <3> QED BY <3>1, QuietIsInvisible
  <2>2. CASE CatchUp(h)
      BY <2>2, CatchUpImplements DEF Durable!Next
  <2>3. CASE AppendFrame(h)
      BY <2>3, AppendFrameImplements DEF Durable!Next
  <2>4. CASE ShortWrite(h) \/ WriteSnapshot(h) \/ CreateEmpty(h) \/ RemoveOld(h)
      BY <2>4, ShortWriteImplements, WriteSnapshotImplements, CreateEmptyImplements,
         RemoveOldImplements
  <2>5. CASE SyncFrame(h)
      BY <2>5, SyncFrameImplements DEF Durable!Next
  <2>6. CASE PublishManifest(h)
      BY <2>6, PublishImplements DEF Durable!Next
  <2> QED BY <1>3, <2>1, <2>2, <2>3, <2>4, <2>5, <2>6 DEF Step
<1>4. ASSUME NEW h \in Handle, Crash(h)
      PROVE  UNCHANGED Abstract
  <2>1. UNCHANGED disk
      BY <1>4 DEF Crash
  <2> QED BY <2>1, QuietIsInvisible
<1>5. CASE UNCHANGED vars
  <2>1. UNCHANGED disk
      BY <1>5 DEF vars, disk
  <2> QED BY <2>1, QuietIsInvisible
<1> QED BY <1>1, <1>2, <1>3, <1>4, <1>5 DEF Next

\* The files of a session implement one append-only log: a synced event stays, only an
\* unsynced one is lost with the machine, rotation and repair are invisible, and damage takes
\* the log back to the last rotation and no further (session/log.rs, session/snapshot.rs).
THEOREM FilesImplementDurableLog == Spec => ImplementsDurableLog
<1>1. Init => Durable!Init
    BY DEF Init, Durable!Init, Log, Stable, Floor, CurrentDamaged
<1>2. Abstract = Durable!vars
    BY DEF Abstract, Durable!vars
<1>3. IInv /\ [Next]_vars => [Durable!Next]_(Durable!vars)
    BY NextImplements DEF Abstract, Durable!vars
<1> QED BY <1>1, <1>3, Invariant, PTL DEF Spec, ImplementsDurableLog, Durable!Spec
=============================================================================
