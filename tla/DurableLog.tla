----------------------------- MODULE DurableLog -----------------------------
(***************************************************************************)
(* What the session store promises its callers: one append-only log of     *)
(* events.  An event that was synced stays; one that was only written may  *)
(* disappear while its writer has not been told that it is committed.      *)
(* After damage to the files the log falls back to the last rotation, and  *)
(* never further.  SegmentLog implements it with snapshots and segments.   *)
(***************************************************************************)
EXTENDS Naturals, Sequences

CONSTANT Event

VARIABLES
    log,        \* the events of the session, oldest first
    stable,     \* how many of them are on the disk
    floor,      \* how many the last rotation put beyond the reach of damage
    damaged     \* the files written since the last rotation do not read back

vars == <<log, stable, floor, damaged>>

Entries == {log[i] : i \in 1..Len(log)}

TypeOK ==
    /\ log \in Seq(Event)
    /\ stable \in Nat /\ floor \in Nat
    /\ damaged \in BOOLEAN

Init == log = <<>> /\ stable = 0 /\ floor = 0 /\ damaged = FALSE

Write ==
    /\ \E e \in Event \ Entries : log' = Append(log, e)
    /\ UNCHANGED <<stable, floor, damaged>>

Sync == stable' = Len(log) /\ UNCHANGED <<log, floor, damaged>>

Lose ==
    /\ \E n \in stable..Len(log) : log' = SubSeq(log, 1, n)
    /\ UNCHANGED <<stable, floor, damaged>>

Rotate ==
    /\ stable = Len(log)
    /\ floor' = Len(log) /\ damaged' = FALSE
    /\ UNCHANGED <<log, stable>>

Damage == damaged' = TRUE /\ UNCHANGED <<log, stable, floor>>

FallBack ==
    /\ damaged
    /\ log' = SubSeq(log, 1, floor)
    /\ stable' = floor /\ damaged' = FALSE
    /\ UNCHANGED floor

Next == Write \/ Sync \/ Lose \/ Rotate \/ Damage \/ FallBack

Spec == Init /\ [][Next]_vars
=============================================================================
