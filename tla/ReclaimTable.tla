----------------------------- MODULE ReclaimTable -----------------------------
(***************************************************************************)
(* The Hub's dedup gate, crates/fleet-hub/src/reclaim.rs: one mark, the    *)
(* epoch and the highest seq admitted in it, per durable id.  A delta is   *)
(* admitted exactly when its stamp is after the mark.                      *)
(***************************************************************************)
EXTENDS Integers

CONSTANTS
  NativeIds,  \* durable ids: the native agent ids runs are anchored on
  NoMark      \* stands for a missing mark

Stamp == [epoch : Nat, seq : Nat]

ASSUME NoMarkIsNew == NoMark \notin Stamp

Marks == [NativeIds -> Stamp \cup {NoMark}]

NoMarks == [n \in NativeIds |-> NoMark]

\* Later in a run's series: a higher epoch, or a higher seq of the same epoch.
After(a, b) == a.epoch > b.epoch \/ (a.epoch = b.epoch /\ a.seq > b.seq)

\* A faulty gate that compares seqs across epochs.
ClassifyIgnoresEpoch(marks, id, stamp) ==
  IF marks[id] = NoMark THEN "ApplyFresh"
  ELSE IF stamp.seq > marks[id].seq THEN "Apply" ELSE "DuplicateDrop"

classify(marks, id, stamp) ==
  IF marks[id] = NoMark THEN "ApplyFresh"
  ELSE IF stamp.epoch > marks[id].epoch THEN "ApplyFresh"
  ELSE IF stamp.epoch < marks[id].epoch THEN "StaleEpochDrop"
  ELSE IF stamp.seq > marks[id].seq THEN "Apply" ELSE "DuplicateDrop"

applies(decision) == decision \in {"ApplyFresh", "Apply"}

\* A commit never lowers a mark, whatever it is called with.
commit(marks, id, stamp) ==
  IF marks[id] = NoMark \/ After(stamp, marks[id])
  THEN [marks EXCEPT ![id] = stamp]
  ELSE marks

\* Classify and, if the delta is to be applied, record it: admit's new table.
admit(marks, id, stamp) ==
  IF applies(classify(marks, id, stamp)) THEN commit(marks, id, stamp) ELSE marks

drop_ids(marks, ids) == [n \in NativeIds |-> IF n \in ids THEN NoMark ELSE marks[n]]
=============================================================================
