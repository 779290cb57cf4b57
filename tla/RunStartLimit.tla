---------------------------- MODULE RunStartLimit ----------------------------
(***************************************************************************)
(* The per-firewall limit on run starts (MonitorController._may_start_run). *)
(*                                                                         *)
(* The code keeps a deque of monotonic timestamps.  Only the age of a      *)
(* timestamp is ever compared, so the deque is the sequence of the ages of *)
(* the starts, oldest first, in ticks; an age stops growing one tick past  *)
(* the window, where it is already stale for good.                         *)
(***************************************************************************)
EXTENDS Naturals, Sequences, FiniteSets

CONSTANTS
  StartLimit,     (* RUN_START_LIMIT                                       *)
  StartWindow     (* RUN_START_WINDOW_SECONDS, in ticks                    *)

ASSUME LimitAssumption ==
  /\ StartLimit \in Nat \ {0}
  /\ StartWindow \in Nat

(* One tick later; `cap` is an age no comparison tells from an older one.  *)
Older(age, cap) == IF age < cap THEN age + 1 ELSE cap

StartAges == 0 .. (StartWindow + 1)

(* The popleft loop: drop the leading entries older than the window.       *)
Pruned(starts) ==
  LET stale == {i \in 1 .. Len(starts) :
                  \A j \in 1 .. i : starts[j] > StartWindow}
  IN  SubSeq(starts, Cardinality(stale) + 1, Len(starts))

(* Variant: the limit is one too high.                                     *)
MayStartOneMore(starts) == Len(Pruned(starts)) <= StartLimit

MayStartRun(starts) == Len(Pruned(starts)) < StartLimit

(* A tick passes for every recorded start.                                 *)
AgedStarts(starts) ==
  [i \in 1 .. Len(starts) |-> Older(starts[i], StartWindow + 1)]
=============================================================================
