----------------------------- MODULE DurableKV -----------------------------
(***************************************************************************)
(* What the write path promises to its callers, without WALs, memtables,   *)
(* SSTs or manifests.  The database is the sequence of the writes issued,  *)
(* of which a prefix is durable.  A crash loses the rest and nothing else, *)
(* and a write is acknowledged only when it is durable.                    *)
(***************************************************************************)
EXTENDS Naturals, Sequences

CONSTANT Keys

VARIABLES log,      \* the writes that are not lost, [key, num], oldest first
          durable,  \* how many of them are durable
          acked     \* the last acknowledged write of each key, 0: none

vars == <<log, durable, acked>>

(* The write of k that a reader of the first n writes sees, 0 if none. *)
View(writes, n, k) ==
  LET hits == {i \in 1..n : writes[i].key = k}
  IN  IF hits = {} THEN 0
      ELSE writes[CHOOSE i \in hits : \A j \in hits : j <= i].num

Init ==
  /\ log = <<>>
  /\ durable = 0
  /\ acked = [k \in Keys |-> 0]

(* A write, with a number that no write before it has. *)
Put ==
  /\ Len(log') = Len(log) + 1
  /\ log = SubSeq(log', 1, Len(log))
  /\ \A i \in 1..Len(log) : log[i].num < log'[Len(log')].num
  /\ UNCHANGED <<durable, acked>>

(* Some writes become durable, oldest first. *)
Persist ==
  /\ durable' \in durable + 1 .. Len(log)
  /\ UNCHANGED <<log, acked>>

(* Some durable writes are acknowledged. *)
Ack ==
  /\ \A k \in Keys : acked[k] <= acked'[k] /\ acked'[k] <= View(log, durable, k)
  /\ UNCHANGED <<log, durable>>

Crash ==
  /\ log' = SubSeq(log, 1, durable)
  /\ UNCHANGED <<durable, acked>>

Next == Put \/ Persist \/ Ack \/ Crash

Spec == Init /\ [][Next]_vars

=============================================================================
