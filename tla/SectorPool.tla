----------------------------- MODULE SectorPool -----------------------------
(***************************************************************************)
(* What the CD block's sector buffers are to the emulated program: every   *)
(* buffer is free, in one partition, or with the host until it ends its    *)
(* transfer.  A partition is a queue: sectors are added at its end, and    *)
(* those that are left keep their order.                                   *)
(***************************************************************************)
EXTENDS Integers, Sequences, SequencesExt

CONSTANTS Buffers, Partitions,
          Discarded   \* the destination of sectors nobody wants
VARIABLES queue,   \* of each partition, its buffers in order
          host     \* the buffers that belong to a transfer
vars == <<queue, host>>

Used == ToSet(host) \cup UNION {ToSet(queue[p]) : p \in Partitions}
Free == Buffers \ Used
Lists(n) == {s \in [1..n -> Buffers] : IsInjective(s)}

(* The partition p without n sectors from i on, and with s at its end.      *)
Without(p, i, n) == SubSeq(queue[p], 1, i - 1) \o SubSeq(queue[p], i + n, Len(queue[p]))
Span(p, i, n) == SubSeq(queue[p], i, i + n - 1)
Spans(p) == {r \in (1 .. Len(queue[p])) \X (1 .. Len(queue[p])) :
               r[1] + r[2] - 1 <= Len(queue[p])}

(* Sectors are given out one after the other: to each a partition, or none. *)
Destinations(n) == [1..n -> Partitions \cup {Discarded}]
Sent(q, s, to) ==
  LET at[i \in 0 .. Len(s)] ==
        IF i = 0 THEN q
        ELSE [p \in Partitions |-> IF p = to[i] THEN Append(at[i - 1][p], s[i])
                                   ELSE at[i - 1][p]]
  IN  at[Len(s)]

Init == queue = [p \in Partitions |-> <<>>] /\ host = <<>>

(* A sector from the drive, or copies of sectors in a partition.            *)
Arrive ==
  /\ UNCHANGED host
  /\ \E n \in 1 .. Cardinality(Free) : \E s \in Lists(n) :
       /\ ToSet(s) \subseteq Free
       /\ \E to \in Destinations(n) : queue' = Sent(queue, s, to)
Move ==
  /\ UNCHANGED host
  /\ \E p \in Partitions : \E r \in Spans(p) : \E to \in Destinations(r[2]) :
       queue' = Sent([queue EXCEPT ![p] = Without(p, r[1], r[2])],
                     Span(p, r[1], r[2]), to)
Delete ==
  /\ UNCHANGED host
  /\ \E p \in Partitions : \E r \in Spans(p) :
       queue' = [queue EXCEPT ![p] = Without(p, r[1], r[2])]
ClearAll == queue' = [p \in Partitions |-> <<>>] /\ host' \in {host, <<>>}

(* The host takes sectors out of a partition, or room for sectors of its    *)
(* own; at the end of the transfer they are free, or given out.             *)
Take ==
  /\ host = <<>>
  /\ \E p \in Partitions : \E r \in Spans(p) :
       /\ queue' = [queue EXCEPT ![p] = Without(p, r[1], r[2])]
       /\ host' = Span(p, r[1], r[2])
Reserve ==
  /\ host = <<>>
  /\ \E n \in 1 .. Cardinality(Free) : host' \in Lists(n)
  /\ ToSet(host') \subseteq Free
  /\ UNCHANGED queue
Finish ==
  /\ host # <<>> /\ host' = <<>>
  /\ \E to \in Destinations(Len(host)) : queue' = Sent(queue, host, to)

(* Steps that change nothing are those of any specification: leaving them   *)
(* out here saves looking for one among all lists.                          *)
Next == /\ vars' # vars
        /\ Delete \/ Take \/ ClearAll \/ Reserve \/ Finish \/ Arrive \/ Move
Spec == Init /\ [][Next]_vars
=============================================================================
