----------------------------- MODULE QueueLemmas -----------------------------
(***************************************************************************)
(* Facts about the indices of a ring, and about sequences written as       *)
(* functions on 1..n, as the refinement mappings of ThreadPool and SemRing *)
(* write them.                                                             *)
(***************************************************************************)
EXTENDS Integers, Sequences, SequenceTheorems, TLAPS

\* The remainder modulo n of a number below 2n, as used by the ring's index computations.
LEMMA ModBelowTwice ==
  ASSUME NEW n \in Nat \ {0}, NEW j \in 0..(2 * n - 1)
  PROVE  j % n = IF j < n THEN j ELSE j - n
  OBVIOUS

\* A function on 1..n is a sequence of length n.
LEMMA FunctionIsSeq ==
  ASSUME NEW S, NEW n \in Nat, NEW f \in [1..n -> S]
  PROVE  f \in Seq(S) /\ Len(f) = n
  OBVIOUS

\* What Append yields, element by element.
LEMMA AppendIs ==
  ASSUME NEW S, NEW n \in Nat, NEW f \in [1..n -> S], NEW g \in [1..(n + 1) -> S],
         \A k \in 1..n : g[k] = f[k]
  PROVE  g = Append(f, g[n + 1])
<1>1. f \in Seq(S) /\ Len(f) = n /\ g \in Seq(S) /\ Len(g) = n + 1 /\ g[n + 1] \in S
  BY FunctionIsSeq
<1>2. /\ Append(f, g[n + 1]) \in Seq(S) /\ Len(Append(f, g[n + 1])) = n + 1
      /\ \A k \in 1..n : Append(f, g[n + 1])[k] = f[k]
      /\ Append(f, g[n + 1])[n + 1] = g[n + 1]
  BY <1>1, AppendProperties
<1>3. \A k \in 1..Len(g) : g[k] = Append(f, g[n + 1])[k]
  BY <1>1, <1>2
<1>. QED
  BY <1>1, <1>2, <1>3, SeqEqual

\* What Head and Tail yield, element by element.
LEMMA TailIs ==
  ASSUME NEW S, NEW n \in Nat \ {0}, NEW f \in [1..n -> S], NEW g \in [1..(n - 1) -> S],
         \A k \in 1..(n - 1) : g[k] = f[k + 1]
  PROVE  f # <<>> /\ Head(f) = f[1] /\ g = Tail(f)
<1>1. f \in Seq(S) /\ Len(f) = n /\ g \in Seq(S) /\ Len(g) = n - 1
  BY FunctionIsSeq
<1>2. f # <<>> /\ Head(f) = f[1]
  BY <1>1, EmptySeq
<1>3. /\ Tail(f) \in Seq(S) /\ Len(Tail(f)) = n - 1
      /\ \A k \in 1..(n - 1) : Tail(f)[k] = f[k + 1]
  BY <1>1, <1>2, HeadTailProperties
<1>. QED
  BY <1>1, <1>2, <1>3, SeqEqual

=============================================================================
