-------------------------------- MODULE Retain --------------------------------
(***************************************************************************)
(* What Rust's retain and filter do to a list: keep the elements of a set, *)
(* in their order.  Written by counting rather than by recursion (it is    *)
(* SelectSeq with a membership test), so that it can be reasoned about.    *)
(***************************************************************************)
EXTENDS Integers, Sequences, FiniteSets

(* The places of s that hold an element of S.                              *)
Places(s, S) == {k \in 1..Len(s) : s[k] \in S}

Retain(s, S) ==
  LET at == Places(s, S)
  IN  [n \in 1..Cardinality(at) |->
         s[CHOOSE k \in at : Cardinality({j \in at : j <= k}) = n]]
==============================================================================
