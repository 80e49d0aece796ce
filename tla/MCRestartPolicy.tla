--------------------------- MODULE MCRestartPolicy ---------------------------
(* Model checking RestartPolicy: three restarts per window of six, backoff *)
(* one, doubled once and then capped.                                      *)
EXTENDS RestartPolicy, SequencesExt

MCPolicy == [max |-> 3, window |-> 6, base |-> 1, cap |-> 2]

(* Retain against the library's filter.                                    *)
ASSUME RetainIsSelectSeq ==
  \A s \in BoundedSeq(0..2, 4), S \in SUBSET (0..2) :
    Retain(s, S) = SelectSeq(s, LAMBDA x : x \in S)
==============================================================================
