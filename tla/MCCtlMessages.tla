---------------------------- MODULE MCCtlMessages ----------------------------
(* Model checking CtlMessages: requests and handlers are interchangeable.  *)
EXTENDS CtlMessages, TLC

Symmetric == Permutations(Request) \cup Permutations(Handler)
==============================================================================
