-------------------------- MODULE CtlMessagesProofs --------------------------
(***************************************************************************)
(* The replay guard, for any number of requests, handlers and nonces: what *)
(* it promises although it forgets.  The argument: a request that was let  *)
(* in and is no longer remembered was dropped by a handler that read a     *)
(* clock at or past its expiry, and the node's clock has been there.       *)
(***************************************************************************)
EXTENDS CtlMessages, FiniteSetTheorems, TLAPS

(* What is in the guard was let in, and was timely at some clock reading.  *)
SeenOK ==
  \A r \in seen : /\ r \in admitted /\ sent[r] # None
                  /\ sent[r].exp <= peak + MaxSkew + MaxTtl

(* What was let in and is not in the guard any more has expired.           *)
ForgottenOK == \A r \in admitted \ seen : sent[r] # None /\ sent[r].exp <= peak

(* So has what was let in more than once.                                  *)
AgainOK == \A r \in again : sent[r] # None /\ sent[r].exp <= peak

(* A handler about to ask the guard found its request timely.              *)
HandOK ==
  \A h \in Handler : hand[h] # Idle =>
    /\ hand[h].req \in Request /\ sent[hand[h].req] # None
    /\ hand[h].at <= peak /\ Timely(sent[hand[h].req], hand[h].at)

(* A success in transit, and one a caller took, is of a request served.    *)
AnswersOK == \A a \in answers : a.out = "ok" => a.req \in served

GuardInv == SeenOK /\ ForgottenOK /\ AgainOK /\ HandOK
IInv == TypeOK /\ GuardInv /\ AnswersOK /\ OwnAnswer /\ Bounded

(* An answer given has the type of an answer.                              *)
LEMMA AnswerType ==
  ASSUME TypeOK, NEW r \in Request, NEW header \in BOOLEAN, NEW out \in {"ok", "refused"},
         Answer(r, header, out)
  PROVE  /\ answers' \subseteq [req : Request, out : {"ok", "refused"}]
         /\ \A a \in answers' : a \in answers \/ a = [req |-> r, out |-> out]
BY DEF TypeOK, Answer

(* The guard's part of an Admit step, with the handler's reading of the    *)
(* clock.                                                                  *)
LEMMA KeptFacts ==
  ASSUME TypeOK, Bounded, NEW now
  PROVE  /\ Kept(now) \subseteq seen /\ IsFiniteSet(seen) /\ IsFiniteSet(Kept(now))
         /\ Cardinality(seen) \in Nat /\ Cardinality(Kept(now)) \in Nat
         /\ Cardinality(Kept(now)) <= MaxNonces
         /\ \A r \in seen \ Kept(now) : ~(sent[r].exp > now)
<1>1. Kept(now) \subseteq seen
  BY DEF Kept, Live
<1>2. seen \in SUBSET Request /\ IsFiniteSet(Request)
  BY CtlAssumption DEF TypeOK
<1>3. IsFiniteSet(seen)
  BY <1>2, FS_Subset
<1>4. IsFiniteSet(Kept(now)) /\ Cardinality(Kept(now)) <= Cardinality(seen)
  BY <1>1, <1>3, FS_Subset
<1>5. Cardinality(seen) \in Nat /\ Cardinality(Kept(now)) \in Nat
  BY <1>3, <1>4, FS_CardinalityType
<1>6. \A r \in seen \ Kept(now) : ~(sent[r].exp > now)
  BY DEF Kept, Live
<1> QED
  BY <1>1, <1>3, <1>4, <1>5, <1>6, CtlAssumption DEF Bounded

LEMMA InitInv == Init => IInv
<1> SUFFICES ASSUME Init PROVE IInv
  OBVIOUS
<1>1. TypeOK
  BY CtlAssumption DEF Init, TypeOK, Idle
<1>2. GuardInv
  BY DEF Init, GuardInv, SeenOK, ForgottenOK, AgainOK, HandOK
<1>3. AnswersOK /\ OwnAnswer
  BY DEF Init, AnswersOK, OwnAnswer
<1>4. Bounded
  BY FS_EmptySet, CtlAssumption DEF Init, Bounded
<1> QED
  BY <1>1, <1>2, <1>3, <1>4 DEF IInv

-----------------------------------------------------------------------------
(* One lemma per action.                                                   *)

LEMMA SendInv ==
  ASSUME IInv, NEW r \in Request, NEW issued \in 0..MaxClock, NEW ttl \in Ttls,
         Send(r, issued, ttl)
  PROVE  IInv'
<1> USE CtlAssumption
<1>1. [issued |-> issued, exp |-> issued + ttl] \in Times
  BY DEF Times
<1>2. TypeOK'
  BY <1>1 DEF IInv, TypeOK, Send, node
<1>3. \A q \in Request : sent[q] # None => sent'[q] = sent[q]
  BY DEF IInv, TypeOK, Send
<1>4. SeenOK' /\ ForgottenOK' /\ AgainOK'
  BY <1>3 DEF IInv, TypeOK, GuardInv, Send, node, SeenOK, ForgottenOK, AgainOK
<1>5. HandOK'
  BY <1>3 DEF IInv, TypeOK, GuardInv, Send, node, HandOK, Timely
<1>6. (AnswersOK /\ OwnAnswer /\ Bounded)'
  BY DEF IInv, Send, node, AnswersOK, OwnAnswer, Bounded
<1> QED
  BY <1>2, <1>4, <1>5, <1>6 DEF IInv, GuardInv

LEMMA CallEndInv ==
  ASSUME IInv, TimeOut \/ \E a \in answers : Receive(a)
  PROVE  IInv'
<1>1. UNCHANGED <<clock, sent, node, left>>
  BY DEF TimeOut, Receive
<1>2. TypeOK' /\ OwnAnswer'
  <2>1. CASE TimeOut
    BY <2>1, <1>1 DEF IInv, TypeOK, OwnAnswer, TimeOut, node
  <2>2. ASSUME NEW a \in answers, Receive(a)
        PROVE  TypeOK' /\ OwnAnswer'
    BY <2>2, <1>1 DEF IInv, TypeOK, OwnAnswer, AnswersOK, Receive, Answers, node
  <2> QED
    BY <2>1, <2>2
<1>3. (GuardInv /\ AnswersOK /\ Bounded)'
  BY <1>1 DEF IInv, GuardInv, SeenOK, ForgottenOK, AgainOK, HandOK, Timely, AnswersOK, Bounded,
              node
<1> QED
  BY <1>2, <1>3 DEF IInv

LEMMA VerifyInv ==
  ASSUME IInv, NEW h \in Handler, NEW r \in Request, NEW header \in BOOLEAN,
         Verify(h, r, header)
  PROVE  IInv'
<1>1. /\ UNCHANGED <<clock, sent, trusted, seen, call, result, left, peak, admitted, again, misled, served>>
      /\ sent[r] # None
  BY DEF Verify
<1>2. CASE Timely(sent[r], clock) /\ trusted
  <2>1. /\ hand' = [hand EXCEPT ![h] = [req |-> r, at |-> clock, header |-> header]]
        /\ answers' = answers
    BY <1>2 DEF Verify
  <2>2. TypeOK'
    BY <1>1, <2>1 DEF IInv, TypeOK
  <2>3. HandOK'
    BY <1>1, <1>2, <2>1 DEF IInv, TypeOK, GuardInv, HandOK, Timely
  <2>4. (SeenOK /\ ForgottenOK /\ AgainOK /\ AnswersOK /\ OwnAnswer /\ Bounded)'
    BY <1>1, <2>1 DEF IInv, GuardInv, SeenOK, ForgottenOK, AgainOK, AnswersOK, OwnAnswer, Bounded
  <2> QED
    BY <2>2, <2>3, <2>4 DEF IInv, GuardInv
<1>3. CASE ~(Timely(sent[r], clock) /\ trusted)
  <2>1. hand' = hand /\ Answer(r, header, "refused")
    BY <1>3 DEF Verify
  <2>2. TypeOK /\ "refused" \in {"ok", "refused"}
    BY DEF IInv
  <2>3. /\ answers' \subseteq [req : Request, out : {"ok", "refused"}]
        /\ \A a \in answers' : a \in answers \/ a = [req |-> r, out |-> "refused"]
    BY <2>1, <2>2, AnswerType
  <2>4. TypeOK' /\ AnswersOK'
    BY <1>1, <2>1, <2>3 DEF IInv, TypeOK, AnswersOK
  <2>5. (GuardInv /\ OwnAnswer /\ Bounded)'
    BY <1>1, <2>1 DEF IInv, GuardInv, SeenOK, ForgottenOK, AgainOK, HandOK, Timely, OwnAnswer, Bounded
  <2> QED
    BY <2>4, <2>5 DEF IInv
<1> QED
  BY <1>2, <1>3

LEMMA AdmitInv ==
  ASSUME IInv, NEW h \in Handler, Admit(h)
  PROVE  IInv'
<1> DEFINE r == hand[h].req
           now == hand[h].at
           kept == Kept(now)
           new == r \notin seen /\ Room(kept)
           ok == new /\ hand[h].header
<1> USE CtlAssumption
<1>1. /\ UNCHANGED <<clock, sent, trusted, call, result, left, peak>>
      /\ hand' = [hand EXCEPT ![h] = Idle]
  BY DEF Admit
<1>2. /\ seen' = IF r \in seen THEN seen ELSE IF new THEN kept \cup {r} ELSE kept
      /\ admitted' = IF new THEN admitted \cup {r} ELSE admitted
      /\ again' = IF new THEN again \cup (admitted \cap {r}) ELSE again
      /\ misled' \subseteq IF new THEN misled \cup {r} ELSE misled
      /\ served' = IF ok THEN served \cup {r} ELSE served
  BY DEF Admit
<1>3. PICK out \in {"ok", "refused"} : (~ok => out = "refused") /\ Answer(r, hand[h].header, out)
  BY DEF Admit
<1>4. /\ r \in Request /\ sent[r] # None /\ sent[r] \in Times /\ now \in Nat /\ now <= peak
      /\ Timely(sent[r], now) /\ hand[h].header \in BOOLEAN /\ peak \in Nat
  BY DEF Admit, IInv, TypeOK, GuardInv, HandOK
<1>5. TypeOK /\ Bounded
  BY DEF IInv
<1>6. /\ kept \subseteq seen /\ IsFiniteSet(kept)
      /\ Cardinality(seen) \in Nat /\ Cardinality(kept) \in Nat /\ Cardinality(kept) <= MaxNonces
      /\ \A q \in seen \ kept : ~(sent[q].exp > now)
  BY <1>5, KeptFacts
<1>7. /\ answers' \subseteq [req : Request, out : {"ok", "refused"}]
      /\ \A a \in answers' : a \in answers \/ a = [req |-> r, out |-> out]
  BY <1>3, <1>4, <1>5, AnswerType
<1>8. TypeOK'
  <2>1. Idle \in [req : Request \cup {None}, at : Nat, header : BOOLEAN]
    BY DEF Idle
  <2>2. hand' \in [Handler -> [req : Request \cup {None}, at : Nat, header : BOOLEAN]]
    BY <1>1, <1>5, <2>1 DEF TypeOK
  <2>3. seen' \subseteq Request /\ admitted' \subseteq Request /\ again' \subseteq admitted'
        /\ misled' \subseteq admitted'
        /\ served' \subseteq Request
    BY <1>2, <1>4, <1>5, <1>6 DEF TypeOK
  <2> QED
    BY <1>1, <1>5, <1>7, <2>2, <2>3 DEF TypeOK
<1>9. SeenOK'
  <2>1. sent[r].exp <= peak + MaxSkew + MaxTtl
    BY <1>4 DEF Timely, Times
  <2>2. \A q \in seen' : (q = r /\ q \in admitted') \/ q \in seen
    BY <1>2, <1>6
  <2> QED
    BY <1>1, <1>2, <1>4, <2>1, <2>2 DEF IInv, GuardInv, SeenOK
<1>10. ForgottenOK'
  <2>1. ASSUME NEW q \in admitted' \ seen'
        PROVE  sent[q] # None /\ sent[q].exp <= peak
    <3>1. q # r \/ ~new
      BY <1>2, <2>1
    <3>2. q \in admitted
      BY <1>2, <2>1, <3>1
    <3>3. CASE q \notin seen
      BY <3>2, <3>3 DEF IInv, GuardInv, ForgottenOK
    <3>4. CASE q \in seen
      <4>1. sent[q] # None /\ sent[q] \in Times
        BY <3>4 DEF IInv, TypeOK, GuardInv, SeenOK
      <4>2. q \in seen \ kept
        BY <1>2, <2>1, <3>4
      <4> QED
        BY <1>4, <1>6, <4>1, <4>2 DEF Times
    <3> QED
      BY <3>3, <3>4
  <2> QED
    BY <1>1, <2>1 DEF ForgottenOK
<1>11. AgainOK'
  BY <1>1, <1>2 DEF IInv, GuardInv, AgainOK, ForgottenOK
<1>12. HandOK'
  BY <1>1 DEF IInv, TypeOK, GuardInv, HandOK, Timely
<1>13. AnswersOK' /\ OwnAnswer'
  BY <1>1, <1>2, <1>3, <1>7 DEF IInv, AnswersOK, OwnAnswer
<1>14. Bounded'
  <2>1. CASE seen' = kept \cup {r} /\ Room(kept)
    <3> HIDE DEF kept, r
    <3>1. Cardinality(kept \cup {r}) = IF r \in kept THEN Cardinality(kept) ELSE Cardinality(kept) + 1
      BY <1>6, FS_AddElement
    <3>2. Cardinality(seen') <= MaxNonces
      BY <1>6, <2>1, <3>1 DEF Room
    <3> QED
      BY <3>2 DEF Bounded
  <2>2. CASE seen' = kept
    BY <1>6, <2>2 DEF Bounded
  <2>3. CASE seen' = seen
    BY <1>5, <2>3 DEF Bounded
  <2> QED
    BY <1>2, <2>1, <2>2, <2>3
<1> QED
  BY <1>8, <1>9, <1>10, <1>11, <1>12, <1>13, <1>14 DEF IInv, GuardInv

(* The clock, the policy and a restart.                                    *)
LEMMA NodeInv ==
  ASSUME IInv, SetPolicy \/ Tick \/ \E now \in 0..MaxClock : SetBack(now)
  PROVE  IInv'
<1> USE CtlAssumption
<1>1. /\ UNCHANGED <<sent, seen, hand, answers, call, result, admitted, again, misled, served>>
      /\ peak' \in Nat /\ peak <= peak' /\ clock' \in Nat /\ clock' <= peak'
      /\ peak \in Nat
  BY DEF IInv, TypeOK, SetPolicy, Tick, SetBack, node
<1>2. TypeOK'
  <2>1. trusted' \in BOOLEAN
    BY DEF IInv, TypeOK, SetPolicy, Tick, SetBack, node
  <2>2. left' \in [{"back", "policy", "restart"} -> Nat]
    BY DEF IInv, TypeOK, SetPolicy, Tick, SetBack, Spend
  <2> QED
    BY <1>1, <2>1, <2>2 DEF IInv, TypeOK
<1>3. \A r \in Request : sent[r] # None => sent[r].exp \in Int
  BY DEF IInv, TypeOK, Times
<1>4. SeenOK' /\ ForgottenOK' /\ AgainOK'
  BY <1>1, <1>3 DEF IInv, TypeOK, GuardInv, SeenOK, ForgottenOK, AgainOK
<1>5. HandOK'
  BY <1>1 DEF IInv, TypeOK, GuardInv, HandOK, Timely
<1>6. (AnswersOK /\ OwnAnswer /\ Bounded)'
  BY <1>1 DEF IInv, AnswersOK, OwnAnswer, Bounded
<1> QED
  BY <1>2, <1>4, <1>5, <1>6 DEF IInv, GuardInv

LEMMA RestartInv ==
  ASSUME IInv, Restart
  PROVE  IInv'
<1> USE CtlAssumption
<1>1. Idle \in [req : Request \cup {None}, at : Nat, header : BOOLEAN]
  BY DEF Idle
<1>2. TypeOK'
  BY <1>1 DEF IInv, TypeOK, Restart, Spend
<1>3. GuardInv'
  BY DEF Restart, GuardInv, SeenOK, ForgottenOK, AgainOK, HandOK
<1>4. (AnswersOK /\ OwnAnswer)'
  BY DEF IInv, Restart, AnswersOK, OwnAnswer
<1>5. Bounded'
  BY FS_EmptySet DEF Restart, Bounded
<1> QED
  BY <1>2, <1>3, <1>4, <1>5 DEF IInv

LEMMA StutterInv ==
  ASSUME IInv, UNCHANGED vars
  PROVE  IInv'
BY DEF IInv, TypeOK, GuardInv, SeenOK, ForgottenOK, AgainOK, HandOK, Timely, AnswersOK, OwnAnswer,
       Bounded, vars

LEMMA StepInv == IInv /\ [Next]_vars => IInv'
<1> SUFFICES ASSUME IInv, [Next]_vars PROVE IInv'
  OBVIOUS
<1>1. ASSUME NEW r \in Request, NEW issued \in 0..MaxClock, NEW ttl \in Ttls, Send(r, issued, ttl)
      PROVE  IInv'
  BY <1>1, SendInv
<1>2. CASE TimeOut \/ \E a \in answers : Receive(a)
  BY <1>2, CallEndInv
<1>3. ASSUME NEW h \in Handler, NEW r \in Request, NEW header \in BOOLEAN, Verify(h, r, header)
      PROVE  IInv'
  BY <1>3, VerifyInv
<1>4. ASSUME NEW h \in Handler, Admit(h)
      PROVE  IInv'
  BY <1>4, AdmitInv
<1>5. CASE SetPolicy \/ Tick \/ \E now \in 0..MaxClock : SetBack(now)
  BY <1>5, NodeInv
<1>6. CASE Restart
  BY <1>6, RestartInv
<1>7. CASE UNCHANGED vars
  BY <1>7, StutterInv
<1> QED
  BY <1>1, <1>2, <1>3, <1>4, <1>5, <1>6, <1>7 DEF Next

LEMMA IInvHolds == Spec => []IInv
BY InitInv, StepInv, PTL DEF Spec

(* NonceGuard::admit with verify_request: until the node's clock has       *)
(* reached its expiry, a request is let in at most once since the node     *)
(* started, for any number of requests, handlers and nonces.               *)
THEOREM ServedOnceHolds == Spec => []ServedOnce
<1>1. IInv => ServedOnce
  BY DEF IInv, GuardInv, AgainOK, ServedOnce
<1> QED
  BY <1>1, IInvHolds, PTL

(* NonceGuard::admit: the guard stays within MAX_NONCES.                   *)
THEOREM GuardBounded == Spec => []Bounded
<1>1. IInv => Bounded
  BY DEF IInv
<1> QED
  BY <1>1, IInvHolds, PTL

(* Every nonce in the guard expires within MAX_SKEW_MS + MAX_TTL_MS of the *)
(* node's clock: a full guard refuses for a bounded time.                  *)
THEOREM GuardFreesHolds == Spec => []GuardFrees
<1>1. IInv => GuardFrees
  BY DEF IInv, GuardInv, SeenOK, GuardFrees
<1> QED
  BY <1>1, IInvHolds, PTL

(* verify_response: what a caller takes for its request's success is that  *)
(* request's, although any earlier answer may arrive instead.              *)
THEOREM OwnAnswerHolds == Spec => []OwnAnswer
<1>1. IInv => OwnAnswer
  BY DEF IInv
<1> QED
  BY <1>1, IInvHolds, PTL

(* What was let in was served, or turned away for its envelope.            *)
Accounted == admitted \subseteq served \cup misled

LEMMA AllAccounted == Spec => []Accounted
<1>1. Init => Accounted
  BY DEF Init, Accounted
<1>2. Accounted /\ [Next]_vars => Accounted'
  <2> SUFFICES ASSUME Accounted, [Next]_vars PROVE Accounted'
    OBVIOUS
  <2>1. ASSUME NEW h \in Handler, Admit(h) PROVE Accounted'
    BY <2>1 DEF Admit, Accounted
  <2>2. CASE Restart
    BY <2>2 DEF Restart, Accounted
  <2>3. CASE UNCHANGED <<admitted, served, misled>>
    BY <2>3 DEF Accounted
  <2> QED
    BY <2>1, <2>2, <2>3 DEF Next, Send, Receive, TimeOut, Verify, SetPolicy, Tick, SetBack, node, vars
<1> QED
  BY <1>1, <1>2, PTL DEF Spec

(* verify_request and the envelope check after it: the guard turns away    *)
(* only what was served, what finds it full of other unexpired nonces, and *)
(* what a copy in another envelope has used up.                            *)
THEOREM RefusalIsDueHolds == Spec => RefusalIsDue
<1>1. ASSUME IInv, Accounted, [Next]_vars,
             NEW h \in Handler, hand[h] # Idle, hand'[h] = Idle, UNCHANGED left
      PROVE  \/ hand[h].req \in served \cup misled
             \/ hand[h].req \in admitted'
             \/ Cardinality({r \in seen \ {hand[h].req} : sent[r].exp > hand[h].at}) = MaxNonces
  <2>1. Admit(h)
    BY <1>1, CtlAssumption DEF IInv, TypeOK, GuardInv, HandOK, Next, Send, Receive, TimeOut,
       Verify, Admit, SetPolicy, Restart, Spend, Tick, SetBack, node, vars, Idle
  <2> DEFINE r == hand[h].req
             kept == Kept(hand[h].at)
  <2>2. CASE r \in seen
    BY <1>1, <2>2 DEF IInv, GuardInv, SeenOK, Accounted
  <2>3. CASE r \notin seen /\ Room(kept)
    BY <2>1, <2>3 DEF Admit
  <2>4. CASE r \notin seen /\ ~Room(kept)
    <3>1. Cardinality(kept) \in Nat /\ Cardinality(kept) <= MaxNonces /\ Cardinality(seen) \in Nat
      BY <1>1, KeptFacts DEF IInv
    <3>2. Cardinality(kept) = MaxNonces
      BY <2>4, <3>1, CtlAssumption DEF Room
    <3>3. kept = Live(hand[h].at)
      BY <3>1, <3>2, CtlAssumption DEF Kept
    <3>4. Live(hand[h].at) = {q \in seen \ {r} : sent[q].exp > hand[h].at}
      BY <2>4 DEF Live
    <3> QED
      BY <3>2, <3>3, <3>4
  <2> QED
    BY <2>2, <2>3, <2>4
<1>2. IInv /\ Accounted /\ [Next]_vars =>
        [\A h \in Handler :
           hand[h] # Idle /\ hand'[h] = Idle /\ UNCHANGED left =>
             \/ hand[h].req \in served \cup misled
             \/ hand[h].req \in admitted'
             \/ Cardinality({r \in seen \ {hand[h].req} : sent[r].exp > hand[h].at}) = MaxNonces]_vars
  BY <1>1
<1> QED
  BY <1>2, IInvHolds, AllAccounted, PTL DEF Spec, RefusalIsDue
==============================================================================
