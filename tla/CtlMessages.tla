----------------------------- MODULE CtlMessages -----------------------------
(***************************************************************************)
(* Signed control messages (crates/clawft-kernel/src/workload_ctl/msg.rs): *)
(* a controller's calls to one node, the node's handlers, and the replay   *)
(* guard they share.                                                       *)
(*                                                                         *)
(* The network delivers a request late, more than once, under another      *)
(* envelope method (the envelope is not signed), or never; it delivers any *)
(* answer the node ever gave.  A handler reads the clock, checks the       *)
(* request, and only then takes the guard's lock: other handlers and the   *)
(* clock move in between.  The clock is the wall clock: it can be set      *)
(* back.                                                                   *)
(*                                                                         *)
(* Abstractions.  A request is its nonce (nonces are random).  Signature,  *)
(* structure and addressee checks are of data the model does not have.     *)
(* Clocks count in units in which the limits are small.  A handler's       *)
(* answer is in transit once its outcome is known.  An answer under        *)
(* another method than the request's, which verify_response refuses, is    *)
(* the same to the caller as none.                                         *)
(***************************************************************************)
EXTENDS Integers, FiniteSets

CONSTANTS
  Request,     \* the requests a controller makes
  Handler,     \* the node's sessions
  MaxNonces,   \* MAX_NONCES
  MaxTtl,      \* MAX_TTL_MS
  MaxSkew,     \* MAX_SKEW_MS
  Ttls,        \* the lifetimes callers give
  MaxClock,    \* bound on the clocks
  MaxBack,     \* how often the node's clock is set back
  MaxPolicy,   \* how often the controller policy changes
  MaxRestarts, \* how often the node restarts
  None

ASSUME CtlAssumption ==
  /\ IsFiniteSet(Request) /\ None \notin Request
  /\ MaxNonces \in Nat \ {0} /\ MaxTtl \in Nat /\ MaxSkew \in Nat
  /\ Ttls \subseteq Int /\ MaxClock \in Nat
  /\ MaxBack \in Nat /\ MaxPolicy \in Nat /\ MaxRestarts \in Nat

VARIABLES
  clock,    \* the node's clock
  sent,     \* when each request was issued and expires, by its caller; or None
  trusted,  \* does the node's policy allow the caller's key
  seen,     \* NonceGuard.seen
  hand,     \* the handlers that are about to ask the guard
  answers,  \* the node's signed answers
  call,     \* the request the controller waits for, or None
  result,   \* what its last call came to
  left,     \* bounds: clock set back, policy changes, restarts
  \* history:
  peak,     \* the latest the clock has been since the node started
  admitted, \* requests let in since then
  again,    \* and those let in more than once
  misled,   \* and those let in, then refused for the envelope they came in
  served    \* requests ever served

vars == <<clock, sent, trusted, seen, hand, answers, call, result, left,
          peak, admitted, again, misled, served>>
node == <<trusted, seen, hand, answers, peak, admitted, again, misled, served>>

Times == [issued : Nat, exp : Int]
Idle == [req |-> None, at |-> 0, header |-> TRUE]

TypeOK ==
  /\ clock \in Nat /\ peak \in Nat /\ clock <= peak
  /\ sent \in [Request -> Times \cup {None}]
  /\ trusted \in BOOLEAN
  /\ seen \subseteq Request
  /\ hand \in [Handler -> [req : Request \cup {None}, at : Nat, header : BOOLEAN]]
  /\ answers \subseteq [req : Request, out : {"ok", "refused"}]
  /\ call \in Request \cup {None}
  /\ result \in [req : Request \cup {None}, out : {"ok", "refused", "lost"}]
  /\ left \in [{"back", "policy", "restart"} -> Nat]
  /\ admitted \subseteq Request /\ again \subseteq admitted /\ misled \subseteq admitted
  /\ served \subseteq Request

Init ==
  /\ clock = 0 /\ peak = 0
  /\ sent = [r \in Request |-> None] /\ trusted \in BOOLEAN
  /\ seen = {} /\ hand = [h \in Handler |-> Idle] /\ answers = {}
  /\ call = None /\ result = [req |-> None, out |-> "lost"]
  /\ left = [back |-> MaxBack, policy |-> MaxPolicy, restart |-> MaxRestarts]
  /\ admitted = {} /\ again = {} /\ misled = {} /\ served = {}

Spend(event) == left[event] > 0 /\ left' = [left EXCEPT ![event] = @ - 1]

-----------------------------------------------------------------------------
(* The controller.                                                         *)

(* CtlRequest::new, by the caller's own clock, and the request goes out.   *)
Send(r, issued, ttl) ==
  /\ call = None /\ sent[r] = None
  /\ sent' = [sent EXCEPT ![r] = [issued |-> issued, exp |-> issued + ttl]]
  /\ call' = r
  /\ UNCHANGED <<clock, node, result, left>>

(* Mutant of Answers: any answer of the node is taken.                     *)
AnswersAny(a, r) == TRUE

(* verify_response: the answer is to this request.                         *)
Answers(a, r) == a.req = r

(* round_trip's end: an answer, one to something else, or none in time.    *)
Receive(a) ==
  /\ call # None /\ a \in answers
  /\ result' = [req |-> call, out |-> IF Answers(a, call) THEN a.out ELSE "lost"]
  /\ call' = None
  /\ UNCHANGED <<clock, sent, node, left>>

TimeOut ==
  /\ call # None
  /\ result' = [req |-> call, out |-> "lost"]
  /\ call' = None
  /\ UNCHANGED <<clock, sent, node, left>>

-----------------------------------------------------------------------------
(* The node.                                                               *)

(* Mutant of Timely: a long lifetime is accepted.                          *)
TimelyAnyTtl(t, now) == t.exp > now /\ t.issued <= now + MaxSkew /\ t.exp >= t.issued

(* verify_request: the time window.                                        *)
Timely(t, now) ==
  /\ t.exp > now
  /\ t.issued <= now + MaxSkew
  /\ t.exp - t.issued <= MaxTtl /\ t.exp >= t.issued

(* The signed answer goes out, if the caller could take it.                *)
Answer(r, header, out) ==
  answers' = IF header THEN answers \cup {[req |-> r, out |-> out]} ELSE answers

(* Mutant of Verify: the nonce is recorded before the key is looked at.    *)
VerifyBurns(h, r, header) ==
  /\ hand[h] = Idle /\ sent[r] # None
  /\ IF Timely(sent[r], clock) /\ trusted
       THEN /\ hand' = [hand EXCEPT ![h] = [req |-> r, at |-> clock, header |-> header]]
            /\ UNCHANGED <<seen, answers>>
       ELSE /\ Answer(r, header, "refused") /\ UNCHANGED hand
            /\ seen' = IF Timely(sent[r], clock) /\ Cardinality(seen) < MaxNonces
                      THEN seen \cup {r} ELSE seen
  /\ UNCHANGED <<clock, sent, trusted, call, result, left, peak, admitted, again, misled, served>>

(* verify_request of a copy of r, up to the guard.                         *)
Verify(h, r, header) ==
  /\ hand[h] = Idle /\ sent[r] # None
  /\ IF Timely(sent[r], clock) /\ trusted
       THEN /\ hand' = [hand EXCEPT ![h] = [req |-> r, at |-> clock, header |-> header]]
            /\ UNCHANGED answers
       ELSE Answer(r, header, "refused") /\ UNCHANGED hand
  /\ UNCHANGED <<clock, sent, trusted, seen, call, result, left,
                 peak, admitted, again, misled, served>>

(* Mutant of Kept: a full guard starts anew.                               *)
KeptNone(now) == IF Cardinality(seen) >= MaxNonces THEN {} ELSE seen

(* A full guard drops the nonces whose requests have expired.              *)
Live(now) == {r \in seen : sent[r].exp > now}
Kept(now) == IF Cardinality(seen) >= MaxNonces THEN Live(now) ELSE seen

(* If it is still full it refuses.                                         *)
Room(kept) == Cardinality(kept) < MaxNonces

(* NonceGuard::admit, under its lock, then the envelope's method and, for  *)
(* a request that passes, its method's own outcome.                        *)
Admit(h) ==
  LET r == hand[h].req
      kept == Kept(hand[h].at)
      new == r \notin seen /\ Room(kept)
      ok == new /\ hand[h].header
  IN  /\ hand[h] # Idle
      /\ seen' = IF r \in seen THEN seen ELSE IF new THEN kept \cup {r} ELSE kept
      /\ admitted' = IF new THEN admitted \cup {r} ELSE admitted
      /\ again' = IF new THEN again \cup (admitted \cap {r}) ELSE again
      /\ misled' = IF new /\ ~ok THEN misled \cup {r} ELSE misled
      /\ served' = IF ok THEN served \cup {r} ELSE served
      /\ \E out \in {"ok", "refused"} :
           (~ok => out = "refused") /\ Answer(r, hand[h].header, out)
      /\ hand' = [hand EXCEPT ![h] = Idle]
      /\ UNCHANGED <<clock, sent, trusted, call, result, left, peak>>

(* The policy is read anew for every request.                              *)
SetPolicy ==
  /\ Spend("policy") /\ trusted' = ~trusted
  /\ UNCHANGED <<clock, sent, seen, hand, answers, call, result, peak, admitted, again, misled, served>>

(* The guard is in memory only.                                            *)
Restart ==
  /\ Spend("restart")
  /\ seen' = {} /\ hand' = [h \in Handler |-> Idle]
  /\ peak' = clock /\ admitted' = {} /\ again' = {} /\ misled' = {}
  /\ UNCHANGED <<clock, sent, trusted, answers, call, result, served>>

Tick ==
  /\ clock < MaxClock /\ clock' = clock + 1
  /\ peak' = IF clock' > peak THEN clock' ELSE peak
  /\ UNCHANGED <<sent, trusted, seen, hand, answers, call, result, left, admitted, again, misled, served>>

SetBack(now) ==
  /\ Spend("back") /\ now < clock /\ clock' = now
  /\ UNCHANGED <<sent, node, call, result>>

Next ==
  \/ \E r \in Request, issued \in 0..MaxClock, ttl \in Ttls : Send(r, issued, ttl)
  \/ \E a \in answers : Receive(a)
  \/ TimeOut
  \/ \E h \in Handler, r \in Request, header \in BOOLEAN : Verify(h, r, header)
  \/ \E h \in Handler : Admit(h)
  \/ SetPolicy \/ Restart \/ Tick
  \/ \E now \in 0..MaxClock : SetBack(now)

Spec == Init /\ [][Next]_vars

-----------------------------------------------------------------------------
(* msg.rs, NonceGuard: "nonces seen, kept until their request expires".    *)
(* Until the node's clock has reached a request's expiry, the request is   *)
(* let in at most once since the node started, whatever was purged for     *)
(* room, however handlers overlap and although the clock is set back.      *)
ServedOnce == \A r \in again : sent[r].exp <= peak

(* NonceGuard never holds more than MAX_NONCES nonces.                     *)
Bounded == Cardinality(seen) <= MaxNonces

(* A guard that refuses because it is full does not do so for good: every  *)
(* nonce in it expires within MAX_SKEW_MS + MAX_TTL_MS of the node's clock *)
(* (what the lifetime and skew checks of verify_request are for).          *)
GuardFrees == \A r \in seen : sent[r].exp <= peak + MaxSkew + MaxTtl

(* msg.rs: "a forged request cannot burn a legitimate nonce".  The guard   *)
(* turns away only a request that was served, or one that came while       *)
(* MAX_NONCES other unexpired nonces filled it, or one of which a copy     *)
(* came in another envelope: the envelope's method is compared after the   *)
(* nonce is recorded, so that copy used the nonce up and served nothing    *)
(* (msg.rs says the nonce is recorded "only after everything else passed"; *)
(* of the envelope that is not so).  A node that restarts drops its        *)
(* handlers and refuses nothing.                                           *)
RefusalIsDue ==
  [][\A h \in Handler :
       hand[h] # Idle /\ hand'[h] = Idle /\ UNCHANGED left =>
         \/ hand[h].req \in served \cup misled
         \/ hand[h].req \in admitted'
         \/ Cardinality({r \in seen \ {hand[h].req} : sent[r].exp > hand[h].at}) = MaxNonces]_vars

(* msg.rs: "a response cannot be replayed onto another request".  What a   *)
(* caller takes for its request's success is the success of that request.  *)
OwnAnswer == result.out = "ok" => result.req \in served
==============================================================================
