---------------------------- MODULE DecodeBalancer ----------------------------
(***************************************************************************)
(* The decode balancer (internal/coordinator/balancer.go) and the two ways *)
(* a chat request reaches it (pickDecode in serve.go): pick, which chooses *)
(* an engine, waits for room in its KV budget and claims it, and the       *)
(* handoff route, which claims the engine the KV state was restored into.  *)
(*                                                                         *)
(* A request's pick is several critical sections with nothing held in      *)
(* between: the choice of the engine (b.mu), each look at its load (n.mu)  *)
(* and occupancy (n.heldMu), and the claim (n.mu).  Each is a step here;   *)
(* only the sticky entry a move or a handoff leaves (b.mu again) is one    *)
(* step with the look or the claim it follows.                             *)
(* What an engine's slots report is any reading in Readings: the one-      *)
(* second cache and a failed probe only decide which reading is used.      *)
(***************************************************************************)
EXTENDS Naturals, Sequences, FiniteSets, FiniteSetsExt, SequencesExt

CONSTANTS
  N,          \* number of decode engines, in configuration order 1..N
  Requests,   \* the requests; one that is over may be used again
  Keys,       \* conversation keys (sessionKey)
  Sizes,      \* what a request may claim: prompt + reply tokens
  Readings,   \* what heldTokens may return
  Default,    \* usable tokens (0.97 of the context) before /props is read
  Probed,     \* usable tokens of each engine once /props has answered
  Calls,      \* what may be asked: by pick or after a handoff, for which
              \*   conversation, with which claim
  StickyCap,  \* conversations that keep an engine assignment
  RRPeriod    \* a common multiple of 1..N: the round-robin cursor modulo it

ASSUME BalancerAssumption ==
  /\ N \in Nat \ {0}
  /\ IsFiniteSet(Requests) /\ Keys # {}
  /\ Sizes \subseteq Nat /\ Readings \subseteq Nat
  /\ Default \in Nat /\ Probed \in [1..N -> Nat]
  /\ Calls \subseteq [route : {"pick", "handoff"}, key : Keys, tok : Sizes]
  /\ StickyCap \in Nat \ {0}
  /\ RRPeriod \in Nat \ {0}

Nodes == 1..N

VARIABLES
  usable,     \* per engine: budget * budgetUse
  excluded,   \* the engines fenced by a training transaction
  inflight,   \* per engine: requests claimed and not released
  tokens,     \* per engine: the tokens they claimed
  sticky,     \* conversation -> engine, 0 when it has none
  order,      \* the conversations of sticky, least recently used first
  rr,         \* round-robin cursor
  pc,         \* where each request is
  req,        \* per request: its conversation, its size, the engine chosen
  shut,       \* history: engines fenced without a break since a request came
  since       \* history: per conversation, those the balancer was asked about since
              \*   it was itself; it is among them until the balancer first is

vars == <<usable, excluded, inflight, tokens, sticky, order, rr, pc, req, shut, since>>

Places == {"idle", "arrived", "choose", "loop", "final", "claim", "hclaim", "served"}

Request == [key : Keys, tok : Sizes \cup {0}, node : Nodes \cup {0}]

\* What is kept of a request that is over: nothing.
NoRequest == [key |-> CHOOSE k \in Keys : TRUE, tok |-> 0, node |-> 0]

Init ==
  /\ usable = [n \in Nodes |-> Default]
  /\ excluded = {}
  /\ inflight = [n \in Nodes |-> 0]
  /\ tokens = [n \in Nodes |-> 0]
  /\ sticky = [k \in Keys |-> 0]
  /\ order = <<>>
  /\ rr = 0
  /\ pc = [r \in Requests |-> "idle"]
  /\ req = [r \in Requests |-> NoRequest]
  /\ shut = [r \in Requests |-> {}]
  /\ since = [k \in Keys |-> {k}]

-----------------------------------------------------------------------------
(* The sticky map and its LRU order.                                       *)

\* touchLocked: the key moves to the young end of the order.
Touch(s, k) == Append(RemoveFirst(s, k), k)

\* A conversation is looked up or assigned.
Use(k) == since' = [m \in Keys |-> IF m = k THEN {} ELSE since[m] \cup {k}]

\* setLocked: a new conversation at the cap evicts the oldest one.
Set(k, n) ==
  /\ Use(k)
  /\ IF sticky[k] = 0 /\ Len(order) >= StickyCap
       THEN /\ sticky' = [sticky EXCEPT ![Head(order)] = 0, ![k] = n]
            /\ order' = Touch(Tail(order), k)
       ELSE /\ sticky' = [sticky EXCEPT ![k] = n]
            /\ order' = Touch(order, k)

-----------------------------------------------------------------------------
(* Choosing an engine.                                                     *)

Available == Nodes \ excluded

\* n has no more tokens, then no more requests, than m; a tie keeps the order.
LessLoaded(n, m) ==
  \/ tokens[n] < tokens[m]
  \/ tokens[n] = tokens[m] /\ inflight[n] < inflight[m]
  \/ tokens[n] = tokens[m] /\ inflight[n] = inflight[m] /\ n <= m

Best == CHOOSE n \in Available : \A m \in Available : LessLoaded(n, m)

\* The i-th available engine in configuration order, counting from 0.
AvailableAt(i) ==
  CHOOSE n \in Available : Cardinality({m \in Available : m < n}) = i

AllIdle ==
  /\ tokens[Best] = 0 /\ inflight[Best] = 0
  /\ Cardinality(Available) > 1

\* chooseNode that trusts the sticky entry even if its engine is fenced.
ChooseNodeStickyFirst(k, n) ==
  IF sticky[k] # 0
    THEN /\ n = sticky[k]
         /\ order' = Touch(order, k)
         /\ Use(k)
         /\ UNCHANGED <<sticky, rr>>
    ELSE /\ Available # {}
         /\ n = Best
         /\ Set(k, n)
         /\ UNCHANGED rr

\* chooseNode that does not renew the assignment it finds.
ChooseNodeUntouched(k, n) ==
  IF sticky[k] \in Available
    THEN /\ n = sticky[k]
         /\ Use(k)
         /\ UNCHANGED <<sticky, order, rr>>
    ELSE /\ Available # {}
         /\ n = Best
         /\ Set(k, n)
         /\ UNCHANGED rr

\* chooseNode, given that some engine is available: the conversation's own
\* engine unless it is fenced, else the least loaded one, and in turns when
\* nothing is in flight anywhere.
ChooseNode(k, n) ==
  IF sticky[k] \in Available
    THEN /\ n = sticky[k]
         /\ order' = Touch(order, k)
         /\ Use(k)
         /\ UNCHANGED <<sticky, rr>>
    ELSE /\ Available # {}
         /\ n = IF AllIdle THEN AvailableAt(rr % Cardinality(Available)) ELSE Best
         /\ rr' = IF AllIdle THEN (rr + 1) % RRPeriod ELSE rr
         /\ Set(k, n)

\* fits: what is claimed here and what the engine's slots report are not
\* added up, the larger one counts.
Fits(n, tok, held) ==
  LET used == IF held > tokens[n] THEN held ELSE tokens[n]
  IN  used + tok <= usable[n]

\* No engine that is not fenced could take tok even when empty; one whose budget
\* is unknown might.
TooBig(tok) ==
  /\ tok > 0
  /\ Available # {}
  /\ \A n \in Available : usable[n] > 0 /\ tok > usable[n]

-----------------------------------------------------------------------------
(* The steps of a request.                                                 *)

\* The request is refused, or its reply is over.
Leave(r) ==
  /\ pc' = [pc EXCEPT ![r] = "idle"]
  /\ req' = [req EXCEPT ![r] = NoRequest]
  /\ shut' = [shut EXCEPT ![r] = {}]

GoTo(r, place) ==
  /\ pc' = [pc EXCEPT ![r] = place]
  /\ UNCHANGED <<req, shut>>

\* pickDecode is called for a request that has not been handed off.
Arrive(r, k, t) ==
  /\ [route |-> "pick", key |-> k, tok |-> t] \in Calls
  /\ pc[r] = "idle"
  /\ req' = [req EXCEPT ![r] = [key |-> k, tok |-> t, node |-> 0]]
  /\ pc' = [pc EXCEPT ![r] = "arrived"]
  /\ shut' = [shut EXCEPT ![r] = excluded]
  /\ UNCHANGED <<usable, excluded, inflight, tokens, sticky, order, rr, since>>

\* pick: a request no engine can take is refused at once.
CheckSize(r) ==
  /\ pc[r] = "arrived"
  /\ IF TooBig(req[r].tok) THEN Leave(r) ELSE GoTo(r, "choose")
  /\ UNCHANGED <<usable, excluded, inflight, tokens, sticky, order, rr, since>>

\* Choose without the check for "no engine": it goes on with none.
ChooseNilUnchecked(r) ==
  /\ pc[r] = "choose"
  /\ \/ /\ Available = {}
        /\ GoTo(r, "loop")
        /\ UNCHANGED <<sticky, order, rr, since>>
     \/ \E n \in Nodes :
          /\ ChooseNode(req[r].key, n)
          /\ req' = [req EXCEPT ![r].node = n]
          /\ pc' = [pc EXCEPT ![r] = "loop"]
          /\ UNCHANGED shut
  /\ UNCHANGED <<usable, excluded, inflight, tokens>>

\* pick: the engine is chosen, or the request refused when all are fenced.
Choose(r) ==
  /\ pc[r] = "choose"
  /\ \/ /\ Available = {}
        /\ Leave(r)
        /\ UNCHANGED <<sticky, order, rr, since>>
     \/ \E n \in Nodes :
          /\ ChooseNode(req[r].key, n)
          /\ req' = [req EXCEPT ![r].node = n]
          /\ pc' = [pc EXCEPT ![r] = "loop"]
          /\ UNCHANGED shut
  /\ UNCHANGED <<usable, excluded, inflight, tokens>>

\* pick's loop: the engine has room.
LoopFits(r, held) ==
  /\ pc[r] = "loop"
  /\ Fits(req[r].node, req[r].tok, held[req[r].node])
  /\ GoTo(r, "final")
  /\ UNCHANGED <<usable, excluded, inflight, tokens, sticky, order, rr, since>>

\* freeNode returns n: the first engine, not fenced, with room for tok.
FreeNode(n, tok, held) ==
  /\ n \in Available
  /\ Fits(n, tok, held[n])
  /\ \A m \in Available : m < n => ~Fits(m, tok, held[m])

\* pick's loop: no room here but in another engine, where the conversation
\* moves for good.
LoopMove(r, held) ==
  /\ pc[r] = "loop"
  /\ ~Fits(req[r].node, req[r].tok, held[req[r].node])
  /\ \E n \in Nodes \ {req[r].node} :
       /\ FreeNode(n, req[r].tok, held)
       /\ Set(req[r].key, n)
       /\ req' = [req EXCEPT ![r].node = n]
  /\ pc' = [pc EXCEPT ![r] = "final"]
  /\ UNCHANGED <<usable, excluded, inflight, tokens, rr, shut>>

\* GiveUp when the loop has no deadline.
NeverGivesUp(r, held) == FALSE

\* pick's loop: no room and waitBudget is over.
GiveUp(r, held) ==
  /\ pc[r] = "loop"
  /\ ~Fits(req[r].node, req[r].tok, held[req[r].node])
  /\ GoTo(r, "final")
  /\ UNCHANGED <<usable, excluded, inflight, tokens, sticky, order, rr, since>>

\* pick after the loop: one last look at the room, and a refusal if none.
FinalCheck(r, held) ==
  /\ pc[r] = "final"
  /\ IF Fits(req[r].node, req[r].tok, held[req[r].node])
       THEN GoTo(r, "claim")
       ELSE Leave(r)
  /\ UNCHANGED <<usable, excluded, inflight, tokens, sticky, order, rr, since>>

\* decodeNode.claim
ClaimNode(n, tok) ==
  /\ inflight' = [inflight EXCEPT ![n] = @ + 1]
  /\ tokens' = [tokens EXCEPT ![n] = @ + tok]

\* pick: the engine is claimed; the request goes out to it.
Claim(r) ==
  /\ pc[r] = "claim"
  /\ ClaimNode(req[r].node, req[r].tok)
  /\ GoTo(r, "served")
  /\ UNCHANGED <<usable, excluded, sticky, order, rr, since>>

\* pickDecode for a request whose state was restored into engine n: refused
\* (nothing happens) when n is fenced, and never measured against the budget.
HandoffPick(r, k, t, n) ==
  /\ [route |-> "handoff", key |-> k, tok |-> t] \in Calls
  /\ pc[r] = "idle"
  /\ n \notin excluded
  /\ req' = [req EXCEPT ![r] = [key |-> k, tok |-> t, node |-> n]]
  /\ pc' = [pc EXCEPT ![r] = "hclaim"]
  /\ shut' = [shut EXCEPT ![r] = excluded]
  /\ UNCHANGED <<usable, excluded, inflight, tokens, sticky, order, rr, since>>

\* pickDecode, handoff: the claim, and the conversation stays with n.
HandoffClaim(r) ==
  /\ pc[r] = "hclaim"
  /\ ClaimNode(req[r].node, req[r].tok)
  /\ Set(req[r].key, req[r].node)
  /\ GoTo(r, "served")
  /\ UNCHANGED <<usable, excluded, rr>>

\* decodeNode.release that gives back one request and no tokens.
ReleaseInflightOnly(n, tok) ==
  /\ inflight' = [inflight EXCEPT ![n] = IF @ - 1 < 0 THEN 0 ELSE @ - 1]
  /\ UNCHANGED tokens

\* decodeNode.release, clamped at zero.
ReleaseNode(n, tok) ==
  /\ inflight' = [inflight EXCEPT ![n] = IF @ < 1 THEN 0 ELSE @ - 1]
  /\ tokens' = [tokens EXCEPT ![n] = IF @ < tok THEN 0 ELSE @ - tok]

\* The reply is done, or failed: the release function of the pick runs.
Release(r) ==
  /\ pc[r] = "served"
  /\ ReleaseNode(req[r].node, req[r].tok)
  /\ Leave(r)
  /\ UNCHANGED <<usable, excluded, sticky, order, rr, since>>

-----------------------------------------------------------------------------
(* What else touches the balancer.                                         *)

\* stickyNode: the KV handoff asks where a conversation lives, or will live.
StickyNode(k) ==
  /\ \E n \in Nodes : ChooseNode(k, n)
  /\ UNCHANGED <<usable, excluded, inflight, tokens, pc, req, shut>>

\* setExcluded: a training transaction fences an engine, or lets it back.
SetExcluded(n, on) ==
  /\ excluded' = IF on THEN excluded \cup {n} ELSE excluded \ {n}
  /\ shut' = IF on THEN shut ELSE [r \in Requests |-> shut[r] \ {n}]
  /\ UNCHANGED <<usable, inflight, tokens, sticky, order, rr, pc, req, since>>

\* probeBudgets reads one engine's context size, while requests are served.
ProbeBudget(n) ==
  /\ usable' = [usable EXCEPT ![n] = Probed[n]]
  /\ UNCHANGED <<excluded, inflight, tokens, sticky, order, rr, pc, req, shut, since>>

Pick(r) ==
  \/ CheckSize(r)
  \/ Choose(r)
  \/ \E held \in [Nodes -> Readings] :
       LoopFits(r, held) \/ LoopMove(r, held) \/ GiveUp(r, held) \/ FinalCheck(r, held)
  \/ Claim(r)
  \/ HandoffClaim(r)

Next ==
  \/ \E r \in Requests :
       \/ \E k \in Keys, t \in Sizes : Arrive(r, k, t)
       \/ \E k \in Keys, t \in Sizes, n \in Nodes : HandoffPick(r, k, t, n)
       \/ Pick(r)
       \/ Release(r)
  \/ \E k \in Keys : StickyNode(k)
  \/ \E n \in Nodes : SetExcluded(n, TRUE) \/ SetExcluded(n, FALSE) \/ ProbeBudget(n)

Spec == Init /\ [][Next]_vars

\* The goroutine inside pick is scheduled and its deadline comes; nothing is
\* assumed of the engines, the other requests or the fences.
FairSpec == Spec /\ \A r \in Requests : WF_vars(Pick(r))

-----------------------------------------------------------------------------

Served(n) == {r \in Requests : pc[r] = "served" /\ req[r].node = n}

\* Every variable has its type, and a request past the choice has an engine.
TypeOK ==
  /\ usable \in [Nodes -> Nat]
  /\ excluded \subseteq Nodes
  /\ inflight \in [Nodes -> Nat]
  /\ tokens \in [Nodes -> Nat]
  /\ sticky \in [Keys -> Nodes \cup {0}]
  /\ order \in Seq(Keys)
  /\ rr \in 0..(RRPeriod - 1)
  /\ pc \in [Requests -> Places]
  /\ req \in [Requests -> Request]
  /\ shut \in [Requests -> SUBSET Nodes]
  /\ since \in [Keys -> SUBSET Keys]
  /\ \A r \in Requests :
       pc[r] \in {"loop", "final", "claim", "hclaim", "served"} => req[r].node \in Nodes

\* An engine's inflight is the number of requests it serves and its claimed tokens
\* the sum of what they claimed: no path of pick, pickDecode or release loses or
\* repeats one, and the clamps of release never hide a drift.
AccountsExact ==
  \A n \in Nodes :
    /\ inflight[n] = Cardinality(Served(n))
    /\ tokens[n] = MapThenSumSet(LAMBDA r : req[r].tok, Served(n))

\* A conversation keeps its engine exactly while fewer than stickyCap others were
\* looked up or assigned since it last was: an eviction drops the one that has
\* waited longest, and none else ever loses its warm engine.
StickyIsLRU ==
  \A k \in Keys :
    sticky[k] # 0 <=> k \notin since[k] /\ Cardinality(since[k]) < StickyCap

\* A request that came while an engine was fenced never lands on it while the
\* fence stands, by the sticky entry, the spread, the move or the handoff.
FencedBeforePickNeverServes ==
  \A r \in Requests :
    pc[r] \in {"loop", "final", "claim", "hclaim", "served"} => req[r].node \notin shut[r]

\* Contention turns into waiting, never into a hang: every pick ends in a
\* claim or a refusal, whatever the engines and the other requests do.
PickReturns ==
  \A r \in Requests : pc[r] = "arrived" ~> pc[r] \in {"served", "idle"}

=============================================================================
