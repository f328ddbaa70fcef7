------------------------------ MODULE Admission ------------------------------
(***************************************************************************)
(* The gateway's admission (internal/gateway/gateway.go Prepare, Chat and  *)
(* Finish; admission.go; cachecost.go): each turn of a conversation is     *)
(* sent straight to the decode engine or through a prefill and a handoff,  *)
(* by how much of its prompt the engine is believed to hold already.       *)
(*                                                                         *)
(* The belief is four registries of bounded size, fed by what the engine   *)
(* answers.  The engine only tells how many tokens a slot holds, never     *)
(* whose: Slots here hold a prompt, and the gateway sees its size.         *)
(*                                                                         *)
(* A prompt is its conversation, the era of its history (a client that     *)
(* slides its window starts another one) and its length.  How the gate     *)
(* orders the turns of a conversation is ConvGate's subject: here one is   *)
(* let in when nobody is inside, or when its wait has reached the cap.     *)
(***************************************************************************)
EXTENDS Integers, Sequences, FiniteSets, FiniteSetsExt, SequencesExt

CONSTANTS
  Reqs,        \* requests in flight
  Convs,       \* conversations (ckey)
  Prefix,      \* conversation -> its system prompt and tools (pkey)
  PrefixToks,  \* tokens of a prefix
  Tails,       \* tail tokens a turn may have
  Slots,       \* slots of the decode engine
  RingSlot,    \* prefix -> the slot the ring seeds it with
  Threshold,   \* new tokens that open the prefill route
  ExactMin,    \* exact new tokens below which it is closed again
  Cap,         \* capacity of each registry
  Mode,        \* "always", "busy" or "auto"
  None,
  MaxTurns,    \* bound: requests that come
  MaxSlides,   \* bound: windows that slide
  MaxEvents    \* bound: slots the engine empties, calls that fail, waits that are capped

PKeys == {Prefix[c] : c \in Convs}
Keys == Convs \cup PKeys

ASSUME AdmissionAssumption ==
  /\ IsFiniteSet(Reqs) /\ None \notin Convs
  /\ IsFiniteSet(Slots) /\ Slots # {} /\ RingSlot \in [PKeys -> Slots]
  /\ PrefixToks \in Nat \ {0} /\ Tails \subseteq Nat /\ Tails # {}
  /\ Threshold \in Nat /\ ExactMin \in Nat /\ Cap \in Nat \ {0}
  /\ Mode \in {"always", "busy", "auto"}
  /\ MaxTurns \in Nat /\ MaxSlides \in Nat /\ MaxEvents \in Nat

VARIABLES
  held,      \* slot -> the prompts it may hold: none or one, with its length
  known,     \* KnownPrefixes: prefix -> tokens believed hot
  convSlot,  \* convSlots: conversation -> slot
  convLast,  \* convTurns: conversation -> shape and total of its last turn
  last,      \* lastPrompts: key -> the last prompt routed
  down,      \* the breaker is open
  req,       \* request -> where it is
  talk,      \* conversation -> the era and the tail of its next turn
  spoilt,    \* history: conversation -> the slots a turn of it was credited on in vain
  carried,   \* history: conversation -> those that another turn of it had read by then
  events, turns  \* bounded counts

vars == <<held, known, convSlot, convLast, last, down, req, talk, spoilt, carried, events, turns>>
registries == <<known, convSlot, convLast, last>>
client == <<talk, spoilt, carried, turns>>

Prompt == [conv : Convs, era : 0..MaxSlides, toks : Nat]
Places == {"idle", "gate", "admit", "route", "prefill", "handoff", "plan", "decode", "finish"}

Idle == [at |-> "idle", conv |-> None, era |-> 0, tail |-> 0, slot |-> None, credit |-> 0,
         est |-> 0, ids |-> FALSE, pin |-> None, restored |-> None, cache |-> 0]

Request == [at : Places, conv : Convs \cup {None}, era : 0..MaxSlides, tail : Nat,
            slot : Slots \cup {None}, credit : Nat, est : Nat, ids : BOOLEAN,
            pin : Slots \cup {None}, restored : Slots \cup {None}, cache : Nat]

-----------------------------------------------------------------------------
(* The registries: a map and the order its keys came in.                   *)

IsMap(m, K, V) == DOMAIN m \subseteq K /\ m \in [DOMAIN m -> V]
IsRegistry(reg, K, V) ==
  reg = [m |-> reg.m, ord |-> reg.ord] /\ IsMap(reg.m, K, V) /\ reg.ord \in Seq(K)

Nothing == [m |-> <<>>, ord |-> <<>>]

Lookup(reg, k) == IF k \in DOMAIN reg.m THEN {reg.m[k]} ELSE {}

With(m, k, v) == [x \in DOMAIN m \cup {k} |-> IF x = k THEN v ELSE m[x]]
Without(m, k) == [x \in DOMAIN m \ {k} |-> m[x]]

\* touch: the key goes to the young end.
Touch(ord, k) == Append(RemoveFirst(ord, k), k)

\* Record and remember: an LRU, the oldest out when a new key finds it full.
Remember(reg, k, v) ==
  LET full == k \notin DOMAIN reg.m /\ Cardinality(DOMAIN reg.m) >= Cap
      m == IF full THEN Without(reg.m, Head(reg.ord)) ELSE reg.m
      ord == IF full THEN Tail(reg.ord) ELSE reg.ord
  IN [m |-> With(m, k, v), ord |-> Touch(ord, k)]

\* convSlots.set: first in, first out.
SetSlot(reg, k, v) ==
  IF k \in DOMAIN reg.m THEN [m |-> With(reg.m, k, v), ord |-> reg.ord]
  ELSE IF Len(reg.ord) >= Cap
       THEN [m |-> With(Without(reg.m, Head(reg.ord)), k, v), ord |-> Append(Tail(reg.ord), k)]
       ELSE [m |-> With(reg.m, k, v), ord |-> Append(reg.ord, k)]

\* forget that leaves the key in the order.
ForgetValueOnly(reg, k) == [m |-> Without(reg.m, k), ord |-> reg.ord]

\* Forget and forget.
Forget(reg, k) ==
  IF k \in DOMAIN reg.m THEN [m |-> Without(reg.m, k), ord |-> RemoveFirst(reg.ord, k)]
  ELSE reg

\* convTurns.set: cleared wholesale when full.
SetTurn(m, k, v) == With(IF Cardinality(DOMAIN m) >= Cap THEN <<>> ELSE m, k, v)

-----------------------------------------------------------------------------
(* The engine (external): prompts, and how much of one another prompt has. *)

PromptOf(r) == [conv |-> req[r].conv, era |-> req[r].era, toks |-> PrefixToks + req[r].tail]

Common(p, q) ==
  IF p.conv = q.conv /\ p.era = q.era THEN Min({p.toks, q.toks})
  ELSE IF Prefix[p.conv] = Prefix[q.conv] THEN PrefixToks ELSE 0

Size(s) == Max({0} \cup {p.toks : p \in held[s]})
Reuse(s, q) == Max({0} \cup {Common(p, q) : p \in held[s]})

\* cacheResident, by size alone; a slot that cannot be read is taken to hold it.
Resident(s, expect, blind) == blind \/ Size(s) >= (expect * 8) \div 10

PoolCouldHold(total, blind) == blind \/ MapThenSumSet(Size, Slots) >= (total * 8) \div 10

Init ==
  /\ held = [s \in Slots |-> {}]
  /\ known = Nothing /\ convSlot = Nothing /\ last = Nothing
  /\ convLast = <<>>
  /\ down = FALSE
  /\ req = [r \in Reqs |-> Idle]
  /\ talk = [c \in Convs |-> [era |-> 0, tail |-> Min(Tails)]]
  /\ spoilt = [c \in Convs |-> {}] /\ carried = [c \in Convs |-> {}]
  /\ events = 0 /\ turns = 0

Event == events < MaxEvents /\ events' = events + 1

InFlight(c) == {r \in Reqs : req[r].conv = c}
Inside(c) == {r \in InFlight(c) : req[r].at # "gate"}

-----------------------------------------------------------------------------
(* Prepare.                                                                *)

\* A turn comes and reads the slot its conversation was last in, or the ring's, before
\* it has been through the gate.
Arrive(r, c) ==
  /\ req[r].at = "idle"
  /\ talk[c].tail \in Tails
  /\ turns < MaxTurns
  /\ turns' = turns + 1
  /\ req' = [req EXCEPT ![r] =
       [Idle EXCEPT !.at = "gate", !.conv = c, !.era = talk[c].era, !.tail = talk[c].tail,
                    !.slot = IF c \in DOMAIN convSlot.m THEN convSlot.m[c]
                             ELSE RingSlot[Prefix[c]]]]
  /\ UNCHANGED <<held, registries, down, talk, spoilt, carried, events>>

\* acquire: alone, or after the cap in spite of the turn that is inside.
Enter(r) ==
  /\ req[r].at = "gate"
  /\ IF Inside(req[r].conv) = {} THEN UNCHANGED events ELSE Event
  /\ req' = [req EXCEPT ![r].at = "admit"]
  /\ UNCHANGED <<held, registries, down, client>>

Less(a, b) == IF a > b THEN a - b ELSE 0

\* ClassifyAdmission's estimate: what is neither a hot prefix nor resident.
EstNew(tail, hot, credit) ==
  IF credit > 0 THEN Less(PrefixToks + tail, credit) ELSE Less(PrefixToks, hot) + tail

\* What the conversation left in its slot last time, if this prompt continues that
\* one and the sizes agree.  {} when no credit is given.
Credit(r, blind) ==
  {convLast[c].total : c \in {d \in {req[r].conv} \cap DOMAIN convLast :
     /\ convLast[d].total > 0
     /\ req[r].tail >= convLast[d].tail
     /\ Resident(req[r].slot, convLast[d].total, blind)
     /\ PoolCouldHold(convLast[d].total, blind)}}

\* blind: the engine's slots cannot be read for the moment.
Admit(r, blind) ==
  LET p == Prefix[req[r].conv]
      hots == {h \in Lookup(known, p) : Resident(req[r].slot, h, blind)}
      credit == Max({0} \cup Credit(r, blind))
      est == EstNew(req[r].tail, Max({0} \cup hots), credit)
  IN
  /\ req[r].at = "admit"
  /\ req' = [req EXCEPT ![r] = [@ EXCEPT !.at = IF est >= Threshold THEN "route" ELSE "plan",
                                         !.credit = credit, !.est = est]]
  /\ known' = IF p \in DOMAIN known.m THEN [m |-> known.m, ord |-> Touch(known.ord, p)]
             ELSE known
  /\ UNCHANGED <<held, convSlot, convLast, last, down, client, events>>

\* The exact new tokens: all but what the last prompts vouch for, unless the engine
\* seems to have lost that.
NewExact(r, blind) ==
  LET q == PromptOf(r)
      best == Max({0} \cup {Common(p, q) : p \in Lookup(last, q.conv)
                                                \cup Lookup(last, Prefix[q.conv])})
      new == q.toks - best
  IN IF new < ExactMin /\ ~Resident(req[r].slot, best, blind) THEN q.toks ELSE new

\* The way is open: breaker, other engine, busy, exact count and cost all agree.
RouteToPrefill(r) ==
  /\ req[r].at = "route"
  /\ ~down
  /\ \E blind \in BOOLEAN : NewExact(r, blind) >= ExactMin
  /\ req' = [req EXCEPT ![r] = [@ EXCEPT !.at = "prefill", !.ids = TRUE]]
  /\ UNCHANGED <<held, registries, down, client, events>>

\* prefill-down or other-engine or decode-idle, before the tokenizer is asked;
\* cache-hot, exact-below-floor or decode-cheaper after.
RouteToDecode(r) ==
  /\ req[r].at = "route"
  /\ \E ids \in BOOLEAN :
       /\ ids => /\ ~down
                 /\ (\E blind \in BOOLEAN : NewExact(r, blind) < ExactMin) \/ Mode = "auto"
       /\ req' = [req EXCEPT ![r] = [@ EXCEPT !.at = "plan", !.ids = ids]]
  /\ UNCHANGED <<held, registries, down, client, events>>

\* A failure of the prefill side: decode-direct, and nobody dials it for a while.
TripBreaker == down' = TRUE

\* The tokenizer, the prefill or the handoff fails.
SideFails(r) ==
  /\ req[r].at \in {"route", "prefill", "handoff"}
  /\ req[r].at = "route" => ~down
  /\ Event
  /\ TripBreaker
  /\ req' = [req EXCEPT ![r].at = "plan"]
  /\ UNCHANGED <<held, registries, client>>

\* ErrSkipHandoff: no room, or no route.  Served direct; the breaker stays closed.
SideSkips(r) ==
  /\ req[r].at \in {"prefill", "handoff"}
  /\ req' = [req EXCEPT ![r].at = "plan"]
  /\ UNCHANGED <<held, registries, down, client, events>>

PrefillOk(r) ==
  /\ req[r].at = "prefill"
  /\ req' = [req EXCEPT ![r].at = "handoff"]
  /\ UNCHANGED <<held, registries, down, client, events>>

\* The state is restored, in the slot that was free, and the request pinned to it.
HandoffOk(r, s) ==
  /\ req[r].at = "handoff"
  /\ held' = [held EXCEPT ![s] = {PromptOf(r)}]
  /\ req' = [req EXCEPT ![r] = [@ EXCEPT !.at = "plan", !.slot = s, !.pin = s, !.restored = s]]
  /\ spoilt' = [spoilt EXCEPT ![req[r].conv] = @ \ {s}]
  /\ UNCHANGED <<registries, down, talk, carried, turns, events>>

\* The prompt is remembered under both keys if it was tokenized, and the slot as the
\* conversation's.
Plan(r) ==
  LET c == req[r].conv IN
  /\ req[r].at = "plan"
  /\ IF req[r].ids
     THEN \E own \in {Remember(last, c, PromptOf(r))} :
            last' = Remember(own, Prefix[c], PromptOf(r))
     ELSE last' = last
  /\ convSlot' = SetSlot(convSlot, c, req[r].slot)
  /\ req' = [req EXCEPT ![r].at = "decode"]
  /\ UNCHANGED <<held, known, convLast, down, client, events>>

-----------------------------------------------------------------------------
(* The decode call, and Finish.                                            *)

\* The engine serves, in the slot it was told or in the one with most of the prompt.
Serve(r, s) ==
  LET q == PromptOf(r) IN
  /\ req[r].at = "decode"
  /\ IF req[r].pin # None THEN s = req[r].pin
     ELSE \A t \in Slots : Reuse(t, q) <= Reuse(s, q)
  /\ held' = [held EXCEPT ![s] = {[q EXCEPT !.toks = @ + 1]}]
  /\ req' = [req EXCEPT ![r] = [@ EXCEPT !.at = "finish", !.cache = Reuse(s, q)]]
  /\ UNCHANGED <<registries, down, client, events>>

\* The next turn of the conversation: the reply and another question.
NextTurn(c, tail) ==
  IF tail >= talk[c].tail THEN [talk EXCEPT ![c].tail = tail + 2] ELSE talk

\* The engine fails, and the client asks again.  Chat writes only the record;
\* chatStream calls Finish with no timings, which puts the prefix on record and may
\* tokenize the prompt.
ServeFails(r) ==
  /\ req[r].at = "decode"
  /\ Event
  /\ req' = [req EXCEPT ![r] = Idle]
  /\ \/ UNCHANGED <<known, last>>
     \/ /\ known' = Remember(known, Prefix[req[r].conv], PrefixToks)
        /\ last' \in {last} \cup IF req[r].ids \/ down THEN {}
                                ELSE {Remember(last, req[r].conv, PromptOf(r))}
  /\ UNCHANGED <<held, convSlot, convLast, down, client>>

\* resident_wrong: credited, and the engine reused less than half of it.
Wrong(r) == req[r].credit > 0 /\ req[r].cache < req[r].credit \div 2

\* prefix_cold: the engine had less than half of the prefix.
Cold(r) == req[r].restored = None /\ req[r].cache < PrefixToks \div 2

\* Finish before it drew a conclusion from a wrong credit.
WithoutWrongNot(r) == convSlot

\* A wrong credit loses its slot.
WithoutWrong(r) == IF Wrong(r) THEN Forget(convSlot, req[r].conv) ELSE convSlot

\* What the history takes of it: the slot, and whether another turn has it in hand.
InVain(r) == IF Wrong(r) THEN {req[r].slot} ELSE {}
CarriedBy(others, r) == {s \in InVain(r) : \E q \in others : req[q].slot = s}

\* slotHoldingExactly: the one slot of that size, if it can be read.
SlotsOf(n) == LET S == {s \in Slots : Size(s) = n}
              IN IF Cardinality(S) = 1 THEN {{}, S} ELSE {{}}

\* Finish: the prefix is hot, or cold and forgotten; the conversation's total; a wrong
\* credit loses its slot, and the slot that served is learnt when it can be told.
Finish(r) ==
  LET c == req[r].conv
      p == Prefix[c]
      n == PrefixToks + req[r].tail + 1
      unwrong == WithoutWrong(r)
      fresh == IF Cold(r) THEN Forget(last, p) ELSE last
  IN
  /\ req[r].at = "finish"
  /\ convLast' = SetTurn(convLast, c, [tail |-> req[r].tail, total |-> n])
  /\ \E S \in SlotsOf(n) :
       /\ convSlot' = IF S = {} THEN unwrong ELSE SetSlot(unwrong, c, CHOOSE s \in S : TRUE)
       /\ spoilt' = [spoilt EXCEPT ![c] = (@ \cup InVain(r)) \ S]
       /\ carried' = [carried EXCEPT ![c] = (@ \ InVain(r)) \cup CarriedBy(InFlight(c) \ {r}, r)]
  /\ \E warm \in {Remember(known, p, PrefixToks)} :
       known' = IF Cold(r) THEN Forget(warm, p) ELSE warm
  /\ last' \in {fresh} \cup IF req[r].ids \/ down THEN {} ELSE {Remember(fresh, c, PromptOf(r))}
  /\ req' = [req EXCEPT ![r] = Idle]
  /\ talk' = NextTurn(c, req[r].tail)
  /\ UNCHANGED <<held, down, turns, events>>

-----------------------------------------------------------------------------

\* breakerFor has passed.
BreakerCloses ==
  /\ down
  /\ down' = FALSE
  /\ UNCHANGED <<held, registries, req, client, events>>

\* The engine empties a slot, for another task or on its own.
Evict(s) ==
  /\ held[s] # {}
  /\ Event
  /\ held' = [held EXCEPT ![s] = {}]
  /\ UNCHANGED <<registries, down, req, client>>

\* The client slides the window of its history: the same conversation, another text.
Slide(c) ==
  /\ talk[c].era < MaxSlides
  /\ InFlight(c) = {}
  /\ talk' = [talk EXCEPT ![c] = [era |-> @.era + 1, tail |-> Min(Tails)]]
  /\ UNCHANGED <<held, registries, down, req, spoilt, carried, turns, events>>

Prepares(r) ==
  \/ Enter(r) \/ (\E blind \in BOOLEAN : Admit(r, blind))
  \/ RouteToPrefill(r) \/ RouteToDecode(r) \/ SideFails(r) \/ SideSkips(r)
  \/ PrefillOk(r) \/ (\E s \in Slots : HandoffOk(r, s)) \/ Plan(r)

Decodes(r) == (\E s \in Slots : Serve(r, s)) \/ ServeFails(r) \/ Finish(r)

Next ==
  \/ \E r \in Reqs : (\E c \in Convs : Arrive(r, c)) \/ Prepares(r) \/ Decodes(r)
  \/ BreakerCloses
  \/ \E s \in Slots : Evict(s)
  \/ \E c \in Convs : Slide(c)

Spec == Init /\ [][Next]_vars

-----------------------------------------------------------------------------

\* Every variable has its type; a slot holds one prompt at most.
TypeOK ==
  /\ held \in [Slots -> SUBSET Prompt]
  /\ \A s \in Slots : \A p, q \in held[s] : p = q
  /\ IsRegistry(known, PKeys, Nat)
  /\ IsRegistry(convSlot, Convs, Slots)
  /\ IsRegistry(last, Keys, Prompt)
  /\ IsMap(convLast, Convs, [tail : Nat, total : Nat])
  /\ down \in BOOLEAN
  /\ req \in [Reqs -> Request]
  /\ talk \in [Convs -> [era : 0..MaxSlides, tail : Nat]]
  /\ spoilt \in [Convs -> SUBSET Slots] /\ carried \in [Convs -> SUBSET Slots]
  /\ events \in 0..MaxEvents /\ turns \in 0..MaxTurns

Ordered(reg) ==
  /\ IsInjective(reg.ord)
  /\ ToSet(reg.ord) = DOMAIN reg.m
  /\ Len(reg.ord) <= Cap

\* The three ordered registries stay within their capacity and their order lists
\* each of their keys once, after any mix of touches, evictions and forgettings: an
\* eviction always takes out a key that is there.
RegistriesOrdered == Ordered(known) /\ Ordered(convSlot) /\ Ordered(last)

\* A mistake of the probe is made once: after a turn whose credit proved wrong, no turn
\* of the conversation is credited on that slot again, however they overlap, unless the
\* engine was seen to use it, a handoff was restored there, the ring seeds the
\* conversation there, or another turn that had come by then had read the slot: that one
\* is credited on it again and puts it back for the turns after it.
WrongCreditIsDropped ==
  \A r \in Reqs :
    LET c == req[r].conv IN
    req[r].at \in {"route", "plan"} /\ req[r].credit > 0
    => req[r].slot \notin spoilt[c] \ (carried[c] \cup {RingSlot[Prefix[c]]})

=============================================================================
