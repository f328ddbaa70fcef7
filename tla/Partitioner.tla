---------------------------- MODULE Partitioner ----------------------------
(***************************************************************************)
(* The partitioner: which layers of a model go to which nodes (Solve), how *)
(* many independent replicas the pool holds (SolveReplicas), which nodes   *)
(* are set aside for prefill and draft (SolveRoles), and the addresses the *)
(* gateway takes from such a plan.                                         *)
(*                                                                         *)
(* Sizes are whole GB and times whole milliseconds; a ratio is compared by *)
(* cross-multiplication, so what the code computes in floating point is    *)
(* exact here. Nodes are numbers: the code sorts them by name.             *)
(***************************************************************************)
EXTENDS Integers, FiniteSets, FiniteSetsExt, SequencesExt, Folds

CONSTANTS Ids,          \* the nodes of the configuration
          Profiles,     \* the profiles a node may have
          Decode, Prefill, Draft,   \* the models to place
          Overheads,    \* ms per boundary between two stages
          Budget,       \* networkTimeBudget, in percent
          Floors,       \* minUsableTokensS; -1 is nil
          Leads         \* DraftLeadFactor

\* NewModelSpec: what a model must satisfy to be placed at all.
ModelSpec(m) ==
  /\ m.layers >= 1 /\ m.slots >= 1
  /\ m.weights > 0 /\ m.kv >= 0 /\ m.prefix >= 0

\* Bandwidths are chosen so that a layer takes a whole number of milliseconds.
ASSUME PartitionerAssumption ==
  /\ Ids \subseteq Nat \ {0} /\ IsFiniteSet(Ids)
  /\ \A m \in {Decode, Prefill, Draft} : ModelSpec(m)
  /\ \A n \in Profiles : n.bw > 0 =>
       \A m \in {Decode, Prefill, Draft} :
         ((m.weights + m.kv) * 1000) % (m.layers * n.bw) = 0
  /\ Budget \in 0..100 /\ Floors \subseteq Int /\ Overheads \subseteq Nat

VARIABLES pool,     \* the nodes' profiles
          ask,      \* the rest of the input of a call
          op,       \* the operation called last
          answer    \* what it returned
vars == <<pool, ask, op, answer>>

\* The resident footprint of a model: weights, the KV of every slot, cached prefixes.
TotalGB(m) == m.weights + m.kv * m.slots + m.prefix

\* Milliseconds for a number of layers on a node: measured, or else from the bytes one
\* token touches (weights and one slot's KV) over the declared bandwidth.
Profiled(n) == n.ms > 0 \/ n.bw > 0
StageMS(n, k, m) ==
  IF n.ms > 0 THEN k * n.ms
  ELSE (k * (m.weights + m.kv) * 1000) \div (m.layers * n.bw)

Present(nodes) == {i \in Ids : ~nodes[i].absent}

Nothing == [kind |-> "none"]
Refused == [kind |-> "refused"]

\* How many layers the memory of a node holds.
LayerCap(n, m) == (n.cap * m.layers) \div TotalGB(m)

\* A bug: the layer a node holds already is forgotten.
RoomFull(n, held, m) == LayerCap(n, m)

\* What a node can take beyond the layers it holds.
Room(n, held, m) == LayerCap(n, m) - held

\* One layer for everybody, the rest to the fastest first, up to their caps.
GreedyCounts(nodes, S, m) ==
  LET Faster(i, j) == LET a == StageMS(nodes[i], 1, m)
                          b == StageMS(nodes[j], 1, m)
                      IN a < b \/ (a = b /\ i < j)
      Load(c, i) == LET left == m.layers - SumFunction(c)
                    IN [c EXCEPT ![i] = @ + Min({left, Room(nodes[i], c[i], m)})]
  IN FoldLeft(Load, [i \in S |-> 1], SetToSortSeq(S, Faster))

\* The layers of the members of S, unless they cannot hold the model or one of them
\* has no speed to go by.
AssignLayers(nodes, S, m) ==
  IF \/ \E i \in S : LayerCap(nodes[i], m) < 1
     \/ SumFunction([i \in S |-> LayerCap(nodes[i], m)]) < m.layers
     \/ m.layers < Cardinality(S)
  THEN Nothing
  ELSE IF \E i \in S : ~Profiled(nodes[i]) THEN Refused
  ELSE [kind |-> "counts", counts |-> GreedyCounts(nodes, S, m)]

\* Time per token of a split of the layers: its stages and its boundaries.
ComputeMS(nodes, c, m) ==
  SumFunction([i \in DOMAIN c |-> StageMS(nodes[i], c[i], m)])
NetworkMS(c, over) == (Cardinality(DOMAIN c) - 1) * over
TokenMS(nodes, c, m, over) == ComputeMS(nodes, c, m) + NetworkMS(c, over)
NetworkOk(nodes, c, m, over) ==
  NetworkMS(c, over) * 100 <= Budget * TokenMS(nodes, c, m, over)

\* The plan of one set of hosts, unless the network would dominate it.
StagePlan(nodes, c, m, over) ==
  [kind |-> "plan", counts |-> c, token |-> TokenMS(nodes, c, m, over),
   first |-> [i \in DOMAIN c |-> SumFunction([j \in {k \in DOMAIN c : k < i} |-> c[j]])]]

UnlessNetworkBound(nodes, a, m, over) ==
  IF a.kind # "counts" THEN a
  ELSE IF Cardinality(DOMAIN a.counts) > 1 /\ ~NetworkOk(nodes, a.counts, m, over)
  THEN Nothing
  ELSE StagePlan(nodes, a.counts, m, over)

PlanForSubset(nodes, S, m, over) ==
  UnlessNetworkBound(nodes, AssignLayers(nodes, S, m), m, over)

Hosts(plan) == DOMAIN plan.counts
HostCount(plan) == Cardinality(Hosts(plan))

\* The order in which combinations hands out sets of one size.
EarlierSet(S, T) == S # T /\ Min((S \ T) \cup (T \ S)) \in S

\* The fastest plan of each depth, the first of combinations on a tie.
BestOfDepth(plans) ==
  LET Better(p, q) == \/ p.token < q.token
                      \/ p.token = q.token /\ EarlierSet(Hosts(p), Hosts(q))
  IN {p \in plans : \A q \in plans \ {p} :
        HostCount(p) = HostCount(q) => Better(p, q)}

Fastest(best) ==
  CHOOSE p \in best : \A q \in best \ {p} :
    p.token < q.token \/ (p.token = q.token /\ HostCount(p) < HostCount(q))

\* The floor: the fewest hosts that reach it, the fastest plan if none does.
ChooseByFloor(best, floor) ==
  LET reach == {p \in best : floor = 0 \/ p.token * floor <= 1000}
  IN IF floor = -1 \/ reach = {} THEN Fastest(best)
     ELSE CHOOSE p \in reach : \A q \in reach : HostCount(p) <= HostCount(q)

\* The best plan of the nodes P; a usable node of unknown speed refuses the pool.
ChoosePlan(best, floor) == IF best = {} THEN Refused ELSE ChooseByFloor(best, floor)

BestPlan(plans, floor) ==
  IF Refused \in plans THEN Refused
  ELSE ChoosePlan(BestOfDepth({p \in plans : p.kind = "plan"}), floor)

SolvePool(nodes, P, m, over, floor) ==
  IF P = {} \/ SumFunction([i \in P |-> nodes[i].cap]) < TotalGB(m)
  THEN Refused
  ELSE BestPlan({PlanForSubset(nodes, S, m, over) : S \in SUBSET P \ {{}}}, floor)

\* The plan and, for each of its hosts, the plan without it.
WithFallbacks(plan, without) ==
  IF plan = Refused THEN Refused
  ELSE [kind |-> "solved", plan |-> plan,
        fallbacks |-> [x \in Hosts(plan) |-> without[x]]]

Solve(nodes, P, m, over, floor) ==
  WithFallbacks(SolvePool(nodes, P, m, over, floor),
                [x \in P |-> SolvePool(nodes, P \ {x}, m, over, floor)])

\* The speed of one replica and of several, as a fraction: tokens per millisecond.
Speed(plan) == [n |-> 1, d |-> plan.token]
Plus(a, b) == [n |-> a.n * b.d + b.n * a.d, d |-> a.d * b.d]
Above(a, b) == a.n * b.d > b.n * a.d

\* An assignment of replicas is taken for its speed, or for fewer of them.
Preferred(a, b) ==
  \/ Above(a.agg, b.agg)
  \/ ~Above(b.agg, a.agg) /\ Cardinality(a.plans) < Cardinality(b.plans)

\* A bug: only the first node of a replica is taken off the pool.
LeftFirst(S, G) == S \ {Min(S)}

\* The nodes a replica leaves for the others.
Left(S, G) == S \ G

\* The exact search: the first node idles, or serves with some of the others. Which of
\* two assignments that are equal in both is taken is left open.
Extend(plan, rest) ==
  [agg |-> Plus(Speed(plan), rest.agg), plans |-> {plan} \cup rest.plans]
PickAssignment(all) == CHOOSE a \in all : \A b \in all : ~Preferred(b, a)
FirstGroups(S, plan) == {G \in SUBSET S : Min(S) \in G /\ plan[G] # Refused}

BestAssignment(P, plan) ==
  LET best[S \in SUBSET P] ==
        IF S = {} THEN [agg |-> [n |-> 0, d |-> 1], plans |-> {}]
        ELSE PickAssignment({Extend(plan[G], best[Left(S, G)]) : G \in FirstGroups(S, plan)}
                              \cup {best[S \ {Min(S)}]})
  IN best[P]

Replicas(P, best) ==
  IF best.plans = {} THEN Refused
  ELSE [kind |-> "replicas", agg |-> best.agg, plans |-> best.plans,
        idle |-> P \ UNION {Hosts(p) : p \in best.plans}]

SolveReplicas(nodes, m, over) ==
  LET P == Present(nodes)
  IN Replicas(P, BestAssignment(P, [G \in SUBSET P |-> SolvePool(nodes, G, m, over, -1)]))

\* A role is reserved on a node that holds its model, or both; 0 is a role not asked for.
FitsRoles(n, gb) == n.cap >= gb

Reservations(nodes, P, want) ==
  LET On(role) == IF role \in want THEN P ELSE {0}
      Fits(p, d) ==
        IF p = d /\ p # 0 THEN FitsRoles(nodes[p], TotalGB(Prefill) + TotalGB(Draft))
        ELSE /\ p = 0 \/ FitsRoles(nodes[p], TotalGB(Prefill))
             /\ d = 0 \/ FitsRoles(nodes[d], TotalGB(Draft))
  IN {r \in [prefill : On("prefill"), draft : On("draft")] : Fits(r.prefill, r.draft)}

ResidentMS(n, m) == StageMS(n, m.layers, m)
LeadFactor(lead) == IF lead = 0 THEN 2 ELSE lead
Reserved(r) == {r.prefill, r.draft} \ {0}

\* The nodes a reservation leaves to the decode pipeline.
DecodePool(P, r) == P \ Reserved(r)

Candidate(r, decode) == [r |-> r, decode |-> decode]

\* A reservation must leave a decode pipeline, and its draft keep its lead on it.
Acceptable(nodes, c, lead) ==
  /\ c.decode.kind = "solved"
  /\ \A x \in Reserved(c.r) : Profiled(nodes[x])
  /\ c.r.draft = 0 \/ ResidentMS(nodes[c.r.draft], Draft) * LeadFactor(lead)
                        <= c.decode.plan.token

Candidates(nodes, P, want, over, floor) ==
  {Candidate(r, Solve(nodes, DecodePool(P, r), Decode, over, floor))
     : r \in Reservations(nodes, P, want)}

\* Decode speed, then fewer nodes reserved, then a faster prefill; the first on a tie.
PrefillMS(nodes, r) == IF r.prefill = 0 THEN 0 ELSE ResidentMS(nodes[r.prefill], Prefill)

\* A bug: the faster prefill comes before the fewer nodes.
ScoreSwapped(nodes, c) ==
  <<c.decode.plan.token, PrefillMS(nodes, c.r), Cardinality(Reserved(c.r)),
    c.r.prefill, c.r.draft>>

Score(nodes, c) ==
  <<c.decode.plan.token, Cardinality(Reserved(c.r)), PrefillMS(nodes, c.r),
    c.r.prefill, c.r.draft>>
LexLess(s, t) ==
  \E k \in DOMAIN s : s[k] < t[k] /\ \A j \in 1..(k - 1) : s[j] = t[j]

BestCandidate(nodes, all) ==
  CHOOSE c \in all : \A e \in all \ {c} : LexLess(Score(nodes, c), Score(nodes, e))

RolePlan(P, c) ==
  [kind |-> "roles", decode |-> c.decode, prefill |-> c.r.prefill, draft |-> c.r.draft,
   idle |-> P \ (Hosts(c.decode.plan) \cup Reserved(c.r))]

ChooseRoles(nodes, P, all) ==
  IF all = {} THEN Refused ELSE RolePlan(P, BestCandidate(nodes, all))

\* Without a role to place the only reservation is the empty one.
SolveRoles(nodes, want, over, floor, lead) ==
  LET P == Present(nodes)
  IN IF LeadFactor(lead) <= 1 \/ P = {} THEN Refused
     ELSE ChooseRoles(nodes, P, {c \in Candidates(nodes, P, want, over, floor)
                                    : Acceptable(nodes, c, lead)})

\* The gateway's backends: no decode entry, no service; no prefill, no disaggregation.
BackendsFromRolePlan(plan, endpoints) ==
  LET entry == Min(Hosts(plan.decode.plan))
  IN IF entry \notin endpoints THEN Refused
     ELSE [kind |-> "backends", entry |-> entry, nodes |-> Hosts(plan.decode.plan),
           prefill |-> IF plan.prefill \in endpoints THEN plan.prefill ELSE 0]

-----------------------------------------------------------------------------
Asks == [over : Overheads, floor : Floors, lead : Leads, want : SUBSET {"prefill", "draft"}]

Init ==
  /\ pool \in [Ids -> Profiles] /\ ask \in Asks
  /\ op = "none" /\ answer = Nothing

Return(o, a) == op' = o /\ answer' = a /\ UNCHANGED <<pool, ask>>

\* The roles and the lead factor are no parameters of Solve, nor the floor of
\* SolveReplicas: those calls are made with one value of them.
OneOf(value, values) == \A v \in values : value <= v
NoRoles == ask.want = {} /\ OneOf(ask.lead, Leads)

AskSolve ==
  /\ op = "none" /\ NoRoles
  /\ Return("solve", Solve(pool, Present(pool), Decode, ask.over, ask.floor))

AskReplicas ==
  /\ op = "none" /\ NoRoles /\ OneOf(ask.floor, Floors)
  /\ Return("replicas", SolveReplicas(pool, Decode, ask.over))

AskRoles ==
  /\ op = "none"
  /\ Return("roles", SolveRoles(pool, ask.want, ask.over, ask.floor, ask.lead))

Wire ==
  /\ answer.kind = "roles"
  /\ \E endpoints \in SUBSET Ids :
       Return("backends", BackendsFromRolePlan(answer, endpoints))

Next == AskSolve \/ AskReplicas \/ AskRoles \/ Wire

Spec == Init /\ [][Next]_vars

-----------------------------------------------------------------------------
(* The reference: every way to give the layers to the nodes, enumerated.   *)

\* The splits of all the layers over some of P that no node's memory cap forbids.
Splits(P) ==
  LET Some(S) == {c \in [S -> 1..Decode.layers] :
                    /\ SumFunction(c) = Decode.layers
                    /\ \A i \in S : c[i] * TotalGB(Decode) <= pool[i].cap * Decode.layers}
  IN UNION {Some(S) : S \in {T \in SUBSET P : T # {} /\ \A i \in T : Profiled(pool[i])}}

Time(c) == TokenMS(pool, c, Decode, ask.over)
WithinKpi(c) == Cardinality(DOMAIN c) = 1 \/ NetworkOk(pool, c, Decode, ask.over)

\* Of the splits over one set of hosts only the fastest are looked at.
FastestOfHosts(splits) ==
  {c \in splits : \A d \in splits : DOMAIN c = DOMAIN d => Time(c) <= Time(d)}
Eligible(P) == {c \in FastestOfHosts(Splits(P)) : WithinKpi(c)}

Reaches(c) == ask.floor = 0 \/ (ask.floor > 0 /\ Time(c) * ask.floor <= 1000)
BetterSplit(c, d) ==
  LET hc == Cardinality(DOMAIN c)
      hd == Cardinality(DOMAIN d)
  IN IF Reaches(c) /\ Reaches(d)
     THEN hc < hd \/ (hc = hd /\ Time(c) < Time(d))
     ELSE \/ Reaches(c) /\ ~Reaches(d)
          \/ Reaches(c) = Reaches(d)
             /\ (Time(c) < Time(d) \/ (Time(c) = Time(d) /\ hc < hd))

\* A node whose speed is unknown and whose memory would take a layer.
Unknown(P) == \E i \in P : ~Profiled(pool[i]) /\ LayerCap(pool[i], Decode) >= 1

\* The splits to choose from: none if a node of unknown speed would take part.
Offered(P) == IF Unknown(P) THEN {} ELSE Eligible(P)
BestSplits(P) ==
  LET all == Offered(P) IN {c \in all : \A d \in all : ~BetterSplit(d, c)}

IsBest(plan, P) ==
  IF plan = Refused THEN Offered(P) = {}
  ELSE /\ plan.counts \in BestSplits(P)
       /\ UNION {plan.first[i]..(plan.first[i] + plan.counts[i] - 1) : i \in Hosts(plan)}
            = 0..(Decode.layers - 1)

\* Solve's answer, and each of its fallbacks, gives every layer to one node within the
\* memory caps and the network budget, and of the fastest splits of every host set none
\* is better by its objective: the fewest hosts that reach the floor, else the fastest,
\* ties to fewer hosts. It refuses exactly when no host set has a fastest split
\* within them, or a node it would use has no known speed.
PlanIsBest ==
  op = "solve" =>
    IF answer = Refused THEN IsBest(Refused, Present(pool))
    ELSE /\ IsBest(answer.plan, Present(pool))
         /\ \A x \in Hosts(answer.plan) :
              IsBest(answer.fallbacks[x], Present(pool) \ {x})

\* SolveReplicas: no family of disjoint host sets, each with a fastest split within the
\* network budget, has a higher sum of speeds, or the same with fewer replicas; its own
\* are disjoint, and it refuses exactly when no host set has such a split.
ReplicasAreBest ==
  op = "replicas" =>
    LET all == Eligible(Present(pool))
        sets == {DOMAIN c : c \in all}
        families == {F \in SUBSET sets : \A S \in F, T \in F : S = T \/ S \cap T = {}}
        SpeedOf(S) == [n |-> 1, d |-> Time(CHOOSE c \in all : DOMAIN c = S)]
        Sum(F) == FoldSet(LAMBDA S, a : Plus(SpeedOf(S), a), [n |-> 0, d |-> 1], F)
        used == {Hosts(p) : p \in answer.plans}
    IN IF answer = Refused THEN all = {}
       ELSE /\ used \in families /\ Cardinality(used) = Cardinality(answer.plans)
            /\ \A F \in families :
                 /\ ~Above(Sum(F), answer.agg)
                 /\ ~Above(answer.agg, Sum(F)) => Cardinality(F) >= Cardinality(used)

\* The reservations a demand allows: a node for each role asked for, of known speed and
\* with the memory of all it is reserved for.
Allowed(P) ==
  LET Load(x, r) == (IF x = r.prefill THEN TotalGB(Prefill) ELSE 0)
                      + (IF x = r.draft THEN TotalGB(Draft) ELSE 0)
  IN {r \in [prefill : P \cup {0}, draft : P \cup {0}] :
        /\ (r.prefill # 0) = ("prefill" \in ask.want)
        /\ (r.draft # 0) = ("draft" \in ask.want)
        /\ \A x \in Reserved(r) : Profiled(pool[x]) /\ Load(x, r) <= pool[x].cap}

\* What a reservation with a decode split comes to, in the order it is judged.
Merit(r, c) == <<Time(c), Cardinality(Reserved(r)), PrefillMS(pool, r)>>

\* The merits of the allowed reservations whose draft keeps its lead over the best decode
\* split of the nodes left.
Merits(P) ==
  LET Keeps(r, c) ==
        r.draft # 0 => ResidentMS(pool[r.draft], Draft) * LeadFactor(ask.lead) <= Time(c)
  IN UNION {{Merit(r, c) : c \in {b \in BestSplits(P \ Reserved(r)) : Keeps(r, b)}}
              : r \in Allowed(P)}

\* SolveRoles: a reserved node serves no decode stage, every other node serves one or
\* idles, and the answer is the best by decode speed, then fewer reserved nodes, then a
\* faster prefill, of all the reservations that keep the draft's lead over the best
\* decode pipeline of the nodes they leave. It refuses exactly when there is none, or the
\* lead asked for is not above one.
RolesAreBest ==
  op = "roles" =>
    LET P == Present(pool)
        r == [prefill |-> answer.prefill, draft |-> answer.draft]
        plan == answer.decode.plan
        mine == Merit(r, plan.counts)
        all == Merits(P)
    IN IF answer = Refused THEN LeadFactor(ask.lead) <= 1 \/ all = {}
       ELSE /\ LeadFactor(ask.lead) > 1 /\ r \in Allowed(P)
            /\ Reserved(r) \cap Hosts(plan) = {}
            /\ answer.idle = P \ (Reserved(r) \cup Hosts(plan))
            /\ IsBest(plan, P \ Reserved(r))
            /\ mine \in all /\ \A other \in all : ~LexLess(other, mine)

=============================================================================
