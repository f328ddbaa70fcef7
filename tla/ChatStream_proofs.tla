-------------------------- MODULE ChatStream_proofs --------------------------
(***************************************************************************)
(* Proofs about ChatStream, for any requests, conversations, engines and   *)
(* slots: whichever of its returns a handler takes, it gives back its gate *)
(* and its claim once, and a client that stayed has been told the truth.   *)
(***************************************************************************)
EXTENDS ChatStream, FiniteSetTheorems, TLAPS

-----------------------------------------------------------------------------
(* The invariant.                                                          *)

\* The client has its answer, and a 200 only with something after it.
Told(r) ==
  /\ wire[r].status # 0
  /\ wire[r].status = 200 => chat[r].status = 200 /\ (wire[r].bytes \/ wire[r].error)

Unclaimed == {"new", "plan", "settle", "return", "over"}
Unwound == {"unwind", "return", "over"}
Early == {"new", "plan", "picked", "template", "pass", "post"}

\* What a handler holds and has sent, by where it is.
Local(r) ==
  /\ chat[r].at \in Unclaimed => ~chat[r].claimed
  /\ chat[r].claimed => chat[r].engine \in Engines
  /\ chat[r].at \notin Unwound => ~chat[r].finished
  /\ chat[r].at \in Unwound /\ r \notin gone => Told(r)
  /\ chat[r].at \in {"read", "write", "close"} =>
       wire[r].status = chat[r].status /\ chat[r].status # 0
  /\ chat[r].at \in {"read", "close"} =>
       chat[r].streamed = 0 \/ wire[r].bytes \/ chat[r].clientGone
  /\ chat[r].clientGone => r \in gone
  /\ chat[r].at \in Early => chat[r].streamed = 0

Holds(r) == chat[r].at \notin {"new", "over"} /\ ~chat[r].finished

Holding(c) == {r \in Reqs : ConvOf[r] = c /\ Holds(r)}
Claiming(e) == {r \in Reqs : chat[r].claimed /\ chat[r].engine = e}

Counted ==
  /\ \A c \in Convs : gate[c] = Cardinality(Holding(c))
  /\ \A e \in Engines : claims[e] = Cardinality(Claiming(e))

ChatInv == TypeOK /\ (\A r \in Reqs : Local(r)) /\ Counted

-----------------------------------------------------------------------------
(* What a step of one request changes.                                     *)

\* Only its own handler and its own client.
Own(r) ==
  /\ chat' \in [Reqs -> Handler]
  /\ wire' \in [Reqs -> Wire]
  /\ known' \subseteq Reqs /\ deaf' \subseteq Reqs
  /\ \A q \in Reqs : q # r => chat'[q] = chat[q] /\ wire'[q] = wire[q]

\* The gate follows the handler,
GateStep(r) ==
  \/ Holds(r)' = Holds(r) /\ gate' = gate
  \/ ~Holds(r) /\ Holds(r)' /\ gate' = [gate EXCEPT ![ConvOf[r]] = @ + 1]
  \/ Holds(r) /\ ~Holds(r)' /\ gate' = [gate EXCEPT ![ConvOf[r]] = @ - 1]

\* and so does the claim.
ClaimStep(r) ==
  \/ /\ claims' = claims
     /\ \A e \in Engines : (chat'[r].claimed /\ chat'[r].engine = e)
                             <=> (chat[r].claimed /\ chat[r].engine = e)
  \/ /\ ~chat[r].claimed /\ chat'[r].claimed /\ chat'[r].engine \in Engines
     /\ claims' = [claims EXCEPT ![chat'[r].engine] = @ + 1]
  \/ /\ chat[r].claimed /\ ~chat'[r].claimed /\ chat[r].engine \in Engines
     /\ claims' = [claims EXCEPT ![chat[r].engine] = @ - 1]

Step(r) == Own(r) /\ GateStep(r) /\ ClaimStep(r) /\ Local(r)' /\ gone' = gone

\* A handler before its first step holds nothing.
LEMMA FreshType ==
  /\ Fresh \in Handler
  /\ Fresh.claimed = FALSE /\ Fresh.finished = FALSE /\ Fresh.clientGone = FALSE
  /\ Fresh.at = "new" /\ Fresh.streamed = 0
<1>1. /\ "new" \in Places /\ "json" \in Kinds /\ None \in All \cup {None}
      /\ None \in Slots \cup {None} /\ 0 \in Statuses /\ 0 \in Reads
  BY ChatAssumption DEF Places, Kinds, Statuses, Reads
<1> QED BY <1>1 DEF Fresh, Handler

\* writeJSON writes a status and a body,
LEMMA AnswerShape ==
  ASSUME wire \in [Reqs -> Wire], NEW r \in Reqs, NEW code, Answer(r, code)
  PROVE  wire' = [wire EXCEPT ![r] = [wire[r] EXCEPT !.status = code, !.bytes = TRUE]]
  BY Zenon DEF Answer

\* to its own client only,
LEMMA AnswerIs ==
  ASSUME wire \in [Reqs -> Wire], NEW r \in Reqs, NEW code \in Codes, Answer(r, code)
  PROVE  /\ wire' \in [Reqs -> Wire]
         /\ \A q \in Reqs : q # r => wire'[q] = wire[q]
         /\ wire'[r].status = code /\ wire'[r].bytes = TRUE
<1> DEFINE u == [wire[r] EXCEPT !.status = code, !.bytes = TRUE]
<1>1. wire[r] \in Wire
  OBVIOUS
<1>2. u \in Wire /\ u.status = code /\ u.bytes = TRUE
  BY <1>1 DEF Wire
<1>3. wire' = [wire EXCEPT ![r] = u]
  BY AnswerShape
<1> HIDE DEF u
<1> QED BY <1>2, <1>3

\* A handler that returns keeps the engine's status, and a claim it still has.
LEMMA OverIs ==
  ASSUME chat \in [Reqs -> Handler], NEW r \in Reqs, Over(r)
  PROVE  /\ chat' \in [Reqs -> Handler]
         /\ \A q \in Reqs : q # r => chat'[q] = chat[q]
         /\ chat'[r].at = "over" /\ chat'[r].finished = TRUE /\ chat'[r].clientGone = FALSE
         /\ chat'[r].status = chat[r].status /\ chat'[r].claimed = chat[r].claimed
         /\ chat'[r].engine = chat[r].engine
<1> DEFINE h == [Fresh EXCEPT !.at = "over", !.finished = TRUE,
             !.status = chat[r].status, !.claimed = chat[r].claimed, !.engine = chat[r].engine]
<1>1. chat[r] \in Handler
  OBVIOUS
<1>2. /\ h \in Handler /\ h.at = "over" /\ h.finished = TRUE /\ h.clientGone = FALSE
      /\ h.status = chat[r].status /\ h.claimed = chat[r].claimed /\ h.engine = chat[r].engine
  <2>1. "over" \in Places
    BY DEF Places
  <2> QED BY <1>1, <2>1, FreshType DEF Handler
<1>3. chat' = [chat EXCEPT ![r] = h]
  BY DEF Over
<1> HIDE DEF h
<1> QED BY <1>2, <1>3

\* What writeJSON leaves on the wire.
Answered(r, code) ==
  /\ wire' \in [Reqs -> Wire]
  /\ \A q \in Reqs : q # r => wire'[q] = wire[q]
  /\ wire'[r].status = code /\ wire'[r].bytes = TRUE

\* as every action that answers uses it.
LEMMA AnswerDoes ==
  ASSUME wire \in [Reqs -> Wire], NEW r \in Reqs
  PROVE  \A code \in Codes : Answer(r, code) => Answered(r, code)
<1> SUFFICES ASSUME NEW code \in Codes, Answer(r, code)
             PROVE  Answered(r, code)
  OBVIOUS
<1> QED BY AnswerIs DEF Answered

\* A refused request is told so and took nothing.
LEMMA RejectStep ==
  ASSUME TypeOK, NEW r \in Reqs, Local(r), Reject(r)
  PROVE  Step(r)
<1>1. /\ chat' \in [Reqs -> Handler]
      /\ \A q \in Reqs : q # r => chat'[q] = chat[q]
      /\ chat'[r].at = "over" /\ chat'[r].finished = TRUE /\ chat'[r].clientGone = FALSE
      /\ chat'[r].claimed = chat[r].claimed
  BY OverIs DEF Reject, TypeOK
<1>2. /\ wire' \in [Reqs -> Wire]
      /\ \A q \in Reqs : q # r => wire'[q] = wire[q]
      /\ wire'[r].status = 401
  <2>1. Answer(r, 401) /\ 401 \in Codes /\ wire \in [Reqs -> Wire]
    BY DEF Reject, Codes, TypeOK
  <2>2. Answered(r, 401)
    BY <2>1, AnswerDoes
  <2> QED BY <2>2 DEF Answered
<1>3. chat[r].at = "new" /\ ~chat[r].claimed /\ UNCHANGED <<gone, deaf, gate, claims, known>>
  BY DEF Reject, Local, Unclaimed
<1>4. Own(r)
  BY <1>1, <1>2, <1>3 DEF Own, TypeOK
<1>5. GateStep(r) /\ ClaimStep(r)
  BY <1>1, <1>3 DEF GateStep, ClaimStep, Holds
<1>6. Local(r)'
  BY <1>1, <1>2, <1>3 DEF Local, Told, Unwound, Early
<1> QED BY <1>3, <1>4, <1>5, <1>6 DEF Step

\* Prepare takes the gate, with or without a handoff.
LEMMA PrepareStep ==
  ASSUME TypeOK, NEW r \in Reqs, NEW kind \in {"json", "stream"}, NEW user \in BOOLEAN,
         Local(r), Prepare(r, kind, user)
  PROVE  Step(r)
<1>1. PICK h : /\ h \in Handler /\ h.at = "plan" /\ h.claimed = FALSE /\ h.finished = FALSE
               /\ h.clientGone = FALSE /\ h.streamed = 0
               /\ chat' = [chat EXCEPT ![r] = h]
  <2>1. CASE chat' = [chat EXCEPT ![r] = [Fresh EXCEPT !.at = "plan", !.kind = kind,
                                                       !.user = user]]
    <3> DEFINE h == [Fresh EXCEPT !.at = "plan", !.kind = kind, !.user = user]
    <3>1. h \in Handler /\ h.at = "plan" /\ h.claimed = FALSE /\ h.finished = FALSE
               /\ h.clientGone = FALSE /\ h.streamed = 0
      <4>1. "plan" \in Places /\ kind \in Kinds
        BY DEF Places, Kinds
      <4> QED BY <4>1, FreshType DEF Handler
    <3> QED BY <2>1, <3>1
  <2>2. ASSUME NEW e \in Engines, NEW s \in Slots,
               chat' = [chat EXCEPT ![r] = [Fresh EXCEPT !.at = "plan", !.kind = kind,
                        !.user = user, !.handoff = TRUE, !.engine = e, !.pin = s]]
        PROVE  \E h : /\ h \in Handler /\ h.at = "plan" /\ h.claimed = FALSE /\ h.finished = FALSE
                      /\ h.clientGone = FALSE /\ h.streamed = 0 /\ chat' = [chat EXCEPT ![r] = h]
    <3> DEFINE h == [Fresh EXCEPT !.at = "plan", !.kind = kind,
                        !.user = user, !.handoff = TRUE, !.engine = e, !.pin = s]
    <3>1. h \in Handler /\ h.at = "plan" /\ h.claimed = FALSE /\ h.finished = FALSE
               /\ h.clientGone = FALSE /\ h.streamed = 0
      <4>1. "plan" \in Places /\ kind \in Kinds /\ e \in All \cup {None} /\ s \in Slots \cup {None}
        BY DEF Places, Kinds, All
      <4> QED BY <4>1, FreshType DEF Handler
    <3> QED BY <2>2, <3>1
  <2> QED BY <2>1, <2>2 DEF Prepare
<1>2. /\ chat' \in [Reqs -> Handler] /\ chat'[r] = h
      /\ \A q \in Reqs : q # r => chat'[q] = chat[q]
  BY <1>1 DEF TypeOK
<1>3. /\ chat[r].at = "new" /\ ~chat[r].claimed /\ UNCHANGED <<wire, gone, deaf, claims, known>>
      /\ gate' = [gate EXCEPT ![ConvOf[r]] = @ + 1]
  BY DEF Prepare, Local, Unclaimed
<1>4. Own(r)
  BY <1>2, <1>3 DEF Own, TypeOK
<1>5. GateStep(r) /\ ClaimStep(r)
  BY <1>1, <1>2, <1>3 DEF GateStep, ClaimStep, Holds
<1>6. Local(r)'
  BY <1>1, <1>2, <1>3 DEF Local, Told, Unwound, Early
<1> QED BY <1>3, <1>4, <1>5, <1>6 DEF Step

\* A handler that moves on and keeps what it holds.
Keeps(r, place) ==
  /\ chat' \in [Reqs -> Handler]
  /\ \A q \in Reqs : q # r => chat'[q] = chat[q]
  /\ chat'[r].at = place
  /\ chat'[r].claimed = chat[r].claimed
  /\ chat[r].claimed => chat'[r].engine = chat[r].engine
  /\ chat'[r].finished = chat[r].finished
  /\ chat'[r].clientGone = chat[r].clientGone \/ r \in gone
  /\ place \in Early => chat'[r].streamed = chat[r].streamed

\* Such a step disturbs neither count.
LEMMA KeepsStep ==
  ASSUME TypeOK, NEW r \in Reqs, Local(r), NEW place,
         place \in {"picked", "template", "pass", "post", "read", "write", "close", "call",
                    "settle", "unwind"},
         Keeps(r, place), chat[r].at \notin {"new", "unwind", "return", "over"},
         UNCHANGED <<gone, gate, claims, known>>, deaf' \subseteq Reqs,
         wire' \in [Reqs -> Wire], \A q \in Reqs : q # r => wire'[q] = wire[q],
         place = "settle" => ~chat[r].claimed,
         place = "unwind" => wire'[r].status \notin {0, 200},
         place \in {"read", "write", "close"} =>
           wire'[r].status = chat'[r].status /\ chat'[r].status # 0,
         place \in {"read", "close"} =>
           chat'[r].streamed = 0 \/ wire'[r].bytes \/ chat'[r].clientGone,
         place \in Early => chat[r].at \in Early
  PROVE  Step(r)
<1>1. Own(r)
  BY DEF Keeps, Own, TypeOK
<1>2. GateStep(r) /\ ClaimStep(r)
  BY DEF Keeps, GateStep, ClaimStep, Holds
<1>3. Local(r)'
  BY DEF Keeps, Local, Told, Unwound, Unclaimed, Early
<1> QED BY <1>1, <1>2, <1>3 DEF Step

\* The small call goes on unclaimed.
LEMMA ToPrefillStep ==
  ASSUME TypeOK, NEW r \in Reqs, Local(r), ToPrefill(r)
  PROVE  Step(r)
<1>1. PICK place \in {"call", "picked"} :
        chat' = [chat EXCEPT ![r] = [chat[r] EXCEPT !.at = place, !.engine = PrefillE]]
  <2> DEFINE p == IF chat[r].kind = "json" THEN "call" ELSE "picked"
  <2>1. chat' = [chat EXCEPT ![r] = [chat[r] EXCEPT !.at = p, !.engine = PrefillE]]
    BY Zenon DEF ToPrefill, TypeOK
  <2>2. p \in {"call", "picked"}
    OBVIOUS
  <2> HIDE DEF p
  <2> QED BY <2>1, <2>2
<1>2. chat[r].at = "plan" /\ ~chat[r].claimed /\ UNCHANGED <<wire, gone, deaf, gate, claims, known>>
  BY DEF ToPrefill, Local, Unclaimed
<1>3. Keeps(r, place)
  <2> DEFINE h == [chat[r] EXCEPT !.at = place, !.engine = PrefillE]
  <2>1. chat[r] \in Handler /\ place \in Places /\ PrefillE \in All \cup {None}
    BY <1>2 DEF TypeOK, Places, All
  <2>2. /\ h \in Handler /\ h.at = place /\ h.claimed = chat[r].claimed
        /\ h.finished = chat[r].finished /\ h.clientGone = chat[r].clientGone
        /\ h.streamed = chat[r].streamed
    BY <2>1 DEF Handler
  <2>3. chat' = [chat EXCEPT ![r] = h]
    BY <1>1
  <2> HIDE DEF h
  <2> QED BY <1>2, <2>2, <2>3 DEF Keeps, TypeOK
<1> QED BY <1>2, <1>3, KeepsStep DEF TypeOK, Early

\* A stream that cannot start is answered.
LEMMA BailStep ==
  ASSUME TypeOK, NEW r \in Reqs, Local(r), Bail(r)
  PROVE  Step(r)
<1>1. chat' = [chat EXCEPT ![r] = [chat[r] EXCEPT !.at = "unwind"]]
  BY Zenon DEF Bail, TypeOK
<1>2. chat[r].at \in {"plan", "picked", "post"} /\ UNCHANGED <<gone, deaf, gate, claims, known>>
  BY DEF Bail, At
<1>3. Keeps(r, "unwind")
  <2> DEFINE h == [chat[r] EXCEPT !.at = "unwind"]
  <2>1. chat[r] \in Handler /\ "unwind" \in Places
    BY DEF TypeOK, Places
  <2>2. /\ h \in Handler /\ h.at = "unwind" /\ h.claimed = chat[r].claimed
        /\ h.finished = chat[r].finished /\ h.clientGone = chat[r].clientGone
        /\ h.streamed = chat[r].streamed
        /\ h.engine = chat[r].engine
    BY <2>1 DEF Handler
  <2>3. chat' = [chat EXCEPT ![r] = h]
    BY <1>1
  <2> HIDE DEF h
  <2> QED BY <1>2, <2>2, <2>3 DEF Keeps, TypeOK
<1>4. Answered(r, 500)
  <2>1. Answer(r, 500) /\ 500 \in Codes /\ wire \in [Reqs -> Wire]
    BY DEF Bail, Codes, TypeOK
  <2> QED BY <2>1, AnswerDoes
<1>5. /\ wire' \in [Reqs -> Wire] /\ \A q \in Reqs : q # r => wire'[q] = wire[q]
      /\ wire'[r].status \notin {0, 200}
  BY <1>4 DEF Answered
<1> QED BY <1>2, <1>3, <1>5, KeepsStep DEF Early, TypeOK

\* The pass of a user turn comes before its request.
LEMMA CheckpointStep ==
  ASSUME TypeOK, NEW r \in Reqs, Local(r), Checkpoint(r)
  PROVE  Step(r)
<1>1. PICK place \in {"template", "post"} :
        chat' = [chat EXCEPT ![r] = [chat[r] EXCEPT !.at = place, !.user = FALSE]]
  <2> DEFINE p == IF chat[r].user /\ ~chat[r].handoff THEN "template" ELSE "post"
  <2>1. chat' = [chat EXCEPT ![r] = [chat[r] EXCEPT !.at = p, !.user = FALSE]]
    BY Zenon DEF Checkpoint, TypeOK
  <2>2. p \in {"template", "post"}
    OBVIOUS
  <2> HIDE DEF p
  <2> QED BY <2>1, <2>2
<1>2. chat[r].at = "picked" /\ UNCHANGED <<wire, gone, deaf, gate, claims, known>>
  BY DEF Checkpoint, At
<1>3. Keeps(r, place)
  <2> DEFINE h == [chat[r] EXCEPT !.at = place, !.user = FALSE]
  <2>1. chat[r] \in Handler /\ place \in Places
    BY <1>2 DEF TypeOK, Places
  <2>2. /\ h \in Handler /\ h.at = place /\ h.claimed = chat[r].claimed
        /\ h.finished = chat[r].finished /\ h.clientGone = chat[r].clientGone
        /\ h.streamed = chat[r].streamed
        /\ h.engine = chat[r].engine
    BY <2>1 DEF Handler
  <2>3. chat' = [chat EXCEPT ![r] = h]
    BY <1>1
  <2> HIDE DEF h
  <2> QED BY <1>2, <2>2, <2>3 DEF Keeps, TypeOK
<1> QED BY <1>2, <1>3, KeepsStep DEF TypeOK, Early

\* The template leaves what the request holds,
LEMMA TemplateOkStep ==
  ASSUME TypeOK, NEW r \in Reqs, Local(r), TemplateOk(r)
  PROVE  Step(r)
<1>1. chat' = [chat EXCEPT ![r] = [chat[r] EXCEPT !.at = "pass"]]
  BY Zenon DEF TemplateOk, TypeOK
<1>2. chat[r].at = "template" /\ UNCHANGED <<wire, gone, deaf, gate, claims, known>>
  BY DEF TemplateOk, At
<1>3. Keeps(r, "pass")
  <2> DEFINE h == [chat[r] EXCEPT !.at = "pass"]
  <2>1. chat[r] \in Handler /\ "pass" \in Places
    BY <1>2 DEF TypeOK, Places
  <2>2. /\ h \in Handler /\ h.at = "pass" /\ h.claimed = chat[r].claimed
        /\ h.finished = chat[r].finished /\ h.clientGone = chat[r].clientGone
        /\ h.streamed = chat[r].streamed
        /\ h.engine = chat[r].engine
    BY <2>1 DEF Handler
  <2>3. chat' = [chat EXCEPT ![r] = h]
    BY <1>1
  <2> HIDE DEF h
  <2> QED BY <1>2, <2>2, <2>3 DEF Keeps, TypeOK
<1> QED BY <1>2, <1>3, KeepsStep DEF TypeOK, Early

\* and so does the pass,
LEMMA PassOkStep ==
  ASSUME TypeOK, NEW r \in Reqs, Local(r), NEW s \in Slots, PassOk(r, s)
  PROVE  Step(r)
<1>1. chat' = [chat EXCEPT ![r] = [chat[r] EXCEPT !.at = "post", !.pin = s]]
  BY Zenon DEF PassOk, TypeOK
<1>2. chat[r].at = "pass" /\ UNCHANGED <<wire, gone, deaf, gate, claims, known>>
  BY DEF PassOk, At
<1>3. Keeps(r, "post")
  <2> DEFINE h == [chat[r] EXCEPT !.at = "post", !.pin = s]
  <2>1. chat[r] \in Handler /\ "post" \in Places /\ s \in Slots \cup {None}
    BY <1>2 DEF TypeOK, Places
  <2>2. /\ h \in Handler /\ h.at = "post" /\ h.claimed = chat[r].claimed
        /\ h.finished = chat[r].finished /\ h.clientGone = chat[r].clientGone
        /\ h.streamed = chat[r].streamed
        /\ h.engine = chat[r].engine
    BY <2>1 DEF Handler
  <2>3. chat' = [chat EXCEPT ![r] = h]
    BY <1>1
  <2> HIDE DEF h
  <2> QED BY <1>2, <2>2, <2>3 DEF Keeps, TypeOK
<1> QED BY <1>2, <1>3, KeepsStep DEF TypeOK, Early

\* whether it runs or fails.
LEMMA CheckpointFailsStep ==
  ASSUME TypeOK, NEW r \in Reqs, Local(r), CheckpointFails(r)
  PROVE  Step(r)
<1>1. chat' = [chat EXCEPT ![r] = [chat[r] EXCEPT !.at = "post"]]
  BY Zenon DEF CheckpointFails, TypeOK
<1>2. chat[r].at \in {"template", "pass"} /\ UNCHANGED <<wire, gone, deaf, gate, claims, known>>
  BY DEF CheckpointFails, At
<1>3. Keeps(r, "post")
  <2> DEFINE h == [chat[r] EXCEPT !.at = "post"]
  <2>1. chat[r] \in Handler /\ "post" \in Places
    BY <1>2 DEF TypeOK, Places
  <2>2. /\ h \in Handler /\ h.at = "post" /\ h.claimed = chat[r].claimed
        /\ h.finished = chat[r].finished /\ h.clientGone = chat[r].clientGone
        /\ h.streamed = chat[r].streamed
        /\ h.engine = chat[r].engine
    BY <2>1 DEF Handler
  <2>3. chat' = [chat EXCEPT ![r] = h]
    BY <1>1
  <2> HIDE DEF h
  <2> QED BY <1>2, <2>2, <2>3 DEF Keeps, TypeOK
<1> QED BY <1>2, <1>3, KeepsStep DEF TypeOK, Early

\* An engine that does not answer is reported.
LEMMA NoHeadersStep ==
  ASSUME TypeOK, NEW r \in Reqs, Local(r), NoHeaders(r)
  PROVE  Step(r)
<1>1. chat' = [chat EXCEPT ![r] = [chat[r] EXCEPT !.at = "unwind"]]
  BY Zenon DEF NoHeaders, TypeOK
<1>2. chat[r].at = "post" /\ UNCHANGED <<gone, deaf, gate, claims, known>>
  BY DEF NoHeaders, At
<1>3. Keeps(r, "unwind")
  <2> DEFINE h == [chat[r] EXCEPT !.at = "unwind"]
  <2>1. chat[r] \in Handler /\ "unwind" \in Places
    BY <1>2 DEF TypeOK, Places
  <2>2. /\ h \in Handler /\ h.at = "unwind" /\ h.claimed = chat[r].claimed
        /\ h.finished = chat[r].finished /\ h.clientGone = chat[r].clientGone
        /\ h.streamed = chat[r].streamed
        /\ h.engine = chat[r].engine
    BY <2>1 DEF Handler
  <2>3. chat' = [chat EXCEPT ![r] = h]
    BY <1>1
  <2> HIDE DEF h
  <2> QED BY <1>2, <2>2, <2>3 DEF Keeps, TypeOK
<1>4. Answered(r, 502)
  <2>1. Answer(r, 502) /\ 502 \in Codes /\ wire \in [Reqs -> Wire]
    BY DEF NoHeaders, Codes, TypeOK
  <2> QED BY <2>1, AnswerDoes
<1>5. /\ wire' \in [Reqs -> Wire] /\ \A q \in Reqs : q # r => wire'[q] = wire[q]
      /\ wire'[r].status \notin {0, 200}
  BY <1>4 DEF Answered
<1> QED BY <1>2, <1>3, <1>5, KeepsStep DEF Early, TypeOK

\* The engine takes a call.
LEMMA CallStep ==
  ASSUME TypeOK, NEW r \in Reqs, Local(r), NEW s \in Slots, Call(r, s)
  PROVE  Step(r)
<1>1. chat' = [chat EXCEPT ![r] = [chat[r] EXCEPT !.slot = s]]
  BY Zenon DEF Call, TypeOK
<1>2. chat[r].at = "call" /\ UNCHANGED <<wire, gone, deaf, gate, claims, known>>
  BY DEF Call, At
<1>3. Keeps(r, "call")
  <2> DEFINE h == [chat[r] EXCEPT !.slot = s]
  <2>1. chat[r] \in Handler /\ s \in Slots \cup {None}
    BY DEF TypeOK
  <2>2. /\ h \in Handler /\ h.at = chat[r].at /\ h.claimed = chat[r].claimed
        /\ h.finished = chat[r].finished /\ h.clientGone = chat[r].clientGone
        /\ h.engine = chat[r].engine
    BY <2>1 DEF Handler
  <2>3. chat' = [chat EXCEPT ![r] = h]
    BY <1>1
  <2> HIDE DEF h
  <2> QED BY <1>2, <2>2, <2>3 DEF Keeps, TypeOK, Early
<1> QED BY <1>2, <1>3, KeepsStep DEF TypeOK, Early

\* The engine's status is the one on the wire, and nothing has been read yet.
LEMMA HeadersStep ==
  ASSUME TypeOK, NEW r \in Reqs, Local(r), NEW s \in Slots, NEW status \in Statuses,
         status # 0, Headers(r, s, status)
  PROVE  Step(r)
<1>1. chat \in [Reqs -> Handler]
  BY DEF TypeOK
<1>2. wire' = [wire EXCEPT ![r] = [wire[r] EXCEPT !.status = status]]
  BY Zenon DEF Headers, TypeOK
<1>3. chat' = [chat EXCEPT ![r] = [chat[r] EXCEPT !.at = "read", !.slot = s, !.status = status]]
  BY <1>1, Zenon DEF Headers
<1>4. chat[r].at = "post" /\ UNCHANGED <<gone, deaf, gate, claims, known>>
  BY DEF Headers, At
<1>5. Keeps(r, "read") /\ chat'[r].status = status /\ chat'[r].streamed = 0
  <2> DEFINE h == [chat[r] EXCEPT !.at = "read", !.slot = s, !.status = status]
  <2>1. /\ chat[r] \in Handler /\ "read" \in Places /\ s \in Slots \cup {None}

    BY DEF TypeOK, Places
  <2>2. /\ h \in Handler /\ h.at = "read" /\ h.claimed = chat[r].claimed
        /\ h.finished = chat[r].finished /\ h.clientGone = chat[r].clientGone
        /\ h.engine = chat[r].engine /\ h.streamed = chat[r].streamed /\ h.status = status
    BY <2>1 DEF Handler
  <2>3. chat' = [chat EXCEPT ![r] = h]
    BY <1>3
  <2>4. chat[r].streamed = 0
    BY <1>4 DEF Local, Early
  <2> HIDE DEF h
  <2> QED BY <1>4, <2>2, <2>3, <2>4 DEF Keeps, TypeOK
<1>6. /\ wire' \in [Reqs -> Wire] /\ \A q \in Reqs : q # r => wire'[q] = wire[q]
      /\ wire'[r].status = status
  <2> DEFINE u == [wire[r] EXCEPT !.status = status]
  <2>1. wire[r] \in Wire /\ status \in Codes
    BY DEF TypeOK, Codes, Statuses
  <2>2. u \in Wire /\ u.status = status
    BY <2>1 DEF Wire
  <2>3. wire' = [wire EXCEPT ![r] = u]
    BY <1>2
  <2> HIDE DEF u
  <2> QED BY <2>2, <2>3 DEF TypeOK
<1> QED BY <1>4, <1>5, <1>6, KeepsStep DEF Early, TypeOK

\* A chunk that was read is on the wire, or the client has gone.
LEMMA ChunkStep ==
  ASSUME TypeOK, NEW r \in Reqs, Local(r), NEW final \in BOOLEAN, Chunk(r, final)
  PROVE  Step(r)
<1>1. /\ chat[r].at = "read" /\ UNCHANGED <<gone, deaf, gate, claims, known>>
      /\ wire[r].status = chat[r].status /\ chat[r].status # 0
  BY DEF Chunk, At, Local
<1>2. chat[r] \in Handler /\ wire[r] \in Wire
  BY DEF TypeOK
<1>3. PICK n \in Reads : n = chat[r].streamed + 1
  <2>1. chat[r].streamed \in Reads /\ chat[r].streamed < MaxChunks + (IF final THEN 1 ELSE 0)
    BY <1>2 DEF Chunk, Handler
  <2>2. chat[r].streamed + 1 \in Reads
    BY <2>1, ChatAssumption DEF Reads
  <2> QED BY <2>2
<1>4. CASE /\ chat' = [chat EXCEPT ![r].streamed = @ + 1, ![r].tail = final]
           /\ wire' = [wire EXCEPT ![r].bytes = TRUE]
  <2>1. /\ chat' = [chat EXCEPT ![r] = [chat[r] EXCEPT !.streamed = chat[r].streamed + 1,
                                                       !.tail = final]]
        /\ wire' = [wire EXCEPT ![r] = [wire[r] EXCEPT !.bytes = TRUE]]
    BY <1>4, Zenon DEF TypeOK
  <2>2. Keeps(r, "read") /\ chat'[r].status = chat[r].status
    <3> DEFINE h == [chat[r] EXCEPT !.streamed = n, !.tail = final]
    <3>1. /\ h \in Handler /\ h.at = chat[r].at /\ h.claimed = chat[r].claimed
          /\ h.finished = chat[r].finished /\ h.clientGone = chat[r].clientGone
          /\ h.engine = chat[r].engine /\ h.status = chat[r].status
      BY <1>2 DEF Handler
    <3>2. chat' = [chat EXCEPT ![r] = h]
      BY <1>3, <2>1
    <3> HIDE DEF h
    <3> QED BY <1>1, <3>1, <3>2 DEF Keeps, TypeOK, Early
  <2>3. /\ wire' \in [Reqs -> Wire] /\ \A q \in Reqs : q # r => wire'[q] = wire[q]
        /\ wire'[r].status = wire[r].status /\ wire'[r].bytes = TRUE
    <3> DEFINE u == [wire[r] EXCEPT !.bytes = TRUE]
    <3>1. u \in Wire /\ u.status = wire[r].status /\ u.bytes = TRUE
      BY <1>2 DEF Wire
    <3>2. wire' = [wire EXCEPT ![r] = u]
      BY <2>1
    <3> HIDE DEF u
    <3> QED BY <3>1, <3>2 DEF TypeOK
  <2> QED BY <1>1, <2>2, <2>3, KeepsStep DEF Early, TypeOK
<1>5. CASE /\ r \in gone /\ wire' = wire
           /\ chat' = [chat EXCEPT ![r].at = "close", ![r].streamed = @ + 1,
                                   ![r].clientGone = TRUE]
  <2>1. chat' = [chat EXCEPT ![r] = [chat[r] EXCEPT !.at = "close",
                   !.streamed = chat[r].streamed + 1, !.clientGone = TRUE]]
    BY <1>5, Zenon DEF TypeOK
  <2>2. Keeps(r, "close") /\ chat'[r].status = chat[r].status /\ chat'[r].clientGone = TRUE
    <3> DEFINE h == [chat[r] EXCEPT !.at = "close", !.streamed = n, !.clientGone = TRUE]
    <3>1. "close" \in Places
      BY DEF Places
    <3>2. /\ h \in Handler /\ h.at = "close" /\ h.claimed = chat[r].claimed
          /\ h.finished = chat[r].finished /\ h.clientGone = TRUE
          /\ h.engine = chat[r].engine /\ h.status = chat[r].status
      BY <1>2, <3>1 DEF Handler
    <3>3. chat' = [chat EXCEPT ![r] = h]
      BY <1>3, <2>1
    <3> HIDE DEF h
    <3> QED BY <1>5, <3>2, <3>3 DEF Keeps, TypeOK, Early
  <2> QED BY <1>1, <1>5, <2>2, KeepsStep DEF TypeOK, Early
<1>6. CASE /\ r \in deaf /\ wire' = wire
           /\ chat' = [chat EXCEPT ![r].at = "write", ![r].streamed = @ + 1, ![r].tail = final]
  <2>1. chat' = [chat EXCEPT ![r] = [chat[r] EXCEPT !.at = "write",
                   !.streamed = chat[r].streamed + 1, !.tail = final]]
    BY <1>6, Zenon DEF TypeOK
  <2>2. Keeps(r, "write") /\ chat'[r].status = chat[r].status
    <3> DEFINE h == [chat[r] EXCEPT !.at = "write", !.streamed = n, !.tail = final]
    <3>1. "write" \in Places
      BY DEF Places
    <3>2. /\ h \in Handler /\ h.at = "write" /\ h.claimed = chat[r].claimed
          /\ h.finished = chat[r].finished /\ h.clientGone = chat[r].clientGone
          /\ h.engine = chat[r].engine /\ h.status = chat[r].status
      BY <1>2, <3>1 DEF Handler
    <3>3. chat' = [chat EXCEPT ![r] = h]
      BY <1>3, <2>1
    <3> HIDE DEF h
    <3> QED BY <3>2, <3>3 DEF Keeps, TypeOK, Early
  <2> QED BY <1>1, <1>6, <2>2, KeepsStep DEF TypeOK, Early
<1> QED BY <1>4, <1>5, <1>6 DEF Chunk

\* A write that fails tells that the client has gone.
LEMMA WriteFailsStep ==
  ASSUME TypeOK, NEW r \in Reqs, Local(r), WriteFails(r)
  PROVE  Step(r)
<1>1. /\ chat' = [chat EXCEPT ![r] = [chat[r] EXCEPT !.at = "close", !.clientGone = TRUE]]
      /\ r \in gone
  BY Zenon DEF WriteFails, TypeOK
<1>2. chat[r].at = "write" /\ UNCHANGED <<wire, gone, deaf, gate, claims, known>>
  BY DEF WriteFails, At
<1>3. Keeps(r, "close") /\ chat'[r].status = chat[r].status /\ chat'[r].clientGone = TRUE
  <2> DEFINE h == [chat[r] EXCEPT !.at = "close", !.clientGone = TRUE]
  <2>1. chat[r] \in Handler /\ "close" \in Places
    BY DEF TypeOK, Places
  <2>2. /\ h \in Handler /\ h.at = "close" /\ h.claimed = chat[r].claimed
        /\ h.finished = chat[r].finished /\ h.clientGone = TRUE
        /\ h.engine = chat[r].engine /\ h.status = chat[r].status
    BY <2>1 DEF Handler
  <2>3. chat' = [chat EXCEPT ![r] = h]
    BY <1>1
  <2> HIDE DEF h
  <2> QED BY <1>1, <1>2, <2>2, <2>3 DEF Keeps, TypeOK, Early
<1>4. wire'[r].status = chat'[r].status /\ chat'[r].status # 0
  BY <1>2, <1>3 DEF Local
<1> QED BY <1>2, <1>3, <1>4, KeepsStep DEF TypeOK, Early

\* A client that reads again lets the write that waits go through.
LEMMA ReadAgainStep ==
  ASSUME TypeOK, NEW r \in Reqs, Local(r), ReadAgain(r)
  PROVE  Step(r)
<1>1. UNCHANGED <<gone, gate, claims, known>> /\ deaf' \subseteq Reqs
  BY DEF ReadAgain, TypeOK
<1>2. CASE chat[r].at # "write"
  <2>1. UNCHANGED <<chat, wire>>
    BY <1>2 DEF ReadAgain
  <2>2. Own(r) /\ GateStep(r) /\ ClaimStep(r)
    BY <1>1, <2>1 DEF Own, GateStep, ClaimStep, Holds, TypeOK
  <2>3. Local(r)'
    BY <1>1, <2>1 DEF Local, Told
  <2> QED BY <1>1, <2>2, <2>3 DEF Step
<1>3. CASE chat[r].at = "write"
  <2>1. /\ chat' = [chat EXCEPT ![r] = [chat[r] EXCEPT !.at = "read"]]
        /\ wire' = [wire EXCEPT ![r] = [wire[r] EXCEPT !.bytes = TRUE]]
    BY <1>3, Zenon DEF ReadAgain, TypeOK
  <2>2. Keeps(r, "read") /\ chat'[r].status = chat[r].status
    <3> DEFINE h == [chat[r] EXCEPT !.at = "read"]
    <3>1. chat[r] \in Handler /\ "read" \in Places
      BY DEF TypeOK, Places
    <3>2. /\ h \in Handler /\ h.at = "read" /\ h.claimed = chat[r].claimed
          /\ h.finished = chat[r].finished /\ h.clientGone = chat[r].clientGone
          /\ h.engine = chat[r].engine /\ h.status = chat[r].status
      BY <3>1 DEF Handler
    <3>3. chat' = [chat EXCEPT ![r] = h]
      BY <2>1
    <3> HIDE DEF h
    <3> QED BY <3>2, <3>3 DEF Keeps, TypeOK, Early
  <2>3. /\ wire' \in [Reqs -> Wire] /\ \A q \in Reqs : q # r => wire'[q] = wire[q]
        /\ wire'[r].status = wire[r].status /\ wire'[r].bytes = TRUE
    <3> DEFINE u == [wire[r] EXCEPT !.bytes = TRUE]
    <3>1. u \in Wire /\ u.status = wire[r].status /\ u.bytes = TRUE
      BY DEF TypeOK, Wire
    <3>2. wire' = [wire EXCEPT ![r] = u]
      BY <2>1
    <3> HIDE DEF u
    <3> QED BY <3>1, <3>2 DEF TypeOK
  <2>4. wire[r].status = chat[r].status /\ chat[r].status # 0
    BY <1>3 DEF Local
  <2> QED BY <1>1, <1>3, <2>2, <2>3, <2>4, KeepsStep DEF Early
<1> QED BY <1>2, <1>3

\* The end of the stream changes nothing else.
LEMMA StreamEndsStep ==
  ASSUME TypeOK, NEW r \in Reqs, Local(r), StreamEnds(r)
  PROVE  Step(r)
<1>1. chat' = [chat EXCEPT ![r] = [chat[r] EXCEPT !.at = "close"]]
  BY Zenon DEF StreamEnds, TypeOK
<1>2. chat[r].at = "read" /\ UNCHANGED <<wire, gone, deaf, gate, claims, known>>
  BY DEF StreamEnds, At
<1>3. /\ Keeps(r, "close") /\ chat'[r].status = chat[r].status
      /\ chat'[r].streamed = chat[r].streamed /\ chat'[r].clientGone = chat[r].clientGone
  <2> DEFINE h == [chat[r] EXCEPT !.at = "close"]
  <2>1. chat[r] \in Handler /\ "close" \in Places
    BY DEF TypeOK, Places
  <2>2. /\ h \in Handler /\ h.at = "close" /\ h.claimed = chat[r].claimed
        /\ h.finished = chat[r].finished /\ h.clientGone = chat[r].clientGone
        /\ h.engine = chat[r].engine /\ h.streamed = chat[r].streamed
        /\ h.status = chat[r].status
    BY <2>1 DEF Handler
  <2>3. chat' = [chat EXCEPT ![r] = h]
    BY <1>1
  <2> HIDE DEF h
  <2> QED BY <1>2, <2>2, <2>3 DEF Keeps, TypeOK
<1>4. /\ wire'[r].status = chat'[r].status /\ chat'[r].status # 0
      /\ chat'[r].streamed = 0 \/ wire'[r].bytes \/ chat'[r].clientGone
  BY <1>2, <1>3 DEF Local
<1> QED BY <1>2, <1>3, <1>4, KeepsStep DEF TypeOK, Early

\* pickDecode claims the engine the request goes to.
LEMMA PickStep ==
  ASSUME TypeOK, NEW r \in Reqs, Local(r), NEW e \in Engines, Pick(r, e)
  PROVE  Step(r)
<1>1. PICK place \in {"call", "picked"} :
        chat' = [chat EXCEPT ![r] = [chat[r] EXCEPT !.at = place, !.engine = e,
                                                    !.claimed = TRUE]]
  <2> DEFINE p == IF chat[r].kind = "json" THEN "call" ELSE "picked"
  <2>1. chat' = [chat EXCEPT ![r] = [chat[r] EXCEPT !.at = p, !.engine = e, !.claimed = TRUE]]
    BY Zenon DEF Pick, TypeOK
  <2>2. p \in {"call", "picked"}
    OBVIOUS
  <2> HIDE DEF p
  <2> QED BY <2>1, <2>2
<1>2. /\ chat[r].at = "plan" /\ ~chat[r].claimed /\ ~chat[r].finished
      /\ UNCHANGED <<wire, gone, deaf, gate, known>> /\ claims' = [claims EXCEPT ![e] = @ + 1]
  BY DEF Pick, Local, Unclaimed, Unwound
<1>3. /\ chat' \in [Reqs -> Handler] /\ \A q \in Reqs : q # r => chat'[q] = chat[q]
      /\ chat'[r].at = place /\ chat'[r].claimed = TRUE /\ chat'[r].engine = e
      /\ chat'[r].finished = chat[r].finished /\ chat'[r].clientGone = chat[r].clientGone
      /\ chat'[r].streamed = chat[r].streamed
  <2> DEFINE h == [chat[r] EXCEPT !.at = place, !.engine = e, !.claimed = TRUE]
  <2>1. chat[r] \in Handler /\ place \in Places /\ e \in All \cup {None}
    BY DEF TypeOK, Places, All
  <2>2. /\ h \in Handler /\ h.at = place /\ h.claimed = TRUE /\ h.engine = e
        /\ h.finished = chat[r].finished /\ h.clientGone = chat[r].clientGone
        /\ h.streamed = chat[r].streamed
    BY <2>1 DEF Handler
  <2>3. chat' = [chat EXCEPT ![r] = h]
    BY <1>1
  <2> HIDE DEF h
  <2> QED BY <2>2, <2>3 DEF TypeOK
<1>4. Own(r)
  BY <1>2, <1>3 DEF Own, TypeOK
<1>5. GateStep(r)
  BY <1>2, <1>3 DEF GateStep, Holds
<1>6. ClaimStep(r)
  BY <1>2, <1>3 DEF ClaimStep
<1>7. Local(r)'
  BY <1>2, <1>3 DEF Local, Told, Unwound, Unclaimed, Early
<1> QED BY <1>2, <1>4, <1>5, <1>6, <1>7 DEF Step

\* A refused request goes to the end of Chat, or is answered and gives its gate back.
LEMMA PickRefusedStep ==
  ASSUME TypeOK, NEW r \in Reqs, Local(r), PickRefused(r)
  PROVE  Step(r)
<1>1. chat[r] \in Handler /\ None \in All \cup {None} /\ "settle" \in Places /\ "unwind" \in Places
  BY DEF TypeOK, Places
<1>2. chat[r].at = "plan" /\ ~chat[r].claimed /\ ~chat[r].finished /\ UNCHANGED <<gone, deaf, claims>>
  BY DEF PickRefused, Local, Unclaimed, Unwound
<1>3. CASE chat[r].kind = "json"
  <2>1. chat' = [chat EXCEPT ![r] = [chat[r] EXCEPT !.at = "settle", !.engine = None]]
    BY <1>3, Zenon DEF PickRefused, TypeOK
  <2>2. UNCHANGED <<wire, gate, known>>
    BY <1>3 DEF PickRefused
  <2>3. Keeps(r, "settle")
    <3> DEFINE h == [chat[r] EXCEPT !.at = "settle", !.engine = None]
    <3>1. /\ h \in Handler /\ h.at = "settle" /\ h.claimed = chat[r].claimed
          /\ h.finished = chat[r].finished /\ h.clientGone = chat[r].clientGone
      BY <1>1 DEF Handler
    <3>2. chat' = [chat EXCEPT ![r] = h]
      BY <2>1
    <3> HIDE DEF h
    <3> QED BY <1>2, <3>1, <3>2 DEF Keeps, TypeOK, Early
  <2> QED BY <1>2, <2>2, <2>3, KeepsStep DEF TypeOK, Early
<1>4. CASE chat[r].kind # "json"
  <2>1. chat' = [chat EXCEPT ![r] = [chat[r] EXCEPT !.at = "unwind", !.engine = None,
                                                    !.finished = TRUE]]
    BY <1>4, Zenon DEF PickRefused, TypeOK
  <2>2. Answered(r, 503)
    <3>1. Answer(r, 503) /\ 503 \in Codes /\ wire \in [Reqs -> Wire]
      BY <1>4 DEF PickRefused, Codes, TypeOK
    <3> QED BY <3>1, AnswerDoes
  <2>3. gate' = [gate EXCEPT ![ConvOf[r]] = @ - 1] /\ known' \subseteq Reqs
    BY <1>2, <1>4 DEF PickRefused, Release, Learn, TypeOK
  <2>4. /\ chat' \in [Reqs -> Handler] /\ \A q \in Reqs : q # r => chat'[q] = chat[q]
        /\ chat'[r].at = "unwind" /\ chat'[r].claimed = chat[r].claimed
        /\ chat'[r].finished = TRUE /\ chat'[r].clientGone = chat[r].clientGone
    <3> DEFINE h == [chat[r] EXCEPT !.at = "unwind", !.engine = None, !.finished = TRUE]
    <3>1. /\ h \in Handler /\ h.at = "unwind" /\ h.claimed = chat[r].claimed
          /\ h.finished = TRUE /\ h.clientGone = chat[r].clientGone
      BY <1>1 DEF Handler
    <3>2. chat' = [chat EXCEPT ![r] = h]
      BY <2>1
    <3> HIDE DEF h
    <3> QED BY <3>1, <3>2 DEF TypeOK
  <2>5. Own(r)
    BY <2>2, <2>3, <2>4 DEF Own, Answered, PickRefused, TypeOK
  <2>6. GateStep(r) /\ ClaimStep(r)
    BY <1>2, <2>3, <2>4 DEF GateStep, ClaimStep, Holds
  <2>7. Local(r)'
    BY <1>2, <2>2, <2>4 DEF Local, Told, Unwound, Unclaimed, Early, Answered
  <2> QED BY <1>2, <2>5, <2>6, <2>7 DEF Step
<1> QED BY <1>3, <1>4

\* What the end of a call writes to the handler.
LEMMA CallEndsShape ==
  ASSUME chat \in [Reqs -> Handler], NEW r \in Reqs, NEW status, CallEnds(r, status)
  PROVE  chat' = [chat EXCEPT ![r] = [chat[r] EXCEPT !.at = "settle", !.status = status,
                                   !.claimed = FALSE, !.engine = None, !.slot = None]]
  BY Zenon DEF CallEnds

\* backendCall lets the claim go as it returns.
LEMMA CallEndsStep ==
  ASSUME TypeOK, NEW r \in Reqs, Local(r), NEW status \in {0, 200, 500}, CallEnds(r, status)
  PROVE  Step(r)
<1>1. chat' = [chat EXCEPT ![r] = [chat[r] EXCEPT !.at = "settle", !.status = status,
                                   !.claimed = FALSE, !.engine = None, !.slot = None]]
  BY CallEndsShape DEF TypeOK
<1>2. /\ chat[r].at = "call" /\ ~chat[r].finished /\ UNCHANGED <<wire, gone, deaf, gate, known>>
      /\ chat[r].claimed => chat[r].engine \in Engines
      /\ claims' = IF chat[r].claimed THEN [claims EXCEPT ![chat[r].engine] = @ - 1] ELSE claims
  BY DEF CallEnds, At, Local, Unwound
<1>3. /\ chat' \in [Reqs -> Handler] /\ \A q \in Reqs : q # r => chat'[q] = chat[q]
      /\ chat'[r].at = "settle" /\ chat'[r].claimed = FALSE
      /\ chat'[r].finished = chat[r].finished /\ chat'[r].clientGone = chat[r].clientGone
  <2> DEFINE h == [chat[r] EXCEPT !.at = "settle", !.status = status, !.claimed = FALSE,
                                  !.engine = None, !.slot = None]
  <2>1. /\ chat[r] \in Handler /\ "settle" \in Places /\ None \in All \cup {None}
        /\ None \in Slots \cup {None} /\ status \in Statuses
    BY DEF TypeOK, Places, Statuses
  <2>2. /\ h \in Handler /\ h.at = "settle" /\ h.claimed = FALSE
        /\ h.finished = chat[r].finished /\ h.clientGone = chat[r].clientGone
    BY <2>1 DEF Handler
  <2>3. chat' = [chat EXCEPT ![r] = h]
    BY <1>1
  <2> HIDE DEF h
  <2> QED BY <2>2, <2>3 DEF TypeOK
<1>4. Own(r)
  BY <1>2, <1>3 DEF Own, TypeOK
<1>5. GateStep(r) /\ ClaimStep(r)
  BY <1>2, <1>3 DEF GateStep, ClaimStep, Holds
<1>6. Local(r)'
  BY <1>2, <1>3 DEF Local, Told, Unwound, Unclaimed, Early
<1> QED BY <1>2, <1>4, <1>5, <1>6 DEF Step

\* Chat answers with the engine's status, or 502, and gives the gate back.
LEMMA SettleStep ==
  ASSUME TypeOK, NEW r \in Reqs, Local(r), Settle(r)
  PROVE  Step(r)
<1>1. /\ chat[r].at = "settle" /\ ~chat[r].claimed /\ ~chat[r].finished
      /\ UNCHANGED <<gone, deaf, claims>>
  BY DEF Settle, Local, Unclaimed, Unwound
<1>2. /\ chat' \in [Reqs -> Handler]
      /\ \A q \in Reqs : q # r => chat'[q] = chat[q]
      /\ chat'[r].at = "over" /\ chat'[r].finished = TRUE /\ chat'[r].clientGone = FALSE
      /\ chat'[r].status = chat[r].status /\ chat'[r].claimed = chat[r].claimed
  BY OverIs DEF Settle, TypeOK
<1>3. PICK code \in Codes : /\ Answered(r, code) /\ code # 0
                            /\ code = 200 => chat[r].status = 200
  <2> DEFINE c == IF chat[r].status = 0 THEN 502 ELSE chat[r].status
  <2>1. chat[r].status \in Statuses /\ wire \in [Reqs -> Wire]
    BY DEF TypeOK, Handler
  <2>2. c \in Codes /\ c # 0 /\ (c = 200 => chat[r].status = 200)
    BY <2>1 DEF Codes, Statuses
  <2>3. Answer(r, c)
    BY DEF Settle
  <2> HIDE DEF c
  <2>4. PICK code \in Codes : code = c
    BY <2>2
  <2>5. Answer(r, code)
    BY <2>3, <2>4
  <2>6. Answered(r, code)
    BY <2>1, <2>5, AnswerDoes
  <2> QED BY <2>2, <2>4, <2>6
<1>4. gate' = [gate EXCEPT ![ConvOf[r]] = @ - 1] /\ known' \subseteq Reqs
  BY <1>1 DEF Settle, Release, TypeOK
<1>5. Own(r)
  BY <1>2, <1>3, <1>4 DEF Own, Answered, Settle, TypeOK
<1>6. GateStep(r) /\ ClaimStep(r)
  BY <1>1, <1>2, <1>4 DEF GateStep, ClaimStep, Holds
<1>7. Local(r)'
  BY <1>1, <1>2, <1>3 DEF Local, Told, Unwound, Unclaimed, Early, Answered
<1> QED BY <1>1, <1>5, <1>6, <1>7 DEF Step

\* The deferred end of a stream: an empty one gets the error event, and the gate goes
\* back unless it has gone already.
LEMMA CloseStep ==
  ASSUME TypeOK, NEW r \in Reqs, Local(r), Close(r)
  PROVE  Step(r)
<1>1. /\ chat[r].at = "close" /\ ~chat[r].finished /\ UNCHANGED <<gone, deaf, claims>>
      /\ wire[r].status = chat[r].status /\ chat[r].status # 0
      /\ chat[r].streamed = 0 \/ wire[r].bytes \/ chat[r].clientGone
      /\ chat[r].clientGone => r \in gone
  BY DEF Close, At, Local, Unwound
<1>2. chat' = [chat EXCEPT ![r] = [chat[r] EXCEPT !.at = "unwind", !.finished = TRUE,
                                                  !.slot = None]]
  BY Zenon DEF Close, TypeOK
<1>3. /\ chat' \in [Reqs -> Handler] /\ \A q \in Reqs : q # r => chat'[q] = chat[q]
      /\ chat'[r].at = "unwind" /\ chat'[r].claimed = chat[r].claimed
      /\ chat'[r].engine = chat[r].engine /\ chat'[r].status = chat[r].status
      /\ chat'[r].finished = TRUE /\ chat'[r].clientGone = chat[r].clientGone
  <2> DEFINE h == [chat[r] EXCEPT !.at = "unwind", !.finished = TRUE, !.slot = None]
  <2>1. chat[r] \in Handler /\ "unwind" \in Places /\ None \in Slots \cup {None}
    BY DEF TypeOK, Places
  <2>2. /\ h \in Handler /\ h.at = "unwind" /\ h.claimed = chat[r].claimed
        /\ h.engine = chat[r].engine /\ h.status = chat[r].status
        /\ h.finished = TRUE /\ h.clientGone = chat[r].clientGone
    BY <2>1 DEF Handler
  <2>3. chat' = [chat EXCEPT ![r] = h]
    BY <1>2
  <2> HIDE DEF h
  <2> QED BY <2>2, <2>3 DEF TypeOK
<1>4. gate' = [gate EXCEPT ![ConvOf[r]] = @ - 1] /\ known' \subseteq Reqs
  BY <1>1 DEF Close, Release, Learn, TypeOK
<1>5. /\ wire' \in [Reqs -> Wire] /\ \A q \in Reqs : q # r => wire'[q] = wire[q]
      /\ wire'[r].status = wire[r].status
      /\ r \notin gone => wire'[r].bytes \/ wire'[r].error
  <2>1. CASE chat[r].streamed = 0 /\ ~chat[r].clientGone
    <3>1. wire' = [wire EXCEPT ![r].error = TRUE]
      BY <2>1 DEF Close, Report
    <3>2. wire' = [wire EXCEPT ![r] = [wire[r] EXCEPT !.error = TRUE]]
      BY <3>1, Zenon DEF TypeOK
    <3> DEFINE u == [wire[r] EXCEPT !.error = TRUE]
    <3>3. wire[r] \in Wire
      BY DEF TypeOK
    <3>4. u \in Wire /\ u.status = wire[r].status /\ u.error = TRUE
      BY <3>3 DEF Wire
    <3>5. wire' = [wire EXCEPT ![r] = u]
      BY <3>2
    <3> HIDE DEF u
    <3> QED BY <3>4, <3>5 DEF TypeOK
  <2>2. CASE ~(chat[r].streamed = 0 /\ ~chat[r].clientGone)
    <3>1. wire' = wire
      BY <2>2 DEF Close, Report
    <3> QED BY <1>1, <2>2, <3>1 DEF TypeOK
  <2> QED BY <2>1, <2>2
<1>6. Own(r)
  BY <1>3, <1>4, <1>5 DEF Own, Close, TypeOK
<1>7. GateStep(r) /\ ClaimStep(r)
  BY <1>1, <1>3, <1>4 DEF GateStep, ClaimStep, Holds
<1>8. Local(r)'
  <2>1. chat[r].claimed => chat[r].engine \in Engines
    BY DEF Local
  <2> QED BY <1>1, <1>3, <1>5, <2>1 DEF Local, Told, Unwound, Unclaimed, Early
<1> QED BY <1>1, <1>6, <1>7, <1>8 DEF Step

\* doneNode, deferred: the claim goes, and what the client was told stays.
LEMMA DoneStep ==
  ASSUME TypeOK, NEW r \in Reqs, Local(r), Done(r)
  PROVE  Step(r)
<1>1. chat' = [chat EXCEPT ![r] = [chat[r] EXCEPT !.at = "return", !.claimed = FALSE,
                                                  !.engine = None]]
  BY Zenon DEF Done, TypeOK
<1>2. /\ chat[r].at = "unwind" /\ UNCHANGED <<wire, gone, deaf, gate, known>>
      /\ chat[r].claimed => chat[r].engine \in Engines
      /\ claims' = IF chat[r].claimed THEN [claims EXCEPT ![chat[r].engine] = @ - 1] ELSE claims
  BY DEF Done, At, Local
<1>3. /\ chat' \in [Reqs -> Handler] /\ \A q \in Reqs : q # r => chat'[q] = chat[q]
      /\ chat'[r].at = "return" /\ chat'[r].claimed = FALSE /\ chat'[r].status = chat[r].status
      /\ chat'[r].finished = chat[r].finished /\ chat'[r].clientGone = chat[r].clientGone
  <2> DEFINE h == [chat[r] EXCEPT !.at = "return", !.claimed = FALSE, !.engine = None]
  <2>1. chat[r] \in Handler /\ "return" \in Places /\ None \in All \cup {None}
    BY DEF TypeOK, Places
  <2>2. /\ h \in Handler /\ h.at = "return" /\ h.claimed = FALSE /\ h.status = chat[r].status
        /\ h.finished = chat[r].finished /\ h.clientGone = chat[r].clientGone
    BY <2>1 DEF Handler
  <2>3. chat' = [chat EXCEPT ![r] = h]
    BY <1>1
  <2> HIDE DEF h
  <2> QED BY <2>2, <2>3 DEF TypeOK
<1>4. Own(r)
  BY <1>2, <1>3 DEF Own, TypeOK
<1>5. GateStep(r) /\ ClaimStep(r)
  BY <1>2, <1>3 DEF GateStep, ClaimStep, Holds
<1>6. Local(r)'
  BY <1>2, <1>3 DEF Local, Told, Unwound, Unclaimed, Early
<1> QED BY <1>2, <1>4, <1>5, <1>6 DEF Step

\* The deferred finish: the gate goes back if no path has given it back before.
LEMMA ReturnStep ==
  ASSUME TypeOK, NEW r \in Reqs, Local(r), Return(r)
  PROVE  Step(r)
<1>1. chat[r].at = "return" /\ ~chat[r].claimed /\ UNCHANGED <<wire, gone, deaf, claims>>
  BY DEF Return, At, Local, Unclaimed
<1>2. /\ chat' \in [Reqs -> Handler]
      /\ \A q \in Reqs : q # r => chat'[q] = chat[q]
      /\ chat'[r].at = "over" /\ chat'[r].finished = TRUE /\ chat'[r].clientGone = FALSE
      /\ chat'[r].status = chat[r].status /\ chat'[r].claimed = chat[r].claimed
  BY OverIs DEF Return, TypeOK
<1>3. /\ known' \subseteq Reqs
      /\ gate' = IF chat[r].finished THEN gate ELSE [gate EXCEPT ![ConvOf[r]] = @ - 1]
  BY DEF Return, Release, Learn, TypeOK
<1>4. Own(r)
  BY <1>1, <1>2, <1>3 DEF Own, TypeOK
<1>5. GateStep(r) /\ ClaimStep(r)
  BY <1>1, <1>2, <1>3 DEF GateStep, ClaimStep, Holds
<1>6. Local(r)'
  BY <1>1, <1>2 DEF Local, Told, Unwound, Unclaimed, Early
<1> QED BY <1>1, <1>4, <1>5, <1>6 DEF Step

-----------------------------------------------------------------------------
(* The counts.                                                             *)

\* The gate of a conversation stays the number of its requests that hold it.
LEMMA GateCounts ==
  ASSUME TypeOK, NEW r \in Reqs, Own(r), GateStep(r), NEW c \in Convs,
         \A d \in Convs : gate[d] = Cardinality(Holding(d))
  PROVE  gate' \in [Convs -> Nat] /\ gate'[c] = Cardinality(Holding(c)')
<1>1. IsFiniteSet(Holding(c)) /\ IsFiniteSet(Holding(ConvOf[r])) /\ ConvOf[r] \in Convs
  <2>1. Holding(c) \subseteq Reqs /\ Holding(ConvOf[r]) \subseteq Reqs
    BY DEF Holding
  <2> QED BY <2>1, ChatAssumption, FS_Subset DEF Convs
<1>2. \A q \in Reqs : q # r => (Holds(q)' <=> Holds(q))
  BY DEF Own, Holds
<1>3. gate \in [Convs -> Nat] /\ gate[c] = Cardinality(Holding(c))
  BY DEF TypeOK
<1>4. CASE Holds(r)' = Holds(r) /\ gate' = gate
  <2>1. Holding(c)' = Holding(c)
    BY <1>2, <1>4 DEF Holding
  <2> QED BY <1>3, <1>4, <2>1
<1>5. CASE ~Holds(r) /\ Holds(r)' /\ gate' = [gate EXCEPT ![ConvOf[r]] = @ + 1]
  <2>1. gate' \in [Convs -> Nat]
    BY <1>1, <1>3, <1>5
  <2>2. CASE ConvOf[r] = c
    <3>1. Holding(c)' = Holding(c) \cup {r} /\ r \notin Holding(c)
      BY <1>2, <1>5, <2>2 DEF Holding
    <3>2. Cardinality(Holding(c)') = Cardinality(Holding(c)) + 1
      BY <1>1, <3>1, FS_AddElement
    <3> QED BY <1>3, <1>5, <2>1, <2>2, <3>2
  <2>3. CASE ConvOf[r] # c
    <3>1. Holding(c)' = Holding(c)
      BY <1>2, <2>3 DEF Holding
    <3> QED BY <1>3, <1>5, <2>1, <2>3, <3>1
  <2> QED BY <2>2, <2>3
<1>6. CASE Holds(r) /\ ~Holds(r)' /\ gate' = [gate EXCEPT ![ConvOf[r]] = @ - 1]
  <2>1. r \in Holding(ConvOf[r])
    BY <1>6 DEF Holding
  <2>2. gate[ConvOf[r]] \in Nat /\ gate[ConvOf[r]] # 0
    <3>1. Cardinality(Holding(ConvOf[r])) # 0
      BY <1>1, <2>1, FS_EmptySet
    <3> QED BY <1>1, <1>3, <3>1
  <2>3. gate' \in [Convs -> Nat]
    BY <1>1, <1>3, <1>6, <2>2
  <2>4. CASE ConvOf[r] = c
    <3>1. Holding(c)' = Holding(c) \ {r} /\ r \in Holding(c)
      BY <1>2, <1>6, <2>1, <2>4 DEF Holding
    <3>2. Cardinality(Holding(c)') = Cardinality(Holding(c)) - 1
      BY <1>1, <3>1, FS_RemoveElement
    <3> QED BY <1>3, <1>6, <2>3, <2>4, <3>2
  <2>5. CASE ConvOf[r] # c
    <3>1. Holding(c)' = Holding(c)
      BY <1>2, <2>5 DEF Holding
    <3> QED BY <1>3, <1>6, <2>3, <2>5, <3>1
  <2> QED BY <2>4, <2>5
<1> QED BY <1>4, <1>5, <1>6 DEF GateStep

\* The balancer's count of an engine stays the number of its claims.
LEMMA ClaimsCount ==
  ASSUME TypeOK, NEW r \in Reqs, Own(r), ClaimStep(r), NEW e \in Engines,
         \A d \in Engines : claims[d] = Cardinality(Claiming(d))
  PROVE  claims' \in [Engines -> Nat] /\ claims'[e] = Cardinality(Claiming(e)')
<1>1. \A d \in Engines : IsFiniteSet(Claiming(d))
  <2>1. \A d \in Engines : Claiming(d) \subseteq Reqs
    BY DEF Claiming
  <2> QED BY <2>1, ChatAssumption, FS_Subset
<1>2. \A q \in Reqs : q # r => chat'[q] = chat[q]
  BY DEF Own
<1>3. claims \in [Engines -> Nat] /\ claims[e] = Cardinality(Claiming(e))
  BY DEF TypeOK
<1>4. CASE /\ claims' = claims
           /\ \A d \in Engines : (chat'[r].claimed /\ chat'[r].engine = d)
                                   <=> (chat[r].claimed /\ chat[r].engine = d)
  <2>1. Claiming(e)' = Claiming(e)
    BY <1>2, <1>4 DEF Claiming
  <2> QED BY <1>3, <1>4, <2>1
<1>5. CASE /\ ~chat[r].claimed /\ chat'[r].claimed /\ chat'[r].engine \in Engines
           /\ claims' = [claims EXCEPT ![chat'[r].engine] = @ + 1]
  <2>1. claims' \in [Engines -> Nat]
    BY <1>3, <1>5
  <2>2. CASE chat'[r].engine = e
    <3>1. Claiming(e)' = Claiming(e) \cup {r} /\ r \notin Claiming(e)
      BY <1>2, <1>5, <2>2 DEF Claiming
    <3>2. Cardinality(Claiming(e)') = Cardinality(Claiming(e)) + 1
      BY <1>1, <3>1, FS_AddElement
    <3> QED BY <1>3, <1>5, <2>1, <2>2, <3>2
  <2>3. CASE chat'[r].engine # e
    <3>1. Claiming(e)' = Claiming(e)
      BY <1>2, <1>5, <2>3 DEF Claiming
    <3> QED BY <1>3, <1>5, <2>1, <2>3, <3>1
  <2> QED BY <2>2, <2>3
<1>6. CASE /\ chat[r].claimed /\ ~chat'[r].claimed /\ chat[r].engine \in Engines
           /\ claims' = [claims EXCEPT ![chat[r].engine] = @ - 1]
  <2>1. PICK d \in Engines : d = chat[r].engine
    BY <1>6
  <2>2. claims[d] \in Nat /\ claims[d] # 0
    <3>1. r \in Claiming(d)
      BY <1>6, <2>1 DEF Claiming
    <3>2. Cardinality(Claiming(d)) # 0
      BY <1>1, <3>1, FS_EmptySet
    <3> QED BY <1>3, <3>2
  <2>3. claims' \in [Engines -> Nat]
    BY <1>3, <1>6, <2>1, <2>2
  <2>4. CASE d = e
    <3>1. Claiming(e)' = Claiming(e) \ {r} /\ r \in Claiming(e)
      BY <1>2, <1>6, <2>1, <2>4 DEF Claiming
    <3>2. Cardinality(Claiming(e)') = Cardinality(Claiming(e)) - 1
      BY <1>1, <3>1, FS_RemoveElement
    <3> QED BY <1>3, <1>6, <2>1, <2>3, <2>4, <3>2
  <2>5. CASE d # e
    <3>1. Claiming(e)' = Claiming(e)
      BY <1>2, <1>6, <2>1, <2>5 DEF Claiming
    <3> QED BY <1>3, <1>6, <2>1, <2>3, <2>5, <3>1
  <2> QED BY <2>4, <2>5
<1> QED BY <1>4, <1>5, <1>6 DEF ClaimStep

-----------------------------------------------------------------------------
(* The invariant holds.                                                    *)

\* Every step but a client's leaving or falling silent is a Step of one request.
LEMMA RequestSteps ==
  ASSUME TypeOK, NEW r \in Reqs, Local(r),
         Enters(r) \/ Picks(r) \/ Calls(r) \/ Streams(r) \/ ReadAgain(r)
  PROVE  Step(r)
<1>1. CASE Enters(r)
  BY <1>1, RejectStep, PrepareStep DEF Enters
<1>2. CASE Picks(r)
  BY <1>2, ToPrefillStep, PickStep, PickRefusedStep DEF Picks
<1>3. CASE Calls(r)
  BY <1>3, CallStep, CallEndsStep, SettleStep DEF Calls
<1>4. CASE Streams(r)
  <2>1. ASSUME NEW s \in Slots, NEW status \in {200, 500}, Headers(r, s, status)
        PROVE  Step(r)
    <3>1. status \in Statuses /\ status # 0
      BY DEF Statuses
    <3> QED BY <2>1, <3>1, HeadersStep
  <2> QED BY <1>4, <2>1, BailStep, CheckpointStep, TemplateOkStep, CheckpointFailsStep,
             PassOkStep, NoHeadersStep, ChunkStep, WriteFailsStep, StreamEndsStep, CloseStep,
             DoneStep, ReturnStep DEF Streams
<1> QED BY <1>1, <1>2, <1>3, <1>4, ReadAgainStep

\* A Step keeps the invariant,
LEMMA StepInv ==
  ASSUME ChatInv, NEW r \in Reqs, Step(r)
  PROVE  ChatInv'
<1>1. Own(r) /\ GateStep(r) /\ ClaimStep(r) /\ Local(r)' /\ gone' = gone /\ TypeOK /\ Counted
  BY DEF Step, ChatInv
<1>2. \A q \in Reqs : Local(q)'
  <2> SUFFICES ASSUME NEW q \in Reqs, q # r
               PROVE  Local(q)'
    BY <1>1
  <2>1. Local(q) /\ chat'[q] = chat[q] /\ wire'[q] = wire[q]
    BY <1>1 DEF ChatInv, Own
  <2> QED BY <1>1, <2>1 DEF Local, Told
<1>3. gate' \in [Convs -> Nat] /\ \A c \in Convs : gate'[c] = Cardinality(Holding(c)')
  <2>1. \A c \in Convs : gate' \in [Convs -> Nat] /\ gate'[c] = Cardinality(Holding(c)')
    BY <1>1, GateCounts DEF Counted
  <2>2. ConvOf[r] \in Convs
    BY DEF Convs
  <2> QED BY <2>1, <2>2
<1>4. claims' \in [Engines -> Nat] /\ \A e \in Engines : claims'[e] = Cardinality(Claiming(e)')
  <2>1. \A e \in Engines : claims' \in [Engines -> Nat] /\ claims'[e] = Cardinality(Claiming(e)')
    BY <1>1, ClaimsCount DEF Counted
  <2>2. CASE Engines = {}
    BY <1>1, <2>2 DEF ClaimStep, TypeOK
  <2>3. CASE Engines # {}
    BY <2>1, <2>3
  <2> QED BY <2>2, <2>3
<1>5. TypeOK'
  BY <1>1, <1>3, <1>4 DEF TypeOK, Own
<1>6. Counted'
  BY <1>3, <1>4 DEF Counted
<1> QED BY <1>2, <1>5, <1>6 DEF ChatInv

\* and so does a client that leaves or stops reading.
LEMMA LeaveInv ==
  ASSUME ChatInv, NEW r \in Reqs, Leave(r) \/ StopReading(r)
  PROVE  ChatInv'
<1>1. /\ gone \subseteq gone' /\ gone' \subseteq Reqs /\ deaf' \subseteq Reqs
      /\ UNCHANGED <<chat, wire, gate, claims, known>>
  BY DEF Leave, StopReading, ChatInv, TypeOK
<1>2. TypeOK'
  BY <1>1 DEF ChatInv, TypeOK
<1>3. ASSUME NEW q \in Reqs
      PROVE  Local(q)'
  <2>1. Local(q)
    BY DEF ChatInv
  <2> QED BY <1>1, <2>1 DEF Local, Told
<1>4. Counted'
  BY <1>1 DEF ChatInv, Counted, Holding, Holds, Claiming
<1> QED BY <1>2, <1>3, <1>4 DEF ChatInv

\* The invariant holds at the start.
LEMMA InitInv ==
  ASSUME Init
  PROVE  ChatInv
<1>1. \A r \in Reqs : chat[r] = Fresh
  BY DEF Init
<1>2. TypeOK
  <2>1. chat \in [Reqs -> Handler]
    BY FreshType DEF Init
  <2>2. wire \in [Reqs -> Wire]
    <3>1. 0 \in Codes
      BY DEF Codes
    <3> QED BY <3>1 DEF Init, Wire
  <2> QED BY <2>1, <2>2 DEF Init, TypeOK
<1>3. \A r \in Reqs : Local(r)
  BY <1>1, FreshType DEF Local, Unwound
<1>4. Counted
  <2>1. \A c \in Convs : Holding(c) = {}
    BY <1>1, FreshType DEF Holding, Holds
  <2>2. \A e \in Engines : Claiming(e) = {}
    BY <1>1, FreshType DEF Claiming
  <2> QED BY <2>1, <2>2, FS_EmptySet DEF Init, Counted
<1> QED BY <1>2, <1>3, <1>4 DEF ChatInv

\* The inductive invariant: what every handler holds and has sent by where it is, and
\* the two counts exact.
THEOREM ChatInvariant == Spec => []ChatInv
<1>1. Init => ChatInv
  BY InitInv
<1>2. ChatInv /\ [Next]_vars => ChatInv'
  <2> SUFFICES ASSUME ChatInv, [Next]_vars
               PROVE  ChatInv'
    OBVIOUS
  <2>1. ASSUME NEW r \in Reqs,
               Enters(r) \/ Picks(r) \/ Calls(r) \/ Streams(r) \/ ReadAgain(r)
        PROVE  ChatInv'
    <3>1. TypeOK /\ Local(r)
      BY DEF ChatInv
    <3>2. Step(r)
      BY <2>1, <3>1, RequestSteps
    <3> QED BY <3>2, StepInv
  <2>2. ASSUME NEW r \in Reqs, Leave(r) \/ StopReading(r)
        PROVE  ChatInv'
    BY <2>2, LeaveInv
  <2>3. CASE UNCHANGED vars
    BY <2>3 DEF ChatInv, TypeOK, Local, Told, Counted, Holding, Holds, Claiming, vars
  <2> QED BY <2>1, <2>2, <2>3 DEF Next, Client
<1> QED BY <1>1, <1>2, PTL DEF Spec

\* The gate counts exactly the requests with a plan and no record yet, the balancer
\* exactly those with a claim, and a handler that has returned holds neither: whatever
\* the engines answer, whenever the clients leave or stop reading (chat, chatStream and their deferred
\* finish and doneNode).
THEOREM ChatGivesBackOnce == Spec => []GivenBackOnce
<1>1. ChatInv => GivenBackOnce
  BY DEF ChatInv, Counted, Holding, Holds, Claiming, Local, Unclaimed, GivenBackOnce
<1> QED BY <1>1, ChatInvariant, PTL

\* A client still there when its handler returns has a status, and a 200 only if the
\* engine said so and something follows it (writeJSON, emitSSEError).
THEOREM ChatTellsClient == Spec => []ClientIsTold
<1>1. ChatInv => ClientIsTold
  BY DEF ChatInv, Local, Told, Unwound, ClientIsTold
<1> QED BY <1>1, ChatInvariant, PTL

\* Every variable has its type, and neither count is ever negative.
THEOREM ChatTypeOK == Spec => []TypeOK
<1>1. ChatInv => TypeOK
  BY DEF ChatInv
<1> QED BY <1>1, ChatInvariant, PTL

=============================================================================
