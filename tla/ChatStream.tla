------------------------------ MODULE ChatStream ------------------------------
(***************************************************************************)
(* One chat request through the server: the handler (chat), its two halves *)
(* (gateway.Chat for a JSON reply, chatStream for a streamed one), the     *)
(* checkpoint pass of a user turn (checkpointUserTurn) and the unwinding   *)
(* of its deferred calls.  The client may go at any moment, or stay and    *)
(* stop reading; the engine may answer anything, stop anywhere or not be   *)
(* there.                                                                  *)
(*                                                                         *)
(* A request takes two things it has to give back: its conversation's gate *)
(* (ConvGate) from Prepare to Finish or finishRecord, and its claim on the *)
(* decode engine (DecodeBalancer) from pickDecode to doneNode.  How long   *)
(* either makes it wait is their modules' business: here both are counts.  *)
(***************************************************************************)
EXTENDS Naturals, FiniteSets

CONSTANTS
  Reqs,       \* requests
  ConvOf,     \* the conversation of each
  Engines,    \* decode engines of the balancer
  PrefillE,   \* the prefill engine, which serves the small calls unclaimed
  Slots,      \* slots of an engine
  MaxChunks,  \* bound: chunks of a stream before its last
  None

ASSUME ChatAssumption ==
  /\ IsFiniteSet(Reqs)
  /\ PrefillE \notin Engines
  /\ None \notin Reqs \cup Slots \cup Engines \cup {PrefillE}
  /\ MaxChunks \in Nat

Convs == {ConvOf[r] : r \in Reqs}
All == Engines \cup {PrefillE}

VARIABLES
  chat,    \* each request's handler
  wire,    \* what each client has been sent
  gone,    \* the clients that have left
  deaf,    \* the clients that are there and take in nothing
  gate,    \* requests in flight per conversation, as the gate counts them
  claims,  \* requests in flight per engine, as the balancer counts them
  known    \* the requests whose prefix is on record as hot

vars == <<chat, wire, gone, deaf, gate, claims, known>>

Places == {"new", "plan", "picked", "template", "pass", "post", "read", "write", "close",
           "unwind", "return", "call", "settle", "over"}

Kinds == {"json", "stream"}
Statuses == {0, 200, 500}
Reads == 0..MaxChunks + 1

\* The local variables of the handler; slot is the one the engine works in.
Handler == [at : Places, kind : Kinds, handoff : BOOLEAN, user : BOOLEAN,
            engine : All \cup {None}, claimed : BOOLEAN, pin : Slots \cup {None},
            slot : Slots \cup {None}, status : Statuses, streamed : Reads,
            tail : BOOLEAN, clientGone : BOOLEAN, finished : BOOLEAN]

Fresh == [at |-> "new", kind |-> "json", handoff |-> FALSE, user |-> FALSE, engine |-> None,
          claimed |-> FALSE, pin |-> None, slot |-> None, status |-> 0, streamed |-> 0,
          tail |-> FALSE, clientGone |-> FALSE, finished |-> FALSE]

\* A client sees a status (0: none yet; 500 stands for every error an engine or the
\* server answers), bytes of the reply, and an error event in the stream.
Codes == {0, 200, 401, 500, 502, 503}
Wire == [status : Codes, bytes : BOOLEAN, error : BOOLEAN]

Init ==
  /\ chat = [r \in Reqs |-> Fresh]
  /\ wire = [r \in Reqs |-> [status |-> 0, bytes |-> FALSE, error |-> FALSE]]
  /\ gone = {} /\ deaf = {}
  /\ gate = [c \in Convs |-> 0] /\ claims = [e \in Engines |-> 0]
  /\ known = {}

Busy(e) == {chat[r].slot : r \in {q \in Reqs : chat[q].engine = e}} \ {None}

\* The slot the engine works in: the one it was told, or an idle one.
SlotsFor(r, e) == (IF chat[r].pin = None THEN Slots ELSE {chat[r].pin}) \ Busy(e)

\* writeJSON.
Answer(r, code) ==
  wire' = [wire EXCEPT ![r].status = code, ![r].bytes = TRUE]

\* The handler returns: what is left of it is whether it still holds something.
Over(r) ==
  chat' = [chat EXCEPT ![r] = [Fresh EXCEPT !.at = "over", !.finished = TRUE,
             !.status = chat[r].status, !.claimed = chat[r].claimed, !.engine = chat[r].engine]]

At(r, kind, place) == chat[r].at = place /\ chat[r].kind = kind

-----------------------------------------------------------------------------
(* chat: the body, the key, Prepare.                                       *)

\* Unreadable, or without the key the node requires, or Prepare fails: no plan and
\* nothing held.
Reject(r) ==
  /\ chat[r].at = "new"
  /\ Answer(r, 401)
  /\ Over(r)
  /\ UNCHANGED <<gone, deaf, gate, claims, known>>

\* Prepare, which holds the gate from here on; with a handoff it restored the
\* prompt in a slot of an engine and pinned the request to it.
Prepare(r, kind, user) ==
  /\ chat[r].at = "new"
  /\ gate' = [gate EXCEPT ![ConvOf[r]] = @ + 1]
  /\ \/ /\ chat' = [chat EXCEPT ![r] = [Fresh EXCEPT !.at = "plan", !.kind = kind,
                                                     !.user = user]]
     \/ \E e \in Engines, s \in Slots :
          /\ s \notin Busy(e)
          /\ chat' = [chat EXCEPT ![r] = [Fresh EXCEPT !.at = "plan", !.kind = kind,
                        !.user = user, !.handoff = TRUE, !.engine = e, !.pin = s]]
  /\ UNCHANGED <<wire, gone, deaf, claims, known>>

\* finishRecord gives the gate back, once.
Release(r) ==
  gate' = IF chat[r].finished THEN gate ELSE [gate EXCEPT ![ConvOf[r]] = @ - 1]

\* finish of chatStream: Finish puts the prefix on record.
Learn(r) == known' = IF chat[r].finished THEN known ELSE known \cup {r}

-----------------------------------------------------------------------------
(* The engine: smallToPrefill, pickDecode.                                 *)

\* Small calls go to the prefill engine and claim nothing.
ToPrefill(r) ==
  /\ chat[r].at = "plan"
  /\ ~chat[r].handoff
  /\ chat' = [chat EXCEPT ![r].at = IF chat[r].kind = "json" THEN "call" ELSE "picked",
                          ![r].engine = PrefillE]
  /\ UNCHANGED <<wire, gone, deaf, gate, claims, known>>

\* pickDecode: the balancer's choice, or the engine with the restored state.
Pick(r, e) ==
  /\ chat[r].at = "plan"
  /\ chat[r].handoff => e = chat[r].engine
  /\ claims' = [claims EXCEPT ![e] = @ + 1]
  /\ chat' = [chat EXCEPT ![r].at = IF chat[r].kind = "json" THEN "call" ELSE "picked",
                          ![r].engine = e, ![r].claimed = TRUE]
  /\ UNCHANGED <<wire, gone, deaf, gate, known>>

\* No engine has room, or the one with the state is fenced.
PickRefused(r) ==
  /\ chat[r].at = "plan"
  /\ IF chat[r].kind = "json"
     THEN /\ chat' = [chat EXCEPT ![r].at = "settle", ![r].engine = None]
          /\ UNCHANGED <<wire, gate, known>>
     ELSE /\ Answer(r, 503)
          /\ Release(r) /\ Learn(r)
          /\ chat' = [chat EXCEPT ![r].at = "unwind", ![r].engine = None, ![r].finished = TRUE]
  /\ UNCHANGED <<gone, deaf, claims>>

-----------------------------------------------------------------------------
(* The JSON half: backendCall, httpBackend, Chat.                          *)

\* The engine takes the request; a client that leaves does not stop it.
Call(r, s) ==
  LET e == chat[r].engine IN
  /\ At(r, "json", "call")
  /\ chat[r].slot = None
  /\ s \in SlotsFor(r, e)
  /\ chat' = [chat EXCEPT ![r].slot = s]
  /\ UNCHANGED <<wire, gone, deaf, gate, claims, known>>

\* It answers, with its own status, or does not (0); doneNode as backendCall
\* returns.
CallEnds(r, status) ==
  /\ At(r, "json", "call")
  /\ status # 0 => chat[r].slot # None
  /\ claims' = IF chat[r].claimed THEN [claims EXCEPT ![chat[r].engine] = @ - 1] ELSE claims
  /\ chat' = [chat EXCEPT ![r].at = "settle", ![r].status = status, ![r].claimed = FALSE,
                          ![r].engine = None, ![r].slot = None]
  /\ UNCHANGED <<wire, gone, deaf, gate, known>>

\* Chat: Finish on a reply, finishRecord alone on an error; then the answer.
Settle(r) ==
  LET status == chat[r].status IN
  /\ chat[r].at = "settle"
  /\ Release(r)
  /\ known' = IF status = 200 THEN known \cup {r} ELSE known
  /\ Answer(r, IF status = 0 THEN 502 ELSE status)
  /\ Over(r)
  /\ UNCHANGED <<gone, deaf, claims>>

-----------------------------------------------------------------------------
(* The streamed half: chatStream.                                          *)

\* No decode backend, no flusher, a body or a request that cannot be built.
Bail(r) ==
  /\ \E place \in {"plan", "picked", "post"} : At(r, "stream", place)
  /\ Answer(r, 500)
  /\ chat' = [chat EXCEPT ![r].at = "unwind"]
  /\ UNCHANGED <<gone, deaf, gate, claims, known>>

\* checkpointUserTurn, for a user turn that has no handoff.
Checkpoint(r) ==
  /\ At(r, "stream", "picked")
  /\ chat' = [chat EXCEPT ![r].at = IF chat[r].user /\ ~chat[r].handoff THEN "template"
                                    ELSE "post",
                          ![r].user = FALSE]
  /\ UNCHANGED <<wire, gone, deaf, gate, claims, known>>

\* The template comes back with its marker; the context of a client that left fails it.
TemplateOk(r) ==
  /\ At(r, "stream", "template")
  /\ r \notin gone
  /\ chat' = [chat EXCEPT ![r].at = "pass"]
  /\ UNCHANGED <<wire, gone, deaf, gate, claims, known>>

\* The pass runs, and the request is pinned to the slot it ran in.
PassOk(r, s) ==
  LET e == chat[r].engine IN
  /\ At(r, "stream", "pass")
  /\ r \notin gone
  /\ s \in SlotsFor(r, e)
  /\ chat' = [chat EXCEPT ![r].at = "post", ![r].pin = s]
  /\ UNCHANGED <<wire, gone, deaf, gate, claims, known>>

\* Best effort: the request goes on as before.
CheckpointFails(r) ==
  /\ \E place \in {"template", "pass"} : At(r, "stream", place)
  /\ chat' = [chat EXCEPT ![r].at = "post"]
  /\ UNCHANGED <<wire, gone, deaf, gate, claims, known>>

\* The engine answers, and its status is on the wire.
Headers(r, s, status) ==
  LET e == chat[r].engine IN
  /\ At(r, "stream", "post")
  /\ r \notin gone
  /\ s \in SlotsFor(r, e)
  /\ chat' = [chat EXCEPT ![r].at = "read", ![r].slot = s, ![r].status = status]
  /\ wire' = [wire EXCEPT ![r].status = status]
  /\ UNCHANGED <<gone, deaf, gate, claims, known>>

\* The engine is not there, the client has left, or ten minutes have passed.
NoHeaders(r) ==
  /\ At(r, "stream", "post")
  /\ Answer(r, 502)
  /\ chat' = [chat EXCEPT ![r].at = "unwind"]
  /\ UNCHANGED <<gone, deaf, gate, claims, known>>

\* A chunk (final: the one with the timings) is read and written.  A write to a client
\* that left may fail, or not yet; one to a client that does not read may still find
\* room, or wait: the server has no WriteTimeout.
Chunk(r, final) ==
  /\ At(r, "stream", "read")
  /\ chat[r].streamed < MaxChunks + (IF final THEN 1 ELSE 0) /\ ~chat[r].tail
  /\ final => chat[r].status = 200
  /\ \/ /\ chat' = [chat EXCEPT ![r].streamed = @ + 1, ![r].tail = final]
        /\ wire' = [wire EXCEPT ![r].bytes = TRUE]
     \/ /\ r \in gone
        /\ chat' = [chat EXCEPT ![r].at = "close", ![r].streamed = @ + 1, ![r].clientGone = TRUE]
        /\ UNCHANGED wire
     \/ /\ r \in deaf
        /\ chat' = [chat EXCEPT ![r].at = "write", ![r].streamed = @ + 1, ![r].tail = final]
        /\ UNCHANGED wire
  /\ UNCHANGED <<gone, deaf, gate, claims, known>>

\* A write that waits fails when its client leaves, and only then: the ten minutes are
\* those of reading from the engine.
WriteFails(r) ==
  /\ At(r, "stream", "write")
  /\ r \in gone
  /\ chat' = [chat EXCEPT ![r].at = "close", ![r].clientGone = TRUE]
  /\ UNCHANGED <<wire, gone, deaf, gate, claims, known>>

\* A stream is read to its last chunk, however long that takes.
StreamEndsAtTimings(r) ==
  /\ At(r, "stream", "read")
  /\ chat[r].tail
  /\ chat' = [chat EXCEPT ![r].at = "close"]
  /\ UNCHANGED <<wire, gone, deaf, gate, claims, known>>

\* The end of the stream, where it should be or not: the engine closes it, dies, or
\* is cut off by the client's context or the ten minutes of s.client.
StreamEnds(r) ==
  /\ At(r, "stream", "read")
  /\ chat' = [chat EXCEPT ![r].at = "close"]
  /\ UNCHANGED <<wire, gone, deaf, gate, claims, known>>

\* The deferred report that leaves an empty stream empty.
ReportNothing(r) == wire' = wire

\* emitSSEError: the reason goes into a stream that had nothing else.
Report(r) ==
  wire' = IF chat[r].streamed = 0 /\ ~chat[r].clientGone
          THEN [wire EXCEPT ![r].error = TRUE] ELSE wire

\* The deferred end of a stream: the error event, and Finish.  The engine is let go
\* when the body is closed.
Close(r) ==
  /\ At(r, "stream", "close")
  /\ Report(r)
  /\ Release(r) /\ Learn(r)
  /\ chat' = [chat EXCEPT ![r].at = "unwind", ![r].finished = TRUE, ![r].slot = None]
  /\ UNCHANGED <<gone, deaf, claims>>

\* The deferred calls, last one first: doneNode,
Done(r) ==
  /\ At(r, "stream", "unwind")
  /\ claims' = IF chat[r].claimed THEN [claims EXCEPT ![chat[r].engine] = @ - 1] ELSE claims
  /\ chat' = [chat EXCEPT ![r].at = "return", ![r].claimed = FALSE,
                          ![r].engine = None]
  /\ UNCHANGED <<wire, gone, deaf, gate, known>>

\* The handler as it was: no deferred finish.
ReturnBare(r) ==
  /\ At(r, "stream", "return")
  /\ Over(r)
  /\ UNCHANGED <<wire, gone, deaf, gate, claims, known>>

\* and finish, for the paths that have not been there.
Return(r) ==
  /\ At(r, "stream", "return")
  /\ Release(r) /\ Learn(r)
  /\ Over(r)
  /\ UNCHANGED <<wire, gone, deaf, claims>>

-----------------------------------------------------------------------------

\* The client leaves; net/http cancels the request's context.
Leave(r) ==
  /\ r \notin gone /\ chat[r].at # "over"
  /\ gone' = gone \cup {r} /\ deaf' = deaf \ {r}
  /\ UNCHANGED <<chat, wire, gate, claims, known>>

\* It stays connected and takes in nothing more, which only a stream can tell,
StopReading(r) ==
  /\ At(r, "stream", "read")
  /\ r \notin gone \cup deaf
  /\ deaf' = deaf \cup {r}
  /\ UNCHANGED <<chat, wire, gone, gate, claims, known>>

\* until it reads again, which makes room for the write that waits.
ReadAgain(r) ==
  /\ r \in deaf
  /\ deaf' = deaf \ {r}
  /\ IF chat[r].at = "write"
     THEN /\ chat' = [chat EXCEPT ![r].at = "read"]
          /\ wire' = [wire EXCEPT ![r].bytes = TRUE]
     ELSE UNCHANGED <<chat, wire>>
  /\ UNCHANGED <<gone, gate, claims, known>>

Streams(r) ==
  \/ Bail(r) \/ Checkpoint(r) \/ TemplateOk(r) \/ CheckpointFails(r)
  \/ \E s \in Slots : PassOk(r, s) \/ \E status \in {200, 500} : Headers(r, s, status)
  \/ NoHeaders(r)
  \/ \E final \in BOOLEAN : Chunk(r, final)
  \/ WriteFails(r) \/ StreamEnds(r) \/ Close(r) \/ Done(r) \/ Return(r)

Calls(r) ==
  \/ \E s \in Slots : Call(r, s)
  \/ \E status \in {0, 200, 500} : CallEnds(r, status)
  \/ Settle(r)

Picks(r) == ToPrefill(r) \/ (\E e \in Engines : Pick(r, e)) \/ PickRefused(r)

Enters(r) ==
  \/ Reject(r)
  \/ \E kind \in {"json", "stream"}, user \in BOOLEAN : Prepare(r, kind, user)

Client(r) == Leave(r) \/ StopReading(r) \/ ReadAgain(r)

Next == \E r \in Reqs : Enters(r) \/ Picks(r) \/ Calls(r) \/ Streams(r) \/ Client(r)

Spec == Init /\ [][Next]_vars

\* pick returns (DecodeBalancer), every call to an engine ends within the timeout of
\* its client (600 s, 180 s for the pass), and the handler's own steps are taken.  Of
\* the clients nothing is assumed: one that does not read may never read again.
FairSpec ==
  /\ Spec
  /\ \A r \in Reqs : WF_vars(Picks(r)) /\ WF_vars(Calls(r)) /\ WF_vars(Streams(r))

-----------------------------------------------------------------------------

\* Every variable has its type; no count is negative.
TypeOK ==
  /\ chat \in [Reqs -> Handler]
  /\ wire \in [Reqs -> Wire]
  /\ gone \subseteq Reqs /\ deaf \subseteq Reqs
  /\ gate \in [Convs -> Nat] /\ claims \in [Engines -> Nat]
  /\ known \subseteq Reqs

\* The gate counts exactly the requests that have a plan and no record yet, and the
\* balancer exactly those that hold a claim; a handler that has returned holds
\* neither, whichever of its returns it took.
GivenBackOnce ==
  /\ \A c \in Convs : gate[c] = Cardinality({r \in Reqs : /\ ConvOf[r] = c
                                                          /\ chat[r].at \notin {"new", "over"}
                                                          /\ ~chat[r].finished})
  /\ \A e \in Engines : claims[e] = Cardinality({r \in Reqs : chat[r].claimed /\ chat[r].engine = e})
  /\ \A r \in Reqs : chat[r].at = "over" => ~chat[r].claimed

\* A client that is still there when its handler returns has been told the truth: a
\* 200 only if the engine answered 200 and then with something after it, the reply,
\* perhaps cut short, or an error event.
ClientIsTold ==
  \A r \in Reqs :
    chat[r].at = "over" /\ r \notin gone =>
      /\ wire[r].status # 0
      /\ wire[r].status = 200 => chat[r].status = 200 /\ (wire[r].bytes \/ wire[r].error)

\* Every request that has a plan is answered and returns, unless its client stays
\* connected for good and never reads again.
EveryChatEnds ==
  \A r \in Reqs : chat[r].at = "plan" ~> (chat[r].at = "over" \/ [](r \in deaf))

=============================================================================
