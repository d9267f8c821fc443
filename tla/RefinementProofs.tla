--------------------------- MODULE RefinementProofs ---------------------------
(***************************************************************************)
(* The generated code implements RemoteCall, for any interface, any number *)
(* of concurrent calls and any combination of backends: every step of a    *)
(* proxy or a stub is a step of the service the caller sees, or none.      *)
(***************************************************************************)
EXTENDS TransactionProofs

PhaseMap == [c \in Call |-> PhaseOf(c)]
RanMap == [c \in Call |-> RanOf(c)]
OutcomeMap == [c \in Call |-> OutcomeOf(c)]

Unseen(c) == PhaseOf(c)' = PhaseOf(c) /\ RanOf(c)' = RanOf(c) /\ OutcomeOf(c)' = OutcomeOf(c)

LEMMA UntouchedIsUnseen ==
  ASSUME NEW c \in Call, Untouched(c), UNCHANGED environment
  PROVE  Unseen(c)
<1>1. PhaseOf(c)' = PhaseOf(c) BY DEF Untouched, PhaseOf
<1>2. RanOf(c)' = RanOf(c) BY DEF Untouched, RanOf
<1>3. OutcomeOf(c)' = OutcomeOf(c) BY DEF Untouched, OutcomeOf, environment
<1> QED BY <1>1, <1>2, <1>3 DEF Unseen

\* Nothing the caller sees changes.
LEMMA Stutter ==
  ASSUME \A c \in Call : Unseen(c)
  PROVE  UNCHANGED Calls!vars
<1>1. PhaseMap' = PhaseMap BY DEF Unseen, PhaseMap
<1>2. RanMap' = RanMap BY DEF Unseen, RanMap
<1>3. OutcomeMap' = OutcomeMap BY DEF Unseen, OutcomeMap
<1> QED BY <1>1, <1>2, <1>3 DEF Calls!vars, PhaseMap, RanMap, OutcomeMap

\* A step of one call, seen in its phase, who ran it and its outcome.
LEMMA OneCall ==
  ASSUME NEW c \in Call, \A d \in Call : d # c => Unseen(d)
  PROVE  /\ PhaseMap' = [PhaseMap EXCEPT ![c] = PhaseOf(c)']
         /\ RanMap' = [RanMap EXCEPT ![c] = RanOf(c)']
         /\ OutcomeMap' = [OutcomeMap EXCEPT ![c] = OutcomeOf(c)']
         /\ PhaseMap[c] = PhaseOf(c) /\ RanMap[c] = RanOf(c)
         /\ RanOf(c)' = RanOf(c) => RanMap' = RanMap
         /\ OutcomeOf(c)' = OutcomeOf(c) => OutcomeMap' = OutcomeMap
         /\ PhaseOf(c)' = PhaseOf(c) => PhaseMap' = PhaseMap
  BY DEF Unseen, PhaseMap, RanMap, OutcomeMap

LEMMA SeenInvoke ==
  ASSUME NEW c \in Call, \A d \in Call : d # c => Unseen(d),
         PhaseOf(c) = "idle", PhaseOf(c)' = "pending",
         RanOf(c)' = RanOf(c), OutcomeOf(c)' = OutcomeOf(c)
  PROVE  Calls!Next
<1>1. /\ PhaseMap[c] = "idle" /\ PhaseMap' = [PhaseMap EXCEPT ![c] = "pending"]
      /\ RanMap' = RanMap /\ OutcomeMap' = OutcomeMap
  BY OneCall
<1>2. Calls!Invoke(c) BY <1>1 DEF Calls!Invoke, PhaseMap, RanMap, OutcomeMap
<1> QED BY <1>2 DEF Calls!Next

LEMMA SeenAccept ==
  ASSUME NEW c \in Call, \A d \in Call : d # c => Unseen(d),
         PhaseOf(c) = "idle", PhaseOf(c)' = "accepted",
         RanOf(c)' = RanOf(c), OutcomeOf(c)' = "value"
  PROVE  Calls!Next
<1>1. /\ PhaseMap[c] = "idle" /\ PhaseMap' = [PhaseMap EXCEPT ![c] = "accepted"]
      /\ OutcomeMap' = [OutcomeMap EXCEPT ![c] = "value"] /\ RanMap' = RanMap
  BY OneCall
<1>2. Calls!Accept(c) BY <1>1 DEF Calls!Accept, PhaseMap, RanMap, OutcomeMap
<1> QED BY <1>2 DEF Calls!Next

LEMMA SeenRun ==
  ASSUME NEW c \in Call, \A d \in Call : d # c => Unseen(d),
         NEW who \in {"server", "default"},
         PhaseOf(c) = "pending" \/ (PhaseOf(c) = "accepted" /\ who = "server"),
         who \notin RanOf(c), "default" \notin RanOf(c),
         RanOf(c)' = RanOf(c) \cup {who},
         PhaseOf(c)' = PhaseOf(c), OutcomeOf(c)' = OutcomeOf(c)
  PROVE  Calls!Next
<1>1. /\ PhaseMap[c] = "pending" \/ (PhaseMap[c] = "accepted" /\ who = "server")
      /\ who \notin RanMap[c] /\ "default" \notin RanMap[c]
      /\ RanMap' = [RanMap EXCEPT ![c] = RanMap[c] \cup {who}]
      /\ PhaseMap' = PhaseMap /\ OutcomeMap' = OutcomeMap
  BY OneCall
<1>2. Calls!Run(c, who) BY <1>1 DEF Calls!Run, PhaseMap, RanMap, OutcomeMap
<1> QED BY <1>2 DEF Calls!Next

LEMMA SeenSettle ==
  ASSUME NEW c \in Call, \A d \in Call : d # c => Unseen(d),
         NEW o \in {"value", "blank", "exception", "error", "crash", "local"},
         PhaseOf(c) = "pending" \/ (PhaseOf(c) = "idle" /\ o = "local"),
         o = "value" => RanOf(c) # {},
         PhaseOf(c)' = "settled", OutcomeOf(c)' = o, RanOf(c)' = RanOf(c)
  PROVE  Calls!Next
<1>1. /\ PhaseMap[c] = "pending" \/ (PhaseMap[c] = "idle" /\ o = "local")
      /\ o = "value" => RanMap[c] # {}
      /\ PhaseMap' = [PhaseMap EXCEPT ![c] = "settled"]
      /\ OutcomeMap' = [OutcomeMap EXCEPT ![c] = o] /\ RanMap' = RanMap
  BY OneCall
<1>2. Calls!Settle(c, o) BY <1>1 DEF Calls!Settle, PhaseMap, RanMap, OutcomeMap
<1> QED BY <1>2 DEF Calls!Next

LEMMA InitRefines == Init => Calls!Init
<1> SUFFICES ASSUME Init PROVE Calls!Init OBVIOUS
<1>1. ASSUME NEW c \in Call
      PROVE  PhaseOf(c) = "idle" /\ RanOf(c) = {} /\ OutcomeOf(c) = "none"
  <2>1. client[c] = "idle" /\ received[c] = <<>> /\ using[c] = None /\ result[c] = NoAnswer
    BY DEF Init
  <2>2. NoAnswer.kind = "none" BY DEF NoAnswer, Answer
  <2>3. PhaseOf(c) = "idle" BY <2>1 DEF PhaseOf
  <2>4. RanOf(c) = {} BY <2>1 DEF RanOf
  <2>5. OutcomeOf(c) = "none" BY <2>1, <2>2 DEF OutcomeOf
  <2> QED BY <2>3, <2>4, <2>5
<1> QED BY <1>1 DEF Calls!Init

-----------------------------------------------------------------------------
(* The server.                                                             *)

\* What happens in the server is not seen, but for the start of the
\* implementation.
LEMMA ServerOnly ==
  ASSUME UNCHANGED <<environment, clientSide, received>>
  PROVE  UNCHANGED Calls!vars
<1>1. UNCHANGED <<client, method, request, using, result, received, clientLang>>
  BY DEF environment, clientSide
<1>2. ASSUME NEW c \in Call PROVE Unseen(c)
  <2>1. PhaseOf(c)' = PhaseOf(c) BY <1>1 DEF PhaseOf
  <2>2. RanOf(c)' = RanOf(c) BY <1>1 DEF RanOf
  <2>3. OutcomeOf(c)' = OutcomeOf(c) BY <1>1 DEF OutcomeOf
  <2> QED BY <2>1, <2>2, <2>3 DEF Unseen
<1> QED BY <1>2, Stutter

LEMMA UnmarshalRefines ==
  ASSUME IInv, ParcelInv, NEW c \in Call, NEW f \in 0 .. Len(ExpectedRequest(method[c])),
         NEW e \in {"OK"} \cup ReadFaults, Unmarshal(c, f, e)
  PROVE  [Calls!Next]_(Calls!vars)
<1>1. /\ server[c] = "queued" /\ received[c] = <<>> /\ using[c] = None
      /\ client[c] = "waiting" \/ (client[c] = "done" /\ result[c].from = "queue")
      /\ UNCHANGED <<environment, clientSide>>
  BY DEF Unmarshal, ParcelInv, CallInv, ArgInv, OutcomeInv, LinkInv
<1>2. CASE UNCHANGED received
  BY <1>1, <1>2, ServerOnly
<1>3. CASE /\ \E got : received' = [received EXCEPT ![c] = got]
           /\ server' = [server EXCEPT ![c] = "running"]
           /\ UNCHANGED <<reply, status>>
  <2>1. /\ UNCHANGED <<client, method, request, using, result, reply, status, clientLang>>
        /\ server'[c] = "running"
        /\ \A d \in Call : d # c => server'[d] = server[d] /\ received'[d] = received[d]
    BY <1>1, <1>3 DEF clientSide, environment, IInv, ControlInv, ParcelInv
  <2>2. received'[c] # <<>>
    <3>1. ParcelInv' BY UnmarshalParcels
    <3> QED BY <2>1, <3>1 DEF ParcelInv, CallInv, ArgInv
  <2>3. ASSUME NEW d \in Call, d # c PROVE Unseen(d)
    <3>1. Untouched(d) BY <2>1, <2>3 DEF Untouched
    <3> QED BY <1>1, <3>1, UntouchedIsUnseen
  <2>4. RanOf(c) = {} /\ RanOf(c)' = {"server"}
    BY <1>1, <2>1, <2>2 DEF RanOf
  <2>5. PhaseOf(c)' = PhaseOf(c) /\ OutcomeOf(c)' = OutcomeOf(c)
    BY <2>1 DEF PhaseOf, OutcomeOf
  <2>6. PhaseOf(c) \in {"pending", "accepted"}
    BY <1>1 DEF PhaseOf
  <2>7. RanOf(c)' = RanOf(c) \cup {"server"} /\ "server" \notin RanOf(c) /\ "default" \notin RanOf(c)
    BY <2>4
  <2> QED BY <2>3, <2>5, <2>6, <2>7, SeenRun
<1> QED BY <1>2, <1>3 DEF Unmarshal

-----------------------------------------------------------------------------
(* The proxy.                                                              *)

LEMMA CachedAnswerRefines ==
  ASSUME IInv, ParcelInv, NEW c \in Call, CachedAnswer(c)
  PROVE  Calls!Next
<1> DEFINE answer == Answer("ok", <<Version(cachedVersion)>>, "cache")
<1>1. /\ client[c] = "idle"
      /\ method' = [method EXCEPT ![c] = G]
      /\ client' = [client EXCEPT ![c] = "done"]
      /\ result' = [result EXCEPT ![c] = answer]
      /\ UNCHANGED <<environment, request, using, server, received, reply, status>>
  BY DEF CachedAnswer, Finish, G, serverSide
<1>2. answer.from = "cache" BY DEF Answer
<1> HIDE DEF answer
<1>3. /\ method'[c] = G /\ client'[c] = "done" /\ result'[c] = answer
      /\ \A d \in Call : d # c => Untouched(d)
  BY <1>1, ConstantFacts DEF IInv, ControlInv, Untouched
<1>4. \A d \in Call : d # c => Unseen(d)
  BY <1>1, <1>3, UntouchedIsUnseen
<1>5. PhaseOf(c) = "idle" /\ PhaseOf(c)' = "settled"
  BY <1>1, <1>2, <1>3 DEF PhaseOf
<1>6. OutcomeOf(c)' = "local" BY <1>3 DEF OutcomeOf, G
<1>7. RanOf(c)' = RanOf(c) BY <1>1 DEF RanOf
<1> QED BY <1>4, <1>5, <1>6, <1>7, SeenSettle

\* A call that is not done has no outcome.
LEMMA NoOutcome ==
  ASSUME IInv, NEW c \in Call, client[c] # "done"
  PROVE  OutcomeOf(c) = "none"
<1>1. result[c] = NoAnswer /\ NoAnswer.kind = "none"
  BY DEF IInv, ControlInv, NoAnswer, Answer
<1> QED BY <1>1 DEF OutcomeOf

LEMMA TransactRefines ==
  ASSUME IInv, ParcelInv, NEW c \in Call, NEW m \in Method, NEW f \in 0 .. Len(RequestOf(m)),
         NEW token \in {Token, ForeignToken}, Transact(c, m, f, token)
  PROVE  Calls!Next
<1>1. /\ client[c] = "idle" /\ request[c] = <<>> /\ result[c] = NoAnswer
      /\ method' = [method EXCEPT ![c] = m]
      /\ UNCHANGED <<environment, using, received, reply, clientLang>>
  BY DEF Transact, environment, IInv, ControlInv, ParcelInv, CallInv, LinkInv
<1>2. /\ \A d \in Call : d # c =>
           server'[d] = server[d] /\ status'[d] = status[d] /\ request'[d] = request[d]
      /\ method'[c] = m
      /\ \A d \in Call : d # c => method'[d] = method[d]
  <2>1. \/ UNCHANGED <<request, server, status>>
        \/ /\ \E parcel : request' = [request EXCEPT ![c] = parcel]
           /\ \E sv : server' = [server EXCEPT ![c] = sv]
           /\ UNCHANGED status \/ \E st : status' = [status EXCEPT ![c] = st]
    BY DEF Transact
  <2>2. \A d \in Call : d # c => request'[d] = request[d]
    BY <2>1 DEF ParcelInv
  <2>3. \A d \in Call : d # c => server'[d] = server[d]
    BY <2>1 DEF IInv, ControlInv
  <2>4. \A d \in Call : d # c => status'[d] = status[d]
    BY <2>1 DEF IInv, ControlInv
  <2> QED BY <1>1, <2>2, <2>3, <2>4 DEF IInv, ControlInv
<1>3. RanOf(c)' = RanOf(c) BY <1>1 DEF RanOf
<1>4. PhaseOf(c) = "idle" /\ OutcomeOf(c) = "none" BY <1>1, NoOutcome DEF PhaseOf
<1>5. ASSUME NEW answer, Finish(c, answer), answer.from # "queue", answer.kind = "error",
             UNCHANGED request \/ m \in Oneway
      PROVE  Calls!Next
  <2>1. /\ client'[c] = "done" /\ result'[c] = answer
        /\ \A d \in Call : d # c => client'[d] = client[d] /\ result'[d] = result[d]
    BY <1>5 DEF Finish, IInv, ControlInv
  <2>2. \A d \in Call : d # c => Unseen(d)
    BY <1>1, <1>2, <2>1, UntouchedIsUnseen DEF Untouched
  <2>3. PhaseOf(c)' = "settled" BY <1>5, <2>1 DEF PhaseOf
  <2>4. request'[c] = <<>> \/ method'[c] \in Oneway BY <1>1, <1>2, <1>5
  <2>5. OutcomeOf(c)' = "local" BY <1>5, <2>1, <2>4 DEF OutcomeOf
  <2> QED BY <1>3, <1>4, <2>2, <2>3, <2>5, SeenSettle
<1>6. CASE m \in Oneway /\ Finish(c, Answer("ok", <<>>, "queue"))
  <2> DEFINE answer == Answer("ok", <<>>, "queue")
  <2>1. answer.kind = "ok" /\ answer.from = "queue" BY DEF Answer
  <2> HIDE DEF answer
  <2>2. /\ client'[c] = "done" /\ result'[c] = answer
        /\ \A d \in Call : d # c => client'[d] = client[d] /\ result'[d] = result[d]
    BY <1>6 DEF Finish, IInv, ControlInv, answer
  <2>3. \A d \in Call : d # c => Unseen(d)
    BY <1>1, <1>2, <2>2, UntouchedIsUnseen DEF Untouched
  <2>4. PhaseOf(c)' = "accepted" BY <2>1, <2>2 DEF PhaseOf
  <2>5. method'[c] # G BY <1>2, <1>6, ConstantFacts
  <2>6. OutcomeOf(c)' = "value" BY <2>1, <2>2, <2>5 DEF OutcomeOf, G
  <2> QED BY <1>3, <1>4, <2>3, <2>4, <2>6, SeenAccept
<1>7. CASE client' = [client EXCEPT ![c] = "waiting"] /\ UNCHANGED result
  <2>1. client'[c] = "waiting" /\ \A d \in Call : d # c => client'[d] = client[d]
    BY <1>7 DEF IInv, ControlInv
  <2>2. \A d \in Call : d # c => Unseen(d)
    BY <1>1, <1>2, <1>7, <2>1, UntouchedIsUnseen DEF Untouched
  <2>3. PhaseOf(c)' = "pending" BY <2>1 DEF PhaseOf
  <2>4. NoAnswer.kind = "none" BY DEF NoAnswer, Answer
  <2>5. OutcomeOf(c)' = "none" BY <1>1, <1>7, <2>1, <2>4 DEF OutcomeOf
  <2> QED BY <1>3, <1>4, <2>2, <2>3, <2>5, SeenInvoke
<1>8. \/ Finish(c, Failed) /\ (UNCHANGED request \/ m \in Oneway)
      \/ m \in Oneway /\ Finish(c, Answer("ok", <<>>, "queue"))
      \/ client' = [client EXCEPT ![c] = "waiting"] /\ UNCHANGED result
  BY DEF Transact
<1>9. Failed.kind = "error" /\ Failed.from = "none" BY DEF Failed, Answer
<1> QED BY <1>5, <1>6, <1>7, <1>8, <1>9

LEMMA FallBackRefines ==
  ASSUME IInv, ParcelInv, NEW c \in Call, FallBack(c)
  PROVE  UNCHANGED Calls!vars
<1>1. /\ client[c] = "waiting" /\ client'[c] = "fallback"
      /\ UNCHANGED <<environment, method, request, using, result, serverSide, received, clientLang>>
      /\ \A d \in Call : d # c => client'[d] = client[d]
  BY DEF FallBack, serverSide, environment, IInv, ControlInv
<1>2. ASSUME NEW d \in Call, d # c PROVE Unseen(d)
  <2>1. Untouched(d) BY <1>1, <1>2 DEF Untouched, serverSide
  <2> QED BY <1>1, <2>1, UntouchedIsUnseen
<1>3. PhaseOf(c)' = PhaseOf(c) BY <1>1 DEF PhaseOf
<1>4. RanOf(c)' = RanOf(c) BY <1>1 DEF RanOf
<1>5. OutcomeOf(c)' = OutcomeOf(c) BY <1>1 DEF OutcomeOf
<1>6. \A d \in Call : Unseen(d) BY <1>2, <1>3, <1>4, <1>5 DEF Unseen
<1> QED BY <1>6, Stutter

LEMMA EnterDefaultRefines ==
  ASSUME IInv, ParcelInv, NEW c \in Call, EnterDefault(c)
  PROVE  Calls!Next
<1>1. client[c] = "fallback" /\ defaultImpl # None /\ using[c] = None
  BY DEF EnterDefault, IInv, DefaultInv, ParcelInv, CallInv, LinkInv
<1>2. /\ client'[c] = "default" /\ using'[c] = defaultImpl
      /\ UNCHANGED <<environment, method, request, result, serverSide, received, clientLang>>
      /\ \A d \in Call : d # c => client'[d] = client[d] /\ using'[d] = using[d]
  BY <1>1 DEF EnterDefault, serverSide, environment, IInv, ControlInv
<1>3. ASSUME NEW d \in Call, d # c PROVE Unseen(d)
  <2>1. Untouched(d) BY <1>2, <1>3 DEF Untouched, serverSide
  <2> QED BY <1>2, <2>1, UntouchedIsUnseen
<1>4. PhaseOf(c) = "pending" /\ PhaseOf(c)' = PhaseOf(c) BY <1>1, <1>2 DEF PhaseOf
<1>5. "default" \notin RanOf(c) /\ RanOf(c)' = RanOf(c) \cup {"default"}
  BY <1>1, <1>2 DEF RanOf
<1>6. OutcomeOf(c)' = OutcomeOf(c) BY <1>1, <1>2 DEF OutcomeOf
<1> QED BY <1>3, <1>4, <1>5, <1>6, SeenRun

\* An answer that a waiting call may be given: a value only when somebody ran it.
Tells(c, answer) ==
  /\ answer.kind \in {"ok", "exception", "error", "crash"} /\ answer.from # "queue"
  /\ answer.kind = "ok" /\ method[c] # G =>
       RanOf(c) # {} \/ (clientLang = "JAVA" /\ answer.from = "nobody")

LEMMA FinishRefines ==
  ASSUME IInv, ParcelInv, NEW c \in Call, client[c] \in {"waiting", "fallback", "default"},
         NEW answer, Finish(c, answer), Tells(c, answer),
         UNCHANGED <<environment, method, request, using, serverSide>>
  PROVE  Calls!Next
<1>1. /\ client'[c] = "done" /\ result'[c] = answer
      /\ \A d \in Call : d # c => client'[d] = client[d] /\ result'[d] = result[d]
  BY DEF Finish, IInv, ControlInv
<1>2. UNCHANGED <<received, clientLang>> BY DEF serverSide, environment
<1>3. ASSUME NEW d \in Call, d # c PROVE Unseen(d)
  <2>1. Untouched(d) BY <1>1, <1>3 DEF Untouched, serverSide
  <2> QED BY <2>1, UntouchedIsUnseen
<1>4. PhaseOf(c) = "pending" BY DEF PhaseOf
<1>5. PhaseOf(c)' = "settled" BY <1>1 DEF PhaseOf, Tells
<1>6. RanOf(c)' = RanOf(c) BY <1>2 DEF RanOf
<1>7. /\ OutcomeOf(c)' \in {"value", "blank", "exception", "error", "crash", "local"}
      /\ OutcomeOf(c)' = "value" => RanOf(c) # {}
  BY <1>1, <1>2 DEF OutcomeOf, Tells, G
<1> QED BY <1>3, <1>4, <1>5, <1>6, <1>7, SeenSettle

LEMMA LeaveDefaultRefines ==
  ASSUME IInv, ParcelInv, NEW c \in Call, LeaveDefault(c)
  PROVE  Calls!Next
<1>1. /\ client[c] = "default" /\ using[c] # None
      /\ UNCHANGED <<environment, method, request, using, serverSide>>
  BY DEF LeaveDefault, IInv, DefaultInv
<1>2. RanOf(c) # {} BY <1>1 DEF RanOf
<1>3. \E kind \in {"ok", "exception", "error", "crash"}, from \in {"none", "default"} :
        \E v : Finish(c, Answer(kind, v, from))
  BY DEF LeaveDefault, Failed
<1>4. PICK kind \in {"ok", "exception", "error", "crash"}, from \in {"none", "default"} :
        \E v : Finish(c, Answer(kind, v, from))
  BY <1>3
<1> PICK values : Finish(c, Answer(kind, values, from))
  BY <1>4
<1>5. Tells(c, Answer(kind, values, from))
  BY <1>2 DEF Answer, Tells
<1> QED BY <1>1, <1>4, <1>5, FinishRefines

LEMMA CompleteRefines ==
  ASSUME IInv, ParcelInv, NEW c \in Call,
         NEW f \in 0 .. Len(ExpectedReply(method[c])), Complete(c, f)
  PROVE  Calls!Next
<1>1. /\ client[c] = "waiting" /\ server[c] = "finished" /\ f \in Nat
      /\ UNCHANGED <<environment, method, request, using, serverSide>>
      /\ Ordinary(c)
  BY DEF Complete, ParcelInv, CallInv, LinkInv, Ordinary, G
<1>2. CASE Finish(c, Failed)
  <2>1. Tells(c, Failed) BY DEF Failed, Answer, Tells
  <2> QED BY <1>1, <1>2, <2>1, FinishRefines
<1>3. CASE ~NoReply(c) /\ Finish(c, ReadReply(c, f))
  <2> DEFINE answer == ReadReply(c, f)
  <2>1. answer.kind \in {"ok", "exception", "error"} /\ answer.from \in {"server", "nobody", "none"}
    BY DEF ReadReply, Failed, Answer
  <2>2. answer.kind = "ok" =>
          received[c] # <<>> \/ (clientLang = "JAVA" /\ answer.from = "nobody")
    BY <1>1, <1>3, ReadIsProduced
  <2> HIDE DEF answer
  <2>3. received[c] # <<>> => RanOf(c) # {} BY DEF RanOf
  <2>4. Finish(c, answer) BY <1>3 DEF answer
  <2>5. Tells(c, answer) BY <2>1, <2>2, <2>3 DEF Tells
  <2> QED BY <1>1, <2>4, <2>5, FinishRefines
<1> QED BY <1>2, <1>3 DEF Complete

LEMMA CompleteVersionRefines ==
  ASSUME IInv, ParcelInv, NEW c \in Call, CompleteVersion(c)
  PROVE  Calls!Next
<1>1. /\ client[c] = "waiting" /\ method[c] = G
      /\ UNCHANGED <<environment, method, request, using, serverSide>>
      /\ \/ \E values : Finish(c, Answer("ok", values, "server"))
         \/ Finish(c, Failed)
  BY DEF CompleteVersion, G
<1>2. ASSUME NEW values, Finish(c, Answer("ok", values, "server")) PROVE Calls!Next
  <2>1. Tells(c, Answer("ok", values, "server"))
    BY <1>1 DEF Answer, Tells
  <2> QED BY <1>1, <1>2, <2>1, FinishRefines
<1>3. CASE Finish(c, Failed)
  <2>1. Tells(c, Failed) BY DEF Failed, Answer, Tells
  <2> QED BY <1>1, <1>3, <2>1, FinishRefines
<1> QED BY <1>1, <1>2, <1>3

-----------------------------------------------------------------------------
LEMMA NextRefines ==
  IInv /\ ParcelInv /\ [Next]_vars => [Calls!Next]_(Calls!vars)
<1> SUFFICES ASSUME IInv, ParcelInv, [Next]_vars PROVE [Calls!Next]_(Calls!vars) OBVIOUS
<1>1. CASE \E s \in Setter : SetterCheck(s) \/ SetterAssign(s)
  <2>1. UNCHANGED <<environment, clientSide, received>>
    BY <1>1 DEF SetterCheck, SetterAssign, serverSide
  <2> QED BY <2>1, ServerOnly
<1>2. CASE \E c \in Call : StartCall(c)
  BY <1>2, CachedAnswerRefines, TransactRefines DEF StartCall
<1>3. CASE \E c \in Call : StubStep(c)
  <2>1. CASE UNCHANGED <<environment, clientSide, received>>
    BY <2>1, ServerOnly
  <2>2. CASE \E c \in Call : \E f \in 0 .. Len(ExpectedRequest(method[c])), e \in {"OK"} \cup ReadFaults :
          Unmarshal(c, f, e)
    BY <2>2, UnmarshalRefines
  <2> QED BY <1>3, <2>1, <2>2
     DEF StubStep, UnknownCode, ServeVersion, ReturnOk, ReturnException, ReturnUnknown
<1>4. CASE \E c \in Call : ProxyStep(c)
  BY <1>4, FallBackRefines, EnterDefaultRefines, LeaveDefaultRefines, CompleteRefines,
     CompleteVersionRefines DEF ProxyStep
<1>5. CASE ServerDies
  BY <1>5, ServerOnly DEF ServerDies
<1>6. CASE UNCHANGED vars
  <2>1. UNCHANGED <<environment, clientSide, received>> BY <1>6 DEF vars, serverSide
  <2> QED BY <2>1, ServerOnly
<1> QED BY <1>1, <1>2, <1>3, <1>4, <1>5, <1>6 DEF Next

\* A call is settled once, no implementation runs it twice, a value comes
\* from one that ran, and only a oneway call returns before the server has
\* run it.
THEOREM ImplementsRemoteCallAlways == Spec => ImplementsRemoteCall
<1>1. Spec => []IInv BY Invariance
<1>2. Spec => []ParcelInv BY ParcelInvariance
<1> QED BY <1>1, <1>2, InitRefines, NextRefines, PTL
   DEF Spec, ImplementsRemoteCall, Calls!Spec
=============================================================================
