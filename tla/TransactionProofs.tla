-------------------------- MODULE TransactionProofs --------------------------
(***************************************************************************)
(* What generated proxies and stubs guarantee for any interface, any       *)
(* number of calls, setDefaultImpl threads, methods and versions, and any  *)
(* combination of backends. First the cached version and the life of the   *)
(* default implementation. Then the parcels of each call, followed from    *)
(* the proxy to the stub and back: what becomes of arguments and results,  *)
(* and the types of everything a call leaves behind.                       *)
(***************************************************************************)
EXTENDS TransactionProperties, FiniteSetTheorems, SequenceTheorems,
        WellFoundedInduction, TLAPS

G == GetInterfaceVersion

\* The control state of the calls.
ControlInv ==
  /\ setter \in [Setter -> {"idle", "checked", "refused", "installed"}]
  /\ defaultImpl \in Setter \cup {None}
  /\ client \in [Call -> {"idle", "waiting", "fallback", "default", "done"}]
  /\ server \in [Call -> {"idle", "queued", "running", "finished"}]
  /\ method \in [Call -> Method]
  /\ using \in [Call -> Setter \cup {None}]
  /\ reply = [c \in Call |-> reply[c]]
  /\ status = [c \in Call |-> status[c]]
  /\ result = [c \in Call |-> result[c]]
  /\ \A c \in Call :
       /\ client[c] = "idle" => server[c] = "idle" /\ using[c] = None
       /\ client[c] # "done" => result[c] = NoAnswer
       /\ server[c] # "finished" => reply[c] = <<>>
       /\ server[c] = "running" => method[c] # G

\* The default implementation is one whose setDefaultImpl returned true, and
\* a call destroyed in it had two of them.
TwoInstalled ==
  \E s, t \in Setter : s # t /\ setter[s] = "installed" /\ setter[t] = "installed"
DefaultInv ==
  /\ defaultImpl # None => setter[defaultImpl] = "installed"
  /\ \A s \in Setter : setter[s] = "installed" => defaultImpl # None
  /\ \A c \in Call :
       /\ using[c] # None => setter[using[c]] = "installed"
       /\ client[c] = "fallback" => defaultImpl # None
       /\ client[c] = "default" => using[c] # None
       /\ result[c].kind = "crash" => TwoInstalled

\* What a stub, or nobody, has answered to getInterfaceVersion.
VersionAnswer(c) ==
  \/ /\ status[c] = "OK"
     /\ reply[c] = <<OkHeader, Version(serverVersion)>> \/ reply[c] = <<ExHeader>>
  \/ /\ status[c] = "UNKNOWN_TRANSACTION"
     /\ reply[c] = <<>> /\ serverVersion = 0
  \/ /\ status[c] \in {"BAD_TYPE", "DEAD_OBJECT"}
     /\ reply[c] = <<>>
VersionInv ==
  /\ serverVersion \in Nat
  /\ G \in served <=> serverVersion > 0
  /\ cachedVersion \in {-1, serverVersion}
  /\ \A c \in Call :
       method[c] = G =>
         /\ server[c] = "finished" => VersionAnswer(c)
         /\ result[c].kind = "ok" /\ result[c].from # "default" =>
              result[c].values = <<Version(serverVersion)>>

IInv == ControlInv /\ DefaultInv /\ VersionInv

LEMMA ConstantFacts ==
  /\ None \notin Setter
  /\ G \in Method /\ G \notin Oneway
  /\ Versions \subseteq Nat
BY TransactionAssumption DEF G

LEMMA InitIInv == Init => IInv
<1> SUFFICES ASSUME Init PROVE IInv OBVIOUS
<1>1. ControlInv BY ConstantFacts DEF Init, ControlInv, G
<1>2. \A c \in Call : result[c].kind = "none" BY DEF Init, NoAnswer, Answer
<1>3. DefaultInv BY <1>2 DEF Init, DefaultInv
<1>4. VersionInv BY <1>2, ConstantFacts DEF Init, VersionInv, G
<1> QED BY <1>1, <1>3, <1>4 DEF IInv

-----------------------------------------------------------------------------
(* setDefaultImpl                                                          *)

LEMMA SetterCheckStep ==
  ASSUME IInv, NEW s \in Setter, SetterCheck(s) PROVE IInv'
<1>1. /\ setter[s] = "idle"
      /\ setter' = [setter EXCEPT ![s] = setter'[s]]
      /\ setter'[s] \in {"checked", "refused"}
      /\ UNCHANGED <<environment, alive, defaultImpl, cachedVersion, clientSide, serverSide>>
  BY DEF SetterCheck, IInv, ControlInv
<1>2. \A t \in Setter : setter[t] = "installed" => setter'[t] = "installed"
  BY <1>1 DEF IInv, ControlInv
<1>3. ControlInv'
  BY <1>1 DEF IInv, ControlInv, environment, clientSide, serverSide
<1>4. DefaultInv'
  BY <1>1, <1>2, ConstantFacts
  DEF IInv, ControlInv, DefaultInv, TwoInstalled, environment, clientSide, serverSide
<1>5. VersionInv'
  BY <1>1 DEF IInv, VersionInv, VersionAnswer, environment, clientSide, serverSide
<1> QED BY <1>3, <1>4, <1>5 DEF IInv

LEMMA SetterAssignStep ==
  ASSUME IInv, NEW s \in Setter, SetterAssign(s) PROVE IInv'
<1>1. /\ setter[s] = "checked"
      /\ defaultImpl' = s
      /\ setter' = [setter EXCEPT ![s] = "installed"]
      /\ UNCHANGED <<environment, alive, cachedVersion, clientSide, serverSide>>
  BY DEF SetterAssign
<1>2. setter'[s] = "installed" /\ \A t \in Setter : setter[t] = "installed" => setter'[t] = "installed"
  BY <1>1 DEF IInv, ControlInv
<1>3. ControlInv'
  BY <1>1 DEF IInv, ControlInv, environment, clientSide, serverSide
<1>4. DefaultInv'
  BY <1>1, <1>2, ConstantFacts
  DEF IInv, ControlInv, DefaultInv, TwoInstalled, environment, clientSide, serverSide
<1>5. VersionInv'
  BY <1>1 DEF IInv, VersionInv, VersionAnswer, environment, clientSide, serverSide
<1> QED BY <1>3, <1>4, <1>5 DEF IInv

-----------------------------------------------------------------------------
(* The start of a call.                                                    *)

LEMMA CachedAnswerStep ==
  ASSUME IInv, NEW c \in Call, CachedAnswer(c) PROVE IInv'
<1> DEFINE answer == Answer("ok", <<Version(cachedVersion)>>, "cache")
<1>1. /\ client[c] = "idle" /\ cachedVersion # -1
      /\ method' = [method EXCEPT ![c] = G]
      /\ client' = [client EXCEPT ![c] = "done"]
      /\ result' = [result EXCEPT ![c] = answer]
      /\ UNCHANGED <<environment, alive, defaultImpl, setter, cachedVersion, request, using, serverSide>>
  BY DEF CachedAnswer, Finish, G
<1>2. /\ answer.kind = "ok" /\ answer.values = <<Version(serverVersion)>>
  BY <1>1 DEF IInv, VersionInv, Answer
<1>3. server[c] = "idle" BY <1>1 DEF IInv, ControlInv
<1>4. ControlInv'
  BY <1>1, <1>3, ConstantFacts DEF IInv, ControlInv, environment, serverSide
<1>5. DefaultInv'
  BY <1>1, <1>2 DEF IInv, ControlInv, DefaultInv, TwoInstalled, environment, serverSide
<1>6. VersionInv'
  <2> HIDE DEF answer
  <2> QED BY <1>1, <1>2, <1>3 DEF IInv, ControlInv, VersionInv, VersionAnswer, environment, serverSide
<1> QED BY <1>4, <1>5, <1>6 DEF IInv

LEMMA TransactStep ==
  ASSUME IInv, NEW c \in Call, NEW m \in Method, NEW f, NEW token, Transact(c, m, f, token)
  PROVE  IInv'
<1>1. /\ client[c] = "idle" /\ server[c] = "idle" /\ reply[c] = <<>>
      /\ result[c] = NoAnswer /\ using[c] = None
  BY DEF Transact, IInv, ControlInv
<1>2. /\ method' = [method EXCEPT ![c] = m]
      /\ UNCHANGED <<environment, alive, defaultImpl, setter, cachedVersion, using, reply>>
  BY DEF Transact
<1>3. /\ server' \in [Call -> {"idle", "queued", "running", "finished"}]
      /\ status' = [d \in Call |-> status'[d]]
      /\ \A d \in Call : d # c => server'[d] = server[d] /\ status'[d] = status[d]
      /\ \/ server'[c] = "idle" \/ server'[c] = "queued"
         \/ server'[c] = "finished" /\ status'[c] = "DEAD_OBJECT"
  <2>1. CASE UNCHANGED <<server, status>>
    BY <1>1, <2>1 DEF IInv, ControlInv
  <2>2. CASE server' = [server EXCEPT ![c] = "queued"] /\ UNCHANGED status
    BY <1>1, <2>2 DEF IInv, ControlInv
  <2>3. CASE /\ server' = [server EXCEPT ![c] = "finished"]
             /\ status' = [status EXCEPT ![c] = "DEAD_OBJECT"]
    BY <1>1, <2>3 DEF IInv, ControlInv
  <2> QED BY <2>1, <2>2, <2>3 DEF Transact
<1>4. /\ client' \in [Call -> {"idle", "waiting", "fallback", "default", "done"}]
      /\ result' = [d \in Call |-> result'[d]]
      /\ \A d \in Call : d # c => client'[d] = client[d] /\ result'[d] = result[d]
      /\ \/ client'[c] = "waiting" /\ result'[c] = NoAnswer
         \/ client'[c] = "done" /\ result'[c] = Failed
         \/ client'[c] = "done" /\ m \in Oneway /\ result'[c] = Answer("ok", <<>>, "queue")
  <2>1. \/ Finish(c, Failed)
        \/ m \in Oneway /\ Finish(c, Answer("ok", <<>>, "queue"))
        \/ client' = [client EXCEPT ![c] = "waiting"] /\ UNCHANGED result
    BY DEF Transact
  <2>2. CASE Finish(c, Failed) BY <2>2 DEF Finish, IInv, ControlInv
  <2>3. CASE m \in Oneway /\ Finish(c, Answer("ok", <<>>, "queue"))
    BY <2>3 DEF Finish, IInv, ControlInv
  <2>4. CASE client' = [client EXCEPT ![c] = "waiting"] /\ UNCHANGED result
    BY <1>1, <2>4 DEF IInv, ControlInv
  <2> QED BY <2>1, <2>2, <2>3, <2>4
<1>5. /\ method'[c] = m
      /\ \A d \in Call : d # c =>
           /\ method'[d] = method[d] /\ server'[d] = server[d] /\ status'[d] = status[d]
           /\ client'[d] = client[d] /\ result'[d] = result[d]
  BY <1>2, <1>3, <1>4 DEF IInv, ControlInv
<1>6. result'[c].kind # "crash" /\ (m = G => result'[c].kind # "ok")
  BY <1>4, ConstantFacts DEF Failed, NoAnswer, Answer
<1>7. ControlInv'
  <2>3. method' \in [Call -> Method] BY <1>2 DEF IInv, ControlInv
  <2>4. ASSUME NEW d \in Call
        PROVE  /\ client'[d] = "idle" => server'[d] = "idle" /\ using'[d] = None
               /\ client'[d] # "done" => result'[d] = NoAnswer
               /\ server'[d] # "finished" => reply'[d] = <<>>
               /\ server'[d] = "running" => method'[d] # G
    <3>1. CASE d = c BY <1>1, <1>2, <1>3, <1>4, <3>1
    <3>2. CASE d # c BY <1>2, <1>5, <3>2 DEF IInv, ControlInv
    <3> QED BY <3>1, <3>2
  <2>5. UNCHANGED <<setter, defaultImpl, using, reply>> BY <1>2
  <2> QED BY <1>3, <1>4, <2>3, <2>4, <2>5 DEF IInv, ControlInv
<1>8. DefaultInv'
  <2>1. UNCHANGED <<setter, defaultImpl, using>> BY <1>2
  <2>2. client'[c] \notin {"fallback", "default"} BY <1>4
  <2> QED BY <1>5, <1>6, <2>1, <2>2 DEF IInv, DefaultInv, TwoInstalled
<1>9. VersionInv'
  <2>1. UNCHANGED <<serverVersion, served, cachedVersion, reply>> BY <1>2 DEF environment
  <2>2. server'[c] = "finished" => status'[c] = "DEAD_OBJECT" BY <1>3
  <2>3. ASSUME NEW d \in Call, method'[d] = G
        PROVE  /\ server'[d] = "finished" => VersionAnswer(d)'
               /\ result'[d].kind = "ok" /\ result'[d].from # "default" =>
                    result'[d].values = <<Version(serverVersion)>>
    <3>1. CASE d = c BY <1>1, <1>5, <1>6, <2>1, <2>2, <2>3, <3>1 DEF VersionAnswer
    <3>2. CASE d # c BY <1>5, <2>1, <2>3, <3>2 DEF IInv, VersionInv, VersionAnswer
    <3> QED BY <3>1, <3>2
  <2> QED BY <2>1, <2>3 DEF IInv, VersionInv
<1> QED BY <1>7, <1>8, <1>9 DEF IInv

-----------------------------------------------------------------------------
(* The stub.                                                               *)

LEMMA RespondStep ==
  ASSUME IInv, NEW c \in Call, NEW st, NEW cells,
         server[c] \in {"queued", "running"},
         Respond(c, st, cells),
         method[c] = G => VersionAnswer(c)',
         UNCHANGED <<environment, alive, defaultImpl, setter, cachedVersion, clientSide>>
  PROVE  IInv'
<1>1. /\ server' = [server EXCEPT ![c] = "finished"]
      /\ status' = [status EXCEPT ![c] = st]
      /\ reply' = [reply EXCEPT ![c] = cells]
  BY DEF Respond
<1>2. UNCHANGED <<serverVersion, served, defaultImpl, setter, cachedVersion, client, method, using, result>>
  BY DEF environment, clientSide
<1>3. /\ server' \in [Call -> {"idle", "queued", "running", "finished"}]
      /\ status' = [d \in Call |-> status'[d]] /\ reply' = [d \in Call |-> reply'[d]]
      /\ server'[c] = "finished" /\ client[c] # "idle"
      /\ \A d \in Call : d # c =>
           server'[d] = server[d] /\ status'[d] = status[d] /\ reply'[d] = reply[d]
  BY <1>1 DEF IInv, ControlInv
<1>4. ControlInv'
  BY <1>2, <1>3 DEF IInv, ControlInv
<1>5. DefaultInv'
  BY <1>2 DEF IInv, DefaultInv, TwoInstalled
<1>6. VersionInv'
  <2>1. ASSUME NEW d \in Call, method'[d] = G, server'[d] = "finished"
        PROVE  VersionAnswer(d)'
    <3>1. CASE d = c BY <1>2, <2>1, <3>1
    <3>2. CASE d # c BY <1>2, <1>3, <2>1, <3>2 DEF IInv, VersionInv, VersionAnswer
    <3> QED BY <3>1, <3>2
  <2> QED BY <1>2, <2>1 DEF IInv, VersionInv
<1> QED BY <1>4, <1>5, <1>6 DEF IInv

\* A failure of a method other than getInterfaceVersion is some answer.
LEMMA RespondFailureStep ==
  ASSUME IInv, NEW c \in Call, NEW e, NEW written,
         server[c] \in {"queued", "running"}, method[c] # G,
         RespondFailure(c, e, written),
         UNCHANGED <<environment, alive, defaultImpl, setter, cachedVersion, clientSide>>
  PROVE  IInv'
<1>1. \/ Respond(c, "OK", <<ExHeader>>)
      \/ Respond(c, "OK", Append(written, ExHeader))
      \/ Respond(c, e, <<>>)
  BY DEF RespondFailure
<1> QED BY <1>1, RespondStep

LEMMA UnknownCodeStep ==
  ASSUME IInv, NEW c \in Call, UnknownCode(c) PROVE IInv'
<1>1. /\ server[c] = "queued" /\ method[c] \notin served
      /\ Respond(c, "UNKNOWN_TRANSACTION", <<>>)
      /\ UNCHANGED <<environment, alive, defaultImpl, setter, cachedVersion, clientSide>>
  BY DEF UnknownCode
<1>2. ASSUME method[c] = G PROVE VersionAnswer(c)'
  <2>1. serverVersion = 0 /\ serverVersion' = serverVersion
    BY <1>1, <1>2 DEF IInv, VersionInv, environment
  <2>2. status'[c] = "UNKNOWN_TRANSACTION" /\ reply'[c] = <<>>
    BY <1>1 DEF Respond, IInv, ControlInv
  <2> QED BY <2>1, <2>2 DEF VersionAnswer
<1> QED BY <1>1, <1>2, RespondStep

LEMMA ServeVersionStep ==
  ASSUME IInv, NEW c \in Call, ServeVersion(c) PROVE IInv'
<1>1. /\ server[c] = "queued" /\ method[c] = G
      /\ UNCHANGED <<environment, alive, defaultImpl, setter, cachedVersion, clientSide>>
      /\ serverVersion' = serverVersion
  BY DEF ServeVersion, G, environment
<1>2. \/ Respond(c, "OK", <<OkHeader, Version(serverVersion)>>)
      \/ Respond(c, "OK", <<ExHeader>>)
      \/ Respond(c, "BAD_TYPE", <<>>)
  BY DEF ServeVersion, RespondFailure
<1>3. CASE Respond(c, "OK", <<OkHeader, Version(serverVersion)>>)
  <2>1. status'[c] = "OK" /\ reply'[c] = <<OkHeader, Version(serverVersion)>>
    BY <1>3 DEF Respond, IInv, ControlInv
  <2>2. VersionAnswer(c)' BY <1>1, <2>1 DEF VersionAnswer
  <2> QED BY <1>1, <1>3, <2>2, RespondStep
<1>4. CASE Respond(c, "OK", <<ExHeader>>)
  <2>1. status'[c] = "OK" /\ reply'[c] = <<ExHeader>>
    BY <1>4 DEF Respond, IInv, ControlInv
  <2>2. VersionAnswer(c)' BY <2>1 DEF VersionAnswer
  <2> QED BY <1>1, <1>4, <2>2, RespondStep
<1>5. CASE Respond(c, "BAD_TYPE", <<>>)
  <2>1. status'[c] = "BAD_TYPE" /\ reply'[c] = <<>>
    BY <1>5 DEF Respond, IInv, ControlInv
  <2>2. VersionAnswer(c)' BY <2>1 DEF VersionAnswer
  <2> QED BY <1>1, <1>5, <2>2, RespondStep
<1> QED BY <1>2, <1>3, <1>4, <1>5

LEMMA UnmarshalStep ==
  ASSUME IInv, NEW c \in Call, NEW f, NEW e, Unmarshal(c, f, e) PROVE IInv'
<1>1. /\ server[c] = "queued" /\ method[c] # G
      /\ UNCHANGED <<environment, alive, defaultImpl, setter, cachedVersion, clientSide>>
  BY DEF Unmarshal, G
<1>2. \/ \E st : RespondFailure(c, st, <<>>)
      \/ server' = [server EXCEPT ![c] = "running"] /\ UNCHANGED <<reply, status>>
  BY DEF Unmarshal
<1>3. CASE \E st : RespondFailure(c, st, <<>>)
  BY <1>1, <1>3, RespondFailureStep
<1>4. CASE server' = [server EXCEPT ![c] = "running"] /\ UNCHANGED <<reply, status>>
  <2>1. UNCHANGED <<serverVersion, served, defaultImpl, setter, cachedVersion, client, method, using, result, reply, status>>
    BY <1>1, <1>4 DEF environment, clientSide
  <2>2. ControlInv' BY <1>1, <1>4, <2>1 DEF IInv, ControlInv
  <2>3. DefaultInv' BY <2>1 DEF IInv, DefaultInv, TwoInstalled
  <2>4. VersionInv' BY <1>1, <1>4, <2>1 DEF IInv, ControlInv, VersionInv, VersionAnswer
  <2> QED BY <2>2, <2>3, <2>4 DEF IInv
<1> QED BY <1>2, <1>3, <1>4

LEMMA ReturnStep ==
  ASSUME IInv, NEW c \in Call,
         \/ \E f, e : ReturnOk(c, f, e)
         \/ ReturnException(c)
         \/ ReturnUnknown(c)
  PROVE  IInv'
<1>1. /\ server[c] = "running"
      /\ UNCHANGED <<environment, alive, defaultImpl, setter, cachedVersion, clientSide>>
  BY DEF ReturnOk, ReturnException, ReturnUnknown
<1>2. method[c] # G BY <1>1 DEF IInv, ControlInv
<1>3. \/ \E st, cells : Respond(c, st, cells)
      \/ \E e, written : RespondFailure(c, e, written)
  BY DEF ReturnOk, ReturnException, ReturnUnknown
<1> QED BY <1>1, <1>2, <1>3, RespondStep, RespondFailureStep

LEMMA ServerDiesStep ==
  ASSUME IInv, ServerDies PROVE IInv'
<1> DEFINE lost == {c \in Call : server[c] \in {"queued", "running"}}
<1>1. /\ server' = [c \in Call |-> IF c \in lost THEN "finished" ELSE server[c]]
      /\ status' = [c \in Call |-> IF c \in lost THEN "DEAD_OBJECT" ELSE status[c]]
      /\ UNCHANGED <<serverVersion, served, defaultImpl, setter, cachedVersion, client, method, using, result, reply>>
  BY DEF ServerDies, environment, clientSide
<1>2. ASSUME NEW c \in Call
      PROVE  \/ server'[c] = server[c] /\ status'[c] = status[c]
             \/ /\ server[c] \in {"queued", "running"}
                /\ server'[c] = "finished" /\ status'[c] = "DEAD_OBJECT"
  BY <1>1
<1>3. /\ server' \in [Call -> {"idle", "queued", "running", "finished"}]
      /\ status' = [c \in Call |-> status'[c]]
  BY <1>1 DEF IInv, ControlInv
<1> HIDE DEF lost
<1>4. ControlInv' BY <1>1, <1>2, <1>3 DEF IInv, ControlInv
<1>5. DefaultInv' BY <1>1 DEF IInv, DefaultInv, TwoInstalled
<1>6. VersionInv'
  <2>1. ASSUME NEW c \in Call, method'[c] = G, server'[c] = "finished"
        PROVE  VersionAnswer(c)'
    <3>1. CASE server'[c] = server[c] /\ status'[c] = status[c]
      BY <1>1, <2>1, <3>1 DEF IInv, VersionInv, VersionAnswer
    <3>2. CASE server[c] \in {"queued", "running"} /\ status'[c] = "DEAD_OBJECT"
      <4>1. reply'[c] = <<>> BY <1>1, <3>2 DEF IInv, ControlInv
      <4> QED BY <3>2, <4>1 DEF VersionAnswer
    <3> QED BY <1>2, <3>1, <3>2
  <2> QED BY <1>1, <2>1 DEF IInv, VersionInv
<1> QED BY <1>4, <1>5, <1>6 DEF IInv

-----------------------------------------------------------------------------
(* The proxy, after transact().                                            *)

LEMMA FinishStep ==
  ASSUME IInv, NEW c \in Call, NEW answer,
         client[c] \in {"waiting", "fallback", "default"},
         Finish(c, answer),
         answer.kind = "crash" => TwoInstalled,
         method[c] = G /\ answer.kind = "ok" /\ answer.from # "default"
           => answer.values = <<Version(serverVersion)>>,
         cachedVersion' \in {-1, serverVersion},
         UNCHANGED <<environment, alive, defaultImpl, setter, method, request, using, serverSide>>
  PROVE  IInv'
<1>1. UNCHANGED <<serverVersion, served, defaultImpl, setter, method, using, server, reply, status>>
  BY DEF environment, serverSide
<1>2. /\ client' \in [Call -> {"idle", "waiting", "fallback", "default", "done"}]
      /\ result' = [d \in Call |-> result'[d]]
      /\ client'[c] = "done" /\ result'[c] = answer
      /\ \A d \in Call : d # c => client'[d] = client[d] /\ result'[d] = result[d]
  BY DEF Finish, IInv, ControlInv
<1>3. ControlInv' BY <1>1, <1>2 DEF IInv, ControlInv
<1>4. DefaultInv' BY <1>1, <1>2 DEF IInv, DefaultInv, TwoInstalled
<1>5. VersionInv' BY <1>1, <1>2 DEF IInv, VersionInv, VersionAnswer
<1> QED BY <1>3, <1>4, <1>5 DEF IInv

LEMMA FallBackStep ==
  ASSUME IInv, NEW c \in Call, FallBack(c) PROVE IInv'
<1>1. /\ client[c] = "waiting" /\ defaultImpl # None
      /\ client' = [client EXCEPT ![c] = "fallback"]
      /\ UNCHANGED <<serverVersion, served, cachedVersion, defaultImpl, setter, method, using,
                     result, server, reply, status>>
  BY DEF FallBack, environment, serverSide
<1>2. ControlInv' BY <1>1 DEF IInv, ControlInv
<1>3. DefaultInv' BY <1>1 DEF IInv, ControlInv, DefaultInv, TwoInstalled
<1>4. VersionInv' BY <1>1 DEF IInv, VersionInv, VersionAnswer
<1> QED BY <1>2, <1>3, <1>4 DEF IInv

LEMMA EnterDefaultStep ==
  ASSUME IInv, NEW c \in Call, EnterDefault(c) PROVE IInv'
<1>1. client[c] = "fallback" /\ defaultImpl # None
  BY DEF EnterDefault, IInv, DefaultInv
<1>2. /\ using' = [using EXCEPT ![c] = defaultImpl]
      /\ client' = [client EXCEPT ![c] = "default"]
      /\ UNCHANGED <<serverVersion, served, cachedVersion, defaultImpl, setter, method,
                     result, server, reply, status>>
  BY <1>1 DEF EnterDefault, environment, serverSide
<1>3. ControlInv' BY <1>1, <1>2 DEF IInv, ControlInv
<1>4. DefaultInv' BY <1>1, <1>2 DEF IInv, ControlInv, DefaultInv, TwoInstalled
<1>5. VersionInv' BY <1>2 DEF IInv, VersionInv, VersionAnswer
<1> QED BY <1>3, <1>4, <1>5 DEF IInv

\* A default implementation is destroyed under a call only when another one
\* took its place.
LEMMA LeaveDefaultStep ==
  ASSUME IInv, NEW c \in Call, LeaveDefault(c) PROVE IInv'
<1>1. /\ client[c] = "default"
      /\ UNCHANGED <<environment, alive, defaultImpl, setter, cachedVersion, method, request, using, serverSide>>
  BY DEF LeaveDefault
<1>2. cachedVersion' \in {-1, serverVersion} BY <1>1 DEF IInv, VersionInv
<1>3. CASE using[c] # defaultImpl /\ Finish(c, Answer("crash", <<>>, "none"))
  <2>1. using[c] # None /\ setter[using[c]] = "installed" /\ using[c] \in Setter
    BY <1>1 DEF IInv, ControlInv, DefaultInv
  <2>2. defaultImpl # None /\ setter[defaultImpl] = "installed" /\ defaultImpl \in Setter
    BY <2>1 DEF IInv, ControlInv, DefaultInv
  <2>3. TwoInstalled BY <1>3, <2>1, <2>2 DEF TwoInstalled
  <2>4. Answer("crash", <<>>, "none").kind = "crash" BY DEF Answer
  <2> QED BY <1>1, <1>2, <1>3, <2>3, <2>4, FinishStep
<1>4. ASSUME NEW kind, NEW values, kind # "crash", Finish(c, Answer(kind, values, "default"))
      PROVE  IInv'
  <2>1. Answer(kind, values, "default").kind = kind /\ Answer(kind, values, "default").from = "default"
    BY DEF Answer
  <2> QED BY <1>1, <1>2, <1>4, <2>1, FinishStep
<1>5. CASE Finish(c, Failed)
  <2>1. Failed.kind = "error" BY DEF Failed, Answer
  <2> QED BY <1>1, <1>2, <1>5, <2>1, FinishStep
<1>6. \/ using[c] # defaultImpl /\ Finish(c, Answer("crash", <<>>, "none"))
      \/ \E values : Finish(c, Answer("ok", values, "default"))
      \/ Finish(c, Answer("exception", <<>>, "default"))
      \/ Finish(c, Failed)
  BY DEF LeaveDefault
<1> QED BY <1>3, <1>4, <1>5, <1>6

LEMMA CompleteStep ==
  ASSUME IInv, NEW c \in Call, NEW f, Complete(c, f) PROVE IInv'
<1>1. /\ client[c] = "waiting" /\ method[c] # G
      /\ UNCHANGED <<environment, alive, defaultImpl, setter, cachedVersion, method, request, using, serverSide>>
  BY DEF Complete, G
<1>2. cachedVersion' \in {-1, serverVersion} BY <1>1 DEF IInv, VersionInv
<1>3. \E answer : answer.kind # "crash" /\ Finish(c, answer)
  <2>1. Failed.kind # "crash" BY DEF Failed, Answer
  <2>2. ReadReply(c, f).kind # "crash" BY DEF ReadReply, Failed, Answer
  <2> QED BY <2>1, <2>2 DEF Complete
<1> QED BY <1>1, <1>2, <1>3, FinishStep

\* Whatever the transaction came to, the version CompleteVersion takes for
\* known is the server's.
LEMMA CompleteVersionStep ==
  ASSUME IInv, NEW c \in Call, CompleteVersion(c) PROVE IInv'
<1> DEFINE cell == Read(reply[c], 2)
           version == IF cell = Zero THEN 0 ELSE cell[2]
           known == /\ ~NoReply(c)
                    /\ Read(reply[c], 1) # ExHeader
                    /\ Len(reply[c]) >= 2 \/ clientLang = "JAVA"
           told == known \/ (clientLang = "CPP" /\ cachedVersion # -1)
<1>1. /\ client[c] = "waiting" /\ server[c] = "finished" /\ method[c] = G
      /\ cachedVersion' = IF known THEN version ELSE cachedVersion
      /\ Finish(c, IF told THEN Answer("ok", <<Version(cachedVersion')>>, "server") ELSE Failed)
      /\ UNCHANGED <<environment, alive, defaultImpl, setter, method, request, using, serverSide>>
  BY DEF CompleteVersion, G
<1>2. ASSUME known PROVE version = serverVersion
  <2>1. VersionAnswer(c) BY <1>1 DEF IInv, VersionInv
  <2>2. CASE reply[c] = <<OkHeader, Version(serverVersion)>>
    <3>1. cell = <<"version", serverVersion>> BY <2>2 DEF Read, Version
    <3> HIDE DEF cell
    <3> QED BY <3>1 DEF Zero
  <2>3. CASE reply[c] = <<ExHeader>>
    BY <1>2, <2>3 DEF Read
  <2>4. CASE /\ status[c] = "UNKNOWN_TRANSACTION"
             /\ reply[c] = <<>> /\ serverVersion = 0
    BY <2>4 DEF Read
  <2>5. CASE status[c] \in {"BAD_TYPE", "DEAD_OBJECT"}
    BY <1>2, <2>5 DEF NoReply
  <2> QED BY <2>1, <2>2, <2>3, <2>4, <2>5 DEF VersionAnswer
<1> HIDE DEF known, version
<1>3. cachedVersion' \in {-1, serverVersion} /\ (told => cachedVersion' = serverVersion)
  BY <1>1, <1>2 DEF IInv, VersionInv
<1> HIDE DEF told
<1>4. CASE told
  <2>1. Finish(c, Answer("ok", <<Version(serverVersion)>>, "server"))
    BY <1>1, <1>3, <1>4
  <2>2. /\ Answer("ok", <<Version(serverVersion)>>, "server").kind = "ok"
        /\ Answer("ok", <<Version(serverVersion)>>, "server").values = <<Version(serverVersion)>>
    BY DEF Answer
  <2> QED BY <1>1, <1>3, <2>1, <2>2, FinishStep
<1>5. CASE ~told
  <2>1. Finish(c, Failed) BY <1>1, <1>5
  <2>2. Failed.kind = "error" BY DEF Failed, Answer
  <2> QED BY <1>1, <1>3, <2>1, <2>2, FinishStep
<1> QED BY <1>4, <1>5

-----------------------------------------------------------------------------
LEMMA StutterStep == ASSUME IInv, UNCHANGED vars PROVE IInv'
<1>1. UNCHANGED <<serverVersion, served, cachedVersion, defaultImpl, setter, client, method, using,
                  result, server, reply, status>>
  BY DEF vars, environment, clientSide, serverSide
<1>2. ControlInv' BY <1>1 DEF IInv, ControlInv
<1>3. DefaultInv' BY <1>1 DEF IInv, DefaultInv, TwoInstalled
<1>4. VersionInv' BY <1>1 DEF IInv, VersionInv, VersionAnswer
<1> QED BY <1>2, <1>3, <1>4 DEF IInv

LEMMA NextIInv == IInv /\ [Next]_vars => IInv'
<1> SUFFICES ASSUME IInv, [Next]_vars PROVE IInv' OBVIOUS
<1>1. CASE \E s \in Setter : SetterCheck(s) \/ SetterAssign(s)
  BY <1>1, SetterCheckStep, SetterAssignStep
<1>2. CASE \E c \in Call : StartCall(c)
  BY <1>2, CachedAnswerStep, TransactStep DEF StartCall
<1>3. CASE \E c \in Call : StubStep(c)
  BY <1>3, UnknownCodeStep, ServeVersionStep, UnmarshalStep, ReturnStep DEF StubStep
<1>4. CASE \E c \in Call : ProxyStep(c)
  BY <1>4, FallBackStep, EnterDefaultStep, LeaveDefaultStep, CompleteStep, CompleteVersionStep
  DEF ProxyStep
<1>5. CASE ServerDies BY <1>5, ServerDiesStep
<1>6. CASE UNCHANGED vars BY <1>6, StutterStep
<1> QED BY <1>1, <1>2, <1>3, <1>4, <1>5, <1>6 DEF Next

\* The inductive invariant: the control state keeps its type, and the two
\* parts about the default implementation and the cached version hold.
THEOREM Invariance == Spec => []IInv
BY InitIInv, NextIInv, PTL DEF Spec

\* Threads race to fill the version cache of a proxy, servers of other
\* versions, without one, or dead answer it; no call ever reports a version
\* that is not the server's.
THEOREM VersionIsTheServersAlways == Spec => []VersionIsTheServers
<1>1. IInv => VersionIsTheServers
  BY DEF IInv, VersionInv, VersionIsTheServers, G
<1> QED BY <1>1, Invariance, PTL

\* A proxy inside the default implementation of the process meets a null or
\* destroyed one only if two racing setDefaultImpl calls both returned true.
THEOREM DefaultSurvivesCallsAlways == Spec => []DefaultSurvivesCalls
<1>1. IInv => DefaultSurvivesCalls
  BY DEF IInv, DefaultInv, TwoInstalled, DefaultSurvivesCalls
<1> QED BY <1>1, Invariance, PTL

\* An installed default implementation that no setDefaultImpl is about to
\* overwrite stays for the life of the process.
THEOREM InstalledDefaultIsPermanentAlways == Spec => InstalledDefaultIsPermanent
<1>1. ASSUME IInv, Next, NEW d \in Setter, Settled(d) PROVE Settled(d)'
  <2>1. ASSUME UNCHANGED <<defaultImpl, setter>> PROVE Settled(d)'
    BY <1>1, <2>1 DEF Settled
  <2>2. CASE \E s \in Setter : SetterCheck(s)
    <3>1. PICK s \in Setter : SetterCheck(s) BY <2>2
    <3>2. setter' = [setter EXCEPT ![s] = "refused"] /\ UNCHANGED defaultImpl
      BY <1>1, <3>1, ConstantFacts DEF SetterCheck, Settled
    <3> QED BY <1>1, <3>2 DEF Settled, IInv, ControlInv
  <2>3. CASE \E s \in Setter : SetterAssign(s)
    BY <1>1, <2>3 DEF SetterAssign, Settled
  <2>4. CASE \E c \in Call : StartCall(c)
    BY <2>1, <2>4 DEF StartCall, CachedAnswer, Transact
  <2>5. CASE \E c \in Call : StubStep(c)
    BY <2>1, <2>5
    DEF StubStep, UnknownCode, ServeVersion, Unmarshal, ReturnOk, ReturnException, ReturnUnknown
  <2>6. CASE \E c \in Call : ProxyStep(c)
    BY <2>1, <2>6 DEF ProxyStep, FallBack, EnterDefault, LeaveDefault, Complete, CompleteVersion
  <2>7. CASE ServerDies BY <2>1, <2>7 DEF ServerDies
  <2> QED BY <1>1, <2>2, <2>3, <2>4, <2>5, <2>6, <2>7 DEF Next
<1>2. IInv /\ [Next]_vars => [\A d \in Setter : Settled(d) => Settled(d)']_vars
  BY <1>1
<1> QED BY <1>2, Invariance, PTL DEF Spec, InstalledDefaultIsPermanent

-----------------------------------------------------------------------------
(* The cells of a parcel.                                                  *)

\* Some positions in order are as many as there are.
LEMMA InOrderLength ==
  ASSUME NEW m \in Method, NEW S \in SUBSET DOMAIN Args[m]
  PROVE  /\ Len(InOrder(S)) \in Nat
         /\ InOrder(S) \in Seq({InOrder(S)[k] : k \in 1 .. Len(InOrder(S))})
<1>1. Len(Args[m]) \in Nat /\ DOMAIN Args[m] = 1 .. Len(Args[m])
  BY TransactionAssumption
<1>2. IsFiniteSet(S)
  <2>1. IsFiniteSet(1 .. Len(Args[m]))
    BY <1>1, FS_Interval
  <2> QED BY <1>1, <2>1, FS_Subset
<1>3. Cardinality(S) \in Nat
  BY <1>2, FS_CardinalityType
<1> DEFINE n == Cardinality(S)
           R == {InOrder(S)[k] : k \in 1 .. n}
<1>4. InOrder(S) \in [1 .. n -> R]
  BY DEF InOrder
<1> HIDE DEF n
<1>5. n \in Nat BY <1>3 DEF n
<1>6. InOrder(S) \in Seq(R) /\ Len(InOrder(S)) = n
  BY <1>4, <1>5
<1> QED BY <1>5, <1>6

\* A request is a sequence that starts with the token, and the stub reads the
\* cells the proxy writes.
LEMMA RequestShape ==
  ASSUME NEW m \in Method
  PROVE  /\ \E R : RequestOf(m) \in Seq(R)
         /\ Len(RequestOf(m)) \in Nat \ {0}
         /\ RequestOf(m)[1] = Token
         /\ ExpectedRequest(m) = RequestOf(m)
<1> DEFINE wire == InOrder(InRequest(m))
           n == Len(wire)
           tail == [k \in 1 .. n |-> CellOf(m, wire[k])]
           R == {Token} \cup {CellOf(m, wire[k]) : k \in 1 .. n}
<1>1. n \in Nat
  BY InOrderLength DEF InRequest
<1>2. RequestOf(m) = <<Token>> \o tail /\ ExpectedRequest(m) = <<Token>> \o tail
  BY DEF RequestOf, ExpectedRequest
<1>3. tail \in [1 .. n -> R]
  OBVIOUS
<1> HIDE DEF n, tail
<1>4. tail \in Seq(R) /\ <<Token>> \in Seq(R) /\ <<Token>>[1] = Token /\ Len(<<Token>>) = 1
  BY <1>1, <1>3
<1> HIDE DEF R
<1>5. /\ <<Token>> \o tail \in Seq(R)
      /\ Len(<<Token>> \o tail) = 1 + Len(tail) /\ Len(tail) \in Nat
      /\ (<<Token>> \o tail)[1] = Token
  BY <1>4, ConcatProperties, LenProperties
<1> QED BY <1>2, <1>5

\* A reply is a sequence, and the proxy reads the cells the stub writes.
LEMMA ReplyShape ==
  ASSUME NEW m \in Method
  PROVE  /\ \E R : ReplyOf(m) \in Seq(R)
         /\ ExpectedReply(m) = ReplyOf(m)
<1> DEFINE outs == InOrder(InReply(m))
           n == Len(outs)
           head == IF m \in NonVoid THEN <<<<"ret", 0>>>> ELSE <<>>
           tail == [k \in 1 .. n |-> <<"out", outs[k]>>]
           R == {<<"ret", 0>>} \cup {<<"out", outs[k]>> : k \in 1 .. n}
<1>1. n \in Nat
  BY InOrderLength DEF InReply
<1>2. ReplyOf(m) = head \o tail /\ ExpectedReply(m) = head \o tail
  BY DEF ReplyOf, ExpectedReply
<1>3. tail \in [1 .. n -> R] /\ <<"ret", 0>> \in R
  OBVIOUS
<1> HIDE DEF n, tail, R
<1>4. tail \in Seq(R) /\ head \in Seq(R)
  BY <1>1, <1>3
<1> HIDE DEF head
<1>5. head \o tail \in Seq(R)
  BY <1>4, ConcatProperties
<1> QED BY <1>2, <1>5

\* Leaving a cell out makes a sequence shorter by one.
LEMMA WithoutShape ==
  ASSUME NEW R, NEW s \in Seq(R), NEW k \in 1 .. Len(s)
  PROVE  Without(s, k) \in Seq(R) /\ Len(Without(s, k)) = Len(s) - 1
<1> DEFINE a == SubSeq(s, 1, k - 1)
           b == SubSeq(s, k + 1, Len(s))
<1>1. Len(s) \in Nat BY LenProperties
<1>2. a \in Seq(R) /\ Len(a) = k - 1
  BY <1>1
<1>3. b \in Seq(R) /\ Len(b) = Len(s) - k
  BY <1>1
<1>4. Without(s, k) = a \o b
  BY DEF Without
<1> HIDE DEF a, b
<1>5. a \o b \in Seq(R) /\ Len(a \o b) = Len(a) + Len(b)
  BY <1>2, <1>3, ConcatProperties
<1> QED BY <1>1, <1>2, <1>3, <1>4, <1>5

-----------------------------------------------------------------------------
(* The invariant: one part per call.                                       *)

\* A queued request is whole unless an NDK proxy lost a size; what the
\* implementation was handed is what ArgumentsArriveIntact allows.
Sendable(c) ==
  /\ Len(request[c]) \in Nat
  /\ request[c][1] = Token =>
       \/ request[c] = RequestOf(method[c])
       \/ clientLang = "NDK" /\ Len(request[c]) < Len(RequestOf(method[c]))
Intact(c) ==
  LET sent == ExpectedRequest(method[c])
  IN  \/ received[c] = sent
      \/ /\ serverLang = "NDK"
         /\ \A k \in DOMAIN sent :
              received[c][k] # sent[k] => sent[k][1] = "size" /\ received[c][k] = Zero
      \/ /\ clientLang = "NDK" /\ serverLang # "CPP"
         /\ request[c] # RequestOf(method[c])
ArgInv(c) ==
  /\ server[c] \in {"idle", "queued"} => received[c] = <<>>
  /\ server[c] = "queued" => Sendable(c)
  /\ server[c] = "running" => received[c] # <<>>
  /\ received[c] # <<>> => Intact(c)

\* What a stub, or nobody, has answered.
Ordinary(c) == method[c] \notin Oneway \cup {G}
Answered(c) ==
  /\ status[c] = "UNKNOWN_TRANSACTION" =>
       method[c] \notin served \/ (received[c] # <<>> /\ serverLang # "JAVA")
  /\ status[c] # "OK" => reply[c] = <<>>
  /\ status[c] = "OK" /\ Ordinary(c) =>
       \/ reply[c] = <<OkHeader>> \o ReplyOf(method[c]) /\ received[c] # <<>>
       \/ reply[c] = <<ExHeader>>
       \/ LateException(c) /\ received[c] # <<>>
AnswerInv(c) == server[c] = "finished" => Answered(c)

\* What the caller was told.
Produced(c) ==
  \/ /\ result[c].values = ExpectedReply(method[c])
     /\ \/ result[c].from = "server" /\ received[c] # <<>>
        \/ result[c].from = "default" /\ using[c] # None
  \/ LateException(c)
  \/ /\ clientLang = "JAVA" /\ result[c].from = "nobody"
     /\ \A k \in DOMAIN result[c].values : result[c].values[k] = Zero
OutcomeInv(c) ==
  /\ client[c] \in {"fallback", "default"} \/ using[c] # None =>
       server[c] = "finished" /\ status[c] = "UNKNOWN_TRANSACTION"
  /\ result[c].kind = "ok" /\ Ordinary(c) => server[c] = "finished" /\ Produced(c)

\* Where a call is in the client, and where in the server.
LinkInv(c) ==
  /\ client[c] = "idle" => request[c] = <<>>
  /\ client[c] \in {"waiting", "fallback"} => using[c] = None
  /\ client[c] \in {"waiting", "fallback", "default"} => method[c] \notin Oneway
  /\ server[c] \in {"queued", "running"} =>
       client[c] = "waiting" \/ (client[c] = "done" /\ result[c].from = "queue")

CallInv(c) == ArgInv(c) /\ AnswerInv(c) /\ OutcomeInv(c) /\ LinkInv(c)
ParcelInv ==
  /\ request = [c \in Call |-> request[c]]
  /\ received = [c \in Call |-> received[c]]
  /\ \A c \in Call : CallInv(c)

\* A step that leaves a call alone.
Untouched(c) ==
  /\ client'[c] = client[c] /\ server'[c] = server[c] /\ method'[c] = method[c]
  /\ request'[c] = request[c] /\ received'[c] = received[c] /\ reply'[c] = reply[c]
  /\ status'[c] = status[c] /\ using'[c] = using[c] /\ result'[c] = result[c]

LEMMA UntouchedKeeps ==
  ASSUME NEW c \in Call, CallInv(c), Untouched(c), UNCHANGED environment
  PROVE  CallInv(c)'
<1> USE DEF Untouched, environment
<1>1. ArgInv(c)'
  BY DEF CallInv, ArgInv, Sendable, Intact
<1>2. AnswerInv(c)'
  BY DEF CallInv, AnswerInv, Answered, Ordinary, LateException
<1>3. OutcomeInv(c)'
  BY DEF CallInv, OutcomeInv, Ordinary, Produced, LateException
<1>4. LinkInv(c)'
  BY DEF CallInv, LinkInv
<1> QED BY <1>1, <1>2, <1>3, <1>4 DEF CallInv

LEMMA InitParcelInv == Init => ParcelInv
<1> SUFFICES ASSUME Init PROVE ParcelInv OBVIOUS
<1>1. ASSUME NEW c \in Call
      PROVE  /\ server[c] = "idle" /\ client[c] = "idle" /\ using[c] = None
             /\ received[c] = <<>> /\ result[c].kind = "none" /\ request[c] = <<>>
  BY DEF Init, NoAnswer, Answer
<1>2. ASSUME NEW c \in Call PROVE CallInv(c)
  BY <1>1 DEF CallInv, ArgInv, AnswerInv, OutcomeInv, LinkInv
<1> QED BY <1>2 DEF Init, ParcelInv

-----------------------------------------------------------------------------
(* The start of a call.                                                    *)

LEMMA CachedAnswerParcels ==
  ASSUME IInv, ParcelInv, NEW c \in Call, CachedAnswer(c) PROVE ParcelInv'
<1> DEFINE answer == Answer("ok", <<Version(cachedVersion)>>, "cache")
<1>1. /\ client[c] = "idle" /\ server[c] = "idle" /\ using[c] = None /\ received[c] = <<>>
      /\ method' = [method EXCEPT ![c] = G]
      /\ client' = [client EXCEPT ![c] = "done"]
      /\ result' = [result EXCEPT ![c] = answer]
      /\ UNCHANGED <<environment, request, using, server, received, reply, status>>
  BY DEF CachedAnswer, Finish, G, IInv, ControlInv, ParcelInv, CallInv, ArgInv, serverSide
<1> HIDE DEF answer
<1>2. ASSUME NEW d \in Call, d # c PROVE Untouched(d)
  BY <1>1, <1>2 DEF Untouched, IInv, ControlInv
<1>3. method'[c] = G /\ server'[c] = "idle" /\ client'[c] = "done" /\ using'[c] = None /\ received'[c] = <<>>
  BY <1>1, ConstantFacts DEF IInv, ControlInv
<1>4. CallInv(c)'
  BY <1>3 DEF CallInv, ArgInv, AnswerInv, OutcomeInv, LinkInv, Ordinary
<1> QED BY <1>1, <1>2, <1>4, UntouchedKeeps DEF ParcelInv

\* The request of a proxy that ignores the failure of a size is short by it;
\* every other request is whole.
LEMMA SentRequest ==
  ASSUME IInv, ParcelInv, NEW c \in Call, NEW m \in Method, NEW f \in 0 .. Len(RequestOf(m)),
         NEW token \in {Token, ForeignToken},
         f # 0 => ~Checked(clientLang, RequestOf(m)[f]),
         NEW parcel,
         parcel = [(IF f = 0 THEN RequestOf(m) ELSE Without(RequestOf(m), f)) EXCEPT ![1] = token]
  PROVE  /\ Len(parcel) \in Nat
         /\ parcel[1] = Token =>
              \/ parcel = RequestOf(m)
              \/ clientLang = "NDK" /\ Len(parcel) < Len(RequestOf(m))
<1> DEFINE full == RequestOf(m)
<1>1. /\ Len(full) \in Nat \ {0} /\ full[1] = Token
  BY RequestShape
<1>2. PICK R : full \in Seq(R)
  BY RequestShape
<1> HIDE DEF full
<1>3. CASE f = 0
  <2>1. parcel = [full EXCEPT ![1] = token]
    BY <1>3 DEF full
  <2>2. full \in [1 .. Len(full) -> R] /\ 1 \in 1 .. Len(full)
    BY <1>1, <1>2
  <2>3. parcel \in [1 .. Len(full) -> R \cup {token}] /\ parcel[1] = token
    BY <2>1, <2>2
  <2>4. Len(parcel) = Len(full)
    BY <1>1, <2>3
  <2>5. token = Token => parcel = full
    BY <1>1, <2>1, <2>2
  <2>6. ForeignToken # Token
    BY DEF ForeignToken, Token
  <2> QED BY <1>1, <2>3, <2>4, <2>5, <2>6 DEF full
<1>4. CASE f # 0
  <2>1. clientLang = "NDK"
    BY <1>4 DEF Checked
  <2> DEFINE short == Without(full, f)
  <2>2. parcel = [short EXCEPT ![1] = token]
    BY <1>4 DEF full
  <2>3. f \in 1 .. Len(full)
    BY <1>4 DEF full
  <2>4. short \in Seq(R) /\ Len(short) = Len(full) - 1
    BY <1>2, <2>3, WithoutShape
  <2> HIDE DEF short
  <2>5. short \in [1 .. Len(short) -> R] /\ Len(short) \in Nat
    BY <2>4
  <2>6. parcel \in [1 .. Len(short) -> R \cup {token}]
    BY <2>2, <2>5
  <2>7. Len(parcel) = Len(short)
    BY <2>5, <2>6
  <2> QED BY <1>1, <2>1, <2>4, <2>5, <2>7 DEF full
<1> QED BY <1>3, <1>4

LEMMA TransactParcels ==
  ASSUME IInv, ParcelInv, NEW c \in Call, NEW m \in Method, NEW f \in 0 .. Len(RequestOf(m)),
         NEW token \in {Token, ForeignToken}, Transact(c, m, f, token)
  PROVE  ParcelInv'
<1>1. /\ client[c] = "idle" /\ server[c] = "idle" /\ using[c] = None
      /\ received[c] = <<>> /\ reply[c] = <<>> /\ result[c] = NoAnswer
  BY DEF Transact, IInv, ControlInv, ParcelInv, CallInv, ArgInv
<1>2. /\ method' = [method EXCEPT ![c] = m]
      /\ UNCHANGED <<environment, using, received, reply>>
  BY DEF Transact
<1>3. \/ /\ Finish(c, Failed)
         /\ UNCHANGED <<request, server, status>>
      \/ /\ f # 0 => ~Checked(clientLang, RequestOf(m)[f])
         /\ request' = [request EXCEPT ![c] =
                          [(IF f = 0 THEN RequestOf(m) ELSE Without(RequestOf(m), f))
                             EXCEPT ![1] = token]]
         /\ \/ server' = [server EXCEPT ![c] = "queued"] /\ UNCHANGED status
            \/ /\ server' = [server EXCEPT ![c] = "finished"]
               /\ status' = [status EXCEPT ![c] = "DEAD_OBJECT"]
         /\ \/ m \in Oneway /\ Finish(c, Answer("ok", <<>>, "queue"))
            \/ /\ server' = [server EXCEPT ![c] = "finished"]
               /\ Finish(c, Failed)
            \/ /\ m \notin Oneway
               /\ client' = [client EXCEPT ![c] = "waiting"] /\ UNCHANGED result
  BY DEF Transact
<1>4. /\ request' = [d \in Call |-> request'[d]]
      /\ \A d \in Call : d # c => request'[d] = request[d]
  BY <1>3 DEF ParcelInv
<1>5. /\ \A d \in Call : d # c => server'[d] = server[d] /\ status'[d] = status[d]
      /\ \/ server'[c] \in {"idle", "queued"}
         \/ server'[c] = "finished" /\ status'[c] = "DEAD_OBJECT"
      /\ server'[c] = "queued" =>
           /\ f # 0 => ~Checked(clientLang, RequestOf(m)[f])
           /\ request'[c] = [(IF f = 0 THEN RequestOf(m) ELSE Without(RequestOf(m), f))
                               EXCEPT ![1] = token]
  <2>1. CASE UNCHANGED <<request, server, status>>
    BY <1>1, <2>1
  <2>2. CASE /\ f # 0 => ~Checked(clientLang, RequestOf(m)[f])
             /\ request' = [request EXCEPT ![c] =
                          [(IF f = 0 THEN RequestOf(m) ELSE Without(RequestOf(m), f))
                             EXCEPT ![1] = token]]
             /\ server' = [server EXCEPT ![c] = "queued"] /\ UNCHANGED status
    BY <2>2 DEF IInv, ControlInv, ParcelInv
  <2>3. CASE /\ server' = [server EXCEPT ![c] = "finished"]
             /\ status' = [status EXCEPT ![c] = "DEAD_OBJECT"]
    BY <2>3 DEF IInv, ControlInv
  <2> QED BY <1>3, <2>1, <2>2, <2>3
<1>6. /\ \A d \in Call : d # c => client'[d] = client[d] /\ result'[d] = result[d]
      /\ client'[c] \in {"waiting", "done"} /\ (client'[c] = "waiting" => m \notin Oneway)
      /\ result'[c].kind = "ok" => m \in Oneway
      /\ server'[c] = "queued" =>
           client'[c] = "waiting" \/ (client'[c] = "done" /\ result'[c].from = "queue")
  <2>1. Failed.kind = "error" /\ NoAnswer.kind = "none"
    BY DEF Failed, NoAnswer, Answer
  <2>2. CASE Finish(c, Failed) /\ server'[c] # "queued"
    BY <2>1, <2>2 DEF Finish, IInv, ControlInv
  <2>3. CASE m \in Oneway /\ Finish(c, Answer("ok", <<>>, "queue"))
    <3>1. Answer("ok", <<>>, "queue").from = "queue" BY DEF Answer
    <3> QED BY <2>3, <3>1 DEF Finish, IInv, ControlInv
  <2>4. CASE m \notin Oneway /\ client' = [client EXCEPT ![c] = "waiting"] /\ UNCHANGED result
    BY <1>1, <2>1, <2>4 DEF IInv, ControlInv
  <2>5. CASE UNCHANGED <<request, server, status>> /\ Finish(c, Failed)
    BY <1>1, <2>2, <2>5
  <2>6. CASE server' = [server EXCEPT ![c] = "finished"] /\ Finish(c, Failed)
    <3>1. server'[c] = "finished" BY <2>6 DEF IInv, ControlInv
    <3> QED BY <2>2, <2>6, <3>1
  <2> QED BY <1>3, <2>3, <2>4, <2>5, <2>6
<1>7. method'[c] = m /\ \A d \in Call : d # c => method'[d] = method[d]
  BY <1>2 DEF IInv, ControlInv
<1>8. ASSUME NEW d \in Call, d # c PROVE CallInv(d)'
  <2>1. Untouched(d)
    BY <1>2, <1>4, <1>5, <1>6, <1>7, <1>8 DEF Untouched
  <2> QED BY <1>2, <2>1, UntouchedKeeps DEF ParcelInv
<1>9. CallInv(c)'
  <2>1. ArgInv(c)'
    <3>1. ASSUME server'[c] = "queued" PROVE Sendable(c)'
      <4>1. clientLang' = clientLang BY <1>2 DEF environment
      <4>2. /\ Len(request'[c]) \in Nat
            /\ request'[c][1] = Token =>
                 \/ request'[c] = RequestOf(m)
                 \/ clientLang = "NDK" /\ Len(request'[c]) < Len(RequestOf(m))
        BY <1>5, <3>1, SentRequest
      <4> QED BY <1>7, <4>1, <4>2 DEF Sendable
    <3> QED BY <1>1, <1>2, <1>5, <3>1 DEF ArgInv
  <2>2. AnswerInv(c)'
    BY <1>1, <1>2, <1>5 DEF AnswerInv, Answered
  <2>3. OutcomeInv(c)'
    BY <1>1, <1>2, <1>6, <1>7 DEF OutcomeInv, Ordinary
  <2>4. LinkInv(c)'
    BY <1>1, <1>2, <1>5, <1>6, <1>7 DEF LinkInv
  <2> QED BY <2>1, <2>2, <2>3, <2>4 DEF CallInv
<1> QED BY <1>2, <1>4, <1>8, <1>9 DEF ParcelInv

-----------------------------------------------------------------------------
(* The stub.                                                               *)

\* Status st with the cells of a reply is an answer to c that AnswerInv allows.
Fits(c, st, cells) ==
  /\ st = "UNKNOWN_TRANSACTION" =>
       method[c] \notin served \/ (received[c] # <<>> /\ serverLang # "JAVA")
  /\ st # "OK" => cells = <<>>
  /\ st = "OK" /\ Ordinary(c) =>
       \/ cells = <<OkHeader>> \o ReplyOf(method[c]) /\ received[c] # <<>>
       \/ cells = <<ExHeader>>
       \/ /\ serverLang = "CPP" /\ cells # <<>>
          /\ cells[1] = OkHeader /\ cells[Len(cells)] = ExHeader
          /\ received[c] # <<>>

LEMMA RespondParcels ==
  ASSUME IInv, ParcelInv, NEW c \in Call, NEW st, NEW cells,
         server[c] \in {"queued", "running"},
         Respond(c, st, cells), Fits(c, st, cells),
         UNCHANGED <<environment, clientSide, received>>
  PROVE  ParcelInv'
<1>1. UNCHANGED <<environment, client, method, request, using, result, received, served, serverLang, clientLang>>
  BY DEF clientSide, environment
<1>2. /\ server'[c] = "finished" /\ status'[c] = st /\ reply'[c] = cells
      /\ \A d \in Call : d # c =>
           server'[d] = server[d] /\ status'[d] = status[d] /\ reply'[d] = reply[d]
  BY DEF Respond, IInv, ControlInv
<1>3. ASSUME NEW d \in Call, d # c PROVE CallInv(d)'
  <2>1. Untouched(d)
    BY <1>1, <1>2, <1>3 DEF Untouched
  <2> QED BY <1>1, <2>1, UntouchedKeeps DEF ParcelInv
<1>4. CallInv(c)'
  <2>1. CallInv(c) BY DEF ParcelInv
  <2>2. ArgInv(c)'
    BY <1>1, <1>2, <2>1 DEF CallInv, ArgInv, Intact
  <2>3. AnswerInv(c)'
    BY <1>1, <1>2 DEF AnswerInv, Answered, Fits, Ordinary, LateException
  <2>4. OutcomeInv(c)'
    BY <1>1, <1>2, <2>1 DEF CallInv, OutcomeInv, Ordinary
  <2>5. LinkInv(c)'
    BY <1>1, <1>2, <2>1 DEF CallInv, LinkInv
  <2> QED BY <2>2, <2>3, <2>4, <2>5 DEF CallInv
<1> QED BY <1>1, <1>3, <1>4 DEF ParcelInv

\* A failed parcel operation answers with its error, with an exception, or,
\* in C++, with an exception behind what was written.
LEMMA RespondFailureParcels ==
  ASSUME IInv, ParcelInv, NEW c \in Call, NEW e, NEW R, NEW written \in Seq(R),
         server[c] \in {"queued", "running"},
         RespondFailure(c, e, written),
         e \notin {"OK", "UNKNOWN_TRANSACTION"},
         written = <<>> \/ (written[1] = OkHeader /\ received[c] # <<>>),
         UNCHANGED <<environment, clientSide, received>>
  PROVE  ParcelInv'
<1>1. CASE Respond(c, "OK", <<ExHeader>>)
  <2>1. Fits(c, "OK", <<ExHeader>>) BY DEF Fits
  <2> QED BY <1>1, <2>1, RespondParcels
<1>2. CASE serverLang = "CPP" /\ Respond(c, "OK", Append(written, ExHeader))
  <2> DEFINE T == R \cup {ExHeader}
             cells == Append(written, ExHeader)
  <2>1. written \in Seq(T) /\ ExHeader \in T
    OBVIOUS
  <2> HIDE DEF T
  <2>2. /\ Len(written) \in Nat /\ Len(cells) = Len(written) + 1
        /\ \A k \in 1 .. Len(written) : cells[k] = written[k]
        /\ cells[Len(written) + 1] = ExHeader /\ cells # <<>>
    BY <2>1, AppendProperties, LenProperties
  <2>3. CASE written = <<>>
    <3>1. cells = <<ExHeader>> BY <2>3
    <3> QED BY <1>1, <1>2, <3>1
  <2>4. CASE written # <<>> /\ written[1] = OkHeader /\ received[c] # <<>>
    <3>1. Len(written) # 0 BY <2>1, <2>4, EmptySeq
    <3>2. cells[1] = OkHeader BY <2>2, <2>4, <3>1
    <3> HIDE DEF cells
    <3>3. cells[Len(cells)] = ExHeader BY <2>2
    <3>4. Fits(c, "OK", cells) BY <1>2, <2>2, <2>4, <3>2, <3>3 DEF Fits
    <3> QED BY <1>2, <3>4, RespondParcels DEF cells
  <2> QED BY <2>3, <2>4
<1>3. CASE Respond(c, e, <<>>)
  <2>1. Fits(c, e, <<>>) BY DEF Fits
  <2> QED BY <1>3, <2>1, RespondParcels
<1> QED BY <1>1, <1>2, <1>3 DEF RespondFailure

LEMMA UnknownCodeParcels ==
  ASSUME IInv, ParcelInv, NEW c \in Call, UnknownCode(c) PROVE ParcelInv'
<1>1. Fits(c, "UNKNOWN_TRANSACTION", <<>>)
  BY DEF UnknownCode, Fits
<1> QED BY <1>1, RespondParcels DEF UnknownCode

LEMMA ServeVersionParcels ==
  ASSUME IInv, ParcelInv, NEW c \in Call, ServeVersion(c) PROVE ParcelInv'
<1>1. /\ server[c] = "queued" /\ ~Ordinary(c)
      /\ UNCHANGED <<environment, clientSide, received>>
  BY DEF ServeVersion, Ordinary, G
<1>2. CASE Respond(c, "OK", <<OkHeader, Version(serverVersion)>>)
  <2>1. Fits(c, "OK", <<OkHeader, Version(serverVersion)>>)
    BY <1>1 DEF Fits
  <2> QED BY <1>1, <1>2, <2>1, RespondParcels
<1>3. CASE RespondFailure(c, "BAD_TYPE", <<>>)
  <2>1. <<>> \in Seq({}) OBVIOUS
  <2> QED BY <1>1, <1>3, <2>1, RespondFailureParcels
<1> QED BY <1>2, <1>3 DEF ServeVersion

\* What the implementation is handed.
LEMMA HandedIntact ==
  ASSUME IInv, ParcelInv, NEW c \in Call, server[c] = "queued",
         request[c][1] = Token, NEW f \in Nat, f # 1,
         NEW cells, cells = ExpectedRequest(method[c]),
         \A k \in DOMAIN cells :
           ~(/\ Checked(serverLang, cells[k])
             /\ k = f \/ (k > Len(request[c]) /\ serverLang # "JAVA")),
         NEW got,
         got = [k \in DOMAIN cells |-> IF k = f THEN Zero ELSE Read(request[c], k)]
  PROVE  /\ got # <<>>
         /\ \/ got = cells
            \/ /\ serverLang = "NDK"
               /\ \A k \in DOMAIN cells :
                    got[k] # cells[k] => cells[k][1] = "size" /\ got[k] = Zero
            \/ /\ clientLang = "NDK" /\ serverLang # "CPP"
               /\ request[c] # RequestOf(method[c])
<1>1. method[c] \in Method BY DEF IInv, ControlInv
<1>2. /\ Len(cells) \in Nat \ {0} /\ cells = RequestOf(method[c])
  BY <1>1, RequestShape
<1>3. PICK R : cells \in Seq(R)
  BY <1>1, <1>2, RequestShape
<1>4. DOMAIN cells = 1 .. Len(cells) /\ cells \in [1 .. Len(cells) -> R]
  BY <1>2, <1>3
<1>5. got # <<>>
  <2>1. 1 \in DOMAIN got BY <1>2, <1>4
  <2> QED BY <2>1
<1>6. Sendable(c) BY DEF ParcelInv, CallInv, ArgInv
<1>7. CASE request[c] = cells
  <2>1. ASSUME NEW k \in DOMAIN cells, k # f PROVE got[k] = cells[k]
    BY <1>2, <1>4, <1>7, <2>1 DEF Read
  <2>2. CASE f \in DOMAIN cells
    <3>1. serverLang = "NDK" /\ cells[f][1] = "size" /\ got[f] = Zero
      BY <2>2 DEF Checked
    <3> QED BY <1>5, <2>1, <3>1
  <2>3. CASE f \notin DOMAIN cells
    <3>1. got = cells BY <1>4, <2>1, <2>3
    <3> QED BY <1>5, <3>1
  <2> QED BY <2>2, <2>3
<1>8. CASE clientLang = "NDK" /\ Len(request[c]) < Len(cells)
  <2>1. ASSUME serverLang = "CPP" PROVE FALSE
    <3>1. Len(cells) \in DOMAIN cells /\ Len(cells) > Len(request[c])
      BY <1>2, <1>4, <1>6, <1>8 DEF Sendable
    <3>2. Checked(serverLang, cells[Len(cells)]) BY <2>1 DEF Checked
    <3> QED BY <2>1, <3>1, <3>2
  <2>2. request[c] # RequestOf(method[c])
    BY <1>2, <1>6, <1>8 DEF Sendable
  <2> QED BY <1>5, <1>8, <2>1, <2>2
<1> QED BY <1>2, <1>6, <1>7, <1>8 DEF Sendable

LEMMA UnmarshalParcels ==
  ASSUME IInv, ParcelInv, NEW c \in Call,
         NEW f \in 0 .. Len(ExpectedRequest(method[c])), NEW e \in {"OK"} \cup ReadFaults,
         Unmarshal(c, f, e)
  PROVE  ParcelInv'
<1> DEFINE cells == ExpectedRequest(method[c])
           fails(k) == /\ Checked(serverLang, cells[k])
                       /\ k = f \/ (k > Len(request[c]) /\ serverLang # "JAVA")
           got == [k \in DOMAIN cells |-> IF k = f THEN Zero ELSE Read(request[c], k)]
<1>1. /\ server[c] = "queued" /\ method[c] \in Method
      /\ UNCHANGED <<environment, clientSide>>
      /\ f \in Nat /\ f # 1
  BY DEF Unmarshal, IInv, ControlInv
<1>2. \/ /\ \E err \in {"BAD_TYPE", "BAD_VALUE"} \cup ReadFaults : RespondFailure(c, err, <<>>)
         /\ UNCHANGED received
      \/ /\ request[c][1] = Token
         /\ \A k \in DOMAIN cells : ~fails(k)
         /\ received' = [received EXCEPT ![c] = got]
         /\ server' = [server EXCEPT ![c] = "running"]
         /\ UNCHANGED <<reply, status>>
  BY DEF Unmarshal
<1>3. CASE /\ \E err \in {"BAD_TYPE", "BAD_VALUE"} \cup ReadFaults : RespondFailure(c, err, <<>>)
           /\ UNCHANGED received
  <2>1. PICK err \in {"BAD_TYPE", "BAD_VALUE"} \cup ReadFaults : RespondFailure(c, err, <<>>)
    BY <1>3
  <2>2. err \notin {"OK", "UNKNOWN_TRANSACTION"} BY TransactionAssumption
  <2>3. <<>> \in Seq({}) OBVIOUS
  <2> QED BY <1>1, <1>3, <2>1, <2>2, <2>3, RespondFailureParcels
<1>4. CASE /\ request[c][1] = Token
           /\ \A k \in DOMAIN cells : ~fails(k)
           /\ received' = [received EXCEPT ![c] = got]
           /\ server' = [server EXCEPT ![c] = "running"]
           /\ UNCHANGED <<reply, status>>
  <2>1. /\ got # <<>>
        /\ \/ got = cells
           \/ /\ serverLang = "NDK"
              /\ \A k \in DOMAIN cells :
                   got[k] # cells[k] => cells[k][1] = "size" /\ got[k] = Zero
           \/ /\ clientLang = "NDK" /\ serverLang # "CPP"
              /\ request[c] # RequestOf(method[c])
    BY <1>1, <1>4, HandedIntact
  <2> HIDE DEF got
  <2>2. /\ UNCHANGED <<environment, client, method, request, using, result, reply, status>>
        /\ clientLang' = clientLang /\ serverLang' = serverLang
    BY <1>1, <1>4 DEF clientSide, environment
  <2>3. /\ server'[c] = "running" /\ received'[c] = got
        /\ \A d \in Call : d # c => server'[d] = server[d] /\ received'[d] = received[d]
        /\ received' = [d \in Call |-> received'[d]]
    BY <1>4 DEF IInv, ControlInv, ParcelInv
  <2>4. ASSUME NEW d \in Call, d # c PROVE CallInv(d)'
    <3>1. Untouched(d) BY <2>2, <2>3, <2>4 DEF Untouched
    <3> QED BY <2>2, <3>1, UntouchedKeeps DEF ParcelInv
  <2>5. CallInv(c)'
    <3>1. CallInv(c) BY DEF ParcelInv
    <3>2. Intact(c)' BY <2>1, <2>2, <2>3 DEF Intact
    <3>3. ArgInv(c)' BY <2>1, <2>3, <3>2 DEF ArgInv
    <3>4. AnswerInv(c)' BY <2>3 DEF AnswerInv
    <3>5. OutcomeInv(c)' BY <1>1, <2>2, <2>3, <3>1 DEF CallInv, OutcomeInv, Ordinary
    <3>6. LinkInv(c)' BY <1>1, <2>2, <2>3, <3>1 DEF CallInv, LinkInv
    <3> QED BY <3>3, <3>4, <3>5, <3>6 DEF CallInv
  <2> QED BY <2>2, <2>3, <2>4, <2>5 DEF ParcelInv
<1> QED BY <1>2, <1>3, <1>4

LEMMA ReturnOkParcels ==
  ASSUME IInv, ParcelInv, NEW c \in Call,
         NEW f \in 0 .. 1 + Len(ReplyOf(method[c])), NEW e \in {"OK"} \cup WriteFaults,
         ReturnOk(c, f, e)
  PROVE  ParcelInv'
<1> DEFINE cells == <<OkHeader>> \o ReplyOf(method[c])
<1>1. /\ server[c] = "running" /\ method[c] \in Method
      /\ received[c] # <<>>
      /\ UNCHANGED <<environment, clientSide, received>>
      /\ f = 0 <=> e = "OK"
      /\ f # 1
  BY DEF ReturnOk, IInv, ControlInv, ParcelInv, CallInv, ArgInv
<1>2. CASE method[c] \in Oneway /\ Respond(c, "OK", <<>>)
  <2>1. Fits(c, "OK", <<>>) BY <1>2 DEF Fits, Ordinary
  <2> QED BY <1>1, <1>2, <2>1, RespondParcels
<1>3. CASE Respond(c, "OK", cells)
  <2>1. Fits(c, "OK", cells) BY <1>1 DEF Fits
  <2> QED BY <1>1, <1>3, <2>1, RespondParcels
<1>4. CASE f # 0 /\ RespondFailure(c, e, SubSeq(cells, 1, f - 1))
  <2>1. PICK R : ReplyOf(method[c]) \in Seq(R) BY <1>1, ReplyShape
  <2> DEFINE T == R \cup {OkHeader}
             written == SubSeq(cells, 1, f - 1)
             old == ReplyOf(method[c])
  <2>2. old \in Seq(T) /\ <<OkHeader>> \in Seq(T) /\ Len(<<OkHeader>>) = 1 /\ <<OkHeader>>[1] = OkHeader
    BY <2>1
  <2> HIDE DEF T, old
  <2>3. /\ <<OkHeader>> \o old \in Seq(T) /\ Len(<<OkHeader>> \o old) = 1 + Len(old)
        /\ Len(old) \in Nat /\ (<<OkHeader>> \o old)[1] = OkHeader
    BY <2>2, ConcatProperties, LenProperties
  <2>4. f \in 2 .. 1 + Len(old)
    BY <1>1, <1>4, <2>3 DEF old
  <2>5. cells \in Seq(T) /\ Len(cells) = 1 + Len(old) /\ cells[1] = OkHeader
    BY <2>3 DEF old
  <2> HIDE DEF cells
  <2>6. written \in Seq(T) /\ written[1] = OkHeader
    BY <2>3, <2>4, <2>5
  <2>7. e \notin {"OK", "UNKNOWN_TRANSACTION"}
    BY <1>1, <1>4, TransactionAssumption
  <2> HIDE DEF written
  <2>8. RespondFailure(c, e, written)
    BY <1>4 DEF written
  <2> QED BY <1>1, <2>6, <2>7, <2>8, RespondFailureParcels
<1> QED BY <1>2, <1>3, <1>4 DEF ReturnOk

LEMMA ReturnExceptionParcels ==
  ASSUME IInv, ParcelInv, NEW c \in Call, ReturnException(c) PROVE ParcelInv'
<1> DEFINE cells == IF method[c] \in Oneway THEN <<>> ELSE <<ExHeader>>
<1>1. /\ server[c] = "running" /\ Respond(c, "OK", cells)
      /\ UNCHANGED <<environment, clientSide, received>>
  BY DEF ReturnException
<1>2. Fits(c, "OK", cells) BY DEF Fits, Ordinary
<1> QED BY <1>1, <1>2, RespondParcels

LEMMA ReturnUnknownParcels ==
  ASSUME IInv, ParcelInv, NEW c \in Call, ReturnUnknown(c) PROVE ParcelInv'
<1> DEFINE st == IF method[c] \in Oneway THEN "OK" ELSE "UNKNOWN_TRANSACTION"
<1>1. /\ server[c] = "running" /\ serverLang # "JAVA" /\ received[c] # <<>>
      /\ Respond(c, st, <<>>)
      /\ UNCHANGED <<environment, clientSide, received>>
  BY DEF ReturnUnknown, ParcelInv, CallInv, ArgInv
<1>2. Fits(c, st, <<>>) BY <1>1 DEF Fits, Ordinary
<1> QED BY <1>1, <1>2, RespondParcels

\* A server that dies leaves its calls without a reply.
LEMMA ServerDiesParcels ==
  ASSUME IInv, ParcelInv, ServerDies PROVE ParcelInv'
<1> DEFINE lost == {c \in Call : server[c] \in {"queued", "running"}}
<1>1. /\ server' = [c \in Call |-> IF c \in lost THEN "finished" ELSE server[c]]
      /\ status' = [c \in Call |-> IF c \in lost THEN "DEAD_OBJECT" ELSE status[c]]
      /\ UNCHANGED <<environment, client, method, request, using, result, received, reply,
                     clientLang, serverLang>>
  BY DEF ServerDies, environment, clientSide
<1>2. ASSUME NEW c \in Call PROVE CallInv(c)'
  <2>1. CallInv(c) BY DEF ParcelInv
  <2>2. CASE c \in lost
    <3>1. /\ server[c] \in {"queued", "running"} /\ server'[c] = "finished"
          /\ status'[c] = "DEAD_OBJECT" /\ reply'[c] = <<>>
      BY <1>1, <2>2 DEF IInv, ControlInv
    <3> HIDE DEF lost
    <3>2. ArgInv(c)' BY <1>1, <2>1, <3>1 DEF CallInv, ArgInv, Intact
    <3>3. AnswerInv(c)' BY <3>1 DEF AnswerInv, Answered
    <3>4. OutcomeInv(c)' BY <1>1, <2>1, <3>1 DEF CallInv, OutcomeInv, Ordinary
    <3>5. LinkInv(c)' BY <1>1, <2>1, <3>1 DEF CallInv, LinkInv
    <3> QED BY <3>2, <3>3, <3>4, <3>5 DEF CallInv
  <2>3. CASE c \notin lost
    <3>1. Untouched(c) BY <1>1, <2>3 DEF Untouched
    <3> QED BY <1>1, <2>1, <3>1, UntouchedKeeps
  <2> QED BY <2>2, <2>3
<1> QED BY <1>1, <1>2 DEF ParcelInv

-----------------------------------------------------------------------------
(* The proxy, after transact().                                            *)

\* A step of the proxy after transact() leaves the parcels alone.
LEMMA ProxyParcels ==
  ASSUME IInv, ParcelInv, NEW c \in Call,
         UNCHANGED <<environment, method, request, serverSide>>,
         \A d \in Call : d # c =>
           client'[d] = client[d] /\ using'[d] = using[d] /\ result'[d] = result[d],
         OutcomeInv(c)', LinkInv(c)'
  PROVE  ParcelInv'
<1>1. UNCHANGED <<environment, method, request, server, received, reply, status,
                  clientLang, serverLang, served>>
  BY DEF serverSide, environment
<1>2. ASSUME NEW d \in Call, d # c PROVE CallInv(d)'
  <2>1. Untouched(d) BY <1>1, <1>2 DEF Untouched
  <2> QED BY <1>1, <2>1, UntouchedKeeps DEF ParcelInv
<1>3. CallInv(c) BY DEF ParcelInv
<1>4. ArgInv(c)' BY <1>1, <1>3 DEF CallInv, ArgInv, Sendable, Intact
<1>5. AnswerInv(c)' BY <1>1, <1>3 DEF CallInv, AnswerInv, Answered, Ordinary, LateException
<1> QED BY <1>1, <1>2, <1>4, <1>5 DEF ParcelInv, CallInv

\* A call ends with an answer that was produced.
LEMMA FinishParcels ==
  ASSUME IInv, ParcelInv, NEW c \in Call, NEW answer, Finish(c, answer),
         UNCHANGED <<environment, method, request, using, serverSide>>,
         server[c] = "finished",
         answer.kind = "ok" /\ Ordinary(c) =>
           \/ /\ answer.values = ExpectedReply(method[c])
              /\ \/ answer.from = "server" /\ received[c] # <<>>
                 \/ answer.from = "default" /\ using[c] # None
           \/ LateException(c)
           \/ /\ clientLang = "JAVA" /\ answer.from = "nobody"
              /\ \A k \in DOMAIN answer.values : answer.values[k] = Zero
  PROVE  ParcelInv'
<1>1. /\ client'[c] = "done" /\ result'[c] = answer
      /\ \A d \in Call : d # c => client'[d] = client[d] /\ result'[d] = result[d]
  BY DEF Finish, IInv, ControlInv
<1>2. UNCHANGED <<method, using, server, received, reply, status, clientLang, serverLang>>
  BY DEF serverSide, environment
<1>3. OutcomeInv(c) BY DEF ParcelInv, CallInv
<1>4. OutcomeInv(c)'
  BY <1>1, <1>2, <1>3 DEF OutcomeInv, Produced, Ordinary, LateException
<1>5. LinkInv(c)' BY <1>1, <1>2 DEF LinkInv
<1> QED BY <1>1, <1>2, <1>4, <1>5, ProxyParcels

LEMMA FallBackParcels ==
  ASSUME IInv, ParcelInv, NEW c \in Call, FallBack(c) PROVE ParcelInv'
<1>1. /\ server[c] = "finished" /\ status[c] = "UNKNOWN_TRANSACTION"
      /\ client[c] = "waiting" /\ result[c] = NoAnswer /\ client'[c] = "fallback"
      /\ UNCHANGED <<environment, method, request, using, result, serverSide, server, status>>
      /\ \A d \in Call : d # c => client'[d] = client[d]
  BY DEF FallBack, serverSide, IInv, ControlInv
<1>2. NoAnswer.kind = "none" BY DEF NoAnswer, Answer
<1>3. OutcomeInv(c)' BY <1>1, <1>2 DEF OutcomeInv
<1>4. LinkInv(c) BY DEF ParcelInv, CallInv
<1>5. LinkInv(c)' BY <1>1, <1>4 DEF LinkInv
<1> QED BY <1>1, <1>3, <1>5, ProxyParcels

LEMMA EnterDefaultParcels ==
  ASSUME IInv, ParcelInv, NEW c \in Call, EnterDefault(c) PROVE ParcelInv'
<1>1. client[c] = "fallback" /\ defaultImpl # None /\ result[c] = NoAnswer
  BY DEF EnterDefault, IInv, ControlInv, DefaultInv
<1>2. /\ UNCHANGED <<environment, method, request, result, serverSide, server, status>>
      /\ client'[c] = "default"
      /\ \A d \in Call : d # c => client'[d] = client[d] /\ using'[d] = using[d]
  BY <1>1 DEF EnterDefault, serverSide, IInv, ControlInv
<1>3. server[c] = "finished" /\ status[c] = "UNKNOWN_TRANSACTION"
  BY <1>1 DEF ParcelInv, CallInv, OutcomeInv
<1>4. NoAnswer.kind = "none" BY DEF NoAnswer, Answer
<1>5. OutcomeInv(c)' BY <1>1, <1>2, <1>3, <1>4 DEF OutcomeInv
<1>6. LinkInv(c)' BY <1>1, <1>2, <1>3 DEF ParcelInv, CallInv, LinkInv
<1> QED BY <1>2, <1>5, <1>6, ProxyParcels

LEMMA LeaveDefaultParcels ==
  ASSUME IInv, ParcelInv, NEW c \in Call, LeaveDefault(c) PROVE ParcelInv'
<1>1. /\ using[c] # None
      /\ UNCHANGED <<environment, method, request, using, serverSide>>
  BY DEF LeaveDefault, IInv, DefaultInv
<1>2. server[c] = "finished" BY <1>1 DEF ParcelInv, CallInv, OutcomeInv
<1>3. ASSUME NEW kind, NEW values, NEW from, kind # "ok", Finish(c, Answer(kind, values, from))
      PROVE  ParcelInv'
  <2>1. Answer(kind, values, from).kind # "ok" BY <1>3 DEF Answer
  <2> QED BY <1>1, <1>2, <1>3, <2>1, FinishParcels
<1>4. CASE Finish(c, Answer("ok", ExpectedReply(method[c]), "default"))
  <2> DEFINE answer == Answer("ok", ExpectedReply(method[c]), "default")
  <2>1. answer.values = ExpectedReply(method[c]) /\ answer.from = "default" BY DEF Answer
  <2> QED BY <1>1, <1>2, <1>4, <2>1, FinishParcels
<1>5. CASE method[c] = G /\ Finish(c, Answer("ok", <<Version(0)>>, "default"))
  <2>1. ~Ordinary(c) BY <1>5 DEF Ordinary
  <2> QED BY <1>1, <1>2, <1>5, <2>1, FinishParcels
<1>6. \/ Finish(c, Answer("crash", <<>>, "none"))
      \/ Finish(c, Answer("ok", ExpectedReply(method[c]), "default"))
      \/ method[c] = G /\ Finish(c, Answer("ok", <<Version(0)>>, "default"))
      \/ Finish(c, Answer("exception", <<>>, "default"))
      \/ Finish(c, Answer("error", <<>>, "none"))
  BY DEF LeaveDefault, Failed, G
<1> QED BY <1>3, <1>4, <1>5, <1>6

\* What the proxy reads from a reply was written there, or there was no reply.
LEMMA ReadIsProduced ==
  ASSUME IInv, ParcelInv, NEW c \in Call, NEW f \in Nat,
         server[c] = "finished", Ordinary(c), ~NoReply(c), ReadReply(c, f).kind = "ok"
  PROVE  \/ /\ ReadReply(c, f).values = ExpectedReply(method[c])
            /\ ReadReply(c, f).from = "server" /\ received[c] # <<>>
         \/ LateException(c) /\ received[c] # <<>>
         \/ /\ clientLang = "JAVA" /\ ReadReply(c, f).from = "nobody"
            /\ \A k \in DOMAIN ReadReply(c, f).values : ReadReply(c, f).values[k] = Zero
<1> DEFINE old == ReplyOf(method[c])
           n == 1 + Len(ExpectedReply(method[c]))
           author == IF status[c] = "OK" THEN "server" ELSE "nobody"
           cells == [k \in 1 .. n - 1 |-> Read(reply[c], k + 1)]
<1>1. method[c] \in Method BY DEF IInv, ControlInv
<1>2. PICK R : old \in Seq(R) BY <1>1, ReplyShape
<1>3. ExpectedReply(method[c]) = old BY <1>1, ReplyShape
<1>4. Answered(c) BY DEF ParcelInv, CallInv, AnswerInv
<1>5. ReadReply(c, f) = Answer("ok", cells, author) /\ Read(reply[c], 1) # ExHeader
  BY DEF ReadReply, Failed, Answer
<1>6. ReadReply(c, f).values = cells /\ ReadReply(c, f).from = author
  BY <1>5 DEF Answer
<1>7. CASE status[c] = "OK" /\ reply[c] = <<OkHeader>> \o old /\ received[c] # <<>>
  <2> DEFINE T == R \cup {OkHeader}
  <2>1. old \in Seq(T) /\ <<OkHeader>> \in Seq(T) /\ Len(<<OkHeader>>) = 1
    BY <1>2
  <2> HIDE DEF T, old
  <2>2. /\ Len(old) \in Nat /\ Len(reply[c]) = 1 + Len(old)
        /\ \A k \in 1 .. Len(old) : reply[c][k + 1] = old[k]
    BY <1>7, <2>1, ConcatProperties, LenProperties
  <2>3. cells = [k \in 1 .. Len(old) |-> old[k]]
    BY <1>3, <2>2 DEF Read
  <2>4. old = [k \in 1 .. Len(old) |-> old[k]] BY <2>1
  <2> HIDE DEF cells
  <2>5. cells = old BY <2>3, <2>4
  <2> QED BY <1>3, <1>6, <1>7, <2>5 DEF old
<1>8. CASE reply[c] = <<ExHeader>>
  BY <1>5, <1>8 DEF Read
<1>9. CASE status[c] # "OK"
  <2>1. clientLang = "JAVA" BY <1>9 DEF NoReply
  <2>2. reply[c] = <<>> BY <1>4, <1>9 DEF Answered
  <2>3. Len(reply[c]) = 0 BY <2>2
  <2>4. Len(old) \in Nat BY <1>2
  <2>5. \A k \in 1 .. n - 1 : Read(reply[c], k + 1) = Zero
    BY <1>3, <2>3, <2>4 DEF Read
  <2> QED BY <1>6, <1>9, <2>1, <2>5
<1> QED BY <1>4, <1>7, <1>8, <1>9 DEF Answered

LEMMA CompleteParcels ==
  ASSUME IInv, ParcelInv, NEW c \in Call,
         NEW f \in 0 .. Len(ExpectedReply(method[c])), Complete(c, f)
  PROVE  ParcelInv'
<1>1. /\ server[c] = "finished" /\ f \in Nat
      /\ UNCHANGED <<environment, method, request, using, serverSide>>
  BY DEF Complete
<1>2. CASE Finish(c, Failed)
  <2>1. Failed.kind # "ok" BY DEF Failed, Answer
  <2> QED BY <1>1, <1>2, <2>1, FinishParcels
<1>3. CASE ~NoReply(c) /\ Finish(c, ReadReply(c, f))
  <2> DEFINE answer == ReadReply(c, f)
  <2>1. answer.kind = "ok" /\ Ordinary(c) =>
           \/ answer.values = ExpectedReply(method[c]) /\ answer.from = "server" /\ received[c] # <<>>
           \/ LateException(c)
           \/ /\ clientLang = "JAVA" /\ answer.from = "nobody"
              /\ \A k \in DOMAIN answer.values : answer.values[k] = Zero
    BY <1>1, <1>3, ReadIsProduced
  <2> HIDE DEF answer
  <2>2. Finish(c, answer) BY <1>3 DEF answer
  <2> QED BY <1>1, <2>1, <2>2, FinishParcels
<1> QED BY <1>2, <1>3 DEF Complete

LEMMA CompleteVersionParcels ==
  ASSUME IInv, ParcelInv, NEW c \in Call, CompleteVersion(c) PROVE ParcelInv'
<1>1. /\ ~Ordinary(c) /\ server[c] = "finished" /\ \E answer : Finish(c, answer)
      /\ UNCHANGED <<environment, method, request, using, serverSide>>
  BY DEF CompleteVersion, Ordinary, G
<1> QED BY <1>1, FinishParcels

-----------------------------------------------------------------------------
LEMMA NextParcelInv == IInv /\ ParcelInv /\ [Next]_vars => ParcelInv'
<1> SUFFICES ASSUME IInv, ParcelInv, [Next]_vars PROVE ParcelInv' OBVIOUS
<1>1. ASSUME UNCHANGED <<environment, clientSide, serverSide>> PROVE ParcelInv'
  <2>1. ASSUME NEW c \in Call PROVE Untouched(c)
    BY <1>1 DEF clientSide, serverSide, Untouched
  <2>2. UNCHANGED <<environment, request, received>>
    BY <1>1 DEF clientSide, serverSide
  <2> QED BY <2>1, <2>2, UntouchedKeeps DEF ParcelInv
<1>2. CASE \E s \in Setter : SetterCheck(s) \/ SetterAssign(s)
  BY <1>1, <1>2 DEF SetterCheck, SetterAssign
<1>3. CASE \E c \in Call : StartCall(c)
  BY <1>3, CachedAnswerParcels, TransactParcels DEF StartCall
<1>4. CASE \E c \in Call : StubStep(c)
  BY <1>4, UnknownCodeParcels, ServeVersionParcels, UnmarshalParcels, ReturnOkParcels,
     ReturnExceptionParcels, ReturnUnknownParcels DEF StubStep
<1>5. CASE \E c \in Call : ProxyStep(c)
  BY <1>5, FallBackParcels, EnterDefaultParcels, LeaveDefaultParcels, CompleteParcels,
     CompleteVersionParcels DEF ProxyStep
<1>6. CASE ServerDies BY <1>6, ServerDiesParcels
<1>7. CASE UNCHANGED vars BY <1>1, <1>7 DEF vars
<1> QED BY <1>2, <1>3, <1>4, <1>5, <1>6, <1>7 DEF Next

\* The parcels of every call, from the proxy to the stub and back.
THEOREM ParcelInvariance == Spec => []ParcelInv
<1>1. Spec => []IInv BY Invariance
<1> QED BY <1>1, InitParcelInv, NextParcelInv, PTL DEF Spec

\* Whatever the signature, the backends and the other calls, the
\* implementation gets the arguments the caller passed, each at its place,
\* but for the two gaps ArgumentsArriveIntact names.
THEOREM ArgumentsArriveIntactAlways == Spec => []ArgumentsArriveIntact
<1>1. ParcelInv => ArgumentsArriveIntact
  BY DEF ParcelInv, CallInv, ArgInv, Intact, ArgumentsArriveIntact
<1> QED BY <1>1, ParcelInvariance, PTL

\* A call that reports success hands back what the implementation that ran
\* produced, but for the late exception and the zeros of Java.
THEOREM ResultIsWhatWasProducedAlways == Spec => []ResultIsWhatWasProduced
<1>1. ParcelInv => ResultIsWhatWasProduced
  BY DEF ParcelInv, CallInv, OutcomeInv, Produced, Ordinary, G, ResultIsWhatWasProduced
<1> QED BY <1>1, ParcelInvariance, PTL

\* The default implementation never runs a call the server has answered.
THEOREM DefaultStandsInAlways == Spec => []DefaultStandsIn
<1>1. ParcelInv => DefaultStandsIn
  BY DEF ParcelInv, CallInv, AnswerInv, Answered, OutcomeInv, DefaultStandsIn
<1> QED BY <1>1, ParcelInvariance, PTL

-----------------------------------------------------------------------------
(* The arguments of a method, in declaration order.                        *)

LEMMA PositionsAreFinite ==
  ASSUME NEW n \in Nat, NEW S \in SUBSET (1 .. n)
  PROVE  IsFiniteSet(S) /\ Cardinality(S) \in Nat
<1>1. IsFiniteSet(1 .. n) BY FS_Interval
<1>2. IsFiniteSet(S) BY <1>1, FS_Subset
<1> QED BY <1>2, FS_CardinalityType

LEMMA HasGreatest ==
  ASSUME NEW n \in Nat, NEW S \in SUBSET (1 .. n), S # {}
  PROVE  \E i \in S : \A j \in S : j <= i
<1> DEFINE T == {n - i : i \in S}
<1>1. T \subseteq Nat /\ T # {}
  <2>1. ASSUME NEW i \in S PROVE n - i \in Nat
    <3>1. i \in 1 .. n OBVIOUS
    <3> QED BY <3>1
  <2> QED BY <2>1
<1>2. \A i \in S : n - i \in T OBVIOUS
<1>3. \A t \in T : \E i \in S : t = n - i OBVIOUS
<1> HIDE DEF T
<1>4. PICK t \in T : \A u \in T : ~(<<u, t>> \in OpToRel(<, Nat))
  BY <1>1, WFMin, NatLessThanWellFounded
<1>5. \A u \in T : ~(u < t)
  BY <1>1, <1>4 DEF OpToRel
<1>6. PICK i \in S : t = n - i
  BY <1>3
<1>7. ASSUME NEW j \in S PROVE j <= i
  <2>1. ~(n - j < n - i) BY <1>2, <1>5, <1>6
  <2> QED BY <2>1
<1> QED BY <1>7

\* Every place of an enumeration in order is taken.
LEMMA EveryRankIsTaken ==
  ASSUME NEW n \in Nat, NEW S \in SUBSET (1 .. n), NEW k \in 1 .. Cardinality(S)
  PROVE  \E i \in S : Cardinality({j \in S : j < i}) = k - 1
<1> DEFINE Below(i) == {j \in S : j < i}
           Enough == {i \in S : Cardinality(Below(i)) >= k - 1}
<1>1. IsFiniteSet(S) /\ Cardinality(S) \in Nat
  BY PositionsAreFinite
<1>2. \A i \in S : IsFiniteSet(Below(i)) /\ Cardinality(Below(i)) \in Nat
  BY <1>1, FS_Subset, FS_CardinalityType
<1>3. Enough # {}
  <2>1. S # {} BY <1>1, FS_EmptySet
  <2>2. PICK i \in S : \A j \in S : j <= i BY <2>1, HasGreatest
  <2>3. Below(i) = S \ {i}
    <3>1. ASSUME NEW j \in S PROVE j < i <=> j # i
      <4>1. j <= i /\ j \in Nat /\ i \in Nat BY <2>2
      <4> QED BY <4>1
    <3> QED BY <3>1
  <2>4. Cardinality(Below(i)) = Cardinality(S) - 1
    BY <1>1, <2>3, FS_RemoveElement
  <2> QED BY <1>1, <2>4
<1>4. Enough \subseteq Nat
  <2>1. Enough \subseteq S OBVIOUS
  <2>2. ASSUME NEW i \in S PROVE i \in Nat
    <3>1. i \in 1 .. n OBVIOUS
    <3> QED BY <3>1
  <2> HIDE DEF Enough
  <2> QED BY <2>1, <2>2
<1>5. PICK i \in Enough : \A u \in Enough : ~(u < i)
  <2> HIDE DEF Enough
  <2>1. PICK i \in Enough : \A u \in Enough : ~(<<u, i>> \in OpToRel(<, Nat))
    BY <1>3, <1>4, WFMin, NatLessThanWellFounded
  <2> QED BY <1>4, <2>1 DEF OpToRel
<1>6. CASE Cardinality(Below(i)) > k - 1
  <2>1. Below(i) # {}
    <3>1. Cardinality(Below(i)) # 0 BY <1>2, <1>6
    <3> QED BY <3>1, FS_EmptySet
  <2>2. Below(i) \in SUBSET (1 .. n) OBVIOUS
  <2>3. PICK j \in Below(i) : \A l \in Below(i) : l <= j
    <3> HIDE DEF Below
    <3> QED BY <2>1, <2>2, HasGreatest
  <2>4. j \in S /\ j < i BY <2>3
  <2>5. Below(j) = Below(i) \ {j}
    <3>1. ASSUME NEW l \in S PROVE l < j <=> l < i /\ l # j
      <4>1. l \in Nat /\ j \in Nat /\ i \in Nat BY <2>4
      <4>2. l < i => l <= j BY <2>3
      <4> QED BY <2>4, <4>1, <4>2
    <3> QED BY <3>1
  <2>6. Cardinality(Below(j)) = Cardinality(Below(i)) - 1
    <3> HIDE DEF Below
    <3> QED BY <1>2, <1>5, <2>3, <2>5, FS_RemoveElement
  <2>7. Cardinality(Below(j)) >= k - 1
    <3> HIDE DEF Below
    <3>1. Cardinality(Below(i)) \in Nat BY <1>2, <1>5
    <3> QED BY <1>6, <2>6, <3>1
  <2>8. j \in Enough BY <2>4, <2>7
  <2> QED BY <1>5, <2>4, <2>8
<1>7. CASE ~(Cardinality(Below(i)) > k - 1)
  <2>1. Cardinality(Below(i)) \in Nat /\ Cardinality(Below(i)) >= k - 1
    BY <1>2, <1>5
  <2>2. Cardinality(Below(i)) = k - 1
    <3> HIDE DEF Below
    <3> QED BY <1>7, <2>1
  <2> QED BY <1>5, <2>2
<1> QED BY <1>6, <1>7

LEMMA InOrderIsOfThem ==
  ASSUME NEW m \in Method, NEW S \in SUBSET DOMAIN Args[m]
  PROVE  /\ Len(InOrder(S)) \in Nat
         /\ \A k \in 1 .. Len(InOrder(S)) : InOrder(S)[k] \in S
<1>1. Len(Args[m]) \in Nat /\ S \in SUBSET (1 .. Len(Args[m]))
  BY TransactionAssumption
<1>2. IsFiniteSet(S) /\ Cardinality(S) \in Nat
  BY <1>1, PositionsAreFinite
<1>3. Len(InOrder(S)) = Cardinality(S)
  BY <1>2 DEF InOrder
<1>4. ASSUME NEW k \in 1 .. Cardinality(S) PROVE InOrder(S)[k] \in S
  <2>1. \E i \in S : Cardinality({j \in S : j < i}) = k - 1
    BY <1>1, EveryRankIsTaken
  <2> QED BY <2>1 DEF InOrder
<1> QED BY <1>2, <1>3, <1>4

-----------------------------------------------------------------------------
(* The cells of a parcel.                                                  *)

LEMMA CellsOfParcels ==
  /\ Token \in Cell /\ ForeignToken \in Cell /\ OkHeader \in Cell /\ ExHeader \in Cell
  /\ Zero \in Cell
  /\ \A v \in Nat : Version(v) \in Cell
  /\ \A n \in Nat : <<"val", n>> \in Cell /\ <<"size", n>> \in Cell /\ <<"out", n>> \in Cell
  /\ <<"ret", 0>> \in Cell
BY DEF Cell, Token, ForeignToken, OkHeader, ExHeader, Zero, Version

LEMMA RequestCells ==
  ASSUME NEW m \in Method
  PROVE  RequestOf(m) \in Seq(Cell) /\ ExpectedRequest(m) \in Seq(Cell)
<1> DEFINE wire == InOrder(InRequest(m))
           n == Len(wire)
           tail == [k \in 1 .. n |-> CellOf(m, wire[k])]
<1>1. InRequest(m) \in SUBSET DOMAIN Args[m] /\ DOMAIN Args[m] \subseteq Nat
  BY TransactionAssumption DEF InRequest
<1>2. n \in Nat /\ \A k \in 1 .. n : wire[k] \in Nat
  BY <1>1, InOrderIsOfThem
<1> HIDE DEF n, wire
<1>3. \A k \in 1 .. n : CellOf(m, wire[k]) \in Cell
  BY <1>2, CellsOfParcels DEF CellOf
<1>4. tail \in Seq(Cell) /\ <<Token>> \in Seq(Cell)
  BY <1>2, <1>3, CellsOfParcels
<1>5. RequestOf(m) = <<Token>> \o tail /\ ExpectedRequest(m) = <<Token>> \o tail
  BY DEF RequestOf, ExpectedRequest, n, wire
<1> HIDE DEF tail
<1> QED BY <1>4, <1>5, ConcatProperties

LEMMA ReplyCells ==
  ASSUME NEW m \in Method
  PROVE  ReplyOf(m) \in Seq(Cell) /\ ExpectedReply(m) \in Seq(Cell)
<1> DEFINE outs == InOrder(InReply(m))
           n == Len(outs)
           head == IF m \in NonVoid THEN <<<<"ret", 0>>>> ELSE <<>>
           tail == [k \in 1 .. n |-> <<"out", outs[k]>>]
<1>1. InReply(m) \in SUBSET DOMAIN Args[m] /\ DOMAIN Args[m] \subseteq Nat
  BY TransactionAssumption DEF InReply
<1>2. n \in Nat /\ \A k \in 1 .. n : outs[k] \in Nat
  BY <1>1, InOrderIsOfThem
<1> HIDE DEF n, outs
<1>3. tail \in Seq(Cell) /\ head \in Seq(Cell)
  <2>1. tail \in [1 .. n -> Cell]
    BY <1>2, CellsOfParcels
  <2>2. <<"ret", 0>> \in Cell
    BY CellsOfParcels
  <2> HIDE DEF tail
  <2> QED BY <1>2, <2>1, <2>2
<1>4. ReplyOf(m) = head \o tail /\ ExpectedReply(m) = head \o tail
  BY DEF ReplyOf, ExpectedReply, n, outs
<1> HIDE DEF head, tail
<1> QED BY <1>3, <1>4, ConcatProperties

LEMMA ReadsACell ==
  ASSUME NEW parcel \in Seq(Cell), NEW k \in Nat \ {0}
  PROVE  Read(parcel, k) \in Cell
<1>1. Len(parcel) \in Nat /\ \A i \in 1 .. Len(parcel) : parcel[i] \in Cell
  OBVIOUS
<1> QED BY <1>1, CellsOfParcels DEF Read

-----------------------------------------------------------------------------
(* The invariant.                                                          *)

Result ==
  [kind : {"none", "ok", "exception", "error", "crash"}, values : Seq(Cell),
   from : {"none", "cache", "queue", "server", "default", "nobody"}]

CellInv ==
  /\ clientLang \in Langs /\ serverLang \in Langs
  /\ served \subseteq Method /\ serverVersion \in Versions /\ alive \in BOOLEAN
  /\ status \in [Call -> Statuses]
  /\ request \in [Call -> Seq(Cell)]
  /\ received \in [Call -> Seq(Cell)]
  /\ reply \in [Call -> Seq(Cell)]
  /\ result \in [Call -> Result]

LEMMA AnswerType ==
  ASSUME NEW kind \in {"none", "ok", "exception", "error", "crash"}, NEW values \in Seq(Cell),
         NEW from \in {"none", "cache", "queue", "server", "default", "nobody"}
  PROVE  Answer(kind, values, from) \in Result
BY DEF Answer, Result

LEMMA EmptyAnswers ==
  /\ Failed \in Result /\ NoAnswer \in Result
  /\ Answer("crash", <<>>, "none") \in Result /\ Answer("ok", <<>>, "queue") \in Result
  /\ Answer("exception", <<>>, "default") \in Result
  /\ <<>> \in Seq(Cell)
<1>1. <<>> \in Seq(Cell) OBVIOUS
<1> QED BY <1>1, AnswerType DEF Failed, NoAnswer

LEMMA InitCellInv == Init => CellInv
<1> SUFFICES ASSUME Init PROVE CellInv OBVIOUS
<1>1. "OK" \in Statuses BY DEF Statuses
<1> QED BY <1>1, EmptyAnswers DEF Init, CellInv

LEMMA RespondCells ==
  ASSUME CellInv, NEW c \in Call, NEW st \in Statuses, NEW cells \in Seq(Cell), Respond(c, st, cells),
         UNCHANGED <<environment, alive, received, clientSide>>
  PROVE  CellInv'
BY DEF CellInv, Respond, environment, clientSide

LEMMA RespondFailureCells ==
  ASSUME CellInv, NEW c \in Call, NEW e \in Statuses, NEW cells \in Seq(Cell),
         RespondFailure(c, e, cells), UNCHANGED <<environment, alive, received, clientSide>>
  PROVE  CellInv'
<1>1. /\ "OK" \in Statuses /\ <<>> \in Seq(Cell) /\ <<ExHeader>> \in Seq(Cell)
      /\ Append(cells, ExHeader) \in Seq(Cell)
  BY CellsOfParcels, AppendProperties DEF Statuses
<1>2. \/ Respond(c, "OK", <<ExHeader>>)
      \/ Respond(c, "OK", Append(cells, ExHeader))
      \/ Respond(c, e, <<>>)
  BY DEF RespondFailure
<1> QED BY <1>1, <1>2, RespondCells

LEMMA FinishCells ==
  ASSUME CellInv, NEW c \in Call, NEW answer \in Result, Finish(c, answer),
         UNCHANGED <<environment, alive, request, serverSide>>
  PROVE  CellInv'
BY DEF CellInv, Finish, environment, serverSide

-----------------------------------------------------------------------------
(* The steps.                                                              *)

LEMMA StartCells ==
  ASSUME IInv, CellInv, NEW c \in Call, StartCall(c) PROVE CellInv'
<1>1. CASE CachedAnswer(c)
  <2>1. cachedVersion \in Nat BY <1>1 DEF CachedAnswer, IInv, VersionInv
  <2>2. <<Version(cachedVersion)>> \in Seq(Cell) BY <2>1, CellsOfParcels
  <2>3. Answer("ok", <<Version(cachedVersion)>>, "cache") \in Result BY <2>2, AnswerType
  <2> QED BY <1>1, <2>3, FinishCells DEF CachedAnswer
<1>2. ASSUME NEW m \in Method, NEW f \in 0 .. Len(RequestOf(m)), NEW token \in {Token, ForeignToken},
             Transact(c, m, f, token)
      PROVE  CellInv'
  <2> DEFINE cells == IF f = 0 THEN RequestOf(m) ELSE Without(RequestOf(m), f)
  <2>1. RequestOf(m) \in Seq(Cell) /\ Len(RequestOf(m)) \in Nat BY RequestCells
  <2>2. cells \in Seq(Cell)
    <3>1. CASE f = 0 BY <2>1, <3>1
    <3>2. CASE f # 0
      <4>1. f \in 1 .. Len(RequestOf(m)) BY <2>1, <3>2
      <4> QED BY <2>1, <3>2, <4>1, WithoutShape
    <3> QED BY <3>1, <3>2
  <2> HIDE DEF cells
  <2>3. [cells EXCEPT ![1] = token] \in Seq(Cell)
    <3>1. token \in Cell BY CellsOfParcels
    <3>2. CASE 1 \in 1 .. Len(cells) BY <2>2, <3>1, <3>2, ExceptSeq
    <3>3. CASE 1 \notin 1 .. Len(cells)
      <4>1. DOMAIN cells = 1 .. Len(cells) /\ cells = [k \in DOMAIN cells |-> cells[k]]
        BY <2>2
      <4>2. [cells EXCEPT ![1] = token] = cells BY <3>3, <4>1
      <4> QED BY <2>2, <4>2
    <3> QED BY <3>2, <3>3
  <2>4. request' \in [Call -> Seq(Cell)]
    <3>1. CASE UNCHANGED request BY <3>1 DEF CellInv
    <3>2. CASE request' = [request EXCEPT ![c] = [cells EXCEPT ![1] = token]]
      BY <2>3, <3>2 DEF CellInv
    <3> QED BY <1>2, <3>1, <3>2 DEF Transact, cells
  <2>5. status' \in [Call -> Statuses]
    <3>1. "DEAD_OBJECT" \in Statuses BY DEF Statuses
    <3>2. UNCHANGED status \/ status' = [status EXCEPT ![c] = "DEAD_OBJECT"]
      BY <1>2 DEF Transact
    <3> QED BY <3>1, <3>2 DEF CellInv
  <2>6. result' \in [Call -> Result]
    <3>1. \/ UNCHANGED result
          \/ result' = [result EXCEPT ![c] = Failed]
          \/ result' = [result EXCEPT ![c] = Answer("ok", <<>>, "queue")]
      BY <1>2 DEF Transact, Finish
    <3> QED BY <3>1, EmptyAnswers DEF CellInv
  <2>7. UNCHANGED <<environment, alive, received, reply>> BY <1>2 DEF Transact
  <2> QED BY <2>4, <2>5, <2>6, <2>7 DEF CellInv, environment
<1> QED BY <1>1, <1>2 DEF StartCall

LEMMA UnmarshalCells ==
  ASSUME IInv, CellInv, NEW c \in Call, NEW f \in Nat, NEW e \in {"OK"} \cup ReadFaults,
         Unmarshal(c, f, e)
  PROVE  CellInv'
<1> DEFINE cells == ExpectedRequest(method[c])
           n == Len(cells)
           handed == [k \in DOMAIN cells |-> IF k = f THEN Zero ELSE Read(request[c], k)]
<1>1. UNCHANGED <<environment, alive, clientSide>> BY DEF Unmarshal
<1>2. CASE UNCHANGED received
  <2>1. /\ e \in Statuses /\ "BAD_TYPE" \in Statuses /\ "BAD_VALUE" \in Statuses
        /\ <<>> \in Seq(Cell)
    <3>1. e \in Statuses BY TransactionAssumption DEF Statuses
    <3>2. "BAD_TYPE" \in Statuses /\ "BAD_VALUE" \in Statuses BY DEF Statuses
    <3> QED BY <3>1, <3>2, EmptyAnswers
  <2>2. \/ \E st \in Statuses : RespondFailure(c, st, <<>>)
        \/ UNCHANGED <<reply, status>>
    BY <2>1 DEF Unmarshal
  <2>3. CASE UNCHANGED <<reply, status>>
    BY <1>1, <1>2, <2>3 DEF CellInv, environment, clientSide
  <2> QED BY <1>1, <1>2, <2>1, <2>2, <2>3, RespondFailureCells
<1>3. CASE received' = [received EXCEPT ![c] = handed] /\ UNCHANGED <<reply, status>>
  <2>1. method[c] \in Method BY DEF IInv, ControlInv
  <2>2. n \in Nat /\ DOMAIN cells = 1 .. n BY <2>1, RequestCells
  <2> HIDE DEF n
  <2>3. request[c] \in Seq(Cell) BY DEF CellInv
  <2>4. \A k \in 1 .. n : Read(request[c], k) \in Cell BY <2>2, <2>3, ReadsACell
  <2>5. handed \in [1 .. n -> Cell] BY <2>2, <2>4, CellsOfParcels
  <2> HIDE DEF handed
  <2>6. handed \in Seq(Cell) BY <2>2, <2>5
  <2>7. received' \in [Call -> Seq(Cell)] BY <1>3, <2>6 DEF CellInv
  <2> QED BY <1>1, <1>3, <2>7 DEF CellInv, environment, clientSide
<1> QED BY <1>2, <1>3 DEF Unmarshal

LEMMA ReturnOkCells ==
  ASSUME IInv, CellInv, NEW c \in Call, NEW f \in 0 .. 1 + Len(ReplyOf(method[c])),
         NEW e \in {"OK"} \cup WriteFaults, ReturnOk(c, f, e)
  PROVE  CellInv'
<1> DEFINE cells == <<OkHeader>> \o ReplyOf(method[c])
<1>1. UNCHANGED <<environment, alive, clientSide, received>> BY DEF ReturnOk
<1>2. method[c] \in Method BY DEF IInv, ControlInv
<1>3. /\ cells \in Seq(Cell) /\ Len(cells) = 1 + Len(ReplyOf(method[c]))
      /\ Len(ReplyOf(method[c])) \in Nat
  <2>1. <<OkHeader>> \in Seq(Cell) /\ Len(<<OkHeader>>) = 1 BY CellsOfParcels
  <2>2. ReplyOf(method[c]) \in Seq(Cell) BY <1>2, ReplyCells
  <2> QED BY <2>1, <2>2, ConcatProperties, LenProperties
<1> HIDE DEF cells
<1>4. f # 0 => SubSeq(cells, 1, f - 1) \in Seq(Cell)
  <2> SUFFICES ASSUME f # 0 PROVE SubSeq(cells, 1, f - 1) \in Seq(Cell) OBVIOUS
  <2>1. f \in 1 .. Len(cells) BY <1>3
  <2> QED BY <1>3, <2>1
<1>5. e \in Statuses /\ "OK" \in Statuses /\ <<>> \in Seq(Cell)
  BY TransactionAssumption DEF Statuses
<1>6. \/ Respond(c, "OK", <<>>)
      \/ Respond(c, "OK", cells)
      \/ f # 0 /\ RespondFailure(c, e, SubSeq(cells, 1, f - 1))
  BY DEF ReturnOk, cells
<1> QED BY <1>1, <1>3, <1>4, <1>5, <1>6, RespondCells, RespondFailureCells

LEMMA StubCells ==
  ASSUME IInv, CellInv, NEW c \in Call, StubStep(c) PROVE CellInv'
<1>1. method[c] \in Method BY DEF IInv, ControlInv
<1>2. /\ {"OK", "UNKNOWN_TRANSACTION", "BAD_TYPE"} \subseteq Statuses
      /\ <<>> \in Seq(Cell) /\ <<ExHeader>> \in Seq(Cell)
  BY CellsOfParcels DEF Statuses
<1>3. CASE UnknownCode(c)
  BY <1>2, <1>3, RespondCells DEF UnknownCode
<1>4. CASE ServeVersion(c)
  <2>1. <<OkHeader, Version(serverVersion)>> \in Seq(Cell)
    <3>1. Version(serverVersion) \in Cell BY CellsOfParcels DEF IInv, VersionInv
    <3> QED BY <3>1, CellsOfParcels
  <2>2. \/ Respond(c, "OK", <<OkHeader, Version(serverVersion)>>)
        \/ RespondFailure(c, "BAD_TYPE", <<>>)
    BY <1>4 DEF ServeVersion
  <2>3. UNCHANGED <<environment, alive, received, clientSide>> BY <1>4 DEF ServeVersion
  <2> QED BY <1>2, <2>1, <2>2, <2>3, RespondCells, RespondFailureCells
<1>5. ASSUME NEW f \in 0 .. Len(ExpectedRequest(method[c])), NEW e \in {"OK"} \cup ReadFaults,
             Unmarshal(c, f, e)
      PROVE  CellInv'
  <2>1. f \in Nat
    <3>1. Len(ExpectedRequest(method[c])) \in Nat BY <1>1, RequestCells
    <3> QED BY <3>1
  <2> QED BY <1>5, <2>1, UnmarshalCells
<1>6. CASE ReturnException(c)
  <2>1. Respond(c, "OK", <<>>) \/ Respond(c, "OK", <<ExHeader>>)
    BY <1>6 DEF ReturnException
  <2>2. UNCHANGED <<environment, alive, received, clientSide>> BY <1>6 DEF ReturnException
  <2> QED BY <1>2, <2>1, <2>2, RespondCells
<1>7. CASE ReturnUnknown(c)
  <2>1. Respond(c, "OK", <<>>) \/ Respond(c, "UNKNOWN_TRANSACTION", <<>>)
    BY <1>7 DEF ReturnUnknown
  <2>2. UNCHANGED <<environment, alive, received, clientSide>> BY <1>7 DEF ReturnUnknown
  <2> QED BY <1>2, <2>1, <2>2, RespondCells
<1> QED BY <1>3, <1>4, <1>5, <1>6, <1>7, ReturnOkCells DEF StubStep

LEMMA ReadReplyCells ==
  ASSUME IInv, CellInv, NEW c \in Call, NEW f PROVE ReadReply(c, f) \in Result
<1> DEFINE n == 1 + Len(ExpectedReply(method[c]))
           author == IF status[c] = "OK" THEN "server" ELSE "nobody"
           values == [k \in 1 .. n - 1 |-> Read(reply[c], k + 1)]
<1>1. method[c] \in Method BY DEF IInv, ControlInv
<1>2. Len(ExpectedReply(method[c])) \in Nat BY <1>1, ReplyCells
<1>3. n - 1 \in Nat BY <1>2
<1>4. values \in Seq(Cell)
  <2>1. reply[c] \in Seq(Cell) BY DEF CellInv
  <2> HIDE DEF n
  <2>2. \A k \in 1 .. n - 1 : Read(reply[c], k + 1) \in Cell BY <2>1, ReadsACell
  <2> QED BY <1>3, <2>2
<1>5. \/ ReadReply(c, f) = Answer("exception", <<>>, author)
      \/ ReadReply(c, f) = Failed
      \/ ReadReply(c, f) = Answer("ok", values, author)
  BY DEF ReadReply
<1> HIDE DEF values
<1>6. <<>> \in Seq(Cell) OBVIOUS
<1>7. Answer("exception", <<>>, author) \in Result BY <1>6, AnswerType
<1>8. Answer("ok", values, author) \in Result BY <1>4, AnswerType
<1> QED BY <1>5, <1>7, <1>8, EmptyAnswers

LEMMA CompleteVersionCells ==
  ASSUME IInv, CellInv, NEW c \in Call, CompleteVersion(c) PROVE CellInv'
<1> DEFINE cell == Read(reply[c], 2)
           version == IF cell = Zero THEN 0 ELSE cell[2]
<1>1. UNCHANGED <<environment, alive, request, serverSide>> BY DEF CompleteVersion
<1>2. version \in Nat
  <2>1. reply[c] \in Seq(Cell) BY DEF CellInv
  <2>2. cell \in Cell BY <2>1, ReadsACell
  <2> HIDE DEF cell
  <2> QED BY <2>2 DEF Cell
<1>3. cachedVersion # -1 => cachedVersion \in Nat BY DEF IInv, VersionInv
<1>4. \/ Finish(c, Failed)
      \/ cachedVersion' \in Nat /\ Finish(c, Answer("ok", <<Version(cachedVersion')>>, "server"))
  BY <1>2, <1>3 DEF CompleteVersion
<1>5. CASE cachedVersion' \in Nat /\ Finish(c, Answer("ok", <<Version(cachedVersion')>>, "server"))
  <2>1. <<Version(cachedVersion')>> \in Seq(Cell) BY <1>5, CellsOfParcels
  <2>2. Answer("ok", <<Version(cachedVersion')>>, "server") \in Result BY <2>1, AnswerType
  <2> QED BY <1>1, <1>5, <2>2, FinishCells
<1> QED BY <1>1, <1>4, <1>5, EmptyAnswers, FinishCells

LEMMA ProxyCells ==
  ASSUME IInv, CellInv, NEW c \in Call, ProxyStep(c) PROVE CellInv'
<1>1. method[c] \in Method BY DEF IInv, ControlInv
<1>2. CASE FallBack(c)
  BY <1>2 DEF FallBack, CellInv, environment, serverSide
<1>3. CASE EnterDefault(c)
  <2>1. UNCHANGED <<environment, alive, request, serverSide>> BY <1>3 DEF EnterDefault
  <2>2. UNCHANGED result \/ Finish(c, Answer("crash", <<>>, "none")) BY <1>3 DEF EnterDefault
  <2>3. CASE UNCHANGED result BY <2>1, <2>3 DEF CellInv, environment, serverSide
  <2> QED BY <2>1, <2>2, <2>3, EmptyAnswers, FinishCells
<1>4. CASE LeaveDefault(c)
  <2>1. UNCHANGED <<environment, alive, request, serverSide>> BY <1>4 DEF LeaveDefault
  <2>2. \E answer \in Result : Finish(c, answer)
    <3>1. ExpectedReply(method[c]) \in Seq(Cell) BY <1>1, ReplyCells
    <3>2. Answer("ok", ExpectedReply(method[c]), "default") \in Result BY <3>1, AnswerType
    <3>3. <<Version(0)>> \in Seq(Cell) BY CellsOfParcels
    <3>4. Answer("ok", <<Version(0)>>, "default") \in Result BY <3>3, AnswerType
    <3> QED BY <1>4, <3>2, <3>4, EmptyAnswers DEF LeaveDefault
  <2> QED BY <2>1, <2>2, FinishCells
<1>5. ASSUME NEW f, Complete(c, f) PROVE CellInv'
  <2>1. UNCHANGED <<environment, alive, request, serverSide>> BY <1>5 DEF Complete
  <2>2. Finish(c, Failed) \/ Finish(c, ReadReply(c, f)) BY <1>5 DEF Complete
  <2> QED BY <2>1, <2>2, EmptyAnswers, ReadReplyCells, FinishCells
<1> QED BY <1>2, <1>3, <1>4, <1>5, CompleteVersionCells DEF ProxyStep

LEMMA NextCellInv == IInv /\ CellInv /\ [Next]_vars => CellInv'
<1> SUFFICES ASSUME IInv, CellInv, [Next]_vars PROVE CellInv' OBVIOUS
<1>1. CASE UNCHANGED <<environment, alive, clientSide, serverSide>>
  BY <1>1 DEF CellInv, environment, clientSide, serverSide
<1>2. CASE \E s \in Setter : SetterCheck(s) \/ SetterAssign(s)
  BY <1>1, <1>2 DEF SetterCheck, SetterAssign
<1>3. CASE ServerDies
  <2>1. status' \in [Call -> Statuses]
    <3>1. "DEAD_OBJECT" \in Statuses BY DEF Statuses
    <3> QED BY <1>3, <3>1 DEF ServerDies, CellInv
  <2>2. alive' \in BOOLEAN /\ UNCHANGED <<environment, clientSide, received, reply>>
    BY <1>3 DEF ServerDies
  <2> QED BY <2>1, <2>2 DEF CellInv, environment, clientSide
<1> QED BY <1>1, <1>2, <1>3, StartCells, StubCells, ProxyCells DEF Next, vars

\* Parcels hold cells, and callers get one of the answers there are.
THEOREM CellInvariance == Spec => []CellInv
BY InitCellInv, NextCellInv, Invariance, PTL DEF Spec

\* Every variable keeps its type, for any interface, any number of calls and
\* setDefaultImpl threads and any combination of backends.
THEOREM TypeOKAlways == Spec => []TypeOK
<1>1. IInv /\ CellInv => TypeOK
  <2> SUFFICES ASSUME IInv, CellInv PROVE TypeOK OBVIOUS
  <2>1. cachedVersion \in Nat \cup {-1} BY DEF IInv, VersionInv
  <2>2. result \in [Call -> [kind : {"none", "ok", "exception", "error", "crash"},
                             values : Seq(Cell),
                             from : {"none", "cache", "queue", "server", "default", "nobody"}]]
    BY DEF CellInv, Result
  <2> QED BY <2>1, <2>2 DEF TypeOK, IInv, ControlInv, CellInv
<1> QED BY <1>1, Invariance, CellInvariance, PTL
=============================================================================
