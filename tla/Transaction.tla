----------------------------- MODULE Transaction -----------------------------
(***************************************************************************)
(* The code the compiler generates for one AIDL interface: the proxy in    *)
(* the client (C++ DefineClientTransaction, NDK                            *)
(* GenerateClientMethodDefinition, Java generate_proxy_method), the stub   *)
(* in the server (HandleServerTransaction, GenerateServerCaseDefinition,   *)
(* generate_stub_code), the process-wide default implementation and the    *)
(* version number a proxy caches.                                          *)
(*                                                                         *)
(* One client process and one server process, each generated for one       *)
(* backend, exchange any number of concurrent calls over binder.  A        *)
(* parcel is a sequence of cells: one per value, array size or header the  *)
(* generated code reads or writes with one parcel operation.               *)
(***************************************************************************)
EXTENDS Integers, Sequences, FiniteSets

CONSTANTS
  Call,                 \* call instances; each is one thread in a proxy method
  Setter,               \* threads that call setDefaultImpl with an object of their own
  None,                 \* the null default implementation
  Method,               \* methods of the interface the client was compiled with
  GetInterfaceVersion,  \* the meta method of a versioned interface
  Args,                 \* Args[m]: the arguments of m, [dir, array]
  NonVoid,              \* methods with a return value
  Oneway,               \* methods that are oneway
  Langs,                \* backends to combine: a subset of {"CPP", "NDK", "JAVA"}
  Versions,             \* versions the server may be built with; 0 is no --version
  ReadFaults,           \* statuses a parcel read of a value may fail with
  WriteFaults           \* statuses a parcel write of a value may fail with

ASSUME TransactionAssumption ==
  /\ None \notin Setter
  /\ GetInterfaceVersion \in Method
  /\ Args \in [Method -> Seq([dir : {"in", "out", "inout"}, array : BOOLEAN])]
  /\ Args[GetInterfaceVersion] = <<>>
  /\ NonVoid \subseteq Method /\ GetInterfaceVersion \in NonVoid
  \* AidlInterface::CheckValid: a oneway method returns void and has no out parameter
  /\ Oneway \subseteq Method \ NonVoid
  /\ \A m \in Oneway : \A i \in DOMAIN Args[m] : Args[m][i].dir = "in"
  /\ Langs \subseteq {"CPP", "NDK", "JAVA"}
  /\ Versions \subseteq Nat
  /\ ReadFaults \subseteq {"BAD_VALUE", "UNEXPECTED_NULL"}
  /\ WriteFaults \subseteq {"BAD_VALUE", "UNEXPECTED_NULL"}

VARIABLES
  clientLang,     \* backend of the client process
  serverLang,     \* backend of the server process
  served,         \* methods the server was compiled with
  serverVersion,  \* VERSION of the server's interface, 0 when it has none
  alive,          \* the server process is running
  defaultImpl,    \* default_impl_ / sDefaultImpl of the client process
  setter,         \* control state of each setDefaultImpl call
  cachedVersion,  \* cached_version_ / mCachedVersion of the proxy
  using,          \* the default implementation each call is inside of
  client,         \* control state of each call in the client
  server,         \* control state of each call in the server
  method,         \* the method each call is for
  request,        \* the parcel the proxy sent
  received,       \* what the stub unmarshalled for the implementation
  reply,          \* the parcel the stub sent back
  status,         \* what transact() returns to the proxy
  result          \* what the proxy method returns to its caller

environment == <<clientLang, serverLang, served, serverVersion>>
serverSide == <<server, received, reply, status>>
clientSide == <<client, method, request, using, result>>
vars == <<environment, alive, defaultImpl, setter, cachedVersion, clientSide, serverSide>>

-----------------------------------------------------------------------------
(* Cells, and the order in which proxies and stubs put them in a parcel.   *)

Token == <<"token", 0>>
ForeignToken == <<"token", 1>>  \* the descriptor of another interface
OkHeader == <<"status", 0>>
ExHeader == <<"status", 1>>
Zero == <<"zero", 0>>           \* what a Java read past the end of a parcel returns
VersionOffByOne(v) == <<"version", v - 1>>  \* regression
Version(v) == <<"version", v>>

IsIn(a) == a.dir \in {"in", "inout"}
IsOut(a) == a.dir \in {"out", "inout"}
\* The positions S of some arguments, in declaration order.
InOrder(S) ==
  [k \in 1 .. Cardinality(S) |-> CHOOSE i \in S : Cardinality({j \in S : j < i}) = k - 1]
InRequest(m) == {i \in DOMAIN Args[m] : IsIn(Args[m][i]) \/ Args[m][i].array}
InReply(m) == {i \in DOMAIN Args[m] : IsOut(Args[m][i])}
CellOf(m, i) == IF IsIn(Args[m][i]) THEN <<"val", i>> ELSE <<"size", i>>

\* Proxy: the interface token, then every in argument and the size of every
\* array that is only out, in declaration order.
RequestOf(m) ==
  LET wire == InOrder(InRequest(m))
  IN  <<Token>> \o [k \in 1 .. Len(wire) |-> CellOf(m, wire[k])]

\* Regression: a stub that does not read the sizes of out arrays.
StubSkipsSizes(m) ==
  LET wire == InOrder({i \in InRequest(m) : IsIn(Args[m][i])})
  IN  <<Token>> \o [k \in 1 .. Len(wire) |-> CellOf(m, wire[k])]

\* Stub: the cells it reads, in the order it reads them.
ExpectedRequest(m) ==
  LET wire == InOrder(InRequest(m))
  IN  <<Token>> \o [k \in 1 .. Len(wire) |-> CellOf(m, wire[k])]

\* Regression: a stub that writes the return value after the out arguments.
StubReturnsLast(m) ==
  LET outs == InOrder(InReply(m))
  IN  [k \in 1 .. Len(outs) |-> <<"out", outs[k]>>]
        \o (IF m \in NonVoid THEN <<<<"ret", 0>>>> ELSE <<>>)

\* Stub: the return value first, then the out arguments in declaration order.
ReplyOf(m) ==
  LET outs == InOrder(InReply(m))
  IN  (IF m \in NonVoid THEN <<<<"ret", 0>>>> ELSE <<>>)
        \o [k \in 1 .. Len(outs) |-> <<"out", outs[k]>>]

\* Proxy: where it puts the cells it reads after the status header.
ExpectedReply(m) ==
  LET outs == InOrder(InReply(m))
  IN  (IF m \in NonVoid THEN <<<<"ret", 0>>>> ELSE <<>>)
        \o [k \in 1 .. Len(outs) |-> <<"out", outs[k]>>]

\* Reading cell k of a parcel that may be shorter than the reader expects.
Read(parcel, k) == IF k <= Len(parcel) THEN parcel[k] ELSE Zero
Without(s, k) == SubSeq(s, 1, k - 1) \o SubSeq(s, k + 1, Len(s))

\* The NDK generator emits no status check after AParcel_writeVectorSize and
\* AParcel_resizeVector; every other parcel operation is checked.
Checked(lang, cell) == ~(lang = "NDK" /\ cell[1] = "size")

Answer(kind, values, from) == [kind |-> kind, values |-> values, from |-> from]
Failed == Answer("error", <<>>, "none")
NoAnswer == Answer("none", <<>>, "none")

-----------------------------------------------------------------------------
Init ==
  /\ clientLang \in Langs
  /\ serverLang \in Langs
  /\ serverVersion \in Versions
  /\ served \in {S \in SUBSET Method : GetInterfaceVersion \in S <=> serverVersion > 0}
  /\ alive = TRUE
  /\ defaultImpl = None
  /\ setter = [s \in Setter |-> "idle"]
  /\ cachedVersion = -1
  /\ client = [c \in Call |-> "idle"]
  /\ server = [c \in Call |-> "idle"]
  /\ method = [c \in Call |-> GetInterfaceVersion]
  /\ request = [c \in Call |-> <<>>]
  /\ received = [c \in Call |-> <<>>]
  /\ reply = [c \in Call |-> <<>>]
  /\ status = [c \in Call |-> "OK"]
  /\ using = [c \in Call |-> None]
  /\ result = [c \in Call |-> NoAnswer]

-----------------------------------------------------------------------------
(* setDefaultImpl: an unsynchronised test and assignment of a static.      *)

\* Regressions: the test for an installed implementation is lost; a null
\* argument resets the static.
SetterAlwaysInstalls(s) ==
  /\ setter[s] = "idle"
  /\ setter' = [setter EXCEPT ![s] = "checked"]
  /\ UNCHANGED <<environment, alive, defaultImpl, cachedVersion, clientSide, serverSide>>
SetterResets(s) ==
  /\ setter[s] = "idle"
  /\ setter' = [setter EXCEPT ![s] = IF defaultImpl = None THEN "checked" ELSE "refused"]
  /\ defaultImpl' = None
  /\ UNCHANGED <<environment, alive, cachedVersion, clientSide, serverSide>>

\* if (!default_impl && impl); the caller may pass a null impl
SetterCheck(s) ==
  /\ setter[s] = "idle"
  /\ \E impl \in {s, None} :
       setter' = [setter EXCEPT ![s] =
                    IF defaultImpl = None /\ impl # None THEN "checked" ELSE "refused"]
  /\ UNCHANGED <<environment, alive, defaultImpl, cachedVersion, clientSide, serverSide>>

\* default_impl = impl; return true;
SetterAssign(s) ==
  /\ setter[s] = "checked"
  /\ defaultImpl' = s
  /\ setter' = [setter EXCEPT ![s] = "installed"]
  /\ UNCHANGED <<environment, alive, cachedVersion, clientSide, serverSide>>

-----------------------------------------------------------------------------
(* The proxy, up to transact().                                            *)

Finish(c, answer) ==
  /\ client' = [client EXCEPT ![c] = "done"]
  /\ result' = [result EXCEPT ![c] = answer]

\* getInterfaceVersion answers from the cache when it is filled.
CachedAnswer(c) ==
  /\ client[c] = "idle"
  /\ cachedVersion # -1
  /\ method' = [method EXCEPT ![c] = GetInterfaceVersion]
  /\ Finish(c, Answer("ok", <<Version(cachedVersion)>>, "cache"))
  /\ UNCHANGED <<environment, alive, defaultImpl, setter, cachedVersion, request, using, serverSide>>

\* Marshal the arguments and call transact().  Write f of the parcel fails; 0
\* is no failure.  A failed size write goes unnoticed in the NDK proxy, which
\* sends a request that lacks the cell.  A oneway transact returns when the
\* transaction is queued.  A C++ or Java proxy may wrap a binder of another
\* interface; NDK's associates the class with the binder first.
Transact(c, m, f, token) ==
  /\ client[c] = "idle"
  /\ clientLang = "NDK" => token = Token
  /\ m = GetInterfaceVersion => cachedVersion = -1 /\ f = 0
  /\ method' = [method EXCEPT ![c] = m]
  /\ \/ /\ f # 0 /\ Checked(clientLang, RequestOf(m)[f])
        /\ Finish(c, Failed)
        /\ UNCHANGED <<request, server, status>>
     \/ /\ f # 0 => ~Checked(clientLang, RequestOf(m)[f])
        /\ request' = [request EXCEPT ![c] =
                         [(IF f = 0 THEN RequestOf(m) ELSE Without(RequestOf(m), f))
                            EXCEPT ![1] = token]]
        /\ IF alive
           THEN /\ server' = [server EXCEPT ![c] = "queued"]
                /\ UNCHANGED status
           ELSE /\ server' = [server EXCEPT ![c] = "finished"]
                /\ status' = [status EXCEPT ![c] = "DEAD_OBJECT"]
        /\ IF m \in Oneway
           THEN Finish(c, IF alive THEN Answer("ok", <<>>, "queue") ELSE Failed)
           ELSE /\ client' = [client EXCEPT ![c] = "waiting"]
                /\ UNCHANGED result
  /\ UNCHANGED <<environment, alive, defaultImpl, setter, cachedVersion, using, received, reply>>

-----------------------------------------------------------------------------
(* The stub: onTransact.                                                   *)

Respond(c, st, cells) ==
  /\ server' = [server EXCEPT ![c] = "finished"]
  /\ status' = [status EXCEPT ![c] = st]
  /\ reply' = [reply EXCEPT ![c] = cells]

\* Regression: the stub breaks out of the switch without setting the status.
RespondFailureLost(c, e, written) == Respond(c, "OK", <<>>)

\* A parcel operation of the stub failed with status e after the cells
\* `written` of the reply.  A Java stub throws and the framework replaces the
\* reply by the exception.  The C++ stub maps UNEXPECTED_NULL to an exception
\* which it appends to the reply, whatever that holds already.
RespondFailure(c, e, written) ==
  CASE serverLang = "JAVA" -> Respond(c, "OK", <<ExHeader>>)
    [] serverLang = "CPP" /\ e = "UNEXPECTED_NULL" ->
         Respond(c, "OK", Append(written, ExHeader))
    [] OTHER -> Respond(c, e, <<>>)

\* default: of the switch: the super class does not know the code either.
UnknownCode(c) ==
  /\ server[c] = "queued"
  /\ method[c] \notin served
  /\ Respond(c, "UNKNOWN_TRANSACTION", <<>>)
  /\ UNCHANGED <<environment, alive, defaultImpl, setter, cachedVersion, clientSide, received>>

\* The meta method is answered by the generated stub itself.  The C++ stub
\* ignores what checkInterface returned.
ServeVersion(c) ==
  /\ server[c] = "queued"
  /\ method[c] = GetInterfaceVersion
  /\ method[c] \in served
  /\ IF request[c][1] = Token \/ serverLang = "CPP"
     THEN Respond(c, "OK", <<OkHeader, Version(serverVersion)>>)
     ELSE RespondFailure(c, "BAD_TYPE", <<>>)
  /\ UNCHANGED <<environment, alive, defaultImpl, setter, cachedVersion, clientSide, received>>

\* Check the interface token, unmarshal the arguments and call the
\* implementation.  Read f fails with status e; a read past the end fails in
\* C++ and NDK and yields zero in Java.
Unmarshal(c, f, e) ==
  LET m == method[c]
      cells == ExpectedRequest(m)
      fails(k) == /\ Checked(serverLang, cells[k])
                  /\ k = f \/ (k > Len(request[c]) /\ serverLang # "JAVA")
  IN  /\ server[c] = "queued"
      /\ m \in served \ {GetInterfaceVersion}
      /\ f = 0 <=> e = "OK"
      /\ f # 1 /\ f <= Len(request[c])
      /\ \/ /\ request[c][1] # Token
            /\ RespondFailure(c, "BAD_TYPE", <<>>)
            /\ UNCHANGED received
         \/ /\ request[c][1] = Token
            /\ \E k \in DOMAIN cells : fails(k)
            /\ RespondFailure(c, IF e = "OK" THEN "BAD_VALUE" ELSE e, <<>>)
            /\ UNCHANGED received
         \/ /\ request[c][1] = Token
            /\ \A k \in DOMAIN cells : ~fails(k)
            /\ received' = [received EXCEPT ![c] =
                 [k \in DOMAIN cells |-> IF k = f THEN Zero ELSE Read(request[c], k)]]
            /\ server' = [server EXCEPT ![c] = "running"]
            /\ UNCHANGED <<reply, status>>
      /\ UNCHANGED <<environment, alive, defaultImpl, setter, cachedVersion, clientSide>>

\* The implementation succeeded: write the header, the return value and the
\* out arguments.  Write f fails with status e.
ReturnOk(c, f, e) ==
  LET cells == <<OkHeader>> \o ReplyOf(method[c])
  IN  /\ server[c] = "running"
      /\ f = 0 <=> e = "OK"
      /\ f # 1
      /\ \/ /\ method[c] \in Oneway
            /\ f = 0
            /\ Respond(c, "OK", <<>>)
         \/ /\ method[c] \notin Oneway
            /\ f = 0
            /\ Respond(c, "OK", cells)
         \/ /\ method[c] \notin Oneway
            /\ f # 0
            /\ RespondFailure(c, e, SubSeq(cells, 1, f - 1))
      /\ UNCHANGED <<environment, alive, defaultImpl, setter, cachedVersion, clientSide, received>>

\* The implementation reported an exception, which becomes the whole reply.
ReturnException(c) ==
  /\ server[c] = "running"
  /\ Respond(c, "OK", IF method[c] \in Oneway THEN <<>> ELSE <<ExHeader>>)
  /\ UNCHANGED <<environment, alive, defaultImpl, setter, cachedVersion, clientSide, received>>

\* A C++ or NDK implementation returned a transaction error, as the methods
\* of the generated Default class do: the status header is not written and
\* onTransact returns the error.
ReturnUnknown(c) ==
  /\ server[c] = "running"
  /\ serverLang # "JAVA"
  /\ Respond(c, IF method[c] \in Oneway THEN "OK" ELSE "UNKNOWN_TRANSACTION", <<>>)
  /\ UNCHANGED <<environment, alive, defaultImpl, setter, cachedVersion, clientSide, received>>

\* The server process dies with everything it had queued or was running.
ServerDies ==
  /\ alive
  /\ alive' = FALSE
  /\ LET lost == {c \in Call : server[c] \in {"queued", "running"}}
     IN  /\ server' = [c \in Call |-> IF c \in lost THEN "finished" ELSE server[c]]
         /\ status' = [c \in Call |-> IF c \in lost THEN "DEAD_OBJECT" ELSE status[c]]
  /\ UNCHANGED <<environment, defaultImpl, setter, cachedVersion, clientSide, received, reply>>

-----------------------------------------------------------------------------
(* The proxy, after transact().                                            *)

\* getInterfaceVersion falls back to the default implementation in NDK only.
HasFallback(c) == method[c] # GetInterfaceVersion \/ clientLang = "NDK"

\* Regression: the default implementation is tried after any failure.
FallBackOnAnyError(c) ==
  /\ client[c] = "waiting"
  /\ server[c] = "finished"
  /\ status[c] # "OK"
  /\ HasFallback(c)
  /\ defaultImpl # None
  /\ client' = [client EXCEPT ![c] = "fallback"]
  /\ UNCHANGED <<environment, alive, defaultImpl, setter, cachedVersion, method, request, using, result, serverSide>>

\* transact() answered UNKNOWN_TRANSACTION and getDefaultImpl() was not null
\* at the first look.
FallBack(c) ==
  /\ client[c] = "waiting"
  /\ server[c] = "finished"
  /\ status[c] = "UNKNOWN_TRANSACTION"
  /\ HasFallback(c)
  /\ defaultImpl # None
  /\ client' = [client EXCEPT ![c] = "fallback"]
  /\ UNCHANGED <<environment, alive, defaultImpl, setter, cachedVersion, method, request, using, result, serverSide>>

\* return getDefaultImpl()->method(...): a second look at the static.
EnterDefault(c) ==
  /\ client[c] = "fallback"
  /\ using' = [using EXCEPT ![c] = defaultImpl]
  /\ IF defaultImpl = None
     THEN Finish(c, Answer("crash", <<>>, "none"))
     ELSE /\ client' = [client EXCEPT ![c] = "default"]
          /\ UNCHANGED result
  /\ UNCHANGED <<environment, alive, defaultImpl, setter, cachedVersion, method, request, serverSide>>

\* The call of the default implementation ends.  default_impl_ is the only
\* reference to the object in C++ and NDK: an assignment meanwhile destroyed
\* it under the call.  The methods a default implementation leaves alone
\* answer UNKNOWN_TRANSACTION in C++ and NDK and a default value in Java.
LeaveDefault(c) ==
  /\ client[c] = "default"
  /\ \/ /\ clientLang # "JAVA" /\ using[c] # defaultImpl
        /\ Finish(c, Answer("crash", <<>>, "none"))
     \/ /\ clientLang = "JAVA" \/ using[c] = defaultImpl
        /\ \/ /\ method[c] # GetInterfaceVersion
              /\ Finish(c, Answer("ok", ExpectedReply(method[c]), "default"))
           \/ /\ method[c] = GetInterfaceVersion
              /\ Finish(c, Answer("ok", <<Version(0)>>, "default"))
           \/ /\ method[c] # GetInterfaceVersion
              /\ Finish(c, Answer("exception", <<>>, "default"))
           \/ /\ method[c] # GetInterfaceVersion
              /\ clientLang # "JAVA"
              /\ Finish(c, Failed)
  /\ UNCHANGED <<environment, alive, defaultImpl, setter, cachedVersion, method, request, using, serverSide>>

\* What the proxy makes of a reply it takes to be there.  Read f fails.  A
\* Java read past the end yields zero, and a zero header is "no exception".
ReadReply(c, f) ==
  LET n == 1 + Len(ExpectedReply(method[c]))
      author == IF status[c] = "OK" THEN "server" ELSE "nobody"
      short == n > Len(reply[c]) /\ clientLang # "JAVA"
  IN  CASE Read(reply[c], 1) = ExHeader -> Answer("exception", <<>>, author)
        [] Read(reply[c], 1) # ExHeader /\ (short \/ f # 0) -> Failed
        [] OTHER -> Answer("ok", [k \in 1 .. n - 1 |-> Read(reply[c], k + 1)], author)

\* The Java proxy knows only whether transact() returned false, which stands
\* for UNKNOWN_TRANSACTION; other errors are thrown.
NoReply(c) ==
  /\ status[c] # "OK"
  /\ ~(clientLang = "JAVA" /\ status[c] = "UNKNOWN_TRANSACTION")

\* Regression: without a default implementation the proxy is left waiting.
CompleteAnswered(c, f) ==
  /\ client[c] = "waiting"
  /\ server[c] = "finished"
  /\ method[c] # GetInterfaceVersion
  /\ status[c] # "UNKNOWN_TRANSACTION"
  /\ Finish(c, IF NoReply(c) THEN Failed ELSE ReadReply(c, f))
  /\ UNCHANGED <<environment, alive, defaultImpl, setter, cachedVersion, method, request, using, serverSide>>

Complete(c, f) ==
  /\ client[c] = "waiting"
  /\ server[c] = "finished"
  /\ method[c] # GetInterfaceVersion
  /\ ~(status[c] = "UNKNOWN_TRANSACTION" /\ defaultImpl # None)
  /\ Finish(c, IF NoReply(c) THEN Failed ELSE ReadReply(c, f))
  /\ UNCHANGED <<environment, alive, defaultImpl, setter, cachedVersion, method, request, using, serverSide>>

\* Regression: the cache is filled whatever transact() returned.
CacheUnchecked(c) ==
  /\ client[c] = "waiting"
  /\ server[c] = "finished"
  /\ method[c] = GetInterfaceVersion
  /\ cachedVersion' = Read(reply[c], 2)[2]
  /\ Finish(c, Answer("ok", <<Version(cachedVersion')>>, "server"))
  /\ UNCHANGED <<environment, alive, defaultImpl, setter, method, request, using, serverSide>>

\* getInterfaceVersion: fill the cache from the reply.  C++ fills it only when
\* the transaction succeeded and returns the member, which another thread may
\* have filled; Java does not look at what transact() returned.
CompleteVersion(c) ==
  LET cell == Read(reply[c], 2)
      version == IF cell = Zero THEN 0 ELSE cell[2]
      known == /\ ~NoReply(c)
               /\ Read(reply[c], 1) # ExHeader
               /\ Len(reply[c]) >= 2 \/ clientLang = "JAVA"
  IN  /\ client[c] = "waiting"
      /\ server[c] = "finished"
      /\ method[c] = GetInterfaceVersion
      /\ ~(HasFallback(c) /\ status[c] = "UNKNOWN_TRANSACTION" /\ defaultImpl # None)
      /\ cachedVersion' = IF known THEN version ELSE cachedVersion
      /\ Finish(c, IF known \/ (clientLang = "CPP" /\ cachedVersion # -1)
                   THEN Answer("ok", <<Version(cachedVersion')>>, "server")
                   ELSE Failed)
      /\ UNCHANGED <<environment, alive, defaultImpl, setter, method, request, using, serverSide>>

-----------------------------------------------------------------------------
StubStep(c) ==
  \/ UnknownCode(c)
  \/ ServeVersion(c)
  \/ \E f \in 0 .. Len(ExpectedRequest(method[c])), e \in {"OK"} \cup ReadFaults : Unmarshal(c, f, e)
  \/ \E f \in 0 .. 1 + Len(ReplyOf(method[c])), e \in {"OK"} \cup WriteFaults : ReturnOk(c, f, e)
  \/ ReturnException(c)
  \/ ReturnUnknown(c)

ProxyStep(c) ==
  \/ FallBack(c)
  \/ EnterDefault(c)
  \/ LeaveDefault(c)
  \/ \E f \in 0 .. Len(ExpectedReply(method[c])) : Complete(c, f)
  \/ CompleteVersion(c)

StartCall(c) ==
  \/ CachedAnswer(c)
  \/ \E m \in Method : \E f \in 0 .. Len(RequestOf(m)), token \in {Token, ForeignToken} :
       Transact(c, m, f, token)

Next ==
  \/ \E s \in Setter : SetterCheck(s) \/ SetterAssign(s)
  \/ \E c \in Call : StartCall(c) \/ StubStep(c) \/ ProxyStep(c)
  \/ ServerDies

Spec == Init /\ [][Next]_vars

\* Threads that are in generated code, and implementations, run on.
Fairness == \A c \in Call : WF_vars(StubStep(c)) /\ WF_vars(ProxyStep(c))
FairSpec == Spec /\ Fairness
==============================================================================
