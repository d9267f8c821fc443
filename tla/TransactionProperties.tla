------------------------ MODULE TransactionProperties ------------------------
(* What the generated proxies and stubs of Transaction guarantee.          *)
EXTENDS Transaction, FiniteSets

Cell == {"token", "status", "zero", "version", "val", "size", "ret", "out"} \X Nat
Statuses == {"OK", "UNKNOWN_TRANSACTION", "BAD_TYPE", "BAD_VALUE", "UNEXPECTED_NULL", "DEAD_OBJECT"}

\* Every variable keeps its type.
TypeOK ==
  /\ clientLang \in Langs /\ serverLang \in Langs
  /\ served \subseteq Method /\ serverVersion \in Versions
  /\ alive \in BOOLEAN
  /\ defaultImpl \in Setter \cup {None}
  /\ setter \in [Setter -> {"idle", "checked", "refused", "installed"}]
  /\ cachedVersion \in Nat \cup {-1}
  /\ client \in [Call -> {"idle", "waiting", "fallback", "default", "done"}]
  /\ server \in [Call -> {"idle", "queued", "running", "finished"}]
  /\ method \in [Call -> Method]
  /\ using \in [Call -> Setter \cup {None}]
  /\ status \in [Call -> Statuses]
  /\ request \in [Call -> Seq(Cell)]
  /\ received \in [Call -> Seq(Cell)]
  /\ reply \in [Call -> Seq(Cell)]
  /\ result \in [Call -> [kind : {"none", "ok", "exception", "error", "crash"},
                          values : Seq(Cell),
                          from : {"none", "cache", "queue", "server", "default", "nobody"}]]

\* The implementation is handed the arguments the caller passed, each at its
\* place, whichever backends the two sides were generated for.  Two gaps
\* remain, both in NDK code that ignores the status of an array size: a stub
\* goes on with an array it could not resize, and a proxy sends a request
\* without the size, which only a C++ stub is sure to refuse.
ArgumentsArriveIntact ==
  \A c \in Call : received[c] # <<>> =>
    LET sent == ExpectedRequest(method[c])
    IN  \/ received[c] = sent
        \/ /\ serverLang = "NDK"
           /\ \A k \in DOMAIN sent :
                received[c][k] # sent[k] => sent[k][1] = "size" /\ received[c][k] = Zero
        \/ /\ clientLang = "NDK" /\ serverLang # "CPP"
           /\ request[c] # RequestOf(method[c])

\* The reply of a C++ stub whose own write failed with UNEXPECTED_NULL: an OK
\* header with an exception behind it.
LateException(c) ==
  /\ serverLang = "CPP"
  /\ reply[c] # <<>>
  /\ reply[c][1] = OkHeader /\ reply[c][Len(reply[c])] = ExHeader

\* A method that reports success hands back exactly what the implementation
\* that ran produced, return value first and each out argument at its place.
\* The exceptions are the late exception above, and the zeros a Java proxy
\* makes up when transact() returned false and there is no default.
ResultIsWhatWasProduced ==
  \A c \in Call :
    /\ client[c] = "done" /\ result[c].kind = "ok"
    /\ method[c] \notin Oneway \cup {GetInterfaceVersion}
    => \/ /\ result[c].values = ExpectedReply(method[c])
          /\ \/ result[c].from = "server" /\ received[c] # <<>>
             \/ result[c].from = "default" /\ using[c] # None
       \/ LateException(c)
       \/ /\ clientLang = "JAVA" /\ result[c].from = "nobody"
          /\ \A k \in DOMAIN result[c].values : result[c].values[k] = Zero

\* The default implementation stands in only for a server that did not
\* answer the call: no call is run by both, unless the server's own
\* implementation ran and asked for it by returning UNKNOWN_TRANSACTION.
DefaultStandsIn ==
  \A c \in Call : using[c] # None =>
    /\ status[c] = "UNKNOWN_TRANSACTION"
    /\ method[c] \notin served \/ (received[c] # <<>> /\ serverLang # "JAVA")

\* The two looks a proxy takes at the default implementation agree: none is
\* called through a null pointer, and none is destroyed under a call unless
\* two setDefaultImpl calls raced and both returned true.
DefaultSurvivesCalls ==
  \A c \in Call : result[c].kind = "crash" =>
    \E s, t \in Setter : s # t /\ setter[s] = "installed" /\ setter[t] = "installed"

\* A getInterfaceVersion call never reports a version the server does not
\* have, though threads race to fill the cache: whatever is cached or
\* answered is the server's own number, and two answers agree.  (A server
\* without a version counts as 0, which is also what NDK's default answers.)
VersionIsTheServers ==
  /\ cachedVersion \in {-1, serverVersion}
  /\ \A c \in Call :
       result[c].kind = "ok" /\ method[c] = GetInterfaceVersion /\ result[c].from # "default"
         => result[c].values = <<Version(serverVersion)>>

\* Once a default implementation is installed and no other setDefaultImpl is
\* between its test and its assignment, it stays for the life of the process.
Settled(d) == defaultImpl = d /\ \A s \in Setter : setter[s] # "checked"
InstalledDefaultIsPermanent == [][\A d \in Setter : Settled(d) => Settled(d)']_vars

\* Every started call settles while the threads in generated code run on,
\* also when the server process dies under it.
StartedCallsSettle == \A c \in Call : client[c] # "idle" ~> client[c] = "done"

\* generate_cpp.cpp maps a null reference a stub meets "to an appropriate
\* exception": when a reply carries an exception the caller is not told that
\* the call succeeded.
NullReferenceIsAnException ==
  \A c \in Call :
    /\ client[c] = "done" /\ method[c] \notin Oneway
    /\ \E k \in DOMAIN reply[c] : reply[c][k] = ExHeader
    => result[c].kind # "ok"

\* generate_java_binder.cpp says of a server that does not implement
\* getInterfaceVersion that "we report the case by returning -1".
MissingVersionIsReported ==
  \A c \in Call :
    /\ client[c] = "done" /\ method[c] = GetInterfaceVersion
    /\ GetInterfaceVersion \notin served
    /\ result[c].kind = "ok"
    => result[c].values[1][2] = -1

\* What the caller of c was told, in the terms of RemoteCall.
OutcomeOf(c) ==
  IF method[c] = GetInterfaceVersion /\ client[c] = "done" THEN "local"
  ELSE CASE result[c].kind = "ok" /\ result[c].from = "nobody" /\ clientLang = "JAVA" -> "blank"
         [] result[c].kind = "ok" /\ ~(result[c].from = "nobody" /\ clientLang = "JAVA") -> "value"
         [] /\ result[c].kind = "error"
            /\ request[c] = <<>> \/ method[c] \in Oneway -> "local"
         [] OTHER -> result[c].kind

\* How far c has come, and who was handed it, in the terms of RemoteCall.
PhaseOf(c) ==
  CASE client[c] = "idle" -> "idle"
    [] client[c] = "done" /\ result[c].from = "queue" -> "accepted"
    [] client[c] = "done" /\ result[c].from # "queue" -> "settled"
    [] OTHER -> "pending"
RanOf(c) == {w \in {"server", "default"} :
               \/ w = "server" /\ received[c] # <<>>
               \/ w = "default" /\ using[c] # None}

Calls == INSTANCE RemoteCall WITH
  phase <- [c \in Call |-> PhaseOf(c)],
  ran <- [c \in Call |-> RanOf(c)],
  outcome <- [c \in Call |-> OutcomeOf(c)]

\* The generated code implements RemoteCall: a call is settled once, no
\* implementation runs it twice, a value comes from one that ran, and only a
\* oneway call returns before the server has run it.
ImplementsRemoteCall == Calls!Spec
==============================================================================
