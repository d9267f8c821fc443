----------------------------- MODULE RemoteCall ------------------------------
(***************************************************************************)
(* What a generated proxy promises its caller, whatever the backends: each *)
(* call is settled once, no implementation runs it twice, a value comes    *)
(* from an implementation that ran, and only a oneway call is settled      *)
(* before the server has run it.                                           *)
(***************************************************************************)
EXTENDS Naturals

CONSTANT Call

VARIABLES
  phase,    \* "idle", "pending", "accepted" (oneway), "settled"
  ran,      \* which implementations were handed the call
  outcome   \* what the caller was told

vars == <<phase, ran, outcome>>

Init ==
  /\ phase = [c \in Call |-> "idle"]
  /\ ran = [c \in Call |-> {}]
  /\ outcome = [c \in Call |-> "none"]

Invoke(c) ==
  /\ phase[c] = "idle"
  /\ phase' = [phase EXCEPT ![c] = "pending"]
  /\ UNCHANGED <<ran, outcome>>

\* A oneway call returns while the server may still have to run it.
Accept(c) ==
  /\ phase[c] = "idle"
  /\ phase' = [phase EXCEPT ![c] = "accepted"]
  /\ outcome' = [outcome EXCEPT ![c] = "value"]
  /\ UNCHANGED ran

\* The server's implementation, or the client's default one, is called; the
\* default one only while the caller waits, and never before the server's.
Run(c, who) ==
  /\ phase[c] = "pending" \/ (phase[c] = "accepted" /\ who = "server")
  /\ who \notin ran[c]
  /\ "default" \notin ran[c]
  /\ ran' = [ran EXCEPT ![c] = @ \cup {who}]
  /\ UNCHANGED <<phase, outcome>>

\* The caller is told the outcome.  A value requires an implementation that
\* ran; "blank" is the default value a Java proxy returns for a method nobody
\* implements, "local" an answer the proxy gives or fails to give by itself.
Settle(c, o) ==
  /\ \/ phase[c] = "pending"
     \/ phase[c] = "idle" /\ o = "local"
  /\ o = "value" => ran[c] # {}
  /\ phase' = [phase EXCEPT ![c] = "settled"]
  /\ outcome' = [outcome EXCEPT ![c] = o]
  /\ UNCHANGED ran

Next == \E c \in Call :
  \/ Invoke(c)
  \/ Accept(c)
  \/ \E who \in {"server", "default"} : Run(c, who)
  \/ \E o \in {"value", "blank", "exception", "error", "crash", "local"} : Settle(c, o)

Spec == Init /\ [][Next]_vars
==============================================================================
