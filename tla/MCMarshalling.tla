---------------------------- MODULE MCMarshalling ----------------------------
(* Types for the runs of Marshalling.                                       *)
EXTENDS Marshalling

CONSTANTS a, z

\* Every type whose name has a form or a rule of its own.
MCTypes == {t \in AidlType : t.name \notin {"char", "float", "double"}}
\* Types that a Java proxy fills or reassigns.
MCOutTypes == {t \in AidlType :
  /\ t.form = "array" /\ t.name \in {"int", "String", "IBinder", "FileDescriptor"}
  /\ ~t.nullable}
==============================================================================
