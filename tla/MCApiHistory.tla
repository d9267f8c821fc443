----------------------------- MODULE MCApiHistory -----------------------------
(* The edits of a small API for the run of ApiHistory.                     *)
EXTENDS ApiHistory

CONSTANTS I, P, a, b, x, y

Method(name, rest, id) ==
  [name |-> name, args |-> "args", rest |-> rest, oneway |-> FALSE, id |-> id]
InterfaceOf(annotations, methods) ==
  [kind |-> "interface", annotations |-> annotations, methods |-> methods, constants |-> [c \in {} |-> 0]]
ParcelableOf(names) ==
  [kind |-> "parcelable", fields |-> [k \in DOMAIN names |-> [name |-> names[k], type |-> "int", default |-> "0"]]]
Api(methods, names) ==
  [t \in {I, P} |-> IF t = I THEN InterfaceOf({}, methods) ELSE ParcelableOf(names)]

\* Methods without ids: one, one more behind or before it.
\* Methods with ids: the same codes in another order, an invalid list.  A
\* field added behind and before.
MCSource == {
  Api(<<Method(a, "int", NoId)>>, <<x>>),
  Api(<<Method(a, "int", NoId), Method(b, "int", NoId)>>, <<x>>),
  Api(<<Method(b, "int", NoId), Method(a, "int", NoId)>>, <<x>>),
  Api(<<Method(b, "int", 1), Method(a, "int", 0)>>, <<x, y>>),
  Api(<<Method(a, "int", 0), Method(b, "int", 0)>>, <<x, y>>),
  Api(<<Method(a, "int", NoId)>>, <<y, x>>),
  [t \in {I} |-> InterfaceOf({"annotation"}, <<Method(a, "int", NoId)>>)]}
==============================================================================
