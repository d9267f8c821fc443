------------------------------- MODULE ApiCheck -------------------------------
(***************************************************************************)
(* What the compiler's --dumpapi and --checkapi tasks do with the          *)
(* definitions of an API: assign transaction codes to methods              *)
(* (check_and_assign_method_ids), write a dump (AidlDefinedType::Write) and *)
(* compare two dumps (aidl_apicheck.cpp).                                  *)
(*                                                                         *)
(* An API is a function from type names to definitions:                    *)
(*   [kind : "interface", annotations, methods : Seq(method), constants]   *)
(*   [kind : "parcelable", fields : Seq([name, type, default])]            *)
(* with method : [name, args, rest, oneway, id].  args are the types in    *)
(* AidlMethod::Signature(), rest what else is compared: the return type,   *)
(* the directions and the annotations.  Types are compared as the text of  *)
(* a fully qualified type, so they are opaque values here.                 *)
(***************************************************************************)
EXTENDS Integers, Sequences

CONSTANTS
  MaxUserSetMethodId,     \* kMaxUserSetMethodId; the meta methods are above
  NoId                    \* the id of a method without "= <id>"

ASSUME ApiCheckAssumption ==
  /\ MaxUserSetMethodId \in Nat
  /\ NoId \notin Int

-----------------------------------------------------------------------------
IsList(s) == Len(s) \in Nat /\ s = [k \in 1 .. Len(s) |-> s[k]]
WellFormed(api) == \A t \in DOMAIN api :
  \/ /\ api[t].kind = "interface"
     /\ api[t] = [kind |-> "interface", annotations |-> api[t].annotations,
                   methods |-> api[t].methods, constants |-> api[t].constants]
     /\ IsList(api[t].methods)
  \/ /\ api[t].kind = "parcelable"
     /\ api[t] = [kind |-> "parcelable", fields |-> api[t].fields]
     /\ IsList(api[t].fields)

-----------------------------------------------------------------------------
(* Transaction codes.                                                      *)

\* The offset of method i's transaction code from FIRST_CALL_TRANSACTION.
CodeOf(methods, i) == IF methods[i].id = NoId THEN i - 1 ELSE methods[i].id

\* check_and_assign_method_ids: all methods have an id or none, ids are
\* distinct and in range.  Codes that are assigned by position have no bound:
\* the assertion of theirs is compiled out.
ValidIds(methods) ==
  \/ \A i \in DOMAIN methods : methods[i].id = NoId
  \/ /\ \A i \in DOMAIN methods : methods[i].id \in 0 .. MaxUserSetMethodId
     /\ \A i, j \in DOMAIN methods : methods[i].id = methods[j].id => i = j

\* AidlInterface::CheckValid: no two methods of a name.
DistinctNames(members) ==
  \A i, j \in DOMAIN members : members[i].name = members[j].name => i = j

Loads(api) ==
  \A t \in DOMAIN api : api[t].kind = "interface" => ValidIds(api[t].methods)
Valid(api) ==
  /\ Loads(api)
  /\ \A t \in DOMAIN api : api[t].kind = "interface" => DistinctNames(api[t].methods)

\* The dump of a definition: a method's id and oneway are written, an id that
\* was assigned by position and the annotations of an interface are not.
Dump(def) == IF def.kind = "interface" THEN [def EXCEPT !.annotations = {}] ELSE def

-----------------------------------------------------------------------------
(* Compatibility.                                                          *)

Signature(m) == <<m.name, m.args>>

\* Regression: the transaction codes are not compared.
SameMethodButCode(old, i, new, j) ==
  /\ Signature(old[i]) = Signature(new[j])
  /\ old[i].oneway = new[j].oneway
  /\ old[i].rest = new[j].rest
SameMethod(old, i, new, j) ==
  /\ Signature(old[i]) = Signature(new[j])
  /\ old[i].oneway = new[j].oneway
  /\ CodeOf(old, i) = CodeOf(new, j)
  /\ old[i].rest = new[j].rest

\* are_compatible_interfaces
CompatibleInterfaces(old, new) ==
  /\ old.annotations = new.annotations
  /\ \A i \in DOMAIN old.methods : \E j \in DOMAIN new.methods :
       SameMethod(old.methods, i, new.methods, j)
  /\ \A c \in DOMAIN old.constants :
       c \in DOMAIN new.constants /\ new.constants[c] = old.constants[c]

\* Regression: fields are looked up by name, wherever they are.
SameFieldNames(old, new) ==
  /\ Len(old.fields) <= Len(new.fields)
  /\ \A i \in DOMAIN old.fields : \E j \in DOMAIN new.fields : new.fields[j] = old.fields[i]
\* are_compatible_parcelables
CompatibleParcelables(old, new) ==
  /\ Len(old.fields) <= Len(new.fields)
  /\ \A i \in DOMAIN old.fields : new.fields[i] = old.fields[i]

CompatibleTypes(old, new) ==
  /\ old.kind = new.kind
  /\ old.kind = "interface" => CompatibleInterfaces(old, new)
  /\ old.kind = "parcelable" => CompatibleParcelables(old, new)

Compatible(old, new) ==
  \A t \in DOMAIN old : t \in DOMAIN new /\ CompatibleTypes(old[t], new[t])

\* Regression: a directory without files is no error.
CheckApiOnEmpty(old, new) == Loads(old) /\ Loads(new) /\ Compatible(old, new)
\* check_api: both directories have files, all of them load, and each type of
\* the old API is found compatible.
CheckApi(old, new) ==
  /\ DOMAIN old # {} /\ DOMAIN new # {}
  /\ Loads(old) /\ Loads(new)
  /\ Compatible(old, new)

-----------------------------------------------------------------------------
(* What the check is for.                                                  *)

\* Whatever code a client of either API sends to a server of the other, the
\* two mean the same method by it; an older client's methods are all served.
SameCodes(old, new) ==
  /\ \A i \in DOMAIN old : \E j \in DOMAIN new : CodeOf(old, i) = CodeOf(new, j)
  /\ \A i \in DOMAIN old, j \in DOMAIN new : CodeOf(old, i) = CodeOf(new, j) =>
       /\ Signature(old[i]) = Signature(new[j])
       /\ old[i].rest = new[j].rest /\ old[i].oneway = new[j].oneway

\* Either side knows a prefix of the other's fields.
SamePrefix(old, new) ==
  \A i \in DOMAIN old \cap DOMAIN new : old[i] = new[i]

WireCompatible(old, new) ==
  \A t \in DOMAIN old :
    /\ t \in DOMAIN new
    /\ old[t].kind = new[t].kind
    /\ old[t].kind = "interface" => SameCodes(old[t].methods, new[t].methods)
    /\ old[t].kind = "parcelable" =>
         Len(old[t].fields) <= Len(new[t].fields) /\ SamePrefix(old[t].fields, new[t].fields)
==============================================================================
