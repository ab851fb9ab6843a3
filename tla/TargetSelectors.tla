--------------------------- MODULE TargetSelectors ---------------------------
(***************************************************************************)
(* What a destination is made of: the provider's schema of selectors, the  *)
(* values its discovery offers for a field, the check every selector       *)
(* passes before it is stored and again before it is used                  *)
(* (src/snarkyctl/providers/nordvpn.py), and the control daemon's own      *)
(* check of a discovery request against the schema (control/daemon.py).    *)
(*                                                                         *)
(* A text is what the patterns tell apart: its first character, the worst  *)
(* of the others, whether it is all lower case, and its length.            *)
(***************************************************************************)
EXTENDS Naturals

Text == [first : {"letter", "digit", "other"},
         rest : {"code", "spaced", "other"},   \* "code": A-Z a-z 0-9 _ -
         lower : BOOLEAN, length : Nat]        \* "spaced": space . # too

\* A value of the JSON document that is no text at all.
NoText == [first |-> "other", rest |-> "other", lower |-> FALSE, length |-> 0]

-----------------------------------------------------------------------------
(* The provider's schema *)

SelectorKinds == {"recommended", "country", "city", "group", "server", "legacy"}

FieldsOf(kind) ==
  CASE kind = "recommended" -> {}
    [] kind = "city"        -> {"country", "city"}
    [] kind = "legacy"      -> {"value"}
    [] OTHER                -> {kind}

\* The fields whose values the provider lists; the others are free text.
ListedFields(kind) == IF kind \in {"server", "legacy"} THEN {} ELSE FieldsOf(kind)

DependsOn(kind, field) == IF kind = "city" /\ field = "city" THEN {"country"} ELSE {}

-----------------------------------------------------------------------------
(* Selectors *)

\* TARGET_PATTERN and CODE_PATTERN.
IsTarget(v) == v.first \in {"letter", "digit"} /\ v.rest # "other" /\ v.length \in 1 .. 100
IsCode(v)   == v.first = "letter" /\ v.rest = "code" /\ v.length \in 1 .. 32

\* The longest value the selector's model and its patterns let through.
ValidField(field, v) ==
  /\ IsTarget(v)
  /\ field = "country" => IsCode(v) /\ v.length >= 2

\* A selector is a kind and a value for each field of its kind, no more.
Selector(kind, texts) == [kind : {kind}, value : [FieldsOf(kind) -> texts]]

ValidSelector(s) == \A field \in FieldsOf(s.kind) : ValidField(field, s.value[field])

\* casefold(), of countries only.
Folded(v) == [v EXCEPT !.lower = TRUE]
Stored(s) ==
  [s EXCEPT !.value = [f \in DOMAIN s.value |->
                         IF f = "country" THEN Folded(s.value[f]) ELSE s.value[f]]]

-----------------------------------------------------------------------------
(* Discovery *)

\* What _normalize_discovery_value and _parse_discovery_options make of the
\* names NordVPN prints: lower case, words joined by an underscore.  A country
\* or a group that they cannot make a value of fails the whole list.  NordVPN's
\* countries have two letters at least.
Offered(field, texts) ==
  {v \in texts : /\ v.lower /\ v.first # "other" /\ v.rest = "code"
                 /\ v.length \in IF field = "country" THEN 2 .. 32 ELSE 1 .. 100
                 /\ field = "country" => v.first = "letter"}

\* The adapter's own view of a discovery request: the command it runs for it,
\* and the context that command needs.
AdapterCode(kind, field, context) ==
  CASE kind \in {"country", "city"} /\ field = "country" ->
         IF DOMAIN context = {} THEN "OK" ELSE "INVALID_TARGET_CONTEXT"
    [] kind = "city" /\ field = "city" ->
         IF DOMAIN context = {"country"} /\ IsCode(context["country"])
              /\ context["country"].length >= 2
         THEN "OK" ELSE "INVALID_TARGET_CONTEXT"
    [] kind = "group" /\ field = "group" ->
         IF DOMAIN context = {} THEN "OK" ELSE "INVALID_TARGET_CONTEXT"
    [] OTHER -> "UNSUPPORTED_TARGET_DISCOVERY"

\* TARGET_OPTIONS: the schema is consulted first, then the adapter.
DiscoveryCode(kind, field, context) ==
  IF kind \notin SelectorKinds THEN "UNKNOWN_TARGET_KIND"
  ELSE IF field \notin FieldsOf(kind) THEN "UNKNOWN_TARGET_FIELD"
  ELSE IF field \notin ListedFields(kind) THEN "STATIC_TARGET_FIELD"
  ELSE IF DOMAIN context # DependsOn(kind, field) THEN "INVALID_TARGET_CONTEXT"
  ELSE AdapterCode(kind, field, context)

-----------------------------------------------------------------------------
(* Properties of the algorithms *)

\* The generic client may follow the schema blindly: a field it declares
\* discoverable, asked for with a value the provider itself has offered for
\* each field it depends on, is never refused.
SchemaIsServed(texts) ==
  \A kind \in SelectorKinds : \A field \in ListedFields(kind) :
    \A context \in [DependsOn(kind, field) -> Offered("country", texts)] :
      DiscoveryCode(kind, field, context) = "OK"

\* What discovery offers can be saved, and is saved as it was offered, so that
\* the dashboard finds it again among the options by comparing texts.
OfferedIsStored(texts) ==
  \A kind \in SelectorKinds : \A s \in Selector(kind, texts) :
    (\A field \in FieldsOf(kind) :
       field \in ListedFields(kind) /\ s.value[field] \in Offered(field, texts))
    => ValidSelector(s) /\ Stored(s) = s

\* A stored selector passes the check again when it is used, and is used as it
\* was stored: connect_stored never refuses what replace_catalogue accepted.
StoredStaysValid(texts) ==
  \A kind \in SelectorKinds : \A s \in Selector(kind, texts) :
    ValidSelector(s) => ValidSelector(Stored(s)) /\ Stored(Stored(s)) = Stored(s)
=============================================================================
