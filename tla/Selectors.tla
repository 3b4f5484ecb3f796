----------------------------- MODULE Selectors -----------------------------
(***************************************************************************)
(* The matching rules of selectors.py and the checks a selector meets when  *)
(* a subscription is made.                                                  *)
(*                                                                         *)
(* An event is the function from the paths of its JSON tree, as sequences   *)
(* of segments, to what is found there.  A scalar has a type and a value;   *)
(* Python compares True with 1 and 1.0 with 1, and a text is the set of the *)
(* words found in it without regard to case (keywords are words).           *)
(***************************************************************************)
EXTENDS Integers, FiniteSets

LOCAL INSTANCE Sequences

Bool(n) == [type |-> "bool", is |-> n]
Number(n) == [type |-> "number", is |-> n]
Text(words) == [type |-> "text", is |-> words]

Scalar(x) == [kind |-> "scalar", items |-> {x}]
List(xs) == [kind |-> "list", items |-> xs]
Object == [kind |-> "object", items |-> {}]
ListOfObjects == [kind |-> "nested", items |-> {}]
Absent == [kind |-> "absent", items |-> {}]

\* Selectors: where keeps the order of the dict, None for no selector.
NoSelector == [type |-> "none"]
FieldFilter(where) == [type |-> "field_filter", where |-> where]
KeywordSearch(keywords, match, fields) ==
    [type |-> "keyword_search", keywords |-> keywords, match |-> match,
     fields |-> fields]

NoFields == {<<>>}      \* None where a set of paths may be given

FieldCount(sel) == Len(sel.where)

\* The fields of a filter come one after the other.
HasFieldList(sel) ==
    sel.type = "field_filter" =>
        sel.where \in Seq({sel.where[i] : i \in DOMAIN sel.where})

-----------------------------------------------------------------------------
(* Matching: "match", "miss" or "raise" (INVALID_SELECTOR) *)

ResolvePath(event, path) ==
    IF path \in DOMAIN event THEN event[path] ELSE Absent

Unsearchable(event, path) == ResolvePath(event, path).kind \in {"object", "nested"}

\* _typed_eq: == between values that are both bool or both not.
TypedEq(a, b) ==
    /\ (a.type = "bool") = (b.type = "bool")
    /\ (a.type = "text") = (b.type = "text")
    /\ a.is = b.is

FieldVerdict(event, path, declared) ==
    IF Unsearchable(event, path) THEN "raise"
    ELSE IF \E x \in ResolvePath(event, path).items, d \in declared : TypedEq(x, d)
    THEN "match"
    ELSE "miss"

\* Mutant: the loop returns with the first field.
MatchFirstField(where, event) == FieldVerdict(event, where[1].path, where[1].values)

\* The loop over where ends at the first field that does not match, so a path
\* that cannot be searched raises only if the fields ahead of it all match.
MatchFieldFilter(where, event) ==
    LET verdict(i) == FieldVerdict(event, where[i].path, where[i].values)
        stops == {i \in DOMAIN where : verdict(i) # "match"}
    IN  IF stops = {} THEN "match"
        ELSE verdict(CHOOSE i \in stops : \A j \in stops : i <= j)

\* The words of every text and of every text in a list.
CollectText(event, fields) ==
    UNION {x.is : x \in {y \in UNION {ResolvePath(event, p).items : p \in fields} :
                            y.type = "text"}}

MatchKeywordSearch(sel, event, defaultFields) ==
    LET given    == IF sel.fields = NoFields THEN defaultFields ELSE sel.fields
        fields   == IF given = NoFields THEN {} ELSE given
        haystack == CollectText(event, fields)
    IN  IF \E p \in fields : Unsearchable(event, p) THEN "raise"
        ELSE IF (IF sel.match = "all" THEN sel.keywords \subseteq haystack
                 ELSE sel.keywords \cap haystack # {})
        THEN "match"
        ELSE "miss"

Matches(sel, event, defaultFields) ==
    CASE sel.type = "none" -> "match"
      [] sel.type = "field_filter" -> MatchFieldFilter(sel.where, event)
      [] sel.type = "keyword_search" -> MatchKeywordSearch(sel, event, defaultFields)

\* A filter as a store may give it back that keeps no order of its fields.
Reordered(sel) ==
    FieldFilter([i \in DOMAIN sel.where |-> sel.where[FieldCount(sel) + 1 - i]])

-----------------------------------------------------------------------------
(* What subscribe() asks of a selector *)

Paths(sel) == {sel.where[i].path : i \in DOMAIN sel.where}

\* validate_selector; keyword fields are not compared with filterable_fields.
ValidateSelector(sel, topic) ==
    \/ sel.type = "none"
    \/ /\ sel.type = "field_filter"
       /\ sel.type \in topic.selectorTypes
       /\ sel.where # <<>>
       /\ topic.filterableFields = NoFields \/ Paths(sel) \subseteq topic.filterableFields
    \/ /\ sel.type = "keyword_search"
       /\ sel.type \in topic.selectorTypes
       /\ sel.keywords # {}

\* SelectorLimits.check; the length of a keyword is left out.
WithinLimits(sel, max) ==
    \/ sel.type = "none"
    \/ /\ sel.type = "keyword_search"
       /\ Cardinality(sel.keywords) <= max.keywords
    \/ /\ sel.type = "field_filter"
       /\ Len(sel.where) <= max.fields
       /\ \A i \in DOMAIN sel.where :
             Cardinality(sel.where[i].values) <= max.valuesPerField
=============================================================================
