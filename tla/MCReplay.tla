------------------------------ MODULE MCReplay ------------------------------
(* TLC instance of Replay: three payloads and selectors that match, miss and  *)
(* raise on them in every combination of two fields.                          *)
EXTENDS Replay, TLC

level == <<"data", "level">>
tags == <<"data", "tags">>
data == <<"data">>

\* level True is not 1; the list holds a text and a number; the last event has
\* an object where the others have a value.
MCPayloads ==
    0 :> (level :> Scalar(Number(1)) @@ tags :> List({Text({"a", "b"}), Number(1)})
              @@ data :> Object) @@
    1 :> (level :> Scalar(Bool(1)) @@ tags :> List({Text({"b"})}) @@ data :> Object) @@
    2 :> (level :> Object @@ tags :> ListOfObjects @@ data :> Object)

OneOf(path, values) == [path |-> path, values |-> values]

MCSelectors ==
    { NoSelector,
      FieldFilter(<<OneOf(level, {Number(1)})>>),
      FieldFilter(<<OneOf(level, {Bool(1), Number(2)}), OneOf(tags, {Text({"b"})})>>),
      FieldFilter(<<OneOf(tags, {Number(1)}), OneOf(data, {Number(1)})>>),
      FieldFilter(<<OneOf(<<"subject">>, {Text({"a"})}), OneOf(level, {Number(1)})>>),
      KeywordSearch({"a", "b"}, "all", {tags}),
      KeywordSearch({"a", "b"}, "any", NoFields) }

MCFilterable == {level, <<"subject">>}
=============================================================================
