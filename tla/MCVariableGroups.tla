-------------------------- MODULE MCVariableGroups --------------------------
(* Instances of VariableGroups for model checking. *)
EXTENDS VariableGroups

Name(n) == <<n, NoIndex>>
Nested(n) == << Name(n) >>
Over(n, t) == << <<n, t>> >>

MCEval ==
  [t \in Templates |-> CASE t = "{{range(2)}}" -> <<"0", "1">>
                        [] t = "{{range(4)}}" -> <<"0", "1", "2", "3">>
                        [] t = "{{2}}" -> <<"2">>]

\* Templates in the last name, in the middle, twice the same.
MCKey ==
  {Nested("a"), Nested("a") \o Nested("b"), Over("b", "0"), Over("b", "{{range(2)}}"),
   Over("b", "{{range(2)}}") \o Nested("a"),
   Over("b", "{{range(2)}}") \o Over("a", "{{range(2)}}")}
MCLeaf == {MaskLeaf(1), ListLeaf(6, 10)}

\* Dicts of one or two items.
Items(keys, values) ==
  {<< <<k, v>> >> : k \in keys, v \in values}
  \cup {<< <<pair[1], v>>, <<pair[2], w>> >> :
          pair \in {p \in keys \X keys : p[1] # p[2]}, v \in values, w \in values}

\* Two templates in one key.
MCInnerKey ==
  {Nested("a"), Over("b", "{{range(2)}}"), Over("a", "{{2}}") \o Over("b", "{{range(2)}}")}

\* Items of different values, so that it shows which one is last.
MCGroups ==
  {Dict(items) : items \in {dict \in Items(MCInnerKey, MCLeaf) :
                              Len(dict) = 2 => dict[1][2] # dict[2][2]}}
MCNestedGroups ==
  {Dict(<< <<k, Dict(<< <<l, MaskLeaf(3)>> >>)>> >>) : k \in MCInnerKey, l \in MCInnerKey}

\* The docstring's example.
ExampleFile ==
  << <<Nested("AppCore"),
       Dict(<< <<Nested("enableStreaming"), TextLeaf>>,
               <<Over("Base", "{{range(4)}}"),
                 Dict(<< <<Nested("etaMagArray"), MaskLeaf(3)>> >>)>> >>)>> >>
MCFiles == Items(MCKey, MCLeaf \cup MCGroups \cup MCNestedGroups) \cup {ExampleFile}
MCExtraFiles ==
  {<<>>, ExampleFile, << <<Over("b", "{{range(2)}}"), MaskLeaf(3)>> >>,
   << <<Nested("a"), Dict(<< <<Nested("b"), ListLeaf(2, 1)>> >>)>> >>}

MCNames == {"a", "b", "AppCore", "enableStreaming", "Base", "etaMagArray"}

MCTemplates == {"{{2}}", "{{range(2)}}", "{{range(4)}}"}
=============================================================================
