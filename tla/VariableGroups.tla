--------------------------- MODULE VariableGroups ---------------------------
(***************************************************************************)
(* VariableGroups: from files that list metadata registers, with templated *)
(* keys and nested groups, to the groups and the polling interval of every *)
(* register.                                                               *)
(*                                                                         *)
(* A dict is the sequence of its items in the order of insertion, and a    *)
(* key the sequence of the names that dots separate in its text, each with *)
(* the index or the template in its brackets: keys with dots and nested    *)
(* keys may meet.  A template is known by its text.                        *)
(* What the methods do to a dict they do to the dicts nested in it first,  *)
(* by recursion over the depth of nesting.                                 *)
(***************************************************************************)
EXTENDS Naturals, Sequences, SequencesExt

CONSTANTS
  Names,      \* names between two dots
  Indices,    \* what stands in brackets
  Templates,  \* the texts {{...}} that may stand there instead
  eval,       \* template |-> what its expression evaluates to, one by one
  NoIndex,    \* a name without brackets
  NoPoll,     \* None, as polling interval
  MaxDepth,   \* bound: dicts in dicts, from the file's to the innermost
  Files,      \* contents of the default file
  ExtraFiles  \* contents of the file that sys_config names

VARIABLES
  file, extra,  \* the two files
  data,         \* the dict under construction
  stage         \* the next step
vars == <<file, extra, data, stage>>

(* Values and dicts *)

MaskLeaf(mask) == [kind |-> "mask", mask |-> mask, poll |-> NoPoll]
ListLeaf(mask, poll) == [kind |-> "list", mask |-> mask, poll |-> poll]
TextLeaf == [kind |-> "text"]
Dict(items) == [kind |-> "dict", items |-> items]

Leaf == [kind : {"mask", "list"}, mask : Nat, poll : Nat \cup {NoPoll}] \cup {TextLeaf}

\* A key, with or without templates, and what a dict may hold.
Path == Seq(Names \X (Indices \cup Templates \cup {NoIndex}))
Value(dicts) == Leaf \cup [kind : {"dict"}, items : dicts]

\* The dicts of each depth.
Dicts[depth \in 0..MaxDepth] ==
  IF depth = 0 THEN {} ELSE Seq(Path \X Value(Dicts[depth - 1]))

NoKeyTwice(dict) == \A i, j \in DOMAIN dict : dict[i][1] = dict[j][1] => i = j

ASSUME FilesAssumption ==
  /\ MaxDepth \in Nat
  /\ eval \in [Templates -> Seq(Indices)]
  /\ Templates \cap (Indices \cup {NoIndex}) = {}
  /\ \A dict \in Files \cup ExtraFiles : dict \in Dicts[MaxDepth] /\ NoKeyTwice(dict)

Keys(dict) == {dict[i][1] : i \in DOMAIN dict}
Lookup(dict, key) == dict[CHOOSE i \in DOMAIN dict : dict[i][1] = key][2]

PutMutantKeepsOld(dict, key, value) ==  \* a key that is there keeps its value
  IF key \in Keys(dict) THEN dict ELSE Append(dict, <<key, value>>)

\* A key that is there keeps its place and gets the new value.
Put(dict, key, value) ==
  IF key \in Keys(dict)
  THEN [i \in DOMAIN dict |-> IF dict[i][1] = key THEN <<key, value>> ELSE dict[i]]
  ELSE Append(dict, <<key, value>>)
PutAll(dict, items) ==
  FoldLeft(LAMBDA rv, item : Put(rv, item[1], item[2]), dict, items)

(* template *)

\* A key with templates expands to one key for each value of its FIRST template,
\* put wherever the key has the text of that template; a template with another
\* text stays as it stands.
Templated(key) == {i \in DOMAIN key : key[i][2] \in Templates}
FirstTemplate(key) ==
  key[CHOOSE i \in Templated(key) : \A j \in Templated(key) : i <= j][2]
Replaced(key, template_, index) ==
  [i \in DOMAIN key |-> IF key[i][2] = template_ THEN <<key[i][1], index>> ELSE key[i]]
Expanded(key) ==
  IF Templated(key) = {} THEN <<key>>
  ELSE [v \in DOMAIN eval[FirstTemplate(key)] |->
          Replaced(key, FirstTemplate(key), eval[FirstTemplate(key)][v])]

\* The items of a dict, once for each key that theirs expands to.
Copies(dict) ==
  FlattenSeq([i \in DOMAIN dict |->
                [k \in DOMAIN Expanded(dict[i][1]) |->
                   <<Expanded(dict[i][1])[k], dict[i][2]>>]])

\* They go to a new dict; the groups among them have had their own templates
\* replaced already.
templateItem(item, inner) ==
  <<item[1], IF item[2].kind = "dict" THEN Dict(inner[item[2].items]) ELSE item[2]>>
templateItems(dict, inner) ==
  PutAll(<<>>, [q \in DOMAIN Copies(dict) |-> templateItem(Copies(dict)[q], inner)])

templateTo[depth \in 0..MaxDepth] ==
  [dict \in Dicts[depth] |-> templateItems(dict, templateTo[depth - 1])]
template(dict) == templateTo[MaxDepth][dict]

(* flatten *)

\* The items under a group's key, or the item itself if it is no group.
Under(item, inner) ==
  IF item[2].kind = "dict"
  THEN [i \in DOMAIN inner |-> <<item[1] \o inner[i][1], inner[i][2]>>]
  ELSE <<item>>

flattenMutantShallow(dict) ==  \* groups in groups stay dicts
  PutAll(<<>>, FlattenSeq([i \in DOMAIN dict |-> Under(dict[i], dict[i][2].items)]))

flattenItems(dict, inner) ==
  PutAll(<<>>, FlattenSeq([i \in DOMAIN dict |-> Under(dict[i], inner[dict[i][2].items])]))

flattenTo[depth \in 0..MaxDepth] ==
  [dict \in Dicts[depth] |-> flattenItems(dict, flattenTo[depth - 1])]
flatten(dict) == flattenTo[MaxDepth][dict]

(* process *)

group_key == <<<<"stream", 1>>, <<"publish", 2>>>>
And(mask, bit) == (mask \div bit) % 2 = 1  \* mask & bit, for a power of two
groups(mask) ==
  FlattenSeq([i \in DOMAIN group_key |->
                IF And(mask, group_key[i][2]) THEN <<group_key[i][1]>> ELSE <<>>])

process(dict) ==
  [i \in DOMAIN dict |->
     <<dict[i][1], [groups |-> groups(dict[i][2].mask), pollInterval |-> dict[i][2].poll]>>]

\* A mask that is a text has no bits: the loop ends with a TypeError.
Fails(dict) == \E i \in DOMAIN dict : dict[i][2].kind = "text"

-----------------------------------------------------------------------------
Init ==
  /\ file \in Files /\ extra \in ExtraFiles
  /\ data = file /\ stage = "template"

Template ==
  /\ stage = "template" /\ stage' = "flatten"
  /\ data' = template(data)
  /\ UNCHANGED <<file, extra>>

Flatten ==
  /\ stage = "flatten" /\ stage' = "process"
  /\ data' = flatten(data)
  /\ UNCHANGED <<file, extra>>

Process ==
  /\ stage = "process"
  /\ ~Fails(data)
  /\ data' = process(data) /\ stage' = "update"
  /\ UNCHANGED <<file, extra>>

Fail ==
  /\ \/ stage = "process" /\ Fails(data)
     \/ stage = "update" /\ Fails(flatten(template(extra)))
  /\ stage' = "failed"
  /\ UNCHANGED <<file, extra, data>>

\* The second object is built like the first, and its data replace the first's.
Update ==
  /\ stage = "update" /\ stage' = "done"
  /\ ~Fails(flatten(template(extra)))
  /\ data' = PutAll(data, process(flatten(template(extra))))
  /\ UNCHANGED <<file, extra>>

Next == Template \/ Flatten \/ Process \/ Fail \/ Update

Spec == Init /\ [][Next]_vars

-----------------------------------------------------------------------------
(* Properties *)

\* A dict never has two items with one key, at any level and stage, and its
\* values are those of the stage.
DistinctItems(dict, inner) ==
  /\ NoKeyTwice(dict)
  /\ \A i \in DOMAIN dict : dict[i][2].kind = "dict" => inner[dict[i][2].items]
DistinctTo[depth \in 0..MaxDepth] ==
  [dict \in Dicts[depth] |-> DistinctItems(dict, DistinctTo[depth - 1])]
TypeOK ==
  /\ stage \in {"template", "flatten", "process", "update", "done", "failed"}
  /\ NoKeyTwice(data)
  /\ stage = "flatten" => DistinctTo[MaxDepth][data]
  /\ stage = "process" => \A i \in DOMAIN data : data[i][2] \in Leaf
  /\ stage \in {"update", "done"} =>
       \A i \in DOMAIN data :
         data[i][2].groups \in {<<>>, <<"stream">>, <<"publish">>, <<"stream", "publish">>}

\* The registers that a file declares, read from top to bottom: every register
\* of a group once for each key that those above it expand to.
DeclaredItems(dict, inner) ==
  FlattenSeq([q \in DOMAIN Copies(dict) |->
                Under(Copies(dict)[q], inner[Copies(dict)[q][2].items])])
DeclaredTo[depth \in 0..MaxDepth] ==
  [dict \in Dicts[depth] |-> DeclaredItems(dict, DeclaredTo[depth - 1])]
Declared(dict) == DeclaredTo[MaxDepth][dict]

\* No two keys of one dict become the same key.
NoClashItems(dict, inner) ==
  /\ NoKeyTwice(Copies(dict))
  /\ \A i \in DOMAIN dict : dict[i][2].kind = "dict" => inner[dict[i][2].items]
NoClashTo[depth \in 0..MaxDepth] ==
  [dict \in Dicts[depth] |-> NoClashItems(dict, NoClashTo[depth - 1])]
NoClash(dict) == NoClashTo[MaxDepth][dict]

\* Every declared register gets, and no other register gets, the groups whose
\* bits are set in its last declaration, and the interval told there; the
\* second file counts as the later one.  A key with two different templates
\* declares registers whose names keep the second one, as Expanded says.
LastOf(declared, path) ==
  declared[CHOOSE i \in DOMAIN declared :
             /\ declared[i][1] = path
             /\ \A j \in DOMAIN declared : declared[j][1] = path => j <= i][2]
RegistersAsDeclared ==
  stage = "done" /\ NoClash(file) /\ NoClash(extra) =>
    LET declared == Declared(file) \o Declared(extra) IN
    /\ Keys(data) = Keys(declared)
    /\ \A path \in Keys(data) :
         LET last == LastOf(declared, path)
             got  == Lookup(data, path)
         IN /\ got.pollInterval = last.poll
            /\ \A group \in ToSet(group_key) :
                 (group[1] \in ToSet(got.groups)) <=> And(last.mask, group[2])
=============================================================================
