------------------------------ MODULE EventCases ------------------------------
(***************************************************************************)
(* Inputs for EventPipeline: a configuration of every kind of event        *)
(* processor, the chains outputs are given, batches of events of an input  *)
(* and responses of a target.                                              *)
(***************************************************************************)
EXTENDS Integers, Sequences, TLC

None == [valueNames |-> <<>>, values |-> <<>>, tagNames |-> <<>>, tags |-> <<>>, cond |-> ""]
Proc(kind, more) == more @@ [kind |-> kind] @@ None
V1 == <<{"v1"}>>
V12 == <<{"v1", "v2"}>>

AddSite == Proc("event-add-tag",
  [valueNames |-> V1, deletes |-> <<{"d1"}>>, add |-> [site |-> "x"], overwrite |-> FALSE])
MergeTs == Proc("event-merge", [always |-> FALSE])
MergeAll == Proc("event-merge", [always |-> TRUE])
GroupBy(byName) == Proc("event-group-by", [by |-> {"if"}, byName |-> byName])
Limit == Proc("event-rate-limit", [perSecond |-> 1, cache |-> 7])
DropV1 == Proc("event-drop", [valueNames |-> V1])
AllowV2 == Proc("event-allow", [cond |-> "v2"])
DeleteV1 == Proc("event-delete", [valueNames |-> V1])
KeepV1 == Proc("event-keep", [valueNames |-> V1])
ToTag == Proc("event-to-tag", [valueNames |-> V1, keep |-> FALSE])
ValueTag(kind) == Proc(kind, [valueName |-> "v1", tagName |-> "vt", consume |-> TRUE])
Extract == Proc("event-extract-tags",
  [groups |-> (<<"values", "up">> :> [st |-> "u"]), overwrite |-> FALSE])
Convert(type) == Proc("event-convert", [names |-> V12, type |-> type])
DataConvert == Proc("event-data-convert",
  [names |-> V12, factor |-> 2, quantities |-> [up |-> 3], rename |-> <<>>, keep |-> TRUE, to |-> "kB"])
Duration == Proc("event-duration-convert", [names |-> V12, keep |-> FALSE, durations |-> <<>>])
DateString == Proc("event-date-string", [names |-> V1, tagNames |-> <<{"/a_if"}>>])
Parse(kind) == Proc(kind, [names |-> <<{"v2"}>>, parse |-> [up |-> 7]])
Strings == Proc("event-strings",
  [valueNames |-> V1, tagNames |-> <<{"if"}>>, on |-> "name", op |-> [v1 |-> "V1"], keep |-> FALSE])
Jq == Proc("event-jq", [cond |-> "v1", exprFails |-> FALSE])
OverrideTs == Proc("event-override-ts", <<>>)
Trigger == Proc("event-trigger", [cond |-> "v1", min |-> 1, max |-> 2, window |-> 2])
Write == Proc("event-write", [cond |-> "v1", valueNames |-> V1])
Combine == Proc("event-combine",
  [procs |-> <<[cond |-> "v1", proc |-> MergeAll], [cond |-> "", proc |-> GroupBy(TRUE)]>>])

Chains ==
  {<<MergeTs>>, <<MergeAll>>, <<GroupBy(TRUE)>>, <<GroupBy(FALSE)>>, <<Limit>>, <<Combine>>,
   <<AddSite, MergeAll>>, <<DropV1, Convert("uint")>>, <<AllowV2, Convert("int")>>,
   <<DeleteV1, Convert("float")>>, <<KeepV1, Convert("string")>>,
   <<ToTag, ValueTag("event-value-tag-v2")>>, <<ValueTag("event-value-tag"), Extract>>,
   <<ValueTag("event-value-tag-v2")>>, <<DataConvert, Duration>>,
   <<DateString, Parse("event-time-epoch")>>, <<Parse("event-ieeefloat32"), Strings>>,
   <<Jq, OverrideTs>>, <<Trigger, Write>>}

\* Two outputs whose processors change the events in place.
ChangingChains == {<<DeleteV1>>, <<AddSite>>}

\* An event without tags is one an input got without them.
Event(ts, tags, vals, dels) ==
  [name |-> "s", ts |-> ts, tags |-> tags, bare |-> DOMAIN tags = {}, vals |-> vals, dels |-> dels]
If1 == [if |-> "1"]
If2 == [if |-> "2"]
St == [st |-> "u"]
IntVal(n) == [t |-> "int", n |-> n]
Text(s) == [t |-> "string", s |-> s]

\* Single events; events out of order; values, a text and a delete to be merged; an event
\* without tags, alone and to be merged.
Batches ==
  {<<Event(ts, tags, [v1 |-> IntVal(-1)], {})>> : ts \in 1 .. 3, tags \in {If1, If2}}
  \cup {<<Event(3, If1, [v1 |-> IntVal(5)], {}), Event(1, If1, [v1 |-> IntVal(5)], {}),
          Event(4, If1, [v1 |-> IntVal(5)], {})>>}
  \cup {<<Event(1, If1, [v1 |-> IntVal(1)], {}), Event(ts, If1, [v2 |-> Text("up")], {"d1"}),
          Event(1, St, [v1 |-> IntVal(3)], {})>> : ts \in {1, 2}}
  \cup {<<Event(1, <<>>, [v1 |-> IntVal(2)], {})>>,
        <<Event(1, <<>>, [v2 |-> Text("up")], {"d1"}), Event(1, If1, [v1 |-> IntVal(1)], {})>>}

Responses ==
  {[ts |-> t, prefix |-> If1, meta |-> [src |-> "r1", if |-> "m"],
    updates |-> <<[path |-> "/a", tags |-> If2, vals |-> [v1 |-> IntVal(2)]],
                  [path |-> "/b", tags |-> If1, vals |-> [v2 |-> Text("up")]]>>,
    deletes |-> <<[path |-> "d1", tags |-> St]>>] : t \in {1, 2}}

\* What these arrive as: an output makes events of a response, whose tags are those of the
\* path, of the prefix (a clash is renamed) and of the metadata.
Meta == [src |-> "r1", meta_if |-> "m"]
Arriving ==
  {Event(ts, tags, vals, dels) :
     ts \in 1 .. 4, dels \in {{}, {"d1"}},
     tags \in {<<>>, If1, If2, St, If1 @@ Meta, ("/a_if" :> "2") @@ If1 @@ Meta, St @@ If1 @@ Meta},
     vals \in {[v1 |-> IntVal(n)] : n \in {-1, 1, 2, 3, 5}} \cup {[v2 |-> Text("up")], <<>>}}
=============================================================================
