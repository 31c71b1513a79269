--------------------------- MODULE EventProcessors ---------------------------
(***************************************************************************)
(* The event processors as operators on sequences of events.  An event is  *)
(* [name, ts, tags, bare, vals, dels]: tags and vals are functions on the   *)
(* names present, dels a set of paths; bare says that the map of tags is    *)
(* nil, as it is for an event of an input that came without tags: a map     *)
(* whose tags were taken out one by one is empty, not nil.  A value is      *)
(* [t |-> type, n |-> number] or [t |-> "string", s |-> text].              *)
(*                                                                         *)
(* A compiled regular expression is the set of strings it matches; a list  *)
(* of them is a sequence of such sets.  A jq condition is the name of the  *)
(* value it asks for, "" when there is none, or "error" when evaluating it *)
(* fails.  The starlark and plugin processors run foreign code and are not *)
(* modelled.                                                               *)
(***************************************************************************)
EXTENDS Integers, Sequences, FiniteSets, TLC, SequencesExt

CONSTANTS IntWidth,   \* bits of Go's int and uint
          OneSecond   \* ticks of an event's timestamp in a second

Ints == -(2 ^ (IntWidth - 1)) .. (2 ^ (IntWidth - 1) - 1)
Without(f, ks) == [k \in DOMAIN f \ ks |-> f[k]]
\* the entries of f written over those of g
Over(f, g) == [k \in DOMAIN f \cup DOMAIN g |-> IF k \in DOMAIN f THEN f[k] ELSE g[k]]
Map(Op(_), es) == [i \in DOMAIN es |-> Op(es[i])]
Matches(res, s) == \E i \in DOMAIN res : s \in res[i]
IsStr(v) == v.t = "string"
StrMatches(res, v) == IsStr(v) /\ Matches(res, v.s)

\* formatters.CheckCondition
Cond(c, e) == CASE c = "" -> "true"
                [] c = "error" -> "err"
                [] OTHER -> IF c \in DOMAIN e.vals THEN "true" ELSE "false"

(* The four lists most processors have: names of values, string values,    *)
(* names of tags, values of tags.                                          *)
NamesVal(c, e, k) == Matches(c.valueNames, k) \/ StrMatches(c.values, e.vals[k])
NamesTag(c, e, k) == Matches(c.tagNames, k) \/ Matches(c.tags, e.tags[k])
Selected(c, e) ==
  \/ \E k \in DOMAIN e.vals : NamesVal(c, e, k)
  \/ \E k \in DOMAIN e.tags : NamesTag(c, e, k)

-----------------------------------------------------------------------------
(* Filters.                                                                *)

\* allow.allow and drop.drop: an event whose condition fails is not let through
Allows(c, e) == IF c.cond # "" THEN Cond(c.cond, e) = "true" ELSE Selected(c, e)
Drops(c, e) == IF c.cond # "" THEN Cond(c.cond, e) \in {"true", "err"} ELSE Selected(c, e)
Allow(c, es) == SelectSeq(es, LAMBDA e : Allows(c, e))
Drop(c, es) == SelectSeq(es, LAMBDA e : ~Drops(c, e))

Delete(c, es) ==
  Map(LAMBDA e : [e EXCEPT !.vals = Without(@, {k \in DOMAIN e.vals : NamesVal(c, e, k)}),
                           !.tags = Without(@, {k \in DOMAIN e.tags : NamesTag(c, e, k)})], es)

\* keep.Apply: a list that is not configured filters nothing; what is empty goes
Keep(c, es) ==
  LET byVals == c.valueNames # <<>> \/ c.values # <<>>
      byTags == c.tagNames # <<>> \/ c.tags # <<>>
      strip(e) ==
        [e EXCEPT !.vals = IF byVals THEN Without(@, {k \in DOMAIN e.vals : ~NamesVal(c, e, k)}) ELSE @,
                  !.tags = IF byTags THEN Without(@, {k \in DOMAIN e.tags : ~NamesTag(c, e, k)}) ELSE @]
      some(e) == DOMAIN e.vals # {} \/ DOMAIN e.tags # {} \/ e.dels # {}
  IN IF ~byVals /\ ~byTags THEN es ELSE SelectSeq(Map(strip, es), some)

-----------------------------------------------------------------------------
(* Tags.                                                                   *)

AddTags(c, e) ==
  [e EXCEPT !.tags = IF c.overwrite THEN Over(c.add, e.tags) ELSE Over(e.tags, c.add), !.bare = FALSE]
\* addTag.Apply: of the expressions for string values only the first is tried
AddTag(c, es) ==
  LET hit(e) == \/ \E k \in DOMAIN e.vals :
                     \/ Matches(c.valueNames, k)
                     \/ c.values # <<>> /\ IsStr(e.vals[k]) /\ e.vals[k].s \in Head(c.values)
                \/ \E k \in DOMAIN e.tags : NamesTag(c, e, k)
                \/ \E d \in e.dels : Matches(c.deletes, d)
      ok(e) == IF c.cond # "" THEN Cond(c.cond, e) = "true" ELSE hit(e)
  IN Map(LAMBDA e : IF ok(e) THEN AddTags(c, e) ELSE e, es)

(* extractTags.addTags: c.groups maps <<list, text>> to the named groups    *)
(* an expression of that list finds in the text.  Without overwrite it asks *)
(* whether a tag is NAMED like the text found, not like the group.  The     *)
(* expressions are taken not to match a tag they have just added, which the *)
(* range over the tags may or may not reach.  The first text an expression  *)
(* is tried on makes the map of tags, found or not.                         *)
ExtractOne(c, e, s) ==
  LET g == c.groups[s]
      set == {k \in DOMAIN g : c.overwrite \/ g[k] \notin DOMAIN e.tags}
  IN [e EXCEPT !.tags = [k \in set |-> g[k]] @@ @]
ExtractTags(c, es) ==
  LET vals(e) == {<<"valueNames", k>> : k \in DOMAIN e.vals}
                 \cup {<<"values", e.vals[k].s>> : k \in {j \in DOMAIN e.vals : IsStr(e.vals[j])}}
      tags(e) == {<<"tagNames", k>> : k \in DOMAIN e.tags}
                 \cup {<<"tags", e.tags[k]>> : k \in DOMAIN e.tags}
      run(e, seen) == FoldLeft(LAMBDA acc, s : ExtractOne(c, acc, s), e,
                               SetToSeq(seen \cap DOMAIN c.groups))
      tried(e) == \E s \in vals(e), t \in DOMAIN c.groups : s[1] = t[1]
  IN Map(LAMBDA e : run(run([e EXCEPT !.bare = @ /\ ~tried(e)], vals(e)), tags(e)), es)

Text(v) == IF IsStr(v) THEN v.s ELSE ToString(v.n)
ToTag(c, es) ==
  LET hits(e) == {k \in DOMAIN e.vals : NamesVal(c, e, k)}
  IN Map(LAMBDA e : [e EXCEPT !.tags = [k \in hits(e) |-> Text(e.vals[k])] @@ @, !.bare = FALSE,
                              !.vals = IF c.keep THEN @ ELSE Without(@, hits(e))], es)

Included(a, b) == \A k \in DOMAIN a : k \in DOMAIN b /\ a[k] = b[k]
\* an event without a map of tags makes the assignment panic: none gets here (EventPipeline)
Tagged(e, name, v) == [e EXCEPT !.tags = (name :> Text(v)) @@ @]

\* event-value-tag: the rules come from the events of this call
ValueTag(c, es) ==
  LET has(e) == c.valueName \in DOMAIN e.vals
      rules == SelectSeq(es, has)
      eat(e) == IF c.consume THEN [e EXCEPT !.vals = Without(@, {c.valueName})] ELSE e
      apply(acc, r) == Map(LAMBDA e : IF Included(r.tags, e.tags)
                                      THEN Tagged(e, c.tagName, r.vals[c.valueName]) ELSE e, acc)
  IN FoldLeft(apply, Map(eat, es), rules)

(* event-value-tag-v2 keeps its rules between calls, one for every set of   *)
(* tags that carried the value; nothing removes a rule.  Several that apply *)
(* to an event are taken in map order.                                      *)
ValueTagV2Step(c, acc, e) ==
  LET rs == IF c.valueName \in DOMAIN e.vals
            THEN (e.tags :> e.vals[c.valueName]) @@ acc.rules ELSE acc.rules
      left == IF c.consume THEN [e EXCEPT !.vals = Without(@, {c.valueName})] ELSE e
      out == FoldLeft(LAMBDA a, t : IF Included(t, a.tags) THEN Tagged(a, c.tagName, rs[t]) ELSE a,
                      left, SetToSeq(DOMAIN rs))
  IN [rules |-> rs, out |-> Append(acc.out, out)]
ValueTagV2(c, rules, es) ==
  FoldLeft(LAMBDA acc, e : ValueTagV2Step(c, acc, e), [rules |-> rules, out |-> <<>>], es)

-----------------------------------------------------------------------------
(* Merging.                                                                *)

Later(a, b) == IF b.ts > a.ts THEN b.ts ELSE a.ts
MergeEvents(a, b) ==
  [a EXCEPT !.tags = Over(b.tags, @), !.bare = FALSE, !.vals = Over(b.vals, @), !.dels = @ \cup b.dels,
            !.ts = Later(a, b)]

MergeStep(acc, e) ==
  LET at == {i \in DOMAIN acc : acc[i].ts = e.ts}
  IN IF at = {} THEN Append(acc, e)
     ELSE LET i == CHOOSE j \in at : TRUE IN [acc EXCEPT ![i] = MergeEvents(@, e)]
\* Mutant: the values of the later event are left behind
MergeForgets(c, es) ==
  IF es = <<>> THEN es
  ELSE IF c.always THEN <<Head(es)>>
  ELSE FoldLeft(LAMBDA acc, e : IF \E i \in DOMAIN acc : acc[i].ts = e.ts
                                THEN acc ELSE Append(acc, e), <<>>, es)
Merge(c, es) ==
  IF es = <<>> THEN es
  ELSE IF c.always THEN <<FoldLeft(MergeEvents, Head(es), Tail(es))>>
  ELSE FoldLeft(MergeStep, <<>>, es)

\* The events at the positions I, in their order.
At(es, I) ==
  LET rank(i) == Cardinality({j \in I : j <= i})
  IN [k \in 1 .. Cardinality(I) |-> es[CHOOSE i \in I : rank(i) = k]]

(* groupBy.byTags: an event without a map of tags is left out of the result, *)
(* with all it holds; a group has the name and the time of its first event.  *)
(* Every event here has a map of values, or a list of deletes: the code       *)
(* leaves one without either out as well.                                     *)
GroupKey(c, e) == [k \in c.by |-> e.tags[k]]
Group(g) == [FoldLeft(MergeEvents, Head(g), Tail(g)) EXCEPT !.ts = Head(g).ts]
ByTags(c, es) ==
  LET whole == {i \in DOMAIN es : c.by \subseteq DOMAIN es[i].tags}
      keys == {GroupKey(c, es[i]) : i \in whole}
      of(k) == {i \in whole : GroupKey(c, es[i]) = k}
  IN IF c.by = {} THEN es
     ELSE At(es, {i \in DOMAIN es \ whole : ~es[i].bare})
          \o [n \in 1 .. Cardinality(keys) |-> Group(At(es, of(SetToSeq(keys)[n])))]
NameStep(c, es, acc, name) ==
  acc \o ByTags(c, At(es, {i \in DOMAIN es : es[i].name = name}))
GroupBy(c, es) ==
  IF ~c.byName THEN ByTags(c, es)
  ELSE FoldLeft(LAMBDA acc, name : NameStep(c, es, acc, name), <<>>,
                SetToSeq({es[i].name : i \in DOMAIN es}))

-----------------------------------------------------------------------------
(* Rates, times and types.                                                 *)

(* rateLimit.Apply: index is the LRU cache of c.cache entries, most recently *)
(* used first, of the timestamp of the last event that passed for its tags. *)
Seen(index, e) == {i \in DOMAIN index : index[i].tags = e.tags}
RateRejects(c, index, e) ==
  \E i \in Seen(index, e) : /\ index[i].ts # e.ts
                           /\ (e.ts - index[i].ts) * c.perSecond < OneSecond
MostRecent(c, index, x) ==
  LET seen == Seen(index, x)
      rest == IF seen = {} THEN index ELSE RemoveAt(index, CHOOSE i \in seen : TRUE)
  IN <<x>> \o IF Len(rest) < c.cache THEN rest ELSE SubSeq(rest, 1, c.cache - 1)
\* Get moves what it finds to the front, Add puts an entry there
Touch(c, index, e) ==
  IF Seen(index, e) = {} THEN index
  ELSE MostRecent(c, index, index[CHOOSE i \in Seen(index, e) : TRUE])
\* Mutant: every event seen moves the index
RateStepMoves(c, acc, e) ==
  [index |-> MostRecent(c, acc.index, [tags |-> e.tags, ts |-> e.ts]),
   out |-> IF RateRejects(c, acc.index, e) THEN acc.out ELSE Append(acc.out, e)]
RateStep(c, acc, e) ==
  IF RateRejects(c, acc.index, e)
  THEN [acc EXCEPT !.index = Touch(c, @, e)]
  ELSE [index |-> MostRecent(c, acc.index, [tags |-> e.tags, ts |-> e.ts]),
        out |-> Append(acc.out, e)]
RateLimit(c, index, es) ==
  FoldLeft(LAMBDA acc, e : RateStep(c, acc, e), [index |-> index, out |-> <<>>], es)

OverrideTS(now, es) == Map(LAMBDA e : [e EXCEPT !.ts = now], es)

\* trigger.evalOccurrencesWithinWindow: [times, last], TRUE when the actions run
TriggerTimes(c, times, now) ==
  LET t == Append(SelectSeq(times, LAMBDA x : x + c.window > now), now)
      n == Len(t)
  IN IF n > c.max THEN SubSeq(t, n - c.max, n) ELSE t
TriggerFires(c, st, now) ==
  LET n == Len(TriggerTimes(c, st.times, now))
  IN \/ n >= c.min /\ n <= c.max
     \/ n > c.min /\ st.last + c.window < now
Trigger(c, st, now) ==
  LET fires == TriggerFires(c, st, now)
  IN [times |-> TriggerTimes(c, st.times, now), last |-> IF fires THEN now ELSE st.last,
      fired |-> st.fired + (IF fires THEN 1 ELSE 0)]

Atoi(s) == {n \in Ints : ToString(n) = s}
AsUint(n) == n % (2 ^ IntWidth)
AsInt(n) == LET m == n % (2 ^ IntWidth)
            IN IF m >= 2 ^ (IntWidth - 1) THEN m - 2 ^ IntWidth ELSE m
Num(t, n) == [t |-> t, n |-> n]
Str(s) == [t |-> "string", s |-> s]

\* convertToInt wraps what an int cannot hold; an error leaves the value alone
ConvertToInt(v) ==
  IF ~IsStr(v) THEN Num("int", AsInt(v.n))
  ELSE IF Atoi(v.s) = {} THEN v ELSE Num("int", CHOOSE n \in Atoi(v.s) : TRUE)
\* convertToUint: a negative number becomes 0, a negative string wraps
ConvertToUint(v) ==
  IF ~IsStr(v) THEN Num("uint", IF v.n < 0 THEN 0 ELSE v.n)
  ELSE IF Atoi(v.s) = {} THEN v ELSE Num("uint", AsUint(CHOOSE n \in Atoi(v.s) : TRUE))
ConvertToFloat(v) ==
  IF ~IsStr(v) THEN Num("float", v.n)
  ELSE IF Atoi(v.s) = {} THEN v ELSE Num("float", CHOOSE n \in Atoi(v.s) : TRUE)
ConvertToString(v) == Str(Text(v))
Convert(c, es) ==
  LET to(v) == CASE c.type = "int" -> ConvertToInt(v)
                 [] c.type = "uint" -> ConvertToUint(v)
                 [] c.type = "float" -> ConvertToFloat(v)
                 [] OTHER -> ConvertToString(v)
  IN Map(LAMBDA e : [e EXCEPT !.vals =
           [k \in DOMAIN @ |-> IF Matches(c.names, k) THEN to(@[k]) ELSE @[k]]], es)

(* The converting processors that collect the new values in a map of their  *)
(* own before they add them: c.factor converts a unit, c.rename is the new  *)
(* name of a value.                                                         *)
Converts(v) == ~IsStr(v) \/ Atoi(v.s) # {}
AsNum(v) == IF IsStr(v) THEN CHOOSE n \in Atoi(v.s) : TRUE ELSE v.n
\* convertData: a number, or a text parseStringUnit finds a quantity in
HasQuantity(c, v) == Converts(v) \/ v.s \in DOMAIN c.quantities
Quantity(c, v) == c.factor * (IF Converts(v) THEN AsNum(v) ELSE c.quantities[v.s])
DataConvert(c, es) ==
  LET hits(e) == {k \in DOMAIN e.vals : Matches(c.names, k) /\ HasQuantity(c, e.vals[k])}
      left(e) == IF c.rename = <<>> \/ c.keep THEN e.vals ELSE Without(e.vals, hits(e))
      name(k) == IF c.rename # <<>> THEN c.rename[k] ELSE IF c.keep THEN k \o "_" \o c.to ELSE k
      made(e) == [n \in {name(k) : k \in hits(e)} |->
                    Num("float", Quantity(c, e.vals[CHOOSE k \in hits(e) : name(k) = n]))]
  IN Map(LAMBDA e : [e EXCEPT !.vals = made(e) @@ left(e)], es)
\* convertDuration: a text without a duration in it is one of 0 seconds
DurationConvert(c, es) ==
  LET hits(e) == {k \in DOMAIN e.vals : Matches(c.names, k)}
      name(k) == IF c.keep THEN k \o "_seconds" ELSE k
      secs(v) == IF Converts(v) THEN AsNum(v)
                 ELSE IF v.s \in DOMAIN c.durations THEN c.durations[v.s] ELSE 0
      made(e) == [n \in {name(k) : k \in hits(e)} |->
                    Num("int", secs(e.vals[CHOOSE k \in hits(e) : name(k) = n]))]
  IN Map(LAMBDA e : [e EXCEPT !.vals = made(e) @@ @], es)

\* epoch.Apply and ieeefloat32.Apply: c.parse is what the texts that parse stand for
Parsed(c, e, t) ==
  [e EXCEPT !.vals = [k \in DOMAIN @ |->
     IF Matches(c.names, k) /\ IsStr(@[k]) /\ @[k].s \in DOMAIN c.parse
     THEN Num(t, c.parse[@[k].s]) ELSE @[k]]]
TimeEpoch(c, es) == Map(LAMBDA e : Parsed(c, e, "int"), es)
IEEEFloat32(c, es) ==
  Map(LAMBDA e : IF Cond(c.cond, e) = "true" THEN Parsed(c, e, "float") ELSE e, es)

\* dateString.Apply: the date of a matching tag is stored among the VALUES, and a tag that is
\* no number is taken for time 0.  A deletion's event has no map of values to store it in and
\* the assignment panics: the expressions are taken not to match one of its tags.
DateString(c, es) ==
  LET vs(e) == {k \in DOMAIN e.vals : Matches(c.names, k) /\ Converts(e.vals[k])}
      ts(e) == {k \in DOMAIN e.tags : Matches(c.tagNames, k)}
      date(n) == Str("date " \o ToString(n))
      tagNum(s) == IF Atoi(s) = {} THEN 0 ELSE CHOOSE n \in Atoi(s) : TRUE
  IN Map(LAMBDA e : [e EXCEPT !.vals = [k \in ts(e) |-> date(tagNum(e.tags[k]))]
                                       @@ [k \in vs(e) |-> date(AsNum(e.vals[k]))] @@ @], es)

(* stringsp.Apply: c.op is what the transforms make of a text.  A renamed    *)
(* entry may be met again by the range; the transforms are taken to be       *)
(* idempotent, so meeting it again changes nothing.                          *)
Op(c, s) == IF s \in DOMAIN c.op THEN c.op[s] ELSE s
TransformVal(c, e, k) ==
  LET v == e.vals[k]
      gone == IF c.keep THEN e.vals ELSE Without(e.vals, {k})
  IN [e EXCEPT !.vals = IF c.on = "name" THEN (Op(c, k) :> v) @@ gone
                        ELSE (k :> IF IsStr(v) THEN Str(Op(c, v.s)) ELSE v) @@ gone]
TransformTag(c, e, k) ==
  LET gone == IF c.keep THEN e.tags ELSE Without(e.tags, {k})
  IN [e EXCEPT !.tags = IF c.on = "name" THEN (Op(c, k) :> e.tags[k]) @@ gone
                        ELSE (k :> Op(c, e.tags[k])) @@ gone]
Strings(c, es) ==
  LET vs(e) == SetToSeq({k \in DOMAIN e.vals : NamesVal(c, e, k)})
      ts(e) == SetToSeq({k \in DOMAIN e.tags : NamesTag(c, e, k)})
      ontags(e) == FoldLeft(LAMBDA a, k : TransformTag(c, a, k), e, ts(e))
  IN Map(LAMBDA e : ontags(FoldLeft(LAMBDA a, k : TransformVal(c, a, k), e, vs(e))), es)

(* jq.Apply: an event whose condition fails is lost; when the expression     *)
(* fails everything is.  The expression is the default one, the identity: the *)
(* event it makes has no map for what was empty.                              *)
Jq(c, es) ==
  IF c.exprFails THEN <<>>
  ELSE SelectSeq(es, LAMBDA e : Cond(c.cond, e) = "false")
       \o Map(LAMBDA e : [e EXCEPT !.bare = DOMAIN e.tags = {}],
              SelectSeq(es, LAMBDA e : Cond(c.cond, e) = "true"))

\* write.Apply: how often an event is written; both reasons count
Copies(c, e) == (IF c.cond # "" /\ Cond(c.cond, e) = "true" THEN 1 ELSE 0)
                + (IF Selected(c, e) THEN 1 ELSE 0)

-----------------------------------------------------------------------------
(* combine.Apply: every sub-processor sees the events that satisfy its      *)
(* condition; the result is sorted by time, of the same time in any order   *)
(* (here that of the list).                                                 *)
SortByTime(es) ==
  LET upto(i) == {j \in DOMAIN es : es[j].ts < es[i].ts \/ (es[j].ts = es[i].ts /\ j <= i)}
  IN [k \in DOMAIN es |-> es[CHOOSE i \in DOMAIN es : Cardinality(upto(i)) = k]]
CombineStep(Run(_, _), es, p) ==
  LET in == {i \in DOMAIN es : Cond(p.cond, es[i]) = "true"}
  IN SortByTime(Run(p.proc, At(es, in)) \o At(es, DOMAIN es \ in))

(* updateToEvent, deleteToEvent, addMetaTags: a key of the update's path    *)
(* that the prefix has with another value gets the path before its name; a  *)
(* tag of the metadata that exists already gets "meta_".                    *)
PathTags(prefixTags, path, tags) ==
  LET clash == {k \in DOMAIN tags : k \in DOMAIN prefixTags /\ prefixTags[k] # tags[k]}
      moved == [n \in {path \o "_" \o k : k \in clash} |->
                  tags[CHOOSE k \in clash : path \o "_" \o k = n]]
  IN moved @@ prefixTags @@ Without(tags, clash)
MetaTags(tags, meta) ==
  LET clash == {k \in DOMAIN meta : k \in DOMAIN tags}
      moved == [n \in {"meta_" \o k : k \in clash} |->
                  meta[CHOOSE k \in clash : "meta_" \o k = n]]
  IN moved @@ tags @@ meta
UpdateToEvent(name, ts, prefix, meta, u) ==
  [name |-> name, ts |-> ts, vals |-> u.vals, dels |-> {}, bare |-> FALSE,
   tags |-> MetaTags(PathTags(prefix, u.path, u.tags), meta)]
DeleteToEvent(name, ts, prefix, meta, d) ==
  [name |-> name, ts |-> ts, vals |-> <<>>, dels |-> {d.path}, bare |-> FALSE,
   tags |-> MetaTags(PathTags(prefix, d.path, d.tags), meta)]
ResponseToEventMsgs(name, rsp, meta) ==
  Map(LAMBDA u : UpdateToEvent(name, rsp.ts, rsp.prefix, meta, u), rsp.updates)
  \o Map(LAMBDA d : DeleteToEvent(name, rsp.ts, rsp.prefix, meta, d), rsp.deletes)

-----------------------------------------------------------------------------
\* one configured processor without memory; a chain of them
Apply(p, es) ==
  CASE p.kind = "event-allow" -> Allow(p, es)
    [] p.kind = "event-drop" -> Drop(p, es)
    [] p.kind = "event-delete" -> Delete(p, es)
    [] p.kind = "event-keep" -> Keep(p, es)
    [] p.kind = "event-add-tag" -> AddTag(p, es)
    [] p.kind = "event-extract-tags" -> ExtractTags(p, es)
    [] p.kind = "event-to-tag" -> ToTag(p, es)
    [] p.kind = "event-value-tag" -> ValueTag(p, es)
    [] p.kind = "event-merge" -> Merge(p, es)
    [] p.kind = "event-group-by" -> GroupBy(p, es)
    [] p.kind = "event-convert" -> Convert(p, es)
    [] p.kind = "event-data-convert" -> DataConvert(p, es)
    [] p.kind = "event-duration-convert" -> DurationConvert(p, es)
    [] p.kind = "event-date-string" -> DateString(p, es)
    [] p.kind = "event-time-epoch" -> TimeEpoch(p, es)
    [] p.kind = "event-ieeefloat32" -> IEEEFloat32(p, es)
    [] p.kind = "event-strings" -> Strings(p, es)
    [] p.kind = "event-jq" -> Jq(p, es)
    [] OTHER -> es
Combine(c, es) ==
  FoldLeft(LAMBDA acc, p : CombineStep(Apply, acc, p), es, c.procs)

(* A chain of processors with what they remember between calls: the rate    *)
(* limiter's index, the rules of value-tag-v2, the trigger's occurrences,   *)
(* what event-write has written.                                            *)
NoMemory == [index |-> <<>>, rules |-> <<>>, trig |-> [times |-> <<>>, last |-> 0, fired |-> 0],
             log |-> <<>>]
TriggerStep(p, now, mem, e) ==
  IF Cond(p.cond, e) # "true" THEN mem
  ELSE [mem EXCEPT !.trig = Trigger(p, mem.trig, now)]
WriteStep(p, mem, e) ==
  [mem EXCEPT !.log = @ \o [i \in 1 .. Copies(p, e) |-> e]]
RunStep(acc, p, now) ==
  CASE p.kind = "event-rate-limit" ->
         LET r == RateLimit(p, acc.mem.index, acc.es)
         IN [es |-> r.out, mem |-> [acc.mem EXCEPT !.index = r.index]]
    [] p.kind = "event-value-tag-v2" ->
         LET r == ValueTagV2(p, acc.mem.rules, acc.es)
         IN [es |-> r.out, mem |-> [acc.mem EXCEPT !.rules = r.rules]]
    [] p.kind = "event-trigger" ->
         [acc EXCEPT !.mem = FoldLeft(LAMBDA m, e : TriggerStep(p, now, m, e), @, acc.es)]
    [] p.kind = "event-write" ->
         [acc EXCEPT !.mem = FoldLeft(LAMBDA m, e : WriteStep(p, m, e), @, acc.es)]
    [] p.kind = "event-override-ts" -> [acc EXCEPT !.es = OverrideTS(now, @)]
    [] p.kind = "event-combine" -> [acc EXCEPT !.es = Combine(p, @)]
    [] OTHER -> [acc EXCEPT !.es = Apply(p, @)]
RunChain(ps, mem, es, now) ==
  FoldLeft(LAMBDA acc, p : RunStep(acc, p, now), [es |-> es, mem |-> mem], ps)
=============================================================================
