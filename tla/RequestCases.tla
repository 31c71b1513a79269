----------------------------- MODULE RequestCases -----------------------------
(***************************************************************************)
(* Inputs for Requests: subscription configurations, the flags of get and  *)
(* set, set request files, and the options a user of the API may put into  *)
(* a message.                                                              *)
(***************************************************************************)
EXTENDS Integers, Sequences

StreamOf(mode) ==
  [paths |-> <<"/s">>, streamMode |-> mode, sample |-> 1, heartbeat |-> 1, suppress |-> TRUE, extra |-> FALSE]
Sub0 ==
  [prefix |-> "", target |-> "", setTarget |-> FALSE, mode |-> "", enc |-> "", targetEnc |-> "",
   paths |-> <<"/a">>, streams |-> <<>>, streamMode |-> "", sample |-> 0, heartbeat |-> 0,
   suppress |-> FALSE, only |-> FALSE, qos |-> 0, models |-> <<>>, depth |-> 0, history |-> ""]

\* What the request is for, and how its values are to be sampled and encoded.
SubConfigs ==
  {[Sub0 EXCEPT !.prefix = p, !.target = t, !.setTarget = st, !.mode = m, !.paths = ps,
                !.streams = ss, !.streamMode = sm] :
     p \in {"", "p"}, t \in {"", "t"}, st \in BOOLEAN, m \in {"", "ONCE", "POLL", "bad"},
     ps \in {<<>>, <<"/a", "/b">>}, ss \in {<<>>, <<StreamOf("SAMPLE"), StreamOf("")>>},
     sm \in {"", "ON_CHANGE"}}
  \cup
  {[Sub0 EXCEPT !.enc = e, !.targetEnc = te, !.sample = s, !.heartbeat = h, !.suppress = su,
                !.streamMode = sm, !.qos = 1, !.models = <<"m">>, !.depth = 1, !.history = hi] :
     e \in {"", "empty", "PROTO"}, te \in {"", "ASCII"}, s \in {0, 1}, h \in {0, 1},
     su \in BOOLEAN, sm \in {"", "SAMPLE", "ON_CHANGE"}, hi \in {"snapshot", "range"}}

GetFlags ==
  {[enc |-> "JSON", targetEnc |-> e, type |-> d, prefix |-> p, target |-> t,
    paths |-> <<"/a", "/b">>, depth |-> 1, exts |-> <<<<"x", 1>>>>] :
     e \in {"", "PROTO"}, d \in {"", "STATE", "bad"}, p \in {"", "p", "bad"}, t \in {"", "t"}}

Text(parses) == [t |-> "string", v |-> "v", parses |-> parses]
Item(val, enc) == [path |-> "/u", val |-> val, enc |-> enc]
Items ==
  {<<>>, <<Item(Text({}), "json")>>, <<Item(Text({"int"}), "int"), Item(Text({}), "ascii")>>,
   <<Item(Text({}), "int")>>}
MapItem == Item([t |-> "map", v |-> "v"], "json_ietf")

SetFlags ==
  {[prefix |-> p, target |-> t, deletes |-> <<"/d">>, updates |-> u, replaces |-> r, unions |-> un,
    commitId |-> c, commit |-> ca, exts |-> <<>>] :
     p \in {"", "p"}, t \in {"", "t"}, u \in Items, r \in Items, un \in {<<>>, <<MapItem>>},
     c \in {"", "1"}, ca \in {"request", "confirm", "cancel", "rollback"}}

SetFiles ==
  {[deletes |-> <<"/d">>, updates |-> u, replaces |-> <<>>, unions |-> <<>>, commitId |-> c,
    commit |-> "confirm", flagId |-> f] : u \in Items, c \in {"", "1"}, f \in {"", "1"}}

Opt(o, v) == [o |-> o, v |-> v]
Val(type, enc) == [o |-> "Value", v |-> [t |-> type, v |-> "v"], e |-> enc]
UserOptions ==
  <<Opt("Prefix", "p"), Opt("Prefix", "q"), Opt("Target", "t"), Opt("Target", "u"),
    Opt("Encoding", "JSON"), Opt("DataType", "STATE"), Opt("Path", "/a"), Opt("Path", "bad"),
    Opt("Delete", "/d"), Opt("UseModel", "m"), Opt("ListMode", "ONCE"), Opt("Qos", "1"),
    Opt("AllowAggregation", TRUE), Opt("UpdatesOnly", TRUE), Opt("Timestamp", "1"),
    Opt("Version", "v"), Opt("SupportedModel", "m"), Opt("EncodingCustom", "9"),
    Opt("SupportedEncoding", "JSON"), Opt("CommitConfirm", "1"), Opt("Range", 1),
    Opt("Update", <<Opt("Path", "/u"), Val("list", "proto")>>),
    Opt("Replace", <<Opt("Path", "/r"), Val("map", "int")>>),
    Opt("Notification", <<Opt("Timestamp", "1"), Opt("Atomic", TRUE),
                          Opt("Update", <<Opt("Path", "/u"), Val("IntVal", "")>>)>>),
    Opt("UpdateResult", <<Opt("Path", "/u"), Opt("Operation", "UPDATE")>>)>>
=============================================================================
