----------------------------- MODULE GnmiOptions -----------------------------
(***************************************************************************)
(* The options of package api that build gNMI messages.  A message is its  *)
(* kind and its fields; a field holds the sequence of what was put there,  *)
(* one element for a singular field.  An option that does not fit the      *)
(* message, or has a value the protocol does not know, is refused.         *)
(***************************************************************************)
EXTENDS Integers, Sequences, SequencesExt

CONSTANTS BadPath   \* stands for the texts ParsePath does not accept

RpcKinds == {"CapReq", "CapRsp", "GetReq", "GetRsp", "SetReq", "SetRsp", "SubReq", "PollReq",
             "SubRsp", "SyncRsp"}
Fields == {"version", "encodings", "models", "ext", "prefix", "target", "path", "encoding", "type",
           "update", "replace", "union", "val", "delete", "mode", "qos", "aggregate", "only", "subs",
           "sample", "heartbeat", "suppress", "notification", "time", "atomic", "results", "op"}
Encodings == {"JSON", "BYTES", "PROTO", "ASCII", "JSON_IETF"}

New(kind) == [kind |-> kind, f |-> [x \in Fields |-> <<>>]]
Refused == New("error")
Failed(m) == m.kind = "error"

Put(m, x, v) == [m EXCEPT !.f[x] = <<v>>]
Add(m, x, v) == [m EXCEPT !.f[x] = Append(m.f[x], v)]
On(m, kinds, r) == IF m.kind \in kinds THEN r ELSE Refused
Known(v, values, r) == IF v \in values THEN r ELSE Refused

-----------------------------------------------------------------------------
(* Options of the messages themselves. *)

Version(m, v) == On(m, {"CapRsp"}, Put(m, "version", v))
SupportedEncoding(m, v) == On(m, {"CapRsp"}, Known(v, Encodings, Add(m, "encodings", v)))
SupportedModel(m, v) == On(m, {"CapRsp"}, Add(m, "models", v))

\* Ignored, without an error, by a message that has no extensions.
Extension(m, e) == IF m.kind \in RpcKinds \ {"CapRsp"} THEN Add(m, "ext", e) ELSE m

Extension_CommitRequest(m, id) == On(m, {"SetReq"}, Extension(m, <<"request", id>>))
Extension_CommitConfirm(m, id) == On(m, {"SetReq"}, Extension(m, <<"confirm", id>>))
Extension_CommitCancel(m, id) == On(m, {"SetReq"}, Extension(m, <<"cancel", id>>))
Extension_CommitSetRollbackDuration(m, id) == On(m, {"SetReq"}, Extension(m, <<"rollback", id>>))
Extension_Depth(m, d) == On(m, {"GetReq", "SubReq", "PollReq"}, Extension(m, <<"depth", d>>))
Extension_HistorySnapshotTime(m, t) == On(m, {"SubReq", "PollReq"}, Extension(m, <<"snapshot", t>>))
Extension_HistoryRange(m, r) == On(m, {"SubReq", "PollReq"}, Extension(m, <<"range", r>>))

\* CreatePrefix(prefix, ""): a new path, without a target; no path for an empty prefix.
Prefix(m, p) ==
  On(m, {"GetReq", "SetReq", "SetRsp", "SubReq", "Notification"},
     IF p = BadPath THEN Refused
     ELSE [m EXCEPT !.f["prefix"] = IF p = "" THEN <<>> ELSE <<p>>, !.f["target"] = <<>>])

\* Mutant: the prefix is allocated again to hold the target.
TargetNewPath(m, t) ==
  IF t = "" THEN m
  ELSE On(m, {"GetReq", "SetReq", "SubReq"}, [Put(m, "target", t) EXCEPT !.f["prefix"] = <<>>])

Target(m, t) ==
  IF t = "" THEN m ELSE On(m, {"GetReq", "SetReq", "SubReq"}, Put(m, "target", t))

Path(m, p) ==
  On(m, {"GetReq", "Update", "UpdateResult", "Subscription"},
     IF p = BadPath THEN Refused ELSE IF m.kind = "GetReq" THEN Add(m, "path", p) ELSE Put(m, "path", p))

\* A poll request has no encoding and no models: both options leave it as it is.
Encoding(m, e) ==
  Known(e, Encodings, On(m, {"GetReq", "SubReq", "PollReq"},
                         IF m.kind = "PollReq" THEN m ELSE Put(m, "encoding", e)))
EncodingCustom(m, n) ==
  On(m, {"GetReq", "SubReq", "PollReq"}, IF m.kind = "PollReq" THEN m ELSE Put(m, "encoding", n))
UseModel(m, v) ==
  On(m, {"GetReq", "SubReq", "PollReq"}, IF m.kind = "PollReq" THEN m ELSE Add(m, "models", v))

DataType(m, d) ==
  IF d = "" THEN m
  ELSE On(m, {"GetReq"}, Known(d, {"ALL", "CONFIG", "STATE", "OPERATIONAL"}, Put(m, "type", d)))

Delete(m, p) ==
  On(m, {"SetReq", "Notification"}, IF p = BadPath THEN Refused ELSE Add(m, "delete", p))

SubscriptionListMode(m, v) ==
  On(m, {"SubReq"}, Known(v, {"STREAM", "ONCE", "POLL"}, Put(m, "mode", v)))
Qos(m, v) == On(m, {"SubReq"}, Put(m, "qos", v))
AllowAggregation(m, v) == On(m, {"SubReq"}, Put(m, "aggregate", v))
UpdatesOnly(m, v) == On(m, {"SubReq"}, Put(m, "only", v))

SubscriptionMode(m, v) ==
  On(m, {"Subscription"}, Known(v, {"TARGET_DEFINED", "ON_CHANGE", "SAMPLE"}, Put(m, "mode", v)))
SampleInterval(m, v) == On(m, {"Subscription"}, Put(m, "sample", v))
HeartbeatInterval(m, v) == On(m, {"Subscription"}, Put(m, "heartbeat", v))
SuppressRedundant(m, v) == On(m, {"Subscription"}, Put(m, "suppress", v))

Timestamp(m, v) == On(m, {"Notification", "SetRsp"}, Put(m, "time", v))
Atomic(m, v) == On(m, {"Notification"}, Put(m, "atomic", v))
Operation(m, v) ==
  On(m, {"UpdateResult"}, Known(v, {"INVALID", "DELETE", "REPLACE", "UPDATE"}, Put(m, "op", v)))

-----------------------------------------------------------------------------
(* Values.  d.t is the Go type of the data, d.parses the encodings a       *)
(* string can be parsed as.  The result is the variant of TypedValue.      *)

Json(e) == e \in {"", "json", "json_ietf"}
JsonVal(e) == IF e = "json_ietf" THEN "JsonIetfVal" ELSE "JsonVal"

StringValue(d, e) ==
  CASE Json(e) -> JsonVal(e)
    [] e \in {"ascii", "bytes", "string"} -> e
    [] e \in {"bool", "float", "int", "uint"} /\ e \in d.parses -> e
    [] OTHER -> "error"   \* decimal is not implemented

value(d, e) ==
  CASE d.t = "string" -> StringValue(d, e)
    [] d.t \in {"list", "map"} /\ Json(e) -> JsonVal(e)
    [] d.t = "list" -> "LeaflistVal"
    [] d.t = "map" -> "error"
    [] OTHER -> d.t   \* a TypedValue, or what FromScalar makes of a scalar

Value(m, d, e) ==
  On(m, {"Update"}, IF value(d, e) = "error" THEN Refused ELSE Put(m, "val", <<value(d, e), d.v>>))

-----------------------------------------------------------------------------
(* Nested messages: sub is what the inner options built.                   *)

Nested(m, kinds, x, sub) == On(m, kinds, IF Failed(sub) THEN Refused ELSE Add(m, x, sub))

Update(m, sub) == Nested(m, {"SetReq", "Notification"}, "update", sub)
Replace(m, sub) == Nested(m, {"SetReq"}, "replace", sub)
UnionReplace(m, sub) == Nested(m, {"SetReq"}, "union", sub)
Subscription(m, sub) == Nested(m, {"SubReq"}, "subs", sub)
UpdateResult(m, sub) == Nested(m, {"SetRsp"}, "results", sub)

\* The last notification of a subscribe response wins; a sync response ignores it.
Notification(m, sub) ==
  On(m, {"GetRsp", "SubRsp", "SyncRsp"},
     CASE m.kind = "SyncRsp" -> m
       [] Failed(sub) -> Refused
       [] m.kind = "GetRsp" -> Add(m, "notification", sub)
       [] OTHER -> Put(m, "notification", sub))

-----------------------------------------------------------------------------
(* An option is a record: its name o, its value v and, for a value, its    *)
(* encoding e; v holds the inner options of a nested message.              *)

\* apply: the options in order, up to the first that is refused.
apply(Opt(_, _), m, opts) ==
  FoldLeft(LAMBDA x, o : IF Failed(x) THEN x ELSE Opt(x, o), m, opts)

LeafOption(m, o) ==
  CASE o.o = "Path" -> Path(m, o.v)
    [] o.o = "Value" -> Value(m, o.v, o.e)
    [] o.o = "Prefix" -> Prefix(m, o.v)
    [] o.o = "Delete" -> Delete(m, o.v)
    [] o.o = "SubscriptionMode" -> SubscriptionMode(m, o.v)
    [] o.o = "SampleInterval" -> SampleInterval(m, o.v)
    [] o.o = "HeartbeatInterval" -> HeartbeatInterval(m, o.v)
    [] o.o = "SuppressRedundant" -> SuppressRedundant(m, o.v)
    [] o.o = "Timestamp" -> Timestamp(m, o.v)
    [] o.o = "Atomic" -> Atomic(m, o.v)
    [] o.o = "Operation" -> Operation(m, o.v)
    [] o.o = "Version" -> Version(m, o.v)
    [] o.o = "SupportedEncoding" -> SupportedEncoding(m, o.v)
    [] o.o = "SupportedModel" -> SupportedModel(m, o.v)
    [] o.o = "Extension" -> Extension(m, o.v)
    [] o.o = "CommitRequest" -> Extension_CommitRequest(m, o.v)
    [] o.o = "CommitConfirm" -> Extension_CommitConfirm(m, o.v)
    [] o.o = "CommitCancel" -> Extension_CommitCancel(m, o.v)
    [] o.o = "CommitRollback" -> Extension_CommitSetRollbackDuration(m, o.v)
    [] o.o = "Depth" -> Extension_Depth(m, o.v)
    [] o.o = "Snapshot" -> Extension_HistorySnapshotTime(m, o.v)
    [] o.o = "Range" -> Extension_HistoryRange(m, o.v)
    [] o.o = "Target" -> Target(m, o.v)
    [] o.o = "Encoding" -> Encoding(m, o.v)
    [] o.o = "EncodingCustom" -> EncodingCustom(m, o.v)
    [] o.o = "UseModel" -> UseModel(m, o.v)
    [] o.o = "DataType" -> DataType(m, o.v)
    [] o.o = "ListMode" -> SubscriptionListMode(m, o.v)
    [] o.o = "Qos" -> Qos(m, o.v)
    [] o.o = "AllowAggregation" -> AllowAggregation(m, o.v)
    [] o.o = "UpdatesOnly" -> UpdatesOnly(m, o.v)

NestedOption(m, o) ==
  CASE o.o = "Update" -> Update(m, apply(LeafOption, New("Update"), o.v))
    [] o.o = "Replace" -> Replace(m, apply(LeafOption, New("Update"), o.v))
    [] o.o = "UnionReplace" -> UnionReplace(m, apply(LeafOption, New("Update"), o.v))
    [] o.o = "Subscription" -> Subscription(m, apply(LeafOption, New("Subscription"), o.v))
    [] o.o = "UpdateResult" -> UpdateResult(m, apply(LeafOption, New("UpdateResult"), o.v))
    [] OTHER -> LeafOption(m, o)

Option(m, o) ==
  IF o.o = "Notification" THEN Notification(m, apply(NestedOption, New("Notification"), o.v))
  ELSE NestedOption(m, o)
=============================================================================
