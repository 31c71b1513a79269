------------------------------- MODULE Requests -------------------------------
(***************************************************************************)
(* The callers that turn a configuration into options, and the messages    *)
(* that come out: the subscribe request of a subscription, the get and set *)
(* requests of the commands' flags and of a set request file, and a        *)
(* message that a user of package api builds option by option.             *)
(***************************************************************************)
EXTENDS GnmiOptions

CONSTANTS SubConfigs,   \* subscription configurations with their target's encoding
          GetFlags, SetFlags, SetFiles,
          UserKinds, UserOptions,  \* UserOptions: a sequence of options
          MaxOptions    \* bound: options of a user's message

VARIABLES job,   \* the caller and what it was given
          opts,  \* options not yet applied
          msg,   \* the message, or Refused
          used   \* the options applied so far

vars == <<job, opts, msg, used>>

O(name, v) == [o |-> name, v |-> v]
Opt(cond, name, v) == IF cond THEN <<O(name, v)>> ELSE <<>>
Each(name, s) == [i \in DOMAIN s |-> O(name, s[i])]

-----------------------------------------------------------------------------
(* CreateSubscribeRequest.  "" is an attribute that is not set, "empty"    *)
(* an encoding that is set to the empty string; json-ietf and 42 stand for *)
(* a dashed name and for a number.                                         *)

StreamMode(s) == IF s = "" THEN "TARGET_DEFINED" ELSE s
ListMode(s) == IF s = "" THEN "STREAM" ELSE s
knownStreamMode(s) == s \in {"", "TARGET_DEFINED", "SAMPLE", "ON_CHANGE"}

\* A stream subscription sets no attribute of the list it is part of.
ValidStream(ss) == ~ss.extra /\ ss.paths # <<>> /\ knownStreamMode(ss.streamMode)

ValidateSubscriptionConfig(sc) ==
  /\ sc.prefix # "" \/ sc.paths # <<>> \/ sc.streams # <<>>
  /\ sc.paths = <<>> \/ sc.streams = <<>>
  /\ sc.mode \in {"", "STREAM"} \/ (sc.mode \in {"ONCE", "POLL"} /\ sc.streams = <<>>)
  /\ sc.enc \in Encodings \cup {"", "empty", "JSON-IETF", "42"}
  /\ ListMode(sc.mode) = "STREAM" =>
       IF sc.streams = <<>> THEN knownStreamMode(sc.streamMode)
       ELSE \A i \in DOMAIN sc.streams : ValidStream(sc.streams[i])

\* The intervals of a stream: heartbeat for ON_CHANGE, sampling and, with suppression, the
\* heartbeat for the others; the paths of the list itself also take the heartbeat of TARGET_DEFINED.
StreamOpts(s, top) ==
  LET mode == StreamMode(s.streamMode)
      beat == s.heartbeat # 0
  IN (IF mode = "ON_CHANGE" THEN Opt(beat, "HeartbeatInterval", s.heartbeat)
      ELSE Opt(top /\ mode = "TARGET_DEFINED" /\ beat, "HeartbeatInterval", s.heartbeat)
           \o Opt(s.sample # 0, "SampleInterval", s.sample)
           \o <<O("SuppressRedundant", s.suppress)>>
           \o Opt(s.suppress /\ beat, "HeartbeatInterval", s.heartbeat))
     \o <<O("SubscriptionMode", mode)>>

PathSubs(s, pre) == [i \in DOMAIN s.paths |-> O("Subscription", pre \o <<O("Path", s.paths[i])>>)]

streamSubscriptionOpts(s) == PathSubs(s, StreamOpts(s, FALSE))

EncodingOf(sc) ==
  CASE sc.enc = "empty" -> "JSON" [] sc.enc # "" -> sc.enc
    [] sc.targetEnc # "" -> sc.targetEnc [] OTHER -> "JSON"

TargetOf(sc) == IF sc.target # "" THEN sc.target ELSE IF sc.setTarget THEN "name" ELSE ""

SubscriptionOpts(sc) ==
  <<O("Prefix", sc.prefix), O("ListMode", ListMode(sc.mode)), O("UpdatesOnly", sc.only),
    O("Encoding", EncodingOf(sc))>>
  \o Opt(sc.history = "snapshot", "Snapshot", 1) \o Opt(sc.history = "range", "Range", 1)
  \o Opt(sc.qos # 0, "Qos", sc.qos) \o Each("UseModel", sc.models)
  \o Opt(TargetOf(sc) # "", "Target", TargetOf(sc))
  \o FlattenSeq([i \in DOMAIN sc.streams |-> streamSubscriptionOpts(sc.streams[i])])
  \o PathSubs(sc, IF ListMode(sc.mode) = "STREAM" THEN StreamOpts(sc, TRUE) ELSE <<>>)
  \o Opt(sc.depth > 0, "Depth", sc.depth)

-----------------------------------------------------------------------------
(* The flags of get and set, and the set request file. *)

CreateGetRequest(g) ==
  <<O("Encoding", IF g.targetEnc # "" THEN g.targetEnc ELSE g.enc), O("DataType", g.type),
    O("Prefix", g.prefix), O("Target", g.target)>>
  \o Each("Path", g.paths) \o Opt(g.depth > 0, "Depth", g.depth) \o Each("Extension", g.exts)

\* path:::type:::value, path and value flags, value files and cli lines: [path, val, enc].
Items(name, s) ==
  [i \in DOMAIN s |-> O(name, <<O("Path", s[i].path), [o |-> "Value", v |-> s[i].val, e |-> s[i].enc]>>)]

Commits == [request |-> "CommitRequest", confirm |-> "CommitConfirm", cancel |-> "CommitCancel",
            rollback |-> "CommitRollback"]

CreateSetRequest(s) ==
  <<O("Prefix", s.prefix), O("Target", s.target)>>
  \o Each("Delete", s.deletes) \o Items("Update", s.updates) \o Items("Replace", s.replaces)
  \o Items("UnionReplace", s.unions)
  \o Opt(s.commitId # "", Commits[s.commit], s.commitId) \o Each("Extension", s.exts)

\* A file that names a commit makes one with the identifier of the flags.
CreateSetRequestFromFile(s) ==
  Items("Update", s.updates) \o Items("Replace", s.replaces) \o Items("UnionReplace", s.unions)
  \o Each("Delete", s.deletes)
  \o Opt(s.commitId # "", Commits[s.commit], s.flagId)

-----------------------------------------------------------------------------
Job(kind, c, o, m) == job = [by |-> kind, c |-> c] /\ opts = o /\ msg = m

\* A configuration that does not validate ends without a request.
Init ==
  /\ used = <<>>
  /\ \/ \E sc \in SubConfigs :
          IF ValidateSubscriptionConfig(sc) THEN Job("subscribe", sc, SubscriptionOpts(sc), New("SubReq"))
          ELSE Job("subscribe", sc, <<>>, Refused)
     \/ \E g \in GetFlags : Job("get", g, CreateGetRequest(g), New("GetReq"))
     \/ \E s \in SetFlags : Job("set", s, CreateSetRequest(s), New("SetReq"))
     \/ \E s \in SetFiles : Job("file", s, CreateSetRequestFromFile(s), New("SetReq"))
     \/ \E k \in UserKinds : Job("user", k, <<>>, New(k))

\* One turn of the loop of apply.
ApplyNext ==
  /\ opts # <<>> /\ ~Failed(msg)
  /\ msg' = Option(msg, Head(opts)) /\ used' = Append(used, Head(opts))
  /\ opts' = Tail(opts) /\ UNCHANGED job

\* The user of package api names the next option.
UserOption(i) ==
  /\ job.by = "user" /\ ~Failed(msg) /\ Len(used) < MaxOptions
  /\ msg' = Option(msg, UserOptions[i]) /\ used' = Append(used, UserOptions[i])
  /\ UNCHANGED <<job, opts>>

Next == ApplyNext \/ \E i \in DOMAIN UserOptions : UserOption(i)
Spec == Init /\ [][Next]_vars

-----------------------------------------------------------------------------
Done == opts = <<>> /\ ~Failed(msg)
Only(v) == IF v = "" THEN <<>> ELSE <<v>>
Values(s) == [i \in DOMAIN s |-> s[i].f["path"]]
Paths(s) == [i \in DOMAIN s |-> <<s[i].path>>]

\* The field an option fills, and the option that may still take its value away.
FieldOf == [Prefix |-> "prefix", Target |-> "target", Encoding |-> "encoding", DataType |-> "type",
            Path |-> "path", Delete |-> "delete", UseModel |-> "models",
            ListMode |-> "mode", Qos |-> "qos", AllowAggregation |-> "aggregate", UpdatesOnly |-> "only",
            Timestamp |-> "time", Atomic |-> "atomic", Version |-> "version", SupportedModel |-> "models"]
Overrides(a, b) ==
  a.o = b.o \/ <<a.o, b.o>> \in {<<"Prefix", "Target">>, <<"EncodingCustom", "Encoding">>}

\* An option that was accepted shows in the message, unless a later one of its kind (or, for
\* the target, a later prefix) replaces it: no option disturbs what another has set.
\* (Not asked of a poll request, which ignores an encoding and models.)
OptionsKept ==
  job.by = "user" /\ job.c # "PollReq" /\ ~Failed(msg) =>
    \A i \in DOMAIN used : used[i].o \in DOMAIN FieldOf =>
      \/ \E k \in DOMAIN msg.f[FieldOf[used[i].o]] : msg.f[FieldOf[used[i].o]][k] = used[i].v
      \/ \E j \in DOMAIN used : j > i /\ Overrides(used[j], used[i])
=============================================================================
