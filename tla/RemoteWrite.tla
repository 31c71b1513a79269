----------------------------- MODULE RemoteWrite -----------------------------
(***************************************************************************)
(* The Prometheus remote-write output.  Write blocks while the input queue *)
(* is full; a worker turns messages into time series and, when the series  *)
(* buffer is full, signals a writer; a writer empties the buffer on the    *)
(* signal or on its timer and sends what it took in chunks.  The metadata  *)
(* writer holds the mutex the workers need while it sends.  Update starts  *)
(* a new generation of the three and retires the old one.                  *)
(*                                                                         *)
(* A message yields one series; each generation has one worker and one     *)
(* writer.                                                                 *)
(***************************************************************************)
EXTENDS Naturals, Sequences, FiniteSets, FiniteSetsExt, SequencesExt

CONSTANTS MaxSeries,   \* bound: messages written
          InBuf,       \* input-buffer-size
          Caps,        \* buffer-size: of Init (the first one) and of each Update
          Chunk,       \* max-time-series-per-write
          MaxMeta,     \* metadata.max-entries-per-write
          MaxFails     \* bound: requests that fail

Gens == 1 .. Len(Caps)

VARIABLES
  nxt,    \* messages handed to Write so far
  wr,     \* the message of a blocked Write, 0 = none
  inq,    \* msgChan
  ts,     \* the time series channels, one per generation
  gen,    \* the generation cancelFn and wg belong to; its channel is the current one
  drain,  \* buffDrainCh holds a signal
  wk,     \* workers: [pc, s, ch]
  wt,     \* writers: [pc, ch, want, pts, chunk]
  meta,   \* entries of the metadata cache (every series has a name of its own)
  mw,     \* entries the metadata writer still has to send; it holds p.m while there are any
  upd,    \* Update: "idle", "wait" or "drain"
  life,   \* "open", "closing", "closed"
  fails,
  ended   \* history: series the remote accepted or the output gave up

vars == <<nxt, wr, inq, ts, gen, drain, wk, wt, meta, mw, upd, life, fails, ended>>

Done(g) == g < gen \/ life # "open"
NoWorker == [pc |-> "none", s |-> 0, ch |-> 0]
NoWriter == [pc |-> "none", ch |-> 0, want |-> 0, pts |-> <<>>, chunk |-> <<>>]
Worker(g) == [NoWorker EXCEPT !.pc = "idle", !.ch = g]
Writer(g) == [NoWriter EXCEPT !.pc = "idle", !.ch = g]
Gone(g) == wk[g].pc \in {"none", "exit"} /\ wt[g].pc \in {"none", "exit"}

Init ==
  /\ nxt = 0 /\ wr = 0 /\ inq = <<>> /\ gen = 1 /\ drain = FALSE
  /\ ts = [g \in Gens |-> <<>>]
  /\ wk = [g \in Gens |-> IF g = 1 THEN Worker(1) ELSE NoWorker]
  /\ wt = [g \in Gens |-> IF g = 1 THEN Writer(1) ELSE NoWriter]
  /\ meta = 0 /\ mw = 0 /\ upd = "idle" /\ life = "open" /\ fails = 0
  /\ ended = {}

-----------------------------------------------------------------------------
(* Write: with backpressure, until there is room, or the output closes. *)

WriteCall ==
  /\ wr = 0 /\ nxt < MaxSeries /\ life = "open"
  /\ nxt' = nxt + 1 /\ wr' = nxt + 1
  /\ UNCHANGED <<inq, ts, gen, drain, wk, wt, meta, mw, upd, life, fails, ended>>

WriteReturn ==
  /\ wr # 0 /\ wr' = 0
  /\ \/ Len(inq) < InBuf /\ inq' = Append(inq, wr) /\ UNCHANGED ended
     \/ life # "open" /\ ended' = ended \cup {wr} /\ UNCHANGED inq
  /\ UNCHANGED <<nxt, ts, gen, drain, wk, wt, meta, mw, upd, life, fails>>

-----------------------------------------------------------------------------
(* Workers: the channel is loaded with the message. *)

WorkerUnch == UNCHANGED <<nxt, wr, gen, wt, mw, upd, life, fails>>

HandleProto(g) ==
  /\ wk[g].pc = "idle" /\ inq # <<>>
  /\ inq' = Tail(inq)
  /\ wk' = [wk EXCEPT ![g] = [pc |-> IF Len(ts[gen]) >= Caps[gen] THEN "signal" ELSE "meta",
                              s |-> Head(inq), ch |-> gen]]
  /\ WorkerUnch /\ UNCHANGED <<ts, drain, meta, ended>>

\* the signal, the metadata cache under p.m, the buffer: a worker may wait for each
HandleEvent(g) ==
  /\ \/ /\ wk[g].pc = "signal" /\ ~drain /\ drain' = TRUE
        /\ wk' = [wk EXCEPT ![g].pc = "meta"]
        /\ UNCHANGED <<ts, meta>>
     \/ /\ wk[g].pc = "meta" /\ mw = 0
        /\ meta' = meta + 1
        /\ wk' = [wk EXCEPT ![g].pc = "send"]
        /\ UNCHANGED <<ts, drain>>
     \/ /\ wk[g].pc = "send" /\ Len(ts[wk[g].ch]) < Caps[wk[g].ch]
        /\ ts' = [ts EXCEPT ![wk[g].ch] = Append(@, wk[g].s)]
        /\ wk' = [wk EXCEPT ![g].pc = "idle"]
        /\ UNCHANGED <<drain, meta>>
  /\ WorkerUnch /\ UNCHANGED <<inq, ended>>

WorkerQuit(g) ==
  /\ wk[g].pc \in {"idle", "signal", "send"} /\ Done(g)
  /\ wk' = [wk EXCEPT ![g].pc = "exit"]
  /\ ended' = IF wk[g].pc = "idle" THEN ended ELSE ended \cup {wk[g].s}
  /\ WorkerUnch /\ UNCHANGED <<inq, ts, drain, meta>>

-----------------------------------------------------------------------------
(* Writers: the channel is loaded before the select, its length after it. *)

WriterUnch == UNCHANGED <<nxt, wr, inq, gen, wk, meta, mw, upd, life>>

Wake(g) ==
  /\ wt[g].pc = "idle"
  /\ \/ UNCHANGED drain               \* the ticker
     \/ drain /\ drain' = FALSE       \* the signal
  /\ LET c == wt[g].ch IN
     wt' = IF ts[c] = <<>> THEN [wt EXCEPT ![g].ch = gen]
           ELSE [wt EXCEPT ![g].pc = "collect", ![g].want = Len(ts[c])]
  /\ WriterUnch /\ UNCHANGED <<ts, fails, ended>>

\* until as many series are read as there were, or none comes for a second
Collect(g) ==
  LET c == wt[g].ch IN
  /\ wt[g].pc = "collect"
  /\ IF ts[c] # <<>>
     THEN /\ ts' = [ts EXCEPT ![c] = Tail(@)]
          /\ wt' = [wt EXCEPT ![g].pts = Append(@, Head(ts[c])),
                              ![g].pc = IF Len(wt[g].pts) + 1 = wt[g].want THEN "write" ELSE "collect"]
     ELSE UNCHANGED ts /\ wt' = [wt EXCEPT ![g].pc = "write"]
  /\ WriterUnch /\ UNCHANGED <<drain, fails, ended>>

\* One request.  A chunk whose request failed is not reset: it grows past the maximum and
\* is sent once more, with all that is left; what fails last is given up.
WriteChunk(g) ==
  LET me == wt[g]
      n == IF Len(me.chunk) < Chunk THEN Min({Chunk - Len(me.chunk), Len(me.pts)}) ELSE Len(me.pts)
      req == me.chunk \o SubSeq(me.pts, 1, n)
      rest == SubSeq(me.pts, n + 1, Len(me.pts))
      next(ch) == IF rest = <<>> THEN Writer(gen) ELSE [me EXCEPT !.pts = rest, !.chunk = ch]
  IN /\ me.pc = "write"
     /\ \/ /\ ended' = ended \cup ToSet(req)
           /\ wt' = [wt EXCEPT ![g] = next(<<>>)]
           /\ UNCHANGED fails
        \/ /\ fails < MaxFails \/ Done(g)
           /\ fails' = IF Done(g) THEN fails ELSE fails + 1
           /\ wt' = [wt EXCEPT ![g] = next(req)]
           /\ ended' = IF rest = <<>> THEN ended \cup ToSet(req) ELSE ended
     /\ WriterUnch /\ UNCHANGED <<ts, drain>>

WriterQuit(g) ==
  /\ wt[g].pc = "idle" /\ Done(g)
  /\ wt' = [wt EXCEPT ![g].pc = "exit"]
  /\ WriterUnch /\ UNCHANGED <<ts, drain, fails, ended>>

\* writeMetadata takes p.m on its timer and keeps it until the last request; the entry
\* that finds a batch full is in no batch.  A failed request ends it.
MetaBegin ==
  /\ mw = 0 /\ meta > 0 /\ life = "open"
  /\ mw' = meta
  /\ UNCHANGED <<nxt, wr, inq, ts, gen, drain, wk, wt, meta, upd, life, fails, ended>>

MetaWrite ==
  /\ mw > 0
  /\ \/ mw' = mw - Min({MaxMeta + 1, mw}) /\ UNCHANGED fails
     \/ fails < MaxFails /\ fails' = fails + 1 /\ mw' = 0
  /\ UNCHANGED <<nxt, wr, inq, ts, gen, drain, wk, wt, meta, upd, life, ended>>

-----------------------------------------------------------------------------
(* Update with a new buffer size, and Close. *)

Update ==
  /\ upd = "idle" /\ life = "open" /\ gen < Len(Caps)
  /\ gen' = gen + 1
  /\ wk' = [wk EXCEPT ![gen + 1] = Worker(gen + 1)]
  /\ wt' = [wt EXCEPT ![gen + 1] = Writer(gen + 1)]
  /\ upd' = "wait"
  /\ UNCHANGED <<nxt, wr, inq, ts, drain, meta, mw, life, fails, ended>>

UpdateWait ==
  /\ upd = "wait" /\ Gone(gen - 1)
  /\ upd' = "drain"
  /\ UNCHANGED <<nxt, wr, inq, ts, gen, drain, wk, wt, meta, mw, life, fails, ended>>

\* Mutant: what is left in the old buffer stays there.
UpdateLeaves ==
  /\ upd = "drain" /\ upd' = "idle"
  /\ UNCHANGED <<nxt, wr, inq, ts, gen, drain, wk, wt, meta, mw, life, fails, ended>>

UpdateDrain ==
  /\ upd = "drain"
  /\ LET old == ts[gen - 1] IN
     IF old = <<>> THEN upd' = "idle" /\ UNCHANGED <<ts, ended>>
     ELSE /\ UNCHANGED upd
          /\ IF Len(ts[gen]) < Caps[gen]
             THEN ts' = [ts EXCEPT ![gen - 1] = Tail(@), ![gen] = Append(@, Head(old))] /\ UNCHANGED ended
             ELSE ts' = [ts EXCEPT ![gen - 1] = Tail(@)] /\ ended' = ended \cup {Head(old)}
  /\ UNCHANGED <<nxt, wr, inq, gen, drain, wk, wt, meta, mw, life, fails>>

Close ==
  /\ \/ life = "open" /\ upd = "idle" /\ life' = "closing"
     \/ life = "closing" /\ Gone(gen) /\ life' = "closed"
  /\ UNCHANGED <<nxt, wr, inq, ts, gen, drain, wk, wt, meta, mw, upd, fails, ended>>

Goroutine(g) == HandleProto(g) \/ HandleEvent(g) \/ WorkerQuit(g)
Sender(g) == Wake(g) \/ Collect(g) \/ WriteChunk(g)
Next ==
  \/ WriteCall \/ WriteReturn \/ MetaBegin \/ MetaWrite
  \/ Update \/ UpdateWait \/ UpdateDrain \/ Close
  \/ \E g \in Gens : Goroutine(g) \/ Sender(g) \/ WriterQuit(g)

\* Goroutines run, the timer ticks, a request ends one way or the other, and p.m starves
\* nobody.
Closing == life = "closing" /\ Close
Fairness ==
  /\ WF_vars(WriteReturn) /\ WF_vars(MetaWrite) /\ WF_vars(UpdateWait) /\ WF_vars(UpdateDrain)
  /\ WF_vars(Closing)
  /\ \A g \in Gens : WF_vars(HandleProto(g)) /\ SF_vars(HandleEvent(g)) /\ WF_vars(Sender(g))
                     /\ WF_vars(WriterQuit(g)) /\ WF_vars(WorkerQuit(g))

Spec == Init /\ [][Next]_vars /\ Fairness

-----------------------------------------------------------------------------

\* What an open output took in reaches the remote unless the output gave it up: nothing
\* stays behind in a buffer no writer reads, whatever Update came between.
Through(s) == s <= nxt => s \in ended \/ life # "open"
Delivered == \A s \in 1 .. MaxSeries : []<>Through(s)
=============================================================================
