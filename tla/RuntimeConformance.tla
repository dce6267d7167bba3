------------------------- MODULE RuntimeConformance -------------------------
(***************************************************************************)
(* The runtime ABI runner (runtimeconformance) and the stand-in Worker     *)
(* runtime it is tried on (fakeruntime).  The runner plays the checks of a *)
(* corpus, one after the other, several times against the same deployment, *)
(* while the tasks a response leaves behind, the deliveries of the queue   *)
(* and the cron attachment run beside it.  Time is counted in ticks; what  *)
(* is due happens within Lag ticks, at any of them.                        *)
(*                                                                         *)
(* A module's bytes are what is derived from them: its exports (<<>> when  *)
(* no default export can be read), the identity it binds and the strings   *)
(* it contains.  A global is its place in the alphabet, a nonce template   *)
(* the sequence of its parts, and a number of ticks that is 0 is absent.   *)
(***************************************************************************)
EXTENDS Integers, FiniteSets, SequencesExt

CONSTANTS
  Contracts,  \* the corpora by name
  Subjects,   \* what is measured: by which corpus, is there a loader, its defects in each run
  Lag         \* ticks by which anything that is due may be late

VARIABLES
  runtime,    \* the deployed worker
  runner,     \* the run, its check and stage, what it has seen and reported
  stream,     \* the body that is being streamed
  clock

runtimeVars == <<runtime, runner, stream, clock>>

HandlerVocabulary == {"fetch", "scheduled", "queue"}
LoadableMediaTypes == {"javascript", "wasm", "text", "bytes"}
ProvidedGlobals == {1, 2, 3}
Placeholder == "{run}"
QueueDelay == 1
CronPeriod == 3
Epoch == 2 * CronPeriod   \* when a run starts

----------------------------------------------------------------------------
\* The loader

MainModules(bundle) == {m \in ToSet(bundle.modules) : m.name = bundle.main}
Main(bundle) == CHOOSE m \in MainModules(bundle) : TRUE

Loaded(exports) == [error |-> "", exports |-> exports]
LoadError(code) == [error |-> code, exports |-> {}]

LoadModule(bundle, declared) ==
  IF \E m \in ToSet(bundle.modules) : m.media \notin LoadableMediaTypes
  THEN LoadError("unsupported_media_type")
  ELSE IF MainModules(bundle) = {} THEN LoadError("module_not_found")
  ELSE IF Main(bundle).exports = <<>> THEN LoadError("module_syntax_error")
  ELSE IF ~ declared \subseteq Main(bundle).exports[1] THEN LoadError("handler_not_exported")
  ELSE Loaded(Main(bundle).exports[1] \cap HandlerVocabulary)

----------------------------------------------------------------------------
\* The deployment a corpus describes

ExternalServiceProjectedNames(name, protocol) ==
  IF protocol = "s3-compatible"
  THEN <<name \o "_ENDPOINT", name \o "_REGION", name \o "_BUCKET",
         name \o "_ACCESS_KEY_ID", name \o "_SECRET_ACCESS_KEY">>
  ELSE <<name \o "_URL">>

\* The four sources share one namespace.
ProjectedNames(d) ==
  d.vars \o d.sensitive \o [i \in DOMAIN d.bindings |-> d.bindings[i].name]
    \o FlattenSeq([i \in DOMAIN d.services |->
                     ExternalServiceProjectedNames(d.services[i].name, d.services[i].protocol)])

Collides(d) == ~ IsInjective(ProjectedNames(d))

BindingOf(d, name) == {b \in ToSet(d.bindings) : b.name = name}

\* fakeruntime.New refuses what the ABI forbids.
Deployable(bundle, declared) ==
  /\ MainModules(bundle) # {}
  /\ Main(bundle).exports # <<>>
  /\ declared \cup {"fetch"} \subseteq Main(bundle).exports[1]

NewRefuses(c) ==
  LET d == c.deployment
  IN  \/ Collides(d)
      \/ ~ Deployable(c.bundles[d.bundle], d.declared)
      \/ ~ Deployable(c.bundles[d.peer.bundle], d.peer.declared)

NewRuntime(c) ==
  LET d == c.deployment
      main == Main(c.bundles[d.bundle])
  IN  [identity |-> main.identity, exports |-> main.exports[1], env |-> ToSet(ProjectedNames(d)),
       queue |-> d.queue, cron |-> d.cron,
       peer |-> Main(c.bundles[d.peer.bundle]).identity,
       kv |-> <<>>, tasks |-> {}, accepted |-> 0, fires |-> Epoch + CronPeriod, closed |-> FALSE]

----------------------------------------------------------------------------
\* What the corpus is held to before it is run

ValidateGlobalsFloor(floor) ==
  /\ floor # <<>>
  /\ \A i \in 2 .. Len(floor) : floor[i - 1] < floor[i]

\* A bundle's stated outcome is the one its bytes produce.
ValidateBundles(c) ==
  \A name \in DOMAIN c.bundles :
    LET b == c.bundles[name]
        load == LoadModule(b, {})
    IN  /\ b.modules # <<>>
        /\ (b.error = "") = (b.exported # <<>>)
        /\ load.error = b.error
        /\ b.error = "" => load.exports = b.exported[1]

\* The identity is in the peer's bytes and in no others.
ValidatePeerIdentity(c) ==
  LET peer == c.deployment.peer
  IN  /\ peer.identity # ""
      /\ MainModules(c.bundles[peer.bundle]) # {}
      /\ Main(c.bundles[peer.bundle]).identity = peer.identity
      /\ \A name \in DOMAIN c.bundles \ {peer.bundle} :
           \A m \in ToSet(c.bundles[name].modules) : peer.identity \notin m.strings

ValidatePeer(c) ==
  LET peer == c.deployment.peer
  IN  /\ peer.bundle \in DOMAIN c.bundles
      /\ peer.declared # {}
      /\ c.bundles[peer.bundle].exported # <<>>
      /\ peer.declared \cup {"fetch"} \subseteq c.bundles[peer.bundle].exported[1]
      /\ ValidatePeerIdentity(c)

RequiredBindings == {<<"CACHE", "edge.kv">>, <<"EVENTS", "edge.queue">>, <<"PEER", "worker.service">>}

ValidateDeployment(c) ==
  LET d == c.deployment
  IN  /\ {d.bundle, d.peer.bundle} \subseteq DOMAIN c.bundles
      /\ ~ Collides(d)
      /\ ToSet(ProjectedNames(d)) = d.env
      /\ d.declared \subseteq HandlerVocabulary
      /\ d.declared \subseteq UNION ToSet(c.bundles[d.bundle].exported)
      /\ \A r \in RequiredBindings : \E b \in BindingOf(d, r[1]) : b.interface = r[2]
      /\ d.cron # "" /\ d.queue # ""
      /\ ValidatePeer(c)

\* A nonce is a run's own when its template names the run, once.
ValidateNonceTemplate(check) ==
  Cardinality({i \in DOMAIN check.template : check.template[i] = Placeholder}) = 1

ValidateLoadCheck(c, check) ==
  /\ check.bundle \in DOMAIN c.bundles
  /\ (check.error = "") = (check.exported # <<>>)
  /\ LET load == LoadModule(c.bundles[check.bundle], check.declared)
     IN  load.error = check.error /\ (check.error = "" => load.exports = check.exported[1])

Polls(check) == check.deadline > 0 /\ check.poll > 0

ValidateCheckShape(c, check) ==
  CASE check.procedure = "load" -> ValidateLoadCheck(c, check)
    [] check.procedure = "request" -> check.status # 0
    [] check.procedure \in {"environment", "globals"} -> check.status # 0 /\ check.document = ""
    [] check.procedure \in {"kvRoundTrip", "queueRoundTrip"} ->
         Polls(check) /\ ValidateNonceTemplate(check) /\ check.bytes # ""
    [] check.procedure = "requestStream" -> Len(check.sizes) >= 2 /\ check.gap > 0 /\ check.deadline > 0
    [] check.procedure = "responseStream" -> check.chunks >= 2 /\ check.gap > 0 /\ check.deadline > 0
    [] check.procedure = "waitUntil" -> Polls(check) /\ check.delay > 0 /\ ValidateNonceTemplate(check)
    [] check.procedure = "scheduledObservation" -> Polls(check)
    [] check.procedure = "unmeasured" -> TRUE

ServiceBindingChecks == {"service request streams", "service response streams"}

\* A check that measures the service binding names it, and only such a check.
ValidateServiceBindingChecks(c) ==
  LET marked == {check \in ToSet(c.checks) : check.through # ""}
  IN  /\ \A check \in marked :
           /\ \E b \in BindingOf(c.deployment, check.through) : b.interface = "worker.service"
           /\ check.procedure \in {"requestStream", "responseStream"}
      /\ {check.name : check \in marked} = ServiceBindingChecks

ValidateEveryDeclaredHandlerIsMeasured(c) ==
  HandlerVocabulary \subseteq {check.operation : check \in {k \in ToSet(c.checks) : k.procedure # "unmeasured"}}

RequiredChecks ==
  <<"exports derived", "media type refused", "main missing refused", "unparseable refused",
    "unexported handler refused", "fetch arguments", "fetch answers", "throw is answered",
    "environment", "globals", "kv round trip", "request streams", "response streams",
    "service request streams", "service response streams", "wait until", "scheduled", "queue round trip">>

Correlated(check) == check.template # <<>>

ValidateChecks(c) ==
  /\ [i \in DOMAIN c.checks |-> c.checks[i].name] = RequiredChecks
  /\ \A i \in DOMAIN c.checks : ValidateCheckShape(c, c.checks[i])
  /\ \A i, j \in DOMAIN c.checks :
       i # j /\ Correlated(c.checks[i]) => c.checks[i].template # c.checks[j].template
  /\ ValidateServiceBindingChecks(c)
  /\ ValidateEveryDeclaredHandlerIsMeasured(c)

ValidateContract(c) ==
  /\ ValidateGlobalsFloor(c.floor)
  /\ ValidateBundles(c)
  /\ ValidateDeployment(c)
  /\ ValidateChecks(c)

----------------------------------------------------------------------------
\* The worker's routes.  The peer's module serves the two streams alone.

KvPut(r, key, value) == [r EXCEPT !.kv = (key :> value) @@ @]

\* Work the isolate stays alive for
HoldIsolate(r, task) == IF r.closed THEN r ELSE [r EXCEPT !.tasks = @ \cup {task}]

Probe(r) == r.identity = ""
Holds(r, key) == Probe(r) /\ key \in DOMAIN r.kv

ScheduledLast == <<"scheduled:last">>

InvokeFetch(r, route) ==
  CASE ~ Probe(r) -> [status |-> 404, document |-> "unknown peer route"]
    [] Probe(r) /\ route = "handler" -> [status |-> 200, document |-> "three arguments"]
    [] Probe(r) /\ route = "health" -> [status |-> 200, document |-> "healthy"]
    [] Probe(r) /\ route = "throw" -> [status |-> 500, document |-> "threw"]

\* A rejecting task, and one that leaves a marker after the response
ServeWaitUntil(r, nonce, delay) ==
  LET rejecting == [kind |-> "reject", due |-> clock, nonce |-> nonce, bytes |-> "", id |-> 0]
      settling == [rejecting EXCEPT !.kind = "settle", !.due = clock + delay]
  IN  HoldIsolate(HoldIsolate(r, rejecting), settling)

\* The producer binding takes a message when something consumes the queue.
Consumes(r) == "queue" \in r.exports /\ r.queue # ""

AcceptQueueMessage(r, nonce, bytes) ==
  LET counted == [r EXCEPT !.accepted = @ + 1]
  IN  HoldIsolate(counted, [kind |-> "message", due |-> clock + QueueDelay, nonce |-> nonce,
                            bytes |-> bytes, id |-> counted.accepted])

\* What a task does when it runs
Ran(r, t) ==
  CASE t.kind = "reject" -> r
    [] t.kind = "settle" -> KvPut(r, <<"wait-until", t.nonce>>, [after |-> TRUE, nonce |-> t.nonce])
    [] t.kind = "message" ->
         KvPut(r, <<"queue", t.nonce>>,
               [queue |-> r.queue, attempts |-> 1, id |-> t.id, bytes |-> t.bytes, nonce |-> t.nonce])

\* The callee of a stream: the worker itself, or the peer behind the binding
Callee(r, route, defects) ==
  IF route \in {"service-echo-stream", "service-stream"} /\ "short circuit" \notin defects THEN r.peer ELSE r.identity

NoStream ==
  [kind |-> "none", callee |-> "", unread |-> 0, reads |-> 0, left |-> 0, gap |-> 0, due |-> 0,
   declared |-> -1, lines |-> <<>>]

EchoRequestStream(callee, defects) ==
  [NoStream EXCEPT !.kind = IF "buffers requests" \in defects THEN "none" ELSE "echo", !.callee = callee]

StreamResponse(callee, chunks, gap, defects) ==
  [NoStream EXCEPT !.kind = IF "buffers responses" \in defects THEN "whole" ELSE "chunks",
                   !.callee = callee, !.left = chunks, !.gap = gap,
                   !.due = IF "buffers responses" \in defects THEN clock + (chunks - 1) * gap ELSE clock,
                   !.declared = CASE "buffers responses" \in defects -> chunks
                                  [] "invents a length" \in defects -> chunks + 1
                                  [] OTHER -> -1]

Line(read, bytes, peer) == [read |-> read, bytes |-> bytes, peer |-> peer, at |-> clock]

----------------------------------------------------------------------------
\* What goes on beside the runner

Corpus == Contracts[runner.subject.corpus]
Current == Corpus.checks[runner.check]
Defects == runner.subject.defects[runner.run]

RunTask ==
  /\ \E t \in runtime.tasks :
       /\ t.due <= clock
       /\ runtime' = [Ran(runtime, t) EXCEPT !.tasks = @ \ {t}]
  /\ UNCHANGED <<runner, stream, clock>>

Attached(r) == "scheduled" \in r.exports /\ r.cron # "" /\ ~ r.closed

InvokeScheduled ==
  /\ Attached(runtime)
  /\ runtime.fires <= clock
  /\ runtime' = [KvPut(runtime, ScheduledLast, [cron |-> runtime.cron, time |-> runtime.fires])
                   EXCEPT !.fires = @ + CronPeriod]
  /\ UNCHANGED <<runner, stream, clock>>

\* A runtime that stalls gets no further than its first read, or than one of its
\* writes: after the last one, it does not end the body.
Onward(kind) == IF "stalls" \in Defects THEN "none" ELSE kind
AfterWrite(s) ==
  CASE "stalls" \notin Defects -> {s.kind}
    [] "stalls" \in Defects /\ s.left > 1 -> {s.kind, "none"}
    [] "stalls" \in Defects /\ s.left <= 1 -> {"none"}

\* One read of the request body, of as much of it as there is or less
EchoRead ==
  /\ stream.kind = "echo"
  /\ \E n \in 1 .. stream.unread :
       stream' = [stream EXCEPT !.unread = @ - n, !.reads = @ + 1, !.kind = Onward(@),
                                !.lines = Append(@, Line(stream.reads + 1, n, stream.callee))]
  /\ UNCHANGED <<runtime, runner, clock>>

WriteChunk ==
  /\ stream.kind = "chunks" /\ stream.left > 0
  /\ stream.due <= clock
  /\ \E kind \in AfterWrite(stream) :
       stream' = [stream EXCEPT !.left = @ - 1, !.due = clock + stream.gap, !.kind = kind,
                                !.lines = Append(@, Line(0, 0, stream.callee))]
  /\ UNCHANGED <<runtime, runner, clock>>

\* A host that buffers delivers the body at once.
WriteWhole ==
  /\ stream.kind = "whole" /\ stream.left > 0
  /\ stream.due <= clock
  /\ stream' = [stream EXCEPT !.left = 0, !.lines = [i \in 1 .. stream.left |-> Line(0, 0, stream.callee)]]
  /\ UNCHANGED <<runtime, runner, clock>>

----------------------------------------------------------------------------
\* The runner

Fresh == [baseline |-> 0, reads |-> 0, accounted |-> 0, arrivals |-> <<>>]

\* A token for each run: what a run sends and what it looks for carry it.
RunToken(run) == ToString(run)
Correlate(check, run) ==
  [i \in DOMAIN check.template |-> IF check.template[i] = Placeholder THEN RunToken(run) ELSE check.template[i]]
Nonce == Correlate(Current, runner.run)

Having(verdicts, outcome) == {name \in DOMAIN verdicts : verdicts[name] = outcome}

Report(verdicts) ==
  [checks |-> verdicts,
   status |-> IF Having(verdicts, "failed") = {} THEN "passed" ELSE "failed",
   completeness |-> IF Having(verdicts, "unmeasured") = {} THEN "complete" ELSE "partial"]

\* A failed check does not end the run.
Concluded(outcome) ==
  LET told == (Current.name :> outcome) @@ runner.verdicts
      next == [runner EXCEPT !.stage = "begin", !.wake = clock, !.deadline = 0, !.seen = Fresh]
  IN  IF runner.check < Len(Corpus.checks) THEN [next EXCEPT !.check = @ + 1, !.verdicts = told]
      ELSE [next EXCEPT !.stage = "idle", !.reports = Append(@, Report(told)), !.verdicts = <<>>]

Evidenced(met) == Concluded(IF met THEN "passed" ELSE "failed")

Turned(stage, wake) == [runner EXCEPT !.stage = stage, !.wake = wake]
Waiting(stage) == [Turned(stage, clock) EXCEPT !.deadline = clock + Current.deadline]

\* One turn of a poll: the observation decides, or the deadline, or it sleeps.
Polled(there, met) ==
  IF there THEN Evidenced(met)
  ELSE IF clock > runner.deadline THEN Evidenced(FALSE)
  ELSE Turned("poll", clock + Current.poll)

At(procedure, stage) ==
  /\ runner.stage = stage
  /\ Current.procedure = procedure
  /\ runner.wake <= clock

OnlyRunner == UNCHANGED <<runtime, stream, clock>>

\* The instants of the deployment, with the clock set back
Since(r) ==
  [r EXCEPT !.fires = @ - clock + Epoch,
            !.tasks = {[t EXCEPT !.due = @ - clock + Epoch] : t \in @},
            !.kv = [k \in DOMAIN @ |-> IF k = ScheduledLast THEN [@[k] EXCEPT !.time = @ - clock + Epoch] ELSE @[k]]]

\* The corpus is verified before anything is sent.
RunEndpoint ==
  /\ runner.stage = "idle"
  /\ runner.run < Len(runner.subject.defects)
  /\ runner' = IF ValidateContract(Corpus)
               THEN [runner EXCEPT !.stage = "begin", !.wake = Epoch, !.run = @ + 1, !.check = 1]
               ELSE Turned("refused", clock)
  /\ runtime' = Since(runtime)
  /\ clock' = Epoch
  /\ UNCHANGED stream

RunLoad ==
  /\ At("load", "begin")
  /\ runner' = IF ~ runner.subject.loader THEN Concluded("unmeasured")
               ELSE LET load == LoadModule(Corpus.bundles[Current.bundle], Current.declared)
                    IN  Evidenced(IF Current.error # "" THEN load.error = Current.error
                               ELSE load.error = "" /\ load.exports = Current.exported[1])
  /\ OnlyRunner

RunUnmeasured ==
  /\ At("unmeasured", "begin")
  /\ runner' = Concluded("unmeasured")
  /\ OnlyRunner

RunRequest ==
  /\ At("request", "begin")
  /\ LET answer == InvokeFetch(runtime, Current.route)
     IN  runner' = Evidenced(answer.status = Current.status
                            /\ Current.document \in {"", answer.document})
  /\ OnlyRunner

RunEnvironment ==
  /\ At("environment", "begin")
  /\ runner' = Evidenced(Probe(runtime) /\ runtime.env = Corpus.deployment.env)
  /\ OnlyRunner

\* The probe answers about the names it is sent, in sorted order.
ReportGlobals(names) == SetToSortSeq(ToSet(names) \cap ProvidedGlobals, <)

RunGlobals ==
  /\ At("globals", "begin")
  /\ runner' = Evidenced(Probe(runtime) /\ ReportGlobals(Corpus.floor) = Corpus.floor)
  /\ OnlyRunner

\* kvRoundTrip

KvKey == <<"runtime-abi", Nonce>>

RunKVRoundTrip ==
  /\ At("kvRoundTrip", "begin")
  /\ runtime' = IF Probe(runtime) /\ "drops writes" \notin Defects THEN KvPut(runtime, KvKey, Current.bytes) ELSE runtime
  /\ runner' = IF Probe(runtime) THEN Waiting("poll") ELSE Evidenced(FALSE)
  /\ UNCHANGED <<stream, clock>>

PollKV ==
  /\ At("kvRoundTrip", "poll")
  /\ runner' = LET there == Holds(runtime, KvKey)
               IN  Polled(there, there /\ runtime.kv[KvKey] = Current.bytes)
  /\ OnlyRunner

\* waitUntil: the response is read before the task has settled, and the task
\* settles all the same.

SettledKey == <<"wait-until", Nonce>>

RunWaitUntil ==
  /\ At("waitUntil", "begin")
  /\ runtime' = IF Probe(runtime) THEN ServeWaitUntil(runtime, Nonce, Current.delay) ELSE runtime
  /\ runner' = IF Probe(runtime) THEN Turned("immediate", clock) ELSE Evidenced(FALSE)
  /\ UNCHANGED <<stream, clock>>

ReadImmediately ==
  /\ At("waitUntil", "immediate")
  /\ runner' = IF Holds(runtime, SettledKey) THEN Evidenced(FALSE) ELSE Waiting("poll")
  /\ OnlyRunner

PollWaitUntil ==
  /\ At("waitUntil", "poll")
  /\ runner' = LET there == Holds(runtime, SettledKey)
               IN  Polled(there, there /\ runtime.kv[SettledKey] = [after |-> TRUE, nonce |-> Nonce])
  /\ OnlyRunner

\* scheduledObservation: only an invocation after the one last seen counts.

ScheduledTime == IF Holds(runtime, ScheduledLast) THEN runtime.kv[ScheduledLast].time ELSE 0

RunScheduledObservation ==
  /\ At("scheduledObservation", "begin")
  /\ runner' = [Turned("clear", clock) EXCEPT !.seen.baseline = ScheduledTime]
  /\ OnlyRunner

ClearScheduled ==
  /\ At("scheduledObservation", "clear")
  /\ runtime' = [runtime EXCEPT !.kv = IF Probe(runtime) THEN Restrict(@, DOMAIN @ \ {ScheduledLast}) ELSE @]
  /\ runner' = Waiting("poll")
  /\ UNCHANGED <<stream, clock>>

PollScheduled ==
  /\ At("scheduledObservation", "poll")
  /\ runner' = LET later == Holds(runtime, ScheduledLast) /\ ScheduledTime > runner.seen.baseline
               IN  Polled(later, later /\ runtime.kv[ScheduledLast].cron = Corpus.deployment.cron)
  /\ OnlyRunner

\* queueRoundTrip

DeliveredKey == <<"queue", Nonce>>

RunQueueRoundTrip ==
  /\ At("queueRoundTrip", "begin")
  /\ LET sent == Probe(runtime) /\ Consumes(runtime)
     IN  /\ runtime' = IF sent /\ "drops messages" \notin Defects
                       THEN AcceptQueueMessage(runtime, Nonce, Current.bytes) ELSE runtime
         /\ runner' = IF sent THEN Waiting("poll") ELSE Evidenced(FALSE)
  /\ UNCHANGED <<stream, clock>>

Delivery(batch) ==
  /\ batch.nonce = Nonce
  /\ batch.bytes = Current.bytes
  /\ batch.queue = Corpus.deployment.queue
  /\ batch.attempts = 1
  /\ batch.id # 0

PollQueue ==
  /\ At("queueRoundTrip", "poll")
  /\ runner' = LET there == Holds(runtime, DeliveredKey)
               IN  Polled(there, there /\ Delivery(runtime.kv[DeliveredKey]))
  /\ OnlyRunner

----------------------------------------------------------------------------
\* Streams.  A line in hand comes before the end of the stream and before the
\* deadline.

CalleeIdentity == IF Current.through = "" THEN "" ELSE Corpus.deployment.peer.identity
VerifyCalleeIdentity(line) == CalleeIdentity \in {"", line.peer}

Ended == stream.kind # "none" /\ stream.left = 0
Listening ==
  runner.stage \in {"head", "first", "second", "chunks"} \/ (runner.stage = "end" /\ ~Ended)
TimedOut == stream.lines = <<>> /\ clock > runner.deadline

\* The runner leaves the body it was reading.
Leaves(met) == runner' = Evidenced(met) /\ stream' = NoStream

\* requestStream: the second chunk is written once the first is answered for.

Written(s, bytes) == [s EXCEPT !.unread = bytes, !.due = clock]

RunRequestStream ==
  /\ At("requestStream", "begin")
  /\ stream' = Written(EchoRequestStream(Callee(runtime, Current.route, Defects), Defects), Current.sizes[1])
  /\ runner' = Waiting("head")
  /\ UNCHANGED <<runtime, clock>>

\* The head comes with the first line that is flushed.
AwaitResponse ==
  /\ At("requestStream", "head")
  /\ \/ /\ stream.lines # <<>>
        /\ runner' = Waiting("first")
        /\ UNCHANGED stream
     \/ TimedOut /\ Leaves(FALSE)
  /\ UNCHANGED <<runtime, clock>>

\* A line may answer for any part of what was sent, in order, and for no more.
Accounts(line, sent) ==
  /\ VerifyCalleeIdentity(line)
  /\ line.read = runner.seen.reads + 1
  /\ line.bytes > 0
  /\ runner.seen.accounted + line.bytes <= sent

Counted(line) ==
  [Waiting(runner.stage) EXCEPT !.seen.reads = @ + 1, !.seen.accounted = @ + line.bytes]

\* The chunk is answered for whole.
FirstAnswered ==
  /\ runner' = [Turned("gap", clock + Current.gap) EXCEPT !.seen.reads = @ + 1, !.seen.accounted = 0]
  /\ stream' = [stream EXCEPT !.lines = Tail(@)]

SecondAnswered == Leaves(TRUE)

AwaitChunkAccounted(stage, sent) ==
  /\ At("requestStream", stage)
  /\ \/ /\ stream.lines # <<>>
        /\ LET line == Head(stream.lines)
           IN  IF ~ Accounts(line, sent) THEN Leaves(FALSE)
               ELSE IF runner.seen.accounted + line.bytes < sent
               THEN runner' = Counted(line) /\ stream' = [stream EXCEPT !.lines = Tail(@)]
               ELSE IF stage = "first" THEN FirstAnswered ELSE SecondAnswered
     \/ TimedOut /\ Leaves(FALSE)
  /\ UNCHANGED <<runtime, clock>>

AwaitFirstChunk == AwaitChunkAccounted("first", Current.sizes[1])

WriteSecondChunk ==
  /\ At("requestStream", "gap")
  /\ stream' = Written(stream, Current.sizes[2])
  /\ runner' = Waiting("second")
  /\ UNCHANGED <<runtime, clock>>

AwaitSecondChunk == AwaitChunkAccounted("second", Current.sizes[2])

\* responseStream: the chunks arrive apart, and the head's length is kept.

RunResponseStream ==
  /\ At("responseStream", "begin")
  /\ stream' = StreamResponse(Callee(runtime, Current.route, Defects), Current.chunks, Current.gap, Defects)
  /\ runner' = Waiting("chunks")
  /\ UNCHANGED <<runtime, clock>>

\* Half the module's own gap
Apart(arrivals) == \A i \in 2 .. Len(arrivals) : 2 * (arrivals[i] - arrivals[i - 1]) >= Current.gap

ReadChunk ==
  /\ At("responseStream", "chunks")
  /\ \/ /\ stream.lines # <<>>
        /\ LET arrivals == Append(runner.seen.arrivals, clock)
               next == IF Len(arrivals) < Current.chunks THEN "chunks" ELSE "end"
           IN  IF VerifyCalleeIdentity(Head(stream.lines)) /\ (next = "end" => Apart(arrivals))
               THEN /\ runner' = [Waiting(next) EXCEPT !.seen.arrivals = arrivals]
                    /\ stream' = [stream EXCEPT !.lines = Tail(@)]
               ELSE Leaves(FALSE)
     \/ TimedOut /\ Leaves(FALSE)
  /\ UNCHANGED <<runtime, clock>>

\* awaitEnd has a deadline of its own.
VerifyDeclaredLength ==
  /\ At("responseStream", "end")
  /\ \/ Ended /\ Leaves(stream.declared \in {-1, Current.chunks})
     \/ ~Ended /\ TimedOut /\ Leaves(FALSE)
  /\ UNCHANGED <<runtime, clock>>

----------------------------------------------------------------------------
\* Time, and the end

InTime(due) == clock < due + Lag

Tick ==
  /\ runner.stage \notin {"begin", "idle", "refused", "reclaimed"}
  /\ \A t \in runtime.tasks : InTime(t.due)
  /\ Attached(runtime) => InTime(runtime.fires)
  /\ stream.kind # "none" /\ stream.unread + stream.left > 0 => InTime(stream.due)
  /\ stream.lines # <<>> => InTime(Head(stream.lines).at)
  /\ IF Listening THEN clock <= runner.deadline ELSE InTime(runner.wake)
  /\ clock' = clock + 1
  /\ UNCHANGED <<runtime, runner, stream>>

\* The runtime is closed after the last run, or after one whose context ends
\* while it sleeps between two polls.  Close lets what was registered settle
\* before the isolate is reclaimed.
Close ==
  /\ \/ runner.stage = "idle" /\ runner.run = Len(runner.subject.defects)
     \/ runner.stage = "poll" /\ clock < runner.wake
  /\ runtime' = [runtime EXCEPT !.closed = TRUE]
  /\ runner' = Turned("closing", clock + CronPeriod)
  /\ UNCHANGED <<stream, clock>>

Reclaim ==
  /\ runner.stage = "closing"
  /\ runtime.tasks = {}
  /\ runner' = Turned("reclaimed", clock)
  /\ OnlyRunner

----------------------------------------------------------------------------
Measurement(measured) ==
  [subject |-> measured, run |-> 0, check |-> 1, stage |-> "idle", wake |-> 0,
   deadline |-> 0, seen |-> Fresh, verdicts |-> <<>>, reports |-> <<>>]

\* A deployment that New refuses is never measured.
MeasurementBegins ==
  /\ \E measured \in Subjects :
       /\ ~ NewRefuses(Contracts[measured.corpus])
       /\ runner = Measurement(measured)
       /\ runtime = NewRuntime(Contracts[measured.corpus])
  /\ stream = NoStream
  /\ clock = Epoch

NothingMeasured ==
  /\ runner = [stage |-> "none", reports |-> <<>>]
  /\ runtime = <<>>
  /\ stream = NoStream
  /\ clock = Epoch

Beside == RunTask \/ InvokeScheduled \/ EchoRead \/ WriteChunk \/ WriteWhole \/ Tick

RunCheck ==
  \/ RunLoad \/ RunUnmeasured \/ RunRequest \/ RunEnvironment \/ RunGlobals
  \/ RunKVRoundTrip \/ PollKV
  \/ RunWaitUntil \/ ReadImmediately \/ PollWaitUntil
  \/ RunScheduledObservation \/ ClearScheduled \/ PollScheduled
  \/ RunQueueRoundTrip \/ PollQueue
  \/ RunRequestStream \/ AwaitResponse \/ AwaitFirstChunk \/ WriteSecondChunk \/ AwaitSecondChunk
  \/ RunResponseStream \/ ReadChunk \/ VerifyDeclaredLength

Measure == RunEndpoint \/ RunCheck \/ Beside \/ Close \/ Reclaim

----------------------------------------------------------------------------
\* The checks that a defect of a runtime must fail
ByProcedure(procedure) == {check.name : check \in {k \in ToSet(Corpus.checks) : k.procedure = procedure}}
Caught(defect) ==
  CASE defect = "short circuit" -> ServiceBindingChecks
    [] defect = "drops writes" -> ByProcedure("kvRoundTrip")
    [] defect = "drops messages" -> ByProcedure("queueRoundTrip")
    [] defect = "stalls" -> ByProcedure("requestStream") \cup ByProcedure("responseStream")
    [] defect = "buffers requests" -> ByProcedure("requestStream")
    [] defect \in {"buffers responses", "invents a length"} -> ByProcedure("responseStream")

\* Every report tells the truth about the runtime it measured: a check fails in
\* a run exactly when the runtime shows in that run the defect the check is
\* there to catch, whatever earlier runs against the deployment left behind and
\* however its tasks, deliveries and cron invocations interleave with the
\* requests.  What it leaves unmeasured is what the corpus does not measure and,
\* without a loader, the load lane; a passed report is of a run without defects,
\* a complete one of a run that left nothing out.
VerdictsAreTrue ==
  \A i \in DOMAIN runner.reports :
    LET report == runner.reports[i]
        defects == runner.subject.defects[i]
        skipped == ByProcedure("unmeasured") \cup (IF runner.subject.loader THEN {} ELSE ByProcedure("load"))
    IN  /\ Having(report.checks, "failed") = UNION {Caught(defect) : defect \in defects}
        /\ Having(report.checks, "unmeasured") = skipped
        /\ report.status = "passed" <=> defects = {}
        /\ report.completeness = "complete" <=> skipped = {}

\* Close loses nothing that was accepted: when the isolate is reclaimed, every
\* task that a run deferred and every message it got accepted has left its mark
\* in the store, even when the run was cut short right after it was answered.
AcceptedWorkSettles ==
  runner.stage = "reclaimed" =>
    \A i \in 1 .. runner.run, j \in DOMAIN Corpus.checks :
      LET check == Corpus.checks[j]
      IN  i < runner.run \/ j <= runner.check =>
            /\ check.procedure = "waitUntil" => Holds(runtime, <<"wait-until", Correlate(check, i)>>)
            /\ check.procedure = "queueRoundTrip" /\ "drops messages" \notin runner.subject.defects[i]
                 => Holds(runtime, <<"queue", Correlate(check, i)>>)
=============================================================================
