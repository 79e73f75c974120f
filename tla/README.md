# muse-codex in TLA+

muse-codex runs the closed-source coding agent *Muse* against a provider it was
not made for. A launcher (`muse-codex`) starts a private loopback HTTP server
(`muse-codex-gateway`), seeds an isolated profile, and starts stock Muse pointed at
that server; the gateway turns Muse's Responses requests into requests to the Codex
backend, to an OpenAI-compatible endpoint or to Z.ai, and gives back a validated
event stream. This directory holds TLA+ models of the parts of that program where
order, failure and concurrency decide correctness, the TLC configurations that check
them, and proofs checked by TLAPS. Line numbers refer to the Rust sources under
`src/crates`.

## 1. The system

| Component | State it keeps | Operations | Hard because |
|---|---|---|---|
| SSE validator (`gateway/sse.rs`) | byte buffer, pending frames, `finished`, response id, model, last sequence number | poll: scan, inspect, forward, drop, replace, fail; idle timer; drop by the client | chunks cut frames anywhere; the body fails, ends or falls silent at any point; stock Muse retries a stream that ends without a terminal event |
| Frame scanners (`sse.rs`, `zai/stream.rs`) | an index | find the first blank line over LF, CR and CR LF | a CR at the end of the buffer is undecided |
| MSP relay (`muse-codex/msp.rs`) | pending-request map, locked stdout, stop flag | input thread, output thread, join at shutdown | two threads and two processes; reused ids, host death, a stdin that stays open |
| Gateway lifecycle (`gateway/main.rs`, `server.rs`) | readiness and error file, listener, watchdog thread | set up, load catalog, bind, publish, serve, shut down, watch the parent | the main thread may block; the parent may be killed; files are polled while written |
| Launcher supervision (`muse-codex/lib.rs`) | child processes, temporary directory, signal forwarder | spawn, poll, seed, spawn Muse, wait, tear down | either child may die at any moment; signals arrive at any moment |
| Gateway handlers (`server.rs`, `backend.rs`) | one task per request | authorize, parse, dispatch, proxy, inspect a failure | an error body may be long, slow, silent or cut |
| Transport recovery (`transport.rs`, the pinned `AuthManager`) | cached credential, per-process permit, lock file, credential store, retry counters | retry, reload, refresh, persist | refresh tokens can be spent once; several processes share one store; clients and processes go away in between |
| Request checks and normalization (`transport.rs`) | capability table | validate, rewrite the request | a history that grows with every turn must stay acceptable; aliases of tools |
| Model catalog (`transport.rs`) | - | normalize the provider's list | pure conversion |
| Z.ai translation (`zai/request.rs`) | tool-name table | translate a Responses request to chat | names that collide, history shapes |
| Z.ai synthesizer (`zai/stream.rs`) | identifiers, open items, tool calls, output, sequence | turn chat chunks into Responses events | interleaved text, reasoning and parallel calls; fragments named late; errors and `[DONE]` anywhere |
| Profile seeding (`lib.rs`) | private directories, `settings.json`, seeded catalog | create, read, change, stage, replace | concurrent launches and a running Muse share the files; a launch may be killed anywhere |
| Command line (`lib.rs`) | - | classify, select provider and upstream, take out the wrapper's options, rewrite for Muse | several passes over one line, each with its own idea of what is a value |
| Login, keyring, binary discovery, scripts | - | sequential | external services, no shared state |

How they interact: the launcher and the gateway share two files and each other's
process state; Muse calls the gateway over HTTP; the gateway's `/responses` handler
calls the backend, whose Codex transport goes through the credential recovery and
whose Z.ai transport goes through the synthesizer; both streams pass through the
validator; `serve` puts the MSP relay between an editor and stock Muse. Muse keeps the
history of a session and sends all of it with every request, so what one answer put in
the history is translated again in every later turn. Launches of one provider share a
profile directory, where the endpoint that `serve` and later commands use is written.

## 2. Modules

| Module | Models | Composition |
|---|---|---|
| `TerminalStream` | abstract: events, one terminal event, the end | implemented by `SseValidator`, `ZaiStream`, `GatewayRequest` |
| `FrameScan`, `FrameScanLoop` | the two scanners: closed form, and the loops | `FrameScan` is used by `SseValidator` |
| `ResponsesEvents` | what the validator accepts of an event | extended by `SseValidator`, instantiated by `ZaiStream` |
| `SseValidator` | `sse.rs` | |
| `ZaiStream` | `zai/stream.rs` | uses the table of `ToolNames`; checked against `ResponsesEvents` |
| `GatewayRequest` | `server.rs` handlers, `backend.rs`, the checks of `transport.rs` and `zai/mod.rs` | uses the promise of `SseValidator` and `ZaiStream` for a successful stream, of `CredentialRefresh` for a call that returns |
| `CredentialRefresh` | the retry and recovery loop of `transport.rs` and the `AuthManager` under it | |
| `GatewayLifecycle` | launcher supervision and gateway lifecycle | |
| `MspRelay` | `msp.rs` and the launcher's wait for a relayed host | |
| `ProviderIds` | identifiers the provider chooses, and the safe form the adapter gives them (`sanitize_identifier`) | extended by `ZaiStream` and `MuseSession` |
| `ToolNames` | names of tools in Muse's, the Responses and Z.ai's form, and the table that maps them back | extended by `ResponsesRequest` and `ZaiStream` |
| `ResponsesRequest` | `normalize_request` and the Responses Lite form (`transport.rs`) | extended by `ZaiRequest` |
| `ZaiRequest` | `translate` (`zai/request.rs`) | extended by `MuseSession` |
| `MuseSession` | a whole session: request, translation, answer, recorded history, the next request | composes both translations with Muse and the provider |
| `CommandLine` | the passes over argv: classification, provider, upstream, Fast, the rewriting | extended by `Launches` |
| `Launches` | launches that share a profile: directories, catalog, settings, the start of Muse | |
| `MC*` | instances for TLC | |
| `*Proofs` | theorems and their proofs | |

An operator named `X_Mutant` is a deliberately wrong form of `X`, kept next to it: put
in its place it violates the property its comment names, which shows that the property
depends on the code it is about.

### How state and actions correspond to the code

*SseValidator.* The variables are the fields of `State`. The wire is a sequence of
tokens, LF, CR or a whole line; line breaks are scanned for real, and what a line says
is given by the constant `Parse`, so every disposition of `inspect_frame` (keep, drop,
replace, refuse) occurs. One action per step of the poll function between two points
where it can be dropped. `wire` and `sent` are histories. `MaxWire` bounds the
bytes, but an empty chunk can be received for ever and stands for every upstream that keeps the
stream open (with comments, say), so that such a stream is a behaviour of the model.

*ZaiStream.* `state` is `struct State`; each method is an operator from state to state
under its own name; the actions are those of the poll function. Text and arguments are
sequences of fragments. Identifiers are sequences of characters, because the code
filters and truncates them (`ProviderIds`).

*GatewayRequest.* One request: the requests of a process share nothing except the
credential lock, which is `CredentialRefresh`'s. `phase` says where the handler awaits.
The retries are behind one action (the call fails, or gives its last response), and the
rewriting of the request is one Boolean of the request (`wellFormed`). `captured` counts
the bytes of an error body; above the limit it goes to and fro, so that a body that is
sent for ever is a sequence of real steps. A successful stream may likewise be sent for ever
(`StreamChunk`), break off (`StreamFails`) or fall silent (`Stall`); `MaxEvents` bounds only
the events that are counted.

*CredentialRefresh.* Generation *g* of the credential stands for an access token and
the refresh token issued with it. `stored` is the credential store, `cached` each
process's copy, `live` the generation the authority would still refresh. The two locks
are `flock` (the lock file) and `permit` (the manager's own). A request's program
counter stops at every await: a client or a process can go away at each. `flock(LOCK_EX)`
(`transport.rs:1695`) has no timeout: an error of it may happen at any time, but is not owed to
a waiter, who leaves only when the lock is given or its client goes.

*GatewayLifecycle.* Both processes, step by step, with what the kernel keeps: a process
that ended is a zombie until it is waited for, and `kill(pid, 0)` still finds it. Time
is a clock of a few ticks read by the two startup deadlines. A document appears whole, by a
rename; that the launcher cannot read one is an outcome of its own, at any moment
(`unreadable`). A gateway found dead at startup is still given `kill` and `wait` by
`GatewayProcess`'s path (`lib.rs:1496-1498`), on a child already waited for, which the standard
library makes no signal. The wait for Muse and the end of the forwarder are two steps.

*MspRelay.* A thread's step from taking a frame to having it adapted is one action (the
map is locked once in it) and writing it another. Frames are abstracted to id, method
class, provider field and envelope. The client and the host are external and modelled
from what the relay accepts; the host may also break the protocol once (`rogue`).

*MuseSession.* The adapter keeps no state between requests; the loop does. `history` is
what Muse will send, `wire` the request the provider has, `said` the calls as the provider
made them. A request is one record with every field the code reads; a field can be missing,
null or of a wrong type. The checks of each translation are one predicate (they all refuse
the turn), its result one operator. Names are sequences of atoms, so that `.` and `__`
really are encoded and decoded; schemas, texts and payloads are opaque. Muse is external:
it flattens namespaced names in its history (`transport.rs:1179`), records parallel calls
one after the other (`zai/request.rs:349`), keeps the kind of a tool when its list changes,
and runs its tools in any order. A call has the identifier the provider chose, safe or not;
what Muse records and replays is what the synthesizer handed on (`DeliveredId`), its safe form
for Z.ai. Identifiers that have the same safe form are outside the model (`IdsAssumption`). A
result may hold an image whatever the model takes: nothing tells Muse what it takes, since the
seeded catalog names no modality (`lib.rs:1051-1068`).

*Launches.* One program counter per launch, which stops before every change of a shared
file; a launch can be killed at each. A settings file is absent, broken or a record of the
four things the properties tell apart (endpoint, retries, telemetry, one preference). The
gateway's address is the launch it belongs to. Muse's own save is one step (it is external),
the launcher's is read, stage and persist. `CommandLine` writes each pass of the code over
the arguments as an operator on the same units: a token, an option with its value, or `--`
with everything after it.

## 3. Runs

Runs of reactive components check deadlock: a finished system has an explicit stuttering
action. `MuseSession` and `Launches` have sessions and command lines that simply end (the
code returns), so their configurations switch it off.

| Run | Configuration | Question |
|---|---|---|
| `frame_scan` | buffers of up to 7 bytes over {text, LF, CR} | do both loops find the first blank line? |
| `sse_validator` | wire of 6 tokens, limit 4, counter saturating at 3; all dispositions, two lines cut in every way | is the output independent of the chunking; does one terminal event come last; is a failure numbered after the output and identified by the last identity the body gave; does only an endless upstream keep a stream open? |
| `zai_stream` | wire of 4 tokens, buffer limit 2, two parallel calls | are items bracketed, streamed, closed and listed consistently; is anything said lost; does the validator accept the output, in sequence? |
| `gateway_request` | 74 requests, eight launch configurations, six statuses, eleven error documents, limit of 2 | does an admitted turn always end in a terminal event, never in an HTTP error; is what it reports true; does only an endless body keep a request waiting? |
| `credential_refresh` | two requests of one process or of two, three generations, one access token that nears its expiry | is a refresh token spent twice; does a request give up early or send too often; do the locks block? |
| `lifecycle` | deadlines of 2 and 3 ticks | is anything left behind; is a gateway's own error ever replaced by the generic one; does an orphan end; does the launcher return? |
| `msp_relay` | two client frames of seven kinds, two ids, capacity 1 and 2, one protocol break | is the map exact; do answers pass, paired and mapped; does everything flush and shut down? |
| `muse_session` | two turns, two calls, one change of the tool list; identifiers that are safe, marked, too long or lost; nine launches (Responses and Lite, subscription and key, a custom address, Z.ai with and without images, and models refused for each of the catalog's reasons); every field of a request away from its usual value, one at a time | is each call replayed as it was made, with its result after it; is every declared tool reachable as itself; is anything said lost; does an answer or a result make the next request refused? |
| `launches` | every command line of up to three of 16 tokens, longer ones where options part a flag and its value; two or three launches on one profile, absent, foreign, unpinned or broken before | does Muse get the user's command, all its prompts and values in order, nothing of the launcher's, and its own gateway; is a profile spoilt by a killed launch; is a saved preference lost? |

Why the bounds are enough. A scanner looks one byte ahead and remembers
only where its line began, so seven bytes hold every succession of three breaks with text
before, between and after (and the theorem covers the rest). Six wire tokens hold a complete
frame and a second one that is terminal, cut or oversized; sequence numbers up to 3 reach
the saturation. Four chunks of the chat stream open, interleave, name, continue and finish two
calls and a text item. Three generations allow a rotation by each of two requests, which
is what a double spend and a stale give-up need; a third request only repeats a role. Two
MSP frames are what a duplicate id, a full map of one and a late answer need. The clock
orders the two deadlines in every way. The adapter sees of a session only its history and its
tools, so a first turn that is answered with two calls and a second one that replays them hold
every passage a call makes; the fields of a request are checked independently of one another,
so they vary one at a time. Three tokens are an option, its value and a command, in every
order; a launch passes the shared files once, so two launches meet in every order and the
third is the one that reads what the race of the others left.

### Fairness

* Ready tasks and threads run (`Step` of each module): the tokio runtime and the system's
  scheduler.
* Timers fire: the validator's idle timer, the five seconds of an error body, the HTTP
  client's connect (15 s) and read (150 s) timeouts. The upstream itself owes nothing, and
  may send for ever: each timer starts again at every chunk (`sse.rs:75`), and nothing bounds
  the length of a response. So `Terminates` and `Answered` have that as their alternative
  (`SendsForever`, `EndlessBody`) instead of an assumption that an upstream ends; what they
  show is that nothing else keeps a stream open or a request waiting, and that an endless error
  body the gateway inspects itself does not.
* A refresh request has no timeout, so the authority's answer is not fair, and
  `OnlyAuthorityBlocks` says that nothing else can block.
* A free lock is given to a waiter, and a lock that is never freed keeps its waiters: the
  errors of `flock` are no part of what is owed (`Owed`).
* The gateway's main thread starts its watchdog and reports an error it has met, but may
  block for ever in between; the watchdog and the launcher run. The launcher's parent
  waits for it (`LauncherReaped`), without which the watchdog would see a zombie for ever.
* `muse_session` and `launches` check safety only and assume no fairness.
* The MSP host reads, answers what it took and stops when told; nothing makes the client
  send, close or leave.

### Disagreements shown by a run

* `lifecycle_signal_gap`: a signal between the spawn of Muse and the installation of the
  forwarder ends the launcher and leaves Muse running.
* `zai_wire_names`: a tool `t` of the namespace `n` and a direct tool `n.t` are declared to
  Z.ai under one wire name, where `docs/PROTOCOL.md:75` promises a refusal.
* `launch_auth`: `-w --fast off login` is read as a session and then given to stock Muse as
  `muse login -w off`, where `lib.rs:63` says that authentication never reaches it.

### Observations without a run

Streams and the relay:

* A body that ends in `\r\r` ends in a complete frame, by the comment at `sse.rs:12`; the
  scanner waits for the byte after the last CR and the end of the body is reported as
  incomplete (`sse.rs:586`).
* An upstream error with an empty message becomes an event that the validator refuses
  (`zai/stream.rs:221`, against the promise of its line 4). The model gives upstream errors
  a message.
* The index of a tool call is the upstream's and sizes a vector (`zai/stream.rs:473`).
* The host's uncorrelated error (id null) removes the pending entry of a request whose id is
  null (`msp.rs:364`); its result is then refused (`msp.rs:371`) or, when the client has sent
  another request with the id null in the meantime, read as the answer to that one, so that a
  provider's internal name can pass in a field the other method does not have. The instance's
  client does not use null as an id, and three theorems of `MspRelayProofs` say so
  (`NoNullIds`).
* A client that stops reading blocks the output thread in a write while it holds the lock of
  stdout, and with it the launcher's join (`msp.rs:145`).
* `docs/PROTOCOL.md:89`: "Tool `call_id` values are Z.ai's own". They are filtered to the
  safe alphabet and truncated (`zai/stream.rs:490`), so Z.ai gets another identifier back than
  it gave (`CallsReplayed` says which), and two of them can become equal.
* The identity a failure carries is the last one the body gave, also in a metadata frame that
  was dropped (`sse.rs:151`): it need not be one the client has seen. `FailureIdentity` says
  exactly that.

Credentials and failures:

* A proactive refresh does not take the lock file, so the store can change between its
  guarded reload and its refresh (`transport.rs:589`, `manager.rs:2343`). That is why
  `RefusedOnlyAfterLoss` and `GivesUpOnNewest` hold until an access token nears its expiry.
* `docs/SECURITY.md:179-180` limits "captured error bodies to 64 KiB". That holds for the
  gateway's inspection; Z.ai's `canonical_failure` reads the whole body first, without the
  five-second limit, and a body that is sent for ever keeps the turn waiting (`EndlessBody`
  in `Answered`).
* The failure texts of `server.rs` say "the request was not replayed", while the transport
  may have sent it twice (`SendsBounded` gives the exact bound); `docs/SECURITY.md` says so.

Processes:

* `docs/ARCHITECTURE.md:139-141` says the 90 and 100 second deadlines keep startup
  bounded "without racing the catalog request". The first runs from the start of the
  catalog request, the second from the spawn (`lib.rs:1540`): when the credential store takes
  more than ten seconds, the launcher ends a request that is within its own deadline.
* The watchdog may remove the readiness file just before the main thread renames its own into
  place (`server.rs:701`): the file is left, in a directory nobody reads any more.
* A gateway that dies between its readiness and the start of Muse (`lib.rs:1558`) is noticed
  by nobody; Muse then talks to a closed port.
* Between the wait for Muse and the drop of the forwarder (`lib.rs:2045`) a signal is sent to
  the pid of a process that is no more (`CloseForwarder`); the pid may have been given to
  another one.
* A launcher whose deadline passes reports the timeout, though the gateway may just have written
  its error; `StartupFailureReported` is about the generic message.
* The parent is watched by its pid (`server.rs:766`), which the system may reuse.

Requests and sessions:

* A name outside Z.ai's grammar that its model invents passes `decode` and enters the history;
  every later request is then refused (an exception in `SessionContinues`).
* A tool's result with an image, for a listed Codex model that takes none, has the same effect:
  `request_contains_image` looks into results too (`transport.rs:638-648`), and Muse, which was
  not told, keeps the result in its history (the other exception). For Z.ai a result is sent as
  its JSON text and is not refused.
* Images in messages of other roles than `user` are dropped for Z.ai, though
  `zai/request.rs:4-6` says "rejected rather than dropped" (the proviso of `NothingLost`).
* On the Codex path an assistant's `image_url` is accepted and its `input_image` refused; a
  null `reasoning` is refused in the Lite form only; a freeform call of a namespaced tool is
  not split back into namespace and name; in the Lite form a direct tool `f` and
  `functions.f` cannot be told apart (`GroupedWithFunctions` in `ToolsReachable`).

Launches:

* A worktree flag that options of the wrapper part from its mode also escapes the checks
  of `serve`'s options and the classification as a local command: the word is a prompt before
  those options are taken out and a mode after, and what follows it may become the command.
  `ModeParted` is that pattern of the words the user typed, and no comparison of what the
  passes made of them. Of such a line `Routed` says less: what is neither a
  subcommand's name nor the launcher's still arrives, whole and in order, but Muse may run
  another command (`launch_auth`) and be given the launcher's `--api-key-stdin`
  (`-w --fast off exec --api-key-stdin`).
* A help or local command looks whether there are settings and then seeds them
  (`lib.rs:1958-1959`); a session that starts in between has its address overwritten, against
  the comment there ("must not overwrite a running session's endpoint"). That needs a profile
  without settings, which is what `Routed` says (`MayReroute`). With two
  sessions, `serve` may read the address of the other, or one's catalog with the other's
  address. `docs/PROTOCOL.md:190` advises a separate `MUSE_CODEX_HOME`; the properties say
  exactly what holds without one.

## 4. Proofs

TLC checks the instances above; the theorems hold for all values of the constants that
satisfy the named assumptions.

*Frame scanning* (`FrameScanProofs`). `ScanStable`: a frame that
was found ends at the same place whatever is appended, so framing does not depend on
chunking. `ScannersCorrect`: both loops return the length through the first blank line,
of any buffer. The loop invariant (`LoopInvariant`) says that a line starts at `lineStart`,
that everything from there to the index is text, and that no blank line was passed.

*Validator* (`SseValidatorProofs`, under `ConstantsAssumption`). Type correctness,
`TerminalLast`, `NoBareEof`, `BoundedBuffer`, `FailureSequence`, `FailureIdentity` (against
`Reading`, which reads identities off the whole wire), and
that the validator implements `TerminalStream`. None of them is inductive alone: that a
failure is numbered after the output needs every frame, delivered or pending, to be
accounted for by the counter and the identity at the time (`FramesAccounted`), and that in
turn needs a finished stream to have an empty buffer and no way back (`Control`). `IInv`
is their conjunction; one lemma per action shows that it is preserved. The refinement
needs only `IInv`: giving a frame maps to `Give`, the end to `Close`, a drop to `Leave`,
every other step to a stutter.
`ForwardsWire` (`ForwardedMatchesWire`, for bodies and chunks of any length) compares the validator
with a reference that cuts the whole body in one go, the recursive function `Forwardable`; that the
function exists, and so is what its definition says (`ForwardableTurn`), is an induction over the
length of the wire, stated for a set. A step that receives a chunk changes the reference's
argument, so the invariant speaks of every continuation `t` of the body (`WireInv`): what
was produced, followed by what the reference makes of the buffer and `t`, is what it makes of
the wire and `t`. A chunk is then one such continuation, and a frame cut from the buffer is the
one the reference cuts, because nothing appended later moves its end (`ScanStable`, `CutStable`).

*Gateway handlers* (`GatewayRequestProofs`, under `ConstantsAssumption`). `FailuresTold` (that a
reported failure is true, `FailureTruthful`) and `TurnsKeepPromise` (an admitted turn implements
`TerminalStream`), for every request, catalog, upstream and limit. The inductive invariant adds to
the type what the handler knows where it stands: an admitted request and its route (`RouteInv`),
and, for a failed turn, that nothing was told before its body was done with, that the answer being
read is a failure, and that the gateway's own inspection stays within its limit (`ReadInv`). The
code told is then followed through each of the ways a body can end (whole, too long, broken, silent)
and, for Z.ai, through both tables of codes (`Codes`, `ZaiCodesKnown`, `Sanitized`). The constants
that stand for an absent value must differ from the values they stand beside; nothing else is
assumed of them.

*MSP relay* (`MspRelayProofs`, under `ConstantsAssumption`), for any frames of the client, any ids,
any capacity, and a host that may also break the protocol. `TypeCorrect`, `MapBounded`,
`ResultsArePaired` and `OutputFlushed` hold whatever the client and the host do; `MapExact`,
`AnswersArePassed` and `ProviderStaysInside` hold for clients that do not use the id null
(`NoNullIds`; section 3 says what happens otherwise, and TLC shows it when such a client is added
to the instance). None is inductive alone. A call is in one place at a time: about to be written,
in the host's pipe, with the host, or answered in the pipe back. `Paired` says that each id in the
map has exactly one call in exactly one of these places, with the method the map recorded, and that
no other call or answer is anywhere; every conjunct of it (`InIn`, `ToIn`, `OpenIn`, `BackIn`,
`SoundIn`, `WayIn`) is needed to pass a call from one place to the next. `PairInv` is `Paired` while
the host keeps to the protocol. `AskInv` and `CleanInv` add which provider a frame carries on each
side. `ResultInv` counts: the results given for an id, the one being written and the entry in the map
are together at most the requests accepted under it. `FlushInv` counts too: the frames given, the one in
hand and those in the pipe are all that the host emitted.

*Lifecycle* (`GatewayLifecycleProofs`, under `TimeoutAssumption`). `NothingLeftBehind`,
`StartupFailureReported`, `MuseHasGateway`, `NeverSignalsReaped` and the type. The strengthening
ties the launcher's place to what it has spawned and waited for: a gateway it may signal
has not been waited for, and it has been by the time the directory goes (`ProcessInv`);
Muse runs only while the launcher waits for it or has died (`MuseInv`); no document is left when
the launcher has returned (`FileInv`); and a readiness document, once it is seen
or acted on, means that the gateway is past its bind (`ReadyInv`). That the gateway's own
error is reported needs one more (`ReportInv`): a gateway that has reported left its document
in place for as long as the launcher lives, and a generic failure is told only after the
gateway was waited for.

*Credential recovery* (`CredentialRefreshProofs`, under `ConstantsAssumption`), for any number
of requests and processes. `SendsBounded`: each kind of send is paid for from a budget, the
attempts made plus a weight for the recovery steps still to come (`Budget`).
`RefusedOnlyAfterLoss` and `GivesUpOnNewest`: whoever is past its reload holds the lock file
and its process's copy is what is stored (`Turn`), and what is stored can be refreshed unless
its successor was lost or is about to be stored (`Refreshable`); neither half is inductive
without the other.

*Tool names* (`ZaiStreamProofs`, under `NamesAssumption`). `DecodeInvertsEncode`: in any accepted table the
wire name of a tool decodes to that tool. `SafeCallRecordable`: whatever name of Z.ai's grammar
a model uses, known or not, the name given to Muse for it can be recorded beside the others.
`SafeIdentifierKept`: an identifier of safe characters within the limit is handed on as it is.

*Synthesizer* (`ZaiStreamProofs`, under `ConstantsAssumption`: what the upstream sends has the shape
`handle_chunk` reads, and the request's tools are ones `record` accepts), for any upstream, any
number of parallel calls and any cutting of the bytes. `StreamItemsBracketed`,
`StreamOutputAccepted`, `StreamOutputExact`, `StreamItemsMatchDeltas`, `StreamNothingUnsaid`,
`StreamCallsDelivered` and `StreamKeepsPromise`. What the properties say of the events is not
inductive: it has to be tied to what the synthesizer holds. `Items` says that an output index not
taken yet has no event (`Fresh`), that the open text is an item the client is being told of, and at
most one (`TextLive`), that an announced call is another such item and one not announced has only
an index of its own (`CallLive`), and that no other item was left open (`Settled`). `Exact` ties
the texts: the deltas of the open text add up to what the synthesizer holds of it, those of an
announced call end its arguments (nothing was streamed of a freeform one), those of a closed item
are what it was closed with, and those of each kind of text are what the frames handled so far
said; `Lists`, that the output is the items closed so far, in that order. `Told` adds the numbering and the acceptance
of everything that was emitted, delivered or not. Each method of `State` has a lemma that it keeps
`Work`, their conjunction, from the events it emits one by one; a response is then always `Going` or
`Over`, its last event the only terminal one. Three operators are loops (`PushToolCalls`, `CloseToolCalls`, `SanitizeIdentifier`), written
as recursive functions, and so is the library's `FlattenSeq`, which adds up the deltas. That such a function exists and what holds along it are both shown by
`SetInduction`, induction for a set of numbers, which follows from the well-foundedness of `<`;
`close_tool_calls` is why `Items` counts the calls from the `n`-th on.
`CallsDelivered` compares the response with the fragments of every frame before it, and needs an
invariant of its own (`CallInv`): until the response ends, each call holds the first identifier, the
first name and the concatenated arguments of its fragments, is announced exactly when it has the
first two, and no call is in the output yet (`Gathered`); that is kept fragment by fragment, through
the growth of the list to a later index, and it is what `close_tool_calls` turns, index by index
(`Owns`), into an output with the calls that are owed and no other.

*Launches* (`LaunchesProofs`, under `LaunchesAssumption` and `OptionsAssumption`: an address is
no option, and no word the launcher knows begins with `-`), for any number of launches and any
command lines. `ProfileUsable`, `PreferencesKept` and `Routed`. A launch at work has one of the two
profiles (`KnownInv`), and launches at work at the same time have met (`MetInv`); what a
session has written stays, since nobody takes a pin or a catalog out again, and no launch
writes from a copy it could not read (`FileInv`); the last preference saved is in the file and
in the copy of whoever is about to replace it, unless the launch that saved it has met
another one (`SavedInv`). The copies are what makes the last one inductive: a preference is
lost long before the file shows it.

`Routed` needs first what the passes over a command line do to one of any length. The lemmas
are by induction over the arguments, stated for a set instead of a predicate (`SetInduction`,
`SeqInduction`): what `Units` reads is well formed, that is, only the last unit may still take a
token (`UnitsWellFormed`); a well-formed list, written out, is read back as it was
(`UnitsOfFlatten`); so a pass that takes whole units out leaves the reading of the others alone
(`WithoutUnits`), moving the subcommand to the front moves nothing else (`SubcommandMoves`), and
the routing put before or after it is read as two units (`UnitsAfter`). `NothingLeft` is why no
provider or address of the user remains: one that `rewrite_muse_args` does not take out has no
value or an option for its value, and a check before has refused it. `RouteInv` carries that to
the states: a session at work has passed the checks, its Muse has the rewritten arguments, the
settings it could read name its own gateway or that of a launch it has met (again `MetInv`), and
only a running Muse settles where its requests go.

Only model-checked: all liveness and every fact with ENABLED (the prover has neither), and
the translations of a history and so `MuseSession` (folds over the items with an operator for
an argument, which the prover cannot unfold).

## 5. Not modelled

Pipe capacities and partial writes; pid reuse; panics and poisoned locks; numbers that
JSON writes in two ways (`1` and `1.0`) as MSP ids; a login or an account change while
requests run; API-key mode's 401, which has no recovery; response headers; memory.

* The conversion of the model catalog is one pure pass over a document of the provider; what
  the rest of the program takes from it is the table of capabilities, a constant here.
* Login, the keyring and Z.ai's credentials are single calls to external services; that they
  fail is an outcome of the actions that make them.
* Binary discovery, the input of secrets and the scripts are sequential I/O.
* Of the pinned `openai-codex` crates only the part of `AuthManager` that the recovery drives
  is modelled.

## 6. Plan

Done, in this order: scanners and validator with their proofs; MSP relay; lifecycle with
its proofs; credential recovery; Z.ai synthesizer; gateway handlers; tool names, both request
translations and the session; command line, launches and profile, with proofs; the proofs of
the credential recovery and of the reported startup failure; the proofs of the MSP relay, of
the gateway's handlers and of the synthesizer, its delivery of every call included; the proof
that every session is routed, with the theory of the command line under it; the proof that what
the validator forwards does not depend on the chunking.

Next, most important first:

1. A composition of `ZaiStream` with `SseValidator` over one wire (today the synthesizer's output
   is checked against `ResponsesEvents`, the validator's acceptance of a single event).
2. Lost updates of the credential store by a login that runs beside a gateway.
