# dspark-edge in TLA+

dspark-edge moves the draft model of speculative decoding off the server: a patched
`llama-server` runs the target model and streams the target's hidden states over
gRPC to an edge daemon, which keeps the draft model's KV cache and answers with
blocks of draft tokens for the target to verify. If anything between the two
fails the server decodes on with the target alone. A local dashboard configures,
starts and watches both programs and chats with the target. This directory is the formal
model of that system: TLA+ modules, TLC configurations, and proofs checked by
TLAPS. `PROJECT.json` lists the runs, the lines each definition stands for, the
hazards and the theorems.

## The system

| Component | State | Operations | Modelled by |
| --- | --- | --- | --- |
| DraftEngine (`tools/llama-dspark-grpcd/dspark_engine.*`) | draft KV cache, `kv_confirmed_max_`, `last_token_id_` | `init`, `prefill`, `draft`, `reset` | `DsparkEngine`, over `DraftCache` |
| RemoteDrafter (`server_patches/remote_dspark_impl.h`) | `feats`, `prefilled`, `n_sent`, `prev_n_past`, `step_id`, process-wide statistics | constructor, `begin`, `process`, `draft` | `RemoteImpl` |
| DraftClient (`server_patches/remote_dspark_client.cpp`) | session id, one blocking call at a time | `init`, `prefill`, `reset`, `draft` | `RemoteImpl` (calls and replies), `RemoteDspark` (the network) |
| DraftService (`tools/llama-dspark-grpcd/grpc_service.*`) | table of sessions, each with an engine, a mutex and `last_step_id` | `InitSession`, `Prefill`, `Draft`, `Reset` | `RemoteDspark` (one session, with its engine), `DraftService` (several sessions, lock by lock) |
| WatchRenderer (`watch_renderer.*`) | event queue, transcript, pending block | `on_*`, worker thread | `WatchRenderer`, driven by `DraftService` |
| GoldenTrace (client dump, `replay_mode.cpp`) | files | dump, replay | not yet |
| SpecStatsEndpoint, PatchApplier (`server_patches/apply_remote_dspark.py`) | counters; source tree | `/debug/spec`; patch steps | not yet |
| ProcessManager (dashboard: `lib/process-manager.ts`, `app/api/process`) | a child, status and pid per program, promises of `stop()` with two timers | `start`, `stop`, exit and error events, six actions of the route, a restart of the dashboard | `ProcessManager`, over `Supervisor` |
| ConfigStore (`lib/config-store.ts`) | the saved configuration | defaults, presets, load, save; command lines | `DashboardConfig` |
| DashboardStore (`lib/store.ts`) | the page's configuration, `dirty`, `busy`; status, statistics, log lines | edit, save, act, load; poll, stream | `DashboardStore` (configuration), `LiveSync` (the rest) |
| LogStream (`app/api/logs`, `pushLog`) | lines by program, subscribers | backlog, events, reconnection | `LiveSync` |
| DashboardViews (`components/dashboard`) | none of their own | cards, metrics, log panel, chat panel | the operators `Card`, `MetricsPanel`, `LogsPanel` of `LiveSync`; `sendMessage` and the mounting of `PromptInput` |
| VendoredUi (`components/ai-elements`, `components/ui`) | of the prompt input: text, files, object URLs, submissions, screenshots | add, remove, submit, clear, mount | `PromptInput`; the others hold no protocol state |
| Daemon's main, build scripts, converter patches, tests | | | out of scope: no protocol state |

How they interact: one slot of `llama-server` decodes a batch (`process` captures
hidden states by position), calls `begin` when a request starts (`Reset` to the
edge), and then loops: `draft` ships what was committed since the last call and
asks for a block (`Prefill` once, `Draft` each time), the slot decodes the sampled
token and the block in one batch (`process` again), keeps the longest prefix the
target agrees with, and drafts again. Each RPC blocks the slot; none has a deadline
and none is retried. On the daemon a handler runs under its session's mutex, so
calls on a session are atomic but not ordered once a caller stopped waiting.

What is hard about it: three copies of "how far are we" (the slot's `n_past`, the
server's `n_sent`, the edge's `kv_confirmed_max_`) and two counters of steps have to
agree without any acknowledgement; the edge's cache transiently holds noise; failed
chunks leave residue; calls get lost on the way in or out, outlive their caller or
never come back; and captured features of rejected drafts must never be shipped.

The dashboard is one process of JavaScript handlers and one page. The page sends its
whole configuration with every action; the route saves it and calls the process
manager, whose events go to the page over a stream, while the page also polls the
status and the server's statistics. A handler runs to its next `await` undisturbed,
so what is hard is what changes behind one: timers of a `stop()` race the child's exit
and its successor, answers overtake each other and the stream, edits are made under a
save, and a submission converts files that the user, or another submission, takes away.

## Modules

- `DraftCache` (external): what the engine relies on from llama.cpp's KV memory, for
  one sequence. A cache is a run of consecutive positions; a batch is taken only if it
  continues the run and fits.
- `DsparkEngine`: the engine. Each operation is an operator from an engine state to
  its set of outcomes (`PrefillOutcomes`, `DraftOutcomes`), so that the daemon can apply
  it in a handler; `Spec` is the engine alone under arbitrary calls. Token values,
  hidden states and noise are opaque; logits and confidences are abstracted to "any
  block up to the length asked for". A failure can strike before every chunk
  (`InjectFeatures`) and at the noise block (`RunDraft`).
- `HeldPrefix`: the abstract promise of a session: a run of target features that grows
  by whole shipped runs or is given up as a whole.
- `RemoteImpl`: the server. `Begin`, `ShipPrefill`, `ShipDraft`, the `...Return` actions
  and `Verify` cut the slot's loop at the points where it waits for an RPC. A hidden
  state is modelled as the prefix it depends on, which makes "stale features" visible:
  features of a rejected or older prefix differ from the committed ones. The slot
  (`Drafting`, `Verify`, `Finish`, `BeginSome`) is external, modelled from how
  `draft(dparams)`, `begin(prompt)` and `process(batch)` use it. The edge is an
  environment that answers anything.
- `RemoteDspark`: server, network and daemon composed. `Impl == INSTANCE RemoteImpl`
  gives the server's steps; the daemon's handlers are outcome sets over the session and
  `DsparkEngine`'s outcomes; faults are separate actions bounded by `MaxFaults`.
- `WatchRenderer`: the preview. The `on_*` operators are what a gRPC thread does (append
  an event), `Worker` takes the oldest event and redraws. Regions hold token sequences;
  `Shown(st)` reads the transcript back by state.
- `DraftService`: the daemon's handlers at their locks. A handler is a record with the
  place it has come to (`at`); the mutexes are variables that name the call holding them.
  `Find` is `get_session()` or Reset's own lookup, `LockSession`/`Refuse` the session lock
  with the replay guard behind it, `Announce`, `Ingest`, `Judge`, `Preview`, `ResetEngine`
  and `Signal` what is done under the locks in the code's order. The engine is abstract (any
  block or none); servers are `RemoteImpl` reduced to the calls it makes, and may give a
  call up (`Abandon`), after which its handler runs on.
- `Supervisor`: what the process manager promises of the operating system's processes: one
  child of each program at a time, and none that comes back.
- `ProcessManager`: manager, route and operating system. `Start` and `StopNow` are `start()`
  and `stop()` up to its promise, `Terminate` and `Kill` the two timers, `OnExit` the
  listeners of the exit event, `Post*`, `Wake` and `Reply` the route's handlers around their
  awaits. Children are pids with a life, the signals they were sent and an owner; a zombie
  keeps its pid until the exit event. A child that cannot be executed gets its error event in
  the same turn. `Crash` is the death of the dashboard, which orphans its children.
- `DashboardConfig`: configurations and what is done with them, without state: defaults,
  presets, reading an old or broken file, the patches the form's fields make, and the
  command lines. One field stands for each kind of field.
- `DashboardStore`: page and server around a configuration. Calls are sent, handled, answered
  or failed, independently of each other; `Loaded`, `Persisted` and `ActionDone` are what the
  page does with an answer.
- `LiveSync`: what the page shows. `start`, `stop`, `onData` and `onExit` put together the lines
  (`pushLog`) and states (`updateStatus`) of one turn of the manager, `Happens` is the turn's
  end; `allLogs` is the sort by number, as the place every line comes to; the stream is a queue that begins with a backlog; polls hold the answer
  read when they were served. `Card`, `MetricsPanel` and `LogsPanel` are the components, as
  functions of the page's state.
- `PromptInput`: the chat's input with its files (a set of URLs: nothing depends on their
  order) and submissions, with and without the provider that can hold them. Updates of a
  component that is gone change nothing that is shown (`Updates`), but the updater of `add`, which
  makes the object URLs, may still run (`addUnmounted`): React calls an updater at once when the
  hook has no other update waiting. A continuation behind an `await` uses what it captured
  (`room`, `pending`).
- `MC*`: the modules TLC is started on. `*_proofs`: theorems.

Operators named `X_What` next to an operator `X` are mutants: what a plausible bug
would make of `X`. Nothing refers to them; substituting one for `X` must violate the
property named in `PROJECT.json`, which shows that the property can see that bug.

## Runs

| Run | Question | Answer |
| --- | --- | --- |
| `engine` | Does the engine keep its confirmed prefix through any order of calls, failed chunks, gaps and a full context? | yes; and it implements `HeldPrefix` |
| `server` | Against an edge that answers anything: is every committed position shipped once and in order, a token's with its own features, and are acceptances never over-counted? | yes |
| `embeddings` | Are the features shipped for every position what the target decoded there for this prompt (`remote_dspark_impl.h:105`, `:155`)? | no: at the position of an embedding an earlier prompt's packet stays and is shipped (`:116`, `:134`) |
| `network` | Replies of any call lost, Draft requests lost or vanished, daemon restarts, two in a row: is a block that reaches the server always drafted on the committed prefix? Does the composition implement `RemoteImpl`? | yes |
| `remote_live` | Any one detectable fault, on any call, handlers that outlive their call, engine failures: does each generation end? | yes, under fairness |
| `sessions` | Two servers and an abandoned handler, at every interleaving of the locks: do sessions stay apart, is one handler at an engine, does every call return? | yes |
| `preview` | However late the worker draws: does the preview settle on exactly the text the engine was given, and does no call wait for it? | yes |
| `struck_out` | Is what the preview strikes out what the target rejected (`README.md:92`)? | no: the comparison starts one token early (`watch_renderer.cpp:142`) |
| `processes` | Two handlers, children that ignore signals or die at any time, a restart of the dashboard: is the status shown so, do the timers of `stop()` hit their own child, does it return and does the child end? | yes; and the manager implements `Supervisor` |
| `dashboard` | Saves, actions, edits and the load overtake each other and get lost: is a clean page saved, does a preset decide all it is about, also when it comes back from the file, is what was started saved, does every button come back? | yes |
| `live` | Broken streams, trimmed buffers, a restart, and two polls of each kind whose answers overtake each other, get lost or come late: are lines shown once, in order and without a gap, and do cards and metrics catch up? | yes |
| `prompt` | Two submissions, a screenshot, files coming and going, tabs changing: while the input is there, is no URL or recording leaked, no file or text lost, does every submission end? | yes |

`TypeOK` is among the invariants of one run for `DsparkEngine`, `RemoteImpl`, `ProcessManager`
and `DashboardStore`; in the other modules it documents the types of the state.

`struck_out` and `embeddings` are disagreements between the code and its documentation or
comments, recorded under `findings`.

### What the properties leave out

Some behaviour of the code is in the models and is no promise of the code, so that no
property of a passing run states its absence:

- A prompt with an embedding where an earlier one had a token ships that token's packet for it
  (`embeddings`), and is drafted on it; without an earlier prompt it is not drafted at all.
  `FeatsFresh` and `ShippedIsCommitted` therefore speak of the packets of tokens only;
  that positions are shipped once and in order is said of all.
- A lost Prefill request is not noticed: the result is ignored
  (`remote_dspark_impl.h:229`), and the generation drafts on nothing.
- `n_sent` moves before the call (`:244`): after a lost Draft request every later draft of
  the generation fails. A Draft handler that runs after the next generation's Reset raises
  the replay guard, which knows no generations (`grpc_service.cpp:124`). The drafts accepted
  from a generation's last block are not counted (`:203`). All of these cost speed or
  statistics; no wrong token is emitted, as drafts are verified against the target.
- A restart right after a stop that had to kill is refused: `stop()` does not wait for the
  exit event (`process-manager.ts:226`). A quick start brings the server up although
  everything was stopped during its sleep (`app/api/process/route.ts:47`). One thing is not in the
  model: if a signal could not be sent, the child's error event would show it as an error
  while it lives (`process-manager.ts:177`). The manager's children are its own user's, and may
  always be signalled.
- An edit made while a save or an action is on its way is marked clean by the answer
  (`lib/store.ts:148`); `CleanIsSaved` excepts such edits by its history variable `raced`.
- A screenshot that arrives after its input was unmounted makes an object URL that stays, as
  the cleanup "to prevent memory leaks" (`prompt-input.tsx:310`, `:544`) is over by then: the URLs
  are made in the updater (`:600`), which React may run although the input is gone. `NothingLeaks`
  leaves these URLs out by the history variable `late`.
- Without a saved configuration the Qwen3 daemon is started without `--target-model`, although the
  defaults are marked as its preset (`lib/config-store.ts:34`, `:47`; the dashboard's `README.md:16`
  calls it automatic). `PresetDecides` begins when a preset is applied.
- A file that was taken away, or that the browser cannot read (`prompt-input.tsx:92`), is handed on
  with its URL: `FilesArrive` excepts submissions to which one of these happened (`disturbed`).
- A text whose submission fails is gone, as the form was reset before; with a provider, a
  text typed during the conversion is cleared with the one submitted. `TextOnce` is about the
  moment of the conversion, of an input of its own. With a provider a screenshot can exceed
  `maxFiles` (`prompt-input.tsx:664`), hence `CapacityKept` is of an input of its own too.

### Bounds

- `engine`: 5 cells, runs of up to 3 packets in chunks of 2, block 2, first positions up
  to 4. A run spans two chunks, a chunk fails after another went in, runs start with a
  gap, the context fills up. Cells are told apart by token and position only.
- `server`: 2 tokens (interchangeable, hence the symmetry), prompts of up to 3 positions,
  embedding positions among them, context 6, blocks of up to 2, two generations: the
  second can share a prefix of the first's context, differ after it and be longer; a draft
  follows an accepted, a partly rejected and a failed one. `embeddings` has the same instance.
- `RemoteDspark` runs: contexts of 4 (`remote_live`) and 5 (`network`) tokens hold a prompt and
  two or three drafts, so a fault has a call before it, one that meets it and one after it. `NCtx`
  is the slot's context size, so that the last noise blocks of a context no longer fit.
- `sessions`: eight calls between two servers: one may come to its third Draft, so that an
  abandoned Draft is overtaken, refused and followed by another call, while the other makes
  its handshake and a Reset. One token suffices, as no property is about the text.
- `processes`: three children over all, for the server, the daemon and a successor of either;
  two handlers at once (a stop and a start, two stops, a quick start and a stop).
- `dashboard`: one call of each kind under way, a start and a stop of everything, two edits, one
  lost call; the file is missing or an old one at first.
- `live`: two polls of the status and two of the statistics under way at once; two things
  happen at the host (up to four lines and states each) or its server and one breaks; the manager
  and the page keep two lines, a backlog has one, so that all three are trimmed. Longer logs, and
  more events, breaks and restarts, are the subject of the proofs.
- `prompt`: two submissions, one screenshot, a capacity of one file, two files in all,
  one text, the input mounted twice.
- `preview`, `struck_out`: one server, two tokens, blocks of up to two, six calls: three
  Drafts give two verdicts, or a Reset and a new Prefill follow a pending block. With the
  comparison in `Judged` started behind the anchor, `RejectedWasRejected` holds at these
  bounds, so the run isolates that cause.
- History variables (`given` and `refused` of `DraftService`; `shipped`, `verified`, `source`;
  `raced`, `chosen` and `kept` of `DashboardStore`; `dropped` and `late` of `PromptInput`) record what the properties compare
  and are never read by an action.

### Fairness

`FairSpec` is weak fairness of the slot's thread (it runs a loop and waits only for an
RPC) and of the daemon's handlers (gRPC's thread pool). Nothing is assumed of requests
(`BeginSome`), of the handshake or of faults. A vanished call is excluded from
`remote_live`, because without a deadline nothing in the code ends it; `network`
includes it and for that reason runs without deadlock checking, as the system really
stops there. In `DraftService` only the handlers are fair: that calls return must not
depend on the renderer's worker (`watch_renderer.h:17`), and does not. Calls are finite in
number there, so a waiting handler finally gets its mutex; a `std::mutex` under endless
contention promises nothing. Its runs go without deadlock checking because the bounded
servers stop calling; a lock-up would violate `CallsReturn`.

Of the dashboard, what the runtime does is fair: timers fire and exit events are delivered
(`ProcessManager`), a call that is not lost is served and answered (`DashboardStore`, where
that a stop is answered is `StopReturns` of `processes`), the browser reconnects, polls and
delivers (`LiveSync`), promises settle (`PromptInput`). Nothing is assumed of users, of
children (one may ignore every signal but the last, and even that one for ever) or of the
programs. `CardsCatchUp` and `MetricsCatchUp` use that what happens at the host is bounded:
they say that the page is right once nothing happens any more. The runs of `DashboardStore`
and `PromptInput` go without deadlock checking: a page whose load is lost never gets a
configuration (`init()` is not tried again), and a closed page does nothing.

## Proofs

`DsparkEngine_proofs` proves for every token set, feature set, context size, chunk size,
block size and run length:

- `TypeCorrect`, `MarkInCache`, `ConfirmedPrefixClean`: the three invariants. Their
  conjunction `EngineInv` is inductive and is what the `engine` run checks. It is stated
  of an engine state, not of the variable, because `draft` passes through intermediate
  states (truncated, injected, noised) that each satisfy it: `TruncatedInv`,
  `InjectedInv`, `RunDraftInv`.
- `MarkMonotone`: only a reset takes confirmed positions back.
- `ImplementsHeldPrefix`: under the mapping `Held` (the cache cut behind the mark), every
  call is a step or a stutter of `HeldPrefix`.

The argument rests on `InjectReach`: what `inject_features` has decoded when it stops is
a prefix of the run whose chunks all fitted, so the cache holds what decoding that prefix
at once would have put there. The assumptions are `EngineAssumption` and `NCtxAssumption`.

`ProcessManager_proofs`, for any number of children, requests and configurations, with and
without restarts of the dashboard:

- `TypeCorrect`, `StatusIsTrue`, `SignalsReachOwn`, `ImplementsSupervisor`: the type
  invariant, the two safety invariants of the `processes` run, and its refinement.
- The inductive invariant is `Inv`: `StatusTruth` and `SignalsHitOwn` need each other (an exit
  event drops the promises for its child, and these are the ones of its process) and
  `PidOfRunning`, that a pid is known exactly of what runs: `stop()` decides by the pid whom to
  signal. `NextStep` shows of every step that it keeps `Inv` and is a step of `Supervisor`
  or a stutter, one lemma for each operation of the manager.

`DraftService_proofs`, for any number of servers, calls, abandoned calls and tokens:

- `OneAtEngine`, `SessionsApart`: the two safety invariants of the `sessions` run.
- A handler at an engine holds its session's mutex (`Holding`). That needs that calls have
  identities of their own although handlers outlive them (`Numbered`), that a handler's session
  exists (`Located`) and that a server calls a session only after it was given it (`Known`).
  `MoveKeeps` and `ReturnKeeps` state what a handler's step may do to mutexes; the
  lemmas of the steps refer to them.
- `LocksGivenBack`, `NeverLockedUp`: a mutex is held only by a call that is still being handled
  (refused, failed and given up calls keep none), and as long as calls are handled one of them
  can go on, although a Reset waits for a session with the table locked. It is the part of
  `CallsReturn` that does not depend on fairness, here for any number of servers and calls.
  `TableHeld` and `SessionsHeld` are the converse of `Holding`: who holds the table is a Reset
  that waits for a session or is past it; who holds a session is at its engine and waits for
  nothing. So the waits form no cycle. `MayGoOn` is what a handler's next step asks of the
  mutexes; evaluated on the instance of the `sessions` run (not one of the listed runs'
  properties), it equals `ENABLED Handle(h)` in every state.
- `ShownIsGiven`, `ShownIsPending`: the two invariants of the `preview` run, for any tokens,
  block size and number of calls, if `SingleServer`: one server, no call given up. That is
  what `--watch` is documented for, and without it they are false: the renderer is told of a
  reset after the session was unlocked (`grpc_service.cpp:193`), so that an abandoned Prefill
  can be drawn before the reset it came after, and a second session's tokens follow the first's
  pending block (`watch_renderer.cpp:135`).
- `ConfirmedIsGiven` speaks of states in which all is drawn and no call is under way, so it is
  proved from what the queue leads to at any moment: `Leads(last)` says that drawing the events
  in turn makes the confirmed text grow with every run and verdict, start over with a reset,
  and end as `last`; `Foretold`, that `last` is what the engine was given, except while a Reset
  has still to tell of itself. That needs that a block or a run is told of only behind a verdict
  or a reset (`Ordered`; `Cleared` says where the handler that will tell stands, and that the order
  of a server's calls sees to it), and that the one pending region is the last (`PendingLast`).
- The text of a transcript is a recursion over its regions (`FlattenSeq`). `Induction` is proved
  of sets of numbers, as finite sets have no injection into themselves that misses an element;
  `FlattenIs` and the lemmas behind it derive what an appended region does to the text.

`RemoteImpl_proofs`, for any vocabulary, block size, prompt and number of generations,
against an edge that may answer anything:

- `TypeCorrect`, `CapturesAreFresh`, `ShipsWhatIsCommitted`, `AcceptanceIsCounted`: the four
  invariants of the `server` run.
- `ShipsWhatWasDecoded`: while the context has no embedding, `ShippedIsDecoded` holds, which the
  run `embeddings` finds violated: embeddings are the only cause.
- None of them is inductive alone. What is shipped is read from what is captured, so it is
  right because captured positions are fresh (`Fresh`, which must hold between generations
  too: a prompt that shares a prefix with the last context reuses its packets), and complete
  because of where `n_sent` stands at each point of `draft()` (`Books`). Freshness needs that
  `process()` overwrites what a rejected draft left and that nothing behind the committed
  context is shipped. The acceptances need what the last block was (`prev_n_past`) at every
  point where the thread waits.

`RemoteDspark_proofs`, for any sizes and any number of faults. It instantiates the two proofs
about the parts (the first section shows that the operators are the same ones):

- `ServerUnharmed`: the composition implements `RemoteImpl`. A loss, a late handler or a
  restart is to the server an answer the arbitrary edge could have given, so everything
  proved of the server holds in the composition.
- `ConfirmedWasShipped`, `GuardStaysBehind`: the daemon's half, if `ResetsArrive`: no Reset
  request is lost and no handler outlives its call. The invariant (`Inv`, theorem `Linked`)
  says that only the call waited for is on the wire (`Outstanding`), that a session the daemon
  does not know holds nothing, and that the engine holds of the shipped run what it confirmed
  (`Held`). Without the hypothesis they are false: a lost Reset leaves the last generation's
  cells confirmed under a server that starts over, and a late Draft raises the guard (see "What
  the properties leave out"). `network` runs under it.
- `BlocksAreGrounded`: if Prefills arrive too (`CallsArrive`) and inference succeeds
  (`EngineHolds`), a block that reaches the server was drafted on exactly the committed
  prefix. Draft requests may be lost or vanish, replies of every call may be lost, the
  daemon may restart at any time. Without the hypothesis it is false, as a lost Prefill goes
  unnoticed (`remote_dspark_impl.h:229`).

`DashboardStore_proofs`, for any number of loads and saves under way, edits and lost calls:

- `TypeCorrect`, `PresetsDecide`, and, if writing the file does not fail, `MarkIsTrue` and
  `StartsWhatIsSaved`: the safety properties of the `dashboard` run. `Waiting` says that a
  page without a configuration has no call under way that could save one; `Unraced` that, as
  long as nothing was edited under a save, page, calls and file agree: a save overtaken by
  another carries the same configuration. `PresetsDecide` needs that a preset's values travel with
  the configuration: `Chosen` says so of the page, of every call under way (`Travels`) and of the file, each
  with the choice it was made from (`chosen`, `choice`, `kept`). `WritesFail` is excluded because `saveConfig`
  ignores a failed write and the request goes on (`lib/config-store.ts:119`).
- The lemmas on configurations (`Fields`, `SpreadAll`, `ReadsBack`): what the object spread
  and `loadConfig` make of a configuration that was written whole, and of a broken one.

`PromptInput_proofs`, for any limit, number of files and texts, and any number of overlapping
submissions and screenshots:

- `LeaksNothing`, `KeepsCapacity`, `HandsFilesOn`, `HandsTextOn`: the four invariants of the
  `prompt` run. The live URLs are those of the attached files and, apart from them, the
  ones made too late (`Attached`); a submission's files stay live unless it was
  disturbed (`Reads`); the places a text can be in add up
  to one (`Texts`), which is a count over all submissions: the lemmas on `Carriers` say
  how a step that adds or removes one submission changes it.

`LiveSync_proofs`, for any number of lines kept, replayed and shown, of events on their way and
of things that break:

- `ShowsLinesOnce`, `SkipsNothing`: the two invariants of the `live` run.
- Both follow from what the events on their way lead to (`Reaches`): from the page's lines, event
  by event (`Leads`), to lines that stay in order at every stage and at the end have every
  line held from some number on (`Covers`). A line that is pushed is at the end of both sides
  (`ReachesLog`), a new stream starts with an end of all that is held (`ReachesBacklog`), trimming
  keeps an end an end, and so does clearing the page with events under way (`ReachesCleared`).
- The manager's half is `Managed`: each program's lines rise, and no number occurs twice, so that
  the sort of `allLogs` has one outcome (`PlacesRank`, `SortedIs`). After a restart of the
  dashboard the page still has old lines with higher numbers; it has no stream then, and the first
  event of the next replaces them.
- `Inv` is the conjunction. Its TLC check on the instance of `live` found no violation.

### Assumptions

The constants are constrained by `EngineAssumption`, `NCtxAssumption`, `ManagerAssumption`,
`ServiceAssumption`, `RemoteAssumption`, `CompositionAssumption`, `NoiseAssumption`,
`StoreAssumption`, `LiveAssumption` and `InputAssumption`: sizes are positive numbers, a prompt leaves room for
a token, the edge's context is at least the slot's (`NCtx >= MaxLen`: `scripts/run_demo.sh:71`, `:82` and the
dashboard's presets give both programs one size), markers such as `Media` and `Noise` are no tokens, loads, saves and actions are
different calls, and submissions are finitely many. TLC evaluates all of them in the runs.

### Only model-checked

- Liveness (`GenerationCompletes`, `CallsReturn`, of which `NeverLockedUp` proves a part,
  `StopReturns`, `StopEnds`, `BusyEnds`, `CardsCatchUp`, `MetricsCatchUp`, `SubmissionsEnd`):
  TLAPS does not reason about fairness.
- `TypeOK` of `DraftService`, `RemoteDspark` and `LiveSync`, which no run checks; the
  inductive invariants contain what the proofs need of it.

## Not modelled

Numerics (bf16 packing is a truncation that the features abstract), model loading,
argument parsing, gRPC's own reconnection, sampling, build scripts. Two slots sharing the
single-sequence drafter are a listed hazard. Of the dashboard: layout and styling, the list of
models found on disk, the chat's route and its message list (the AI SDK's state), the prompt
input's referenced sources, the other vendored components, and what React's development mode
does (it calls state updaters twice, which would make object URLs nobody has).
`GoldenTrace`, `PatchApplier` and the statistics endpoint are planned.

## Plan

1. `DsparkEngine`, `HeldPrefix`, `RemoteImpl`, `RemoteDspark`: done, with proofs of every
   safety property their runs check.
2. `DraftService`, `WatchRenderer`: done, with their interleavings at the locks and proofs of
   every safety property their runs check, those of the preview for a single server.
3. The dashboard: done, with proofs of the safety properties of `ProcessManager`,
   `DashboardStore`, `LiveSync` and `PromptInput`.
4. Two slots on one drafter, and the statistics endpoint's unsynchronised reads.
5. `GoldenTrace` (dump and replay), `PatchApplier` (idempotence of the edits).
