# TLA+ models of wallester/work's logging and support libraries

The repository's own code (`src/log.go`) is one helper, `logError`, which
annotates an error and hands it to `commonlog.Error`. Everything it relies on
is vendored under `src/vendor/github.com/wallester/`:

- `monorepo/pkg/common`: the current logging package, error types,
  development-environment supervisor and helper packages;
- `common`: the legacy logging package and string helpers.

This directory models the parts of that code whose behaviour depends on
interleavings, on the order of steps, or on a combinatorial input space.
Those are the parts a unit test hardly reaches.

## The system

| Part | Source | State and operations | Interacts with |
|---|---|---|---|
| Shared logger (monorepo) | `log/shared_logger.go`, `log/logger.go` | `deprecatedSharedLogger`, `initializeSharedLoggerOnce`, `configureSharedLoggerMutex`. Operations: `SharedLogger()`, `ConfigureSharedLogger`, the package functions `Error`/`Info`/..., `NewEntry`, and the closer returned by `New` | every log call, `logError` in `src/log.go` |
| Writer chain | `log/logger.go` `configureWriter`, `log/writer.go` | outermost first: `Writer{xmlMaskEvent}` → `Writer{MaskEvent}` → `io.MultiWriter(logFile, stdout/console)`. Each `Writer.Write` decodes, processes, encodes and writes | the shared logger and masking |
| Event masking | `log/processevents/mask_event.go`, legacy `common/log/mask_event.go`, `common/log/xml_mask_event.go` | pure functions: `MaskEvent`, `maskMap`, `maskValue`, `maskString`, `maskJSON`, `maskQuery`, `xmlMaskEvent`, `maskXML` | the writer chain |
| Custom data and field merging | `errors/custom_data*.go`, `log/logger.go` `fieldsFromCustomData`, `log/rollbar.go` | `CustomData.fields` maps shared between errors, log calls and the Rollbar notifier | log calls, Rollbar |
| Child logger | `log/logger.go` `NewChildLogger`, `updateChildLogger` | a zerolog context mutated in place | callers that share a child |
| Legacy shared logger | `common/log/shared_logger.go` | `sharedLogger`, assigned without synchronisation | legacy log calls |
| Devenv service supervisor | `devenv/service.go`, `devenv/servicestate` | `Start`, `Build`, `Stop`, `PID`, `RunExecutable` against the OS process table (`pgrep`, `kill`) | the developer's shell |
| Services configuration | `devenv/services_ops.go`, `services_configuration.go` | `ServicesToMap`, `Validate`, filters | the supervisor |
| Slice and string helpers | `slices/slices.go`, `strings/*.go`, `common/strings` | pure algorithms | everything |
| Git version | `git/version.go` | `Version()` behind a `sync.Once`; `SetVersion` | the git-version log hook |
| Levels, hooks, adapters, env loading | `log/level`, `log/hook`, `grpc_logger.go`, `env/*` | constant tables, field decoration, forwarding, dotenv I/O | logging |

Two names the masking code uses are declared in files that are not vendored:
`sensitiveKeywords` and `strings.Mask`. The models take them as constants: a
keyword and a mask token. The monorepo `configureWriter` also refers to
`processevents.XMLMaskEvent`, which the vendored package does not contain.
The monorepo XML stage is therefore not modelled. The legacy package's XML
stage is an operator of MaskPipeline. It is reached by the legacy run, but
no passing run checks it.

## Modules

### SharedLogger.tla (MC module MCSharedLogger.tla)

This module models the lazily initialised shared logger and its configuration.

Goroutines are `Main`, which configures the logger, and `Workers`, which log
the way `logError` does. A logger value is one of:

- `NoLogger`, the nil interface;
- `DefaultLogger`, the stdout logger built inside `once.Do`;
- configured logger `k`, whose writer masks and writes to log file `k`.

Variables and what they stand for in the code:

- `shared`: `deprecatedSharedLogger`.
- `once`: the `sync.Once` state, one of idle, running or done.
- `file`: each configured logger's log file, one of none, open or closed.
- `pc`, `held`, `next`: each goroutine's place in the code and the logger
  value it obtained.
- `events`: what was written. For each event it records whether it was
  masked, whether the log call began after a configure had returned, and
  whether it was lost to a closed file.

Actions and the code they model:

- `CallSharedLogger`: `once.Do` returns at once when done, blocks while
  another goroutine runs the function, and runs the function when idle.
- `OnceCheck`: the `deprecatedSharedLogger == nil` test, which runs
  outside the mutex.
- `OnceStore`: stores the default logger, logs its warning and marks the
  Once done.
- `ConfigureSharedLogger`: `New` opens the file and builds the masking
  chain, the result is stored, and the debug line is logged.
- `Write`: the write of the event.
- `MainShutdown`: main returns and its deferred closers close the files.
  Nothing waits for the workers, so a worker may still write to a closed
  file before the process exits. `Emit` marks such an event lost, for
  stdout too, because `io.MultiWriter` stops at the failing file. No
  property forbids that loss; it is listed as a hazard.

The variable `ordered`, chosen in `Init` from the constant set `Startups`
and never changed, selects the shape of the program. When it is TRUE,
workers start only after main's first configure returned. When it is FALSE,
workers run from the start and race main's configuration.

### MaskPipeline.tla (MC module MCMaskPipeline.tla)

This module models the masking functions as operators and one write through
`configureWriter`'s chain as the action `Write`.

Data is abstracted to what masking tells apart:

- An event maps field names to values: null, a number, a nested object or
  a string.
- A string is described by how it parses: a JSON object, a URL query, an
  XML document, a single word, the mask token, or text that
  `url.ParseQuery` rejects.
- `canon` marks text in the layout its encoder produces, so an
  unnecessary re-encoding is visible.

`Variant` selects the processevents code (`"monorepo"`) or the legacy code
(`"legacy"`). In the legacy code `maskQuery` returns the parse error.

`Init` enumerates all 648 events of the input domain under every
configuration. Each behaviour is a single write, so every run checks the
functions on every input.

### CustomData.tla (MC module MCCustomData.tla)

This module models error custom data shared between errors, log calls and the
Rollbar notifier. Every Go map is a heap cell (`heap`). Per request goroutine
there are three cells:

- the wrapped error's `CustomData` (`Inner`);
- the annotation's data (`Outer`);
- the fields map of the request's `Entry` (`Args`), built by `Entry.Field`.

Each goroutine builds its error and logs it:

- `AnnotateWithCustomData` and `Merge`: the annotation's data is merged
  *into* the wrapped error's map, so both errors share one map.
- `LogCall`: one of `Calls`. Either `logError` in `src/log.go`, which logs
  a juju `*Err` with no fields map (`NoFields`). Or an `Entry`'s
  `ReturnError`, which logs the custom-data error itself through
  `Logger.Error(err, e.fields)`. The entry's map is nil or empty until
  `Entry.Field` adds `K` (`EntryFields`). `CauseChain` is the chain
  `fieldsFromCustomData` walks after `logError`'s juju `errors.Annotate`.
  Juju keeps the custom-data error as the cause, so both links of the chain
  are the merged `Inner` map.
- `FieldsFromCustomData` over the cause chain: the call's fields are copied
  into each map on the chain. A nil map copies nothing. The walk continues
  with the error's own map, so that map is what is logged and notified.
- `LogError`: the event is written.
- `NotifyErrorMonitoringProvider`: the deferred notifier deletes request
  headers and body. For a juju `*Err` (the `logError` call) it also adds
  `original-trace`.
- `SetTransform`: installs the process-wide transform closure.
- `Report`: Rollbar reads `request-id` through whichever transform is
  installed at that moment.

A map access spans a begin and an end step (`access`). Overlapping accesses
by two goroutines to one cell, when one of them writes, are the fatal
concurrent map access the Go runtime reports. `Logs` is how often the same
error is logged.

### ServiceControl.tla and DevenvService.tla (MC module MCDevenvService.tla)

`ServiceControl` is the abstract promise of the development-environment
supervisor: a service runs as at most one instance. An instance appears only
when started while none runs, and disappears when it exits.

`DevenvService` models `Service.Start` and `Service.Stop`
(`devenv/service.go`), run by concurrent invocations of the tool (`Clients`,
each with `Cmd[c]` = start or stop). They act on an abstract process table,
`proc[i]`, whose entries are free, running, exiting (SIGTERM received) or
dead.

- `Live`, the set of running and exiting processes, is what `PID()` lists.
  `PIDError` is its failure path.
- `StartPID`, `Build`, `RunExecutable` and `StartCheck` are the steps of
  `Start`. `RunExecutable` forks a fresh pid and does not wait for it.
- `StopPID`, `Kill` and `StopCheck` are the steps of `Stop`. `kill` gets the
  whole PID output as one argument. It fails on two pids, and on a pid that
  has exited since `PID()` ran.
- `ProcessExit` and `ProcessCrash` are the OS. A signalled process exits.
  A running process may die on its own.

The refinement mapping is `instances <- Cardinality(Live)`.
`ServiceRefinement == Abs!Spec` is checked as a temporal property.

### Collections.tla (MC module MCCollections.tla)

This module covers the slice helpers (`slices/slices.go`), the string helpers
(`strings/strings.go`, `strings/unique_slice.go`) and the service-table
functions (`devenv/services_ops.go`). Each is an operator that follows the
code's loop:

- `FoldLeft` for a `range` loop;
- a RECURSIVE operator for `Batches`' stride loop and `Find`'s early return.

Each operator is checked against a reference definition of what its doc
comment promises.

- A Go slice is `[nil, s]`, so a nil slice and an empty one stay distinct.
- A string is a byte sequence, so `len()` and slicing keep their meaning.
- A predicate is the set of elements it holds for.
- A key function is a function from elements to `GroupKeys`.

Each behaviour is one call (`call`, `ret`). The `Call*` actions enumerate
every input up to the bounds.

## Runs

| Run | Expect | What it shows |
|---|---|---|
| `shared_logger_startup` | pass | Both startup shapes, with reconfiguration. Nobody writes through nil (`NeverNilLogger`). With the ordered startup, every event after configuration is masked (`OrderedStartupMasked`). |
| `shared_logger_race` | violation | A worker's first `SharedLogger()` tests nil, main configures, and the worker then stores the default. From then on every event goes unmasked to stdout. |
| `mask_processevents` | pass | processevents masking, over every input and with masking on or off: <br>• masks what it promises (`MaskedAsPromised`); <br>• leaves strings without a keyword byte-identical (`UnchangedWithoutKeyword`); <br>• never fails an event (`NoEventDropped`). |
| `mask_legacy_drop` | violation | The legacy `maskQuery` error loses the whole event when any string field is text `url.ParseQuery` rejects. |
| `custom_data_private` | pass | Three requests, each logging its own annotated error once: <br>• the first event carries inner data overridden by the annotation, then by the call's fields (`FirstEventAsBuilt`); <br>• no map is accessed by two goroutines at once (`NoConcurrentMapAccess`). |
| `custom_data_transform` | violation | `rollbar.SetTransform` is process-wide. A request's report runs the other request's closure and carries the other request's id (`ReportCarriesOwnRequestID`). |
| `custom_data_relog_race` | violation | With the same error logged twice, one request's report reads the other's map through that closure while the other is writing it (`NoConcurrentMapAccess`). |
| `custom_data_relog_fields` | violation | One request logs its error, then logs it again through `logError` (`EveryEventAsBuilt`). The second line has lost `request-body` and `request-headers`. It carries the first report's `original-trace` instead. The notifier and `fieldsFromCustomData` write into the error's own map. |
| `devenv_start_stop` | pass | A start and two stops racing, from a running or a stopped service, with crashes and slow exits. The live processes refine `ServiceControl` (`ServiceRefinement`). With one start in the run, this checks Start's running check against stops and crashes. Each invocation returns a state its command may return (`TypeOK`). |
| `devenv_double_start` | violation | Two concurrent starts both see no PID, and both build and launch. Two instances are live. (A later `Stop` would then hand `kill` a two-line PID and fail at service.go:168; this run has no stop.) |
| `collections_reference` | pass | Every modelled helper agrees with its reference on every input up to the bounds: <br>• `Batches` partitions the list; <br>• both `Unique`s keep first occurrences; <br>• `AppendIfMissing` adds only missing items, once; <br>• `ServicesToMap` rejects exactly ambiguous service tables; <br>• Select, Reject, Contains, All, Find, Collect and SelectCollect; <br>• Group and ToMap; <br>• Shift, Pop, Reverse and Prepend; <br>• the service filters; <br>• RemoveBulk, DuplicateInArray and RequireUnique. |
| `collections_abbreviate` | violation | `Abbreviate(s, 6)` returns a 7-byte string unchanged. Its doc comment lists only `maxLength` below the postfix length (6) as a case that leaves the string unchanged, and its examples show truncation for 5 and 2. |

Every property of a passing run has a mutant in `PROJECT.json`: a fault
variant of a mapped definition, such as a dropped nil test, a start without
the running check, a find without its early return, or a group that
prepends. TLC finds each mutant violating its property.

## Bounds and why they suffice

### SharedLogger

- Three workers and a main goroutine. Two are enough for one worker to be
  inside `once.Do` while another waits, with main configuring. The third
  lets a worker still write through the first logger while two others
  have moved on. The run stays near 115,000 states.
- Two configures. The second is a reconfiguration, which shows whether an
  older logger's file stays usable.
- Two log calls per goroutine. A worker can call both before and after a
  configure.

### MaskPipeline

- The input domain holds every value kind at the top level and one level
  inside objects and structured strings.
- The field names are a keyword and a plain name.

### CustomData

- Two requests in the violation runs. One request's closure reaching the
  other's map needs two. The passing run has three, so three reports and
  three transforms can interleave.
- `Logs` = 1 for the passing run and 2 for the two relog runs. A second
  log of the same error is what writes a map a closure still reads, and
  what reads a map an earlier call changed. The relog-fields run needs only
  one request.
- Each log call either passes no map or passes one. The passing run covers
  both `logError`'s path and a direct `Logger.Error` with a map.

### DevenvService

- `MaxPids` = 3. With a service already running, two launches need pids 2
  and 3, so the bound never blocks a launch.
- The passing run has one start and two stops. Two stops can both kill the
  same process, and a start can relaunch the service between a stop's kill
  and its check. The double-start run has two starts.
- `Init` covers a running and a stopped service.

### Collections

- Slices up to four elements over two values, with nil and empty both
  present. That is enough for repeats, a first and a last match, and a
  final partial batch.
- `batchSize` from -1 to 5, which covers non-positive sizes, 1, an exact
  fit and a size larger than the list.
- Up to two services over three names. Every way two services can collide
  needs only two.
- Strings up to seven bytes and `maxLength` from -1 to 8. That crosses the
  postfix length 6 on both sides.

## Fairness

No run checks a liveness property, and no specification assumes fairness.
`SharedLogger()` is a `sync.Once` whose function never blocks, and `Start`
and `Stop` are straight-line code. Every goroutine and every invocation
therefore finishes by construction once it is scheduled, and a property
saying so would hold whatever the code did. The properties checked are
safety properties and the refinement `ServiceRefinement`, whose abstract
specification has no fairness either.

## Not modelled, and why

- **Child logger.** `NewChildLogger` copies the zerolog context (`With()`),
  and `String`/`Int`/... update that child in place. Used by one goroutine,
  this is plain sequential code that a unit test reaches. The remaining
  hazard is a child shared between goroutines (a data race on its context);
  it is listed as a hazard.
- **Git version.** `Version()` computes the build version once under
  `sync.Once`. `SetVersion` and `SetBuildInfoSource` are setters for tests.
  There is no protocol beyond `sync.Once`, which SharedLogger already
  models.
- **Entry's other writers.** `Entry.Map`, `Debug`, `Info` and `Warn` only
  read the entry's map or go through `logMsg`, which has no custom data.
  `Fatal` and `Panic` end the process.
- **Legacy shared logger.** No package of this build imports the legacy
  `common/log`; `src/log.go` imports the monorepo `pkg/common/log`. Its
  unsynchronised `sharedLogger` assignment therefore never runs beside this
  code. Its masking functions are still modelled, under `Variant` legacy.
  They are the only vendored implementation of the XML masking that the
  specification describes.
- **Levels, hooks, adapters, env loading.** These are constant tables,
  per-event decoration and I/O through libraries outside the source. They
  hold no state a property could be about.
- **Layout.** Indentation, console colouring and HTML escaping change
  layout only.
- **XML masking details.** The monorepo `configureWriter` refers to
  `processevents.XMLMaskEvent`, which is not vendored. In the legacy stage,
  an XML document is abstracted to its element names. mxj's leaf-path
  notation for repeated elements is library behaviour.
- **Slice aliasing.** `Batches`' sub-slices and `strings.Remove`'s in-place
  append share the caller's backing array. The models treat slices as
  values. This is listed as hazards.
- **Unicode and regexp helpers.** `IsUppercase`, `FromCamelToSnakeCase`
  and the name formatter depend on Unicode tables and regexp semantics.
- **The darwin branch of `PID`, and the cover flag.** The linux branch is
  modelled. `pgrep` differs only in how it reports "none", and the cover
  flag only sets an environment variable.

## Plan for the remaining components, most important first

Each item below would be a question of its own, answered by a violation
run. The project keeps one run per question, and these are recorded as
hazards in `PROJECT.json` with the reason no property covers them yet.

1. **CustomData, shared error.** A sentinel custom-data error logged by
   two goroutines at once. `CustomData.tla` would take a constant mapping
   requests to errors. Two requests sharing an error would make both
   `fieldsFromCustomData` calls write one map (logger.go:275).
2. **Slice aliasing.** A backing-array model for `Batches`, `Shift`/`Pop`
   re-slices and `strings.Remove`. The helpers are modelled as values
   today, and aliasing needs slices as (array, offset, length, capacity).
3. **Devenv start reported for another's process.** `StartCheck`
   (service.go:92) reports `Started` when any process is live, even if the
   one it launched has already died. That case needs two starts, which is
   already the double-start violation.
