# TLA+ models of the Aerospike Go client's routing core

This directory holds TLA+ models of the parts of `src/` that have state and
concurrency, the TLC configurations that check them, and `PROJECT.json`. That
file lists the components, the runs, the mutants, the map from each definition
to its source lines, the findings and the hazards.

## The system and its parts

| Part | Source | Role |
|---|---|---|
| Partition table `Partitions` | `src/partitions.go` 26-79 | Per namespace, `Replicas[replica][partition] -> *Node`, plus `regimes` (fencing counters) and `SCMode`. |
| `partitionMap` | `src/partitions.go` 91-234 | A `sync.Map` from namespace to `*Partitions`. It offers `get`, `set`, `delete` and `iterate`. `cleanup` (run by `Cluster.Close`) clears every table in place and deletes it. `validate` chains one error per structural problem or unresolved slot. |
| Cluster tend, command routing | `cluster.go`, `partition.go` | Not among the sources; only the exported wrappers of `src/unnamed/part_001` are. Each tick, tend discovers the live nodes, clones each published table, applies the nodes' reports, publishes with `set` and validates. A command fetches a table pointer with `get` and later indexes it (`getMasterNode`, `getMasterProlesNode`). Both are modelled from `spec.md` §4. |
| Errors | `src/error.go` | `AerospikeError` values, which are mutable through pointer-receiver setters. The sentinel `*constAerospikeError` singletons. `chainErrors`, `newNodeError`, `Matches`, `As`, `Is`. `newGrpcError` and `newGrpcStatusError` translate proxy (gRPC) failures into these errors. |
| Histogram | `src/types/rand/xor_shift128.go` 57-182 | The generic linear or exponential histogram: `Add`, `Reset`, `Median`, `String`. |
| Xor128Rand | `src/types/rand/xor_shift128.go` 1-56 | A 64-bit xorshift generator. `Read` fills a byte buffer with varint-encoded outputs, as an `io.Reader`. |
| Operations | `src/operation.go` | Constructors of `Operation` values and `cache`, which stores their wire encoding. |
| Tests, CI | `src/internal/atomic`, `src/unnamed/part_000,2,3` | Test code and workflow. |

### How the parts interact

- **Three goroutines share the partitionMap.**
  - The tend goroutine writes it.
  - Command goroutines read it, keep the `*Partitions` they fetched, and use it afterwards.
  - `Close` runs `cleanup` on it.
- **Table pointers are shared.** `set` publishes a pointer, and every later writer of that pointer is seen by every command that holds it. This is why the model keeps tables in a heap.
- **Errors cross every layer.** Routing returns `newInvalidNodeError` and `ErrClusterIsEmpty`. `validate` chains errors. Callers test errors with `Matches` and with `errors.Is(err, ErrXxx)`.

## Modules

| Module | Models | State (VARIABLES) | Actions |
|---|---|---|---|
| `Partitions` | The table as a value | none: operators `newPartitions`, `setReplicaCount`, `clone`, `applyRegimeUpdate`, `validate` | |
| `PartitionMap` | partitionMap + tend + commands + Close | `heap` (pointer -> table), `pm` (the sync.Map), `active` nodes, `tend` pc, `readers`, `cluster`, `closer` (cleanup's loop position), `validation`, ghost `frozen` | `TendStart`, `TendBegin`, `TendApply`, `TendPublish` (`set`), `TendFinish` (`validate`), `ReaderGet` (`get`), `ReaderRoute`, `ClusterClose`, `CleanupVisit`/`ClearSlots`/`NilRow`/`Delete` (the loop of `cleanup`, one iteration per step), `CloseDone` |
| `ErrorModel` | error.go | `errs` (a heap of error values: sentinels, one foreign stdlib error, run-time slots), `local` (the Error variables of client code) | one action per constructor or setter: `DoNewError`, `DoConstErr` (`err()`), `DoWrapForeign` (`newWrapNetworkError`/`newTimeoutError`/`newCommonError`: `newError` then `wrap`), `DoInvalidNode`, `DoNodeError`, `DoCustomNodeError` (`newCustomNodeError`: `newError` then `setNode`), `DoChain` (`chainErrors`), `DoSetNode`, `DoIter`, `DoSetInDoubt`, `DoMarkInDoubt`, `DoUseSentinel`, `DoDrop` |
| `AtomicPartitionMap` | What the partition map promises (spec §4.1), no tend internals | `tables` (namespace -> whole table value), `active`, `readers` (each with the table `view` it fetched) | `Discover`, `Publish(ns)` (any well-formed, regime-fenced table), `Fetch`, `Route` |
| `GrpcErrors` | `newGrpcError`, `newGrpcStatusError` | `input` (the last failure: a Go error or a response status with its in-doubt flag), `result` | `TransportFailure(e)`, `StatusResponse(s, d)` |
| `RandRead` | `Xor128Rand.Read` | `pc`, `len`, loop index `i`, the set `written` of indices of `p` written, the returned `n` | `ReadStart(L)`, `ReadStep(k)` (one `PutUvarint` of a k-byte varint), `ReadEnd` |
| `Histogram` | Histogram[int] | `Buckets`, `Min`, `Max`, `Sum`, `Count`, ghost `samples` | `Add(v)`, `Reset` |

Each `MC*` module instantiates one module for TLC and defines its model values.

### Correspondence and abstractions

- **Indices.** Go slices are sequences, so replica 1 of the model is the master row `Replicas[0]`.
- **The heap.** An in-place write in the code (`partitions.Replicas[i][j] = nil`) is an `EXCEPT` on the heap slot. Every holder of that slot sees it.
- **Garbage collection.** Unreachable slots are collected, so the heap stays finite.
- **Ghost state.** `frozen` records each table's value when it was published.
- **Cleanup granularity.** `cleanup`'s loops are split into one step per row, the granularity at which a concurrent reader can observe them.
- **Tend's report.** A node's report is one regime-fenced assignment (`applyRegimeUpdate`). It comes from the spec, because the parser is not among the sources.
- **Errors.** Error values are records `[kind, ResultCode, wrapped, Node, InDoubt, Iteration]`. Messages and stack frames are left out.
- **`errors.As` into `*AerospikeError`.** It is modelled as Go evaluates it: a `*constAerospikeError` link is skipped, because it is not assignable and its promoted `As` rejects a `**AerospikeError` target.
- **Promoted setters.** The pointer-receiver setters are promoted to `*constAerospikeError`, so a setter called on a sentinel mutates the shared singleton.
- **Refinement.** `PartitionMap` defines `Atomic == INSTANCE AtomicPartitionMap WITH ...`: an abstract table is the heap value under the published pointer (`NoObj` when the namespace has none), and a reader's `view` is the heap value under the pointer it holds once it has fetched. Tend's private steps (`TendStart` aside, which is `Discover`) are stuttering steps of the abstract map; `TendPublish` is `Publish`; `ReaderGet` is `Fetch`; `ReaderRoute` is `Route`. `AtomicPartitionMap` is written from the spec and is not in the map of `PROJECT.json`.
- **gRPC translation.** Result codes are names; a status >= 0 becomes the server's own code `<<"server", status>>`. Go errors are the sentinels the code compares with (`context.DeadlineExceeded`, `grpc.ErrClientConnTimeout`, `grpc.ErrServerStopped`), a gRPC status error of each of the 17 codes, a plain error (whose `status.Code` is Unknown) and Aerospike errors. The sentinels returned with `err()` are plain copies here; their sharing is `ErrorModel`'s subject.
- **Read.** The generator's output is abstracted to the length of its varint, 1..10 bytes; `PutUvarint` panics when `p[i:]` is shorter than that.
- **Histogram slot.** For `T = int`, the linear slot is Go's truncating division. The exponential slot is the integer logarithm, lowered by one for the values in `LogBelow`, where float64 `Log(v)/Log(base)` rounds below the integer. For base 10 this includes 1000, 10^6 and 10^9; for base 2 and base 4 it is empty up to 4^11. `Log` of 0 or of a negative value is -Inf or NaN, which converts to a negative int, so the sample goes to bucket 0.

## Runs

| Run | Config | Checks | Result |
|---|---|---|---|
| pm_modes | `MCPartitionMapModes.cfg` | `TypeOK`, `ValidateSound`, `RegimeMonotone` (tend setting); `AtomicRefinement` (AP and SC settings) | pass (~1.06M states, 3 min) |
| pm_close_tears | `MCPartitionMap_close_tears.cfg` | `ReadersSeePublishedValue` | violation |
| errors | `MCErrorModel.cfg` | `TypeOK`, `MatchesChain`, `AcyclicChains` | pass (~306k, 1 min) |
| errors_raw | `MCErrorModel_raw.cfg` | `AcyclicChains` | pass (~323k, 1 min) |
| err_raw_matches | `MCErrorModel_raw_MatchesChain.cfg` | `MatchesChain` | violation |
| err_raw_identity | `MCErrorModel_raw_SentinelIdentity.cfg` | `SentinelIdentity` | violation |
| grpc_status_ok | `MCGrpcErrors_NegativeStatusNotOK.cfg` | `NegativeStatusNotOK` | violation |
| grpc_timeout | `MCGrpcErrors_TimeoutClassification.cfg` | `TimeoutClassification` | violation |
| hist_kinds | `MCHistogramKinds.cfg` | `TypeOK`, `MinMaxTrack`, `BucketsMatchSamples` | pass (1220) |
| hist_exp10 | `MCHistogram_exp10.cfg` | `BucketsMatchSamples` | violation |
| hist_median | `MCHistogram_median.cfg` | `MedianNotBelowMin` | violation |
| rand_read | `MCRandRead.cfg` | `ReadReturnsFilled` (liveness) | violation |

Two MC modules check several settings in one run, as a disjoint sum: the setting is chosen in the initial state and only that setting's instance moves.
- `MCHistogramKinds` holds `NewLinear(5, 3)` and `NewExponential(2, 4)`.
- `MCPartitionMapModes` holds three settings of `PartitionMap`, all without Close and each with its own copy of the variables. `TD` is tend alone on two partitions. `AP` and `SC` are tend and one command, with the namespace in AP mode (two reports a tick) or in strong-consistency mode (one report a tick). Each property is checked on the settings its comment names.

### What the runs show

- **`RegimeMonotone`** (action property). From one published table of a namespace to the next, no partition's regime decreases. Tend reports arrive in any order with regimes 0..2, over any number of ticks. The property needs both `clone` keeping the regimes and the `>=` regime guard.
- **`ValidateSound`.** After a `validate` that returned nil, and until the next validate, every published master slot is set. This holds also across later ticks.
- **`ReadersSeePublishedValue`** (pm_close_tears, violation). A command that fetched a table sees exactly the value `set` published.
  - With Close it fails. `cleanup` nils the rows of a table that a command still holds, so the command's lookup sees nil nodes (INVALID_NODE errors) or indexes an empty row (a Go panic).
- **`MatchesChain`.** `Matches(c)` is true exactly when `c` is the code of some error on the wrap chain. It holds for errors built only through the package's constructors, with sentinels taken through `err()`. It fails once a sentinel itself is wrapped: `newNodeError(n, ErrTimeout)` has code OK, and Matches cannot see TIMEOUT below it.
- **`SentinelIdentity`** (err_raw_identity, violation). `errors.Is(x, ErrXxx)` holds exactly for errors carrying the sentinel's code. It fails when `chainErrors(nil, ErrTimeout)` hands back the singleton and a setter marks it with a node or as in doubt.
- **`AcyclicChains`.** No error wraps itself, even when sentinels are used directly (errors and errors_raw). The property needs `chainErrors` and `newNodeError` to copy the outer error.
- **`AtomicRefinement`.** Without Close, the detailed map implements the abstract one: every published table is a whole, well-formed table of the namespace's mode whose regimes are not older than the ones it replaces, and a command routes on one whole published table to a live node it names (or gets the invalid-node / cluster-empty error). In strong-consistency mode, a master-proles command must get the master or an error, never a replica: a `getMasterProlesNode` that ignores `SCMode` breaks it at once, once a tick has set a replica but not the master.
- **`ReadReturnsFilled`** (liveness). Every `Read` returns, and `p[0:n]` has been written by it. Fails in two ways, both from the loop at lines 52-53:
  - `PutUvarint` panics for `len(p) = 8` when the random value is at least 2^56, because it needs 9 or 10 varint bytes (TLC's trace).
  - A call that returns reports `n = len(p)` with at most one varint written for `len(p) < 72`, because the bound `len(p)/8` and the step 8 do not agree.
- **`TimeoutClassification`** (grpc_timeout, violation). An expired deadline that reaches `newGrpcError` is reported as a timeout, `Matches(TIMEOUT)`, as the spec says. It fails for a `context.DeadlineExceeded` that a caller wrapped (`fmt.Errorf("...: %w", ctx.Err())`). `newGrpcError` tests the sentinels with `==`, not `errors.Is`, and `status.FromError` finds no status in it. So the result is `GRPC_ERROR` wrapping the deadline, and retry and in-doubt handling keyed on TIMEOUT treat it as a hard failure.
- **`NegativeStatusNotOK`.** Fails: `newGrpcStatusError` starts from `types.OK`, and a negative status the switch does not name (-6, -13, -14 or below -16) returns an error with code OK.
- **`BucketsMatchSamples`.** Each bucket counts exactly the samples in the range `String` prints for it. It holds for linear histograms and for base 2. It fails for base 10 at 1000.
- **`MedianNotBelowMin`.** Fails for a single sample: after `Add(12)` on `NewLinear(5,3)`, `Median()` is 5.
- **`MinMaxTrack`.** `Min` and `Max` are the extreme samples since the last Reset.

Every property of a passing run has a mutant in `PROJECT.json`: a plausible bug in the mapped definition that TLC catches under that run's configuration.

### Bounds

- **PartitionMap.**
  - Two nodes, which is enough for a live and a dead node, and for a master and a replica that differ.
  - Up to two replicas.
  - One namespace. Namespaces do not interact except through the shared heap, which the slots already exercise.
  - One reader, enough to hold a pointer across a tick or a cleanup.
  - The tend setting of pm_modes uses two partitions, regimes 0..2 and two reports a tick, so that a stale report can follow a fresh one within a tick and across ticks. It once had three reports a tick (730k states alone); two halve the states and keep both orders.
  - The runs with a reader use one partition, to stay within minutes.
  - The heap has one slot per namespace, plus one for the table being built, plus one per reader.
- **ErrorModel.**
  - Two local Error variables. The disciplined run has three heap slots; errors_raw has two and the raw violation runs three. That is enough to chain two run-time errors in both orders and to wrap a wrapped error.
  - Two sentinels with different codes.
  - One node.
  - Iteration 1 only. `iter(0)` storing -1 is not reached: no caller of `iter` is among the sources.
  - Constructors that allocate need a free heap slot. `err()` on a sentinel, `chainErrors` on a nil side with an `Error` inner, and dropping a local allocate nothing, so they run also on a full heap.
- **RandRead.** Buffer lengths 0, 7, 8, 16 and 80: empty, shorter than one word, exactly one word, two words and more than 64 bytes, so that both the under-fill and the panic at the last word occur. All ten varint lengths.
- **GrpcErrors.** All 17 gRPC codes and every sentinel; statuses -20..40 cover every negative case of the switch, the unnamed ones between and below them, and the server codes.
- **Refinement.** Checked in the AP and SC settings of pm_modes (one partition, one reader, regimes 0..1, up to two replicas), without Close, once with the namespace in AP mode and once in strong-consistency mode. The strong-consistency instance applies one report a tick, which over two ticks is still enough to leave a replica set and the master unset. With two reports it took over 2.5 minutes.
- **Histogram.**
  - Three buckets (linear) or four (exponential): a first bucket, a middle one and an open last one.
  - Values on both sides of every edge, plus zero and negative values.
  - Up to three samples between Resets. This covers an odd and an even count, and the first sample after a Reset.

### Fairness

- **Tend** is weakly fair: it runs on a ticker for the cluster's lifetime.
- **A command's routing step** is weakly fair: a command that fetched a table goes on to pick its node.
- **Cleanup** is weakly fair once Close is called: `Close` runs `cleanup` to the end. Close appears only in pm_close_tears, which checks a safety property, so no liveness property about Close is checked.
- **Close itself** has no fairness: nobody is obliged to close the client.
- **The error, gRPC and histogram models** check only safety, so they have no fairness.
- **Read** is weakly fair in its loop: a running call is a goroutine that is scheduled again. `CHECK_DEADLOCK FALSE` in `MCRandRead.cfg` because a panic ends the goroutine.

Deadlock is checked everywhere except `MCRandRead.cfg` and the Close configuration. After Close, tend has stopped and no command starts, so the system really does stop.

## Not modelled

- **`Trace`, messages and the stack frames.** Formatting; no property depends on them.
- **`partitionMap.clone`, `len` and `String`.** No modelled caller uses `clone` or `len`; `String` is formatting.
- **`Xor128Rand.Uint64` and `NewXorRand`.** 64-bit arithmetic on random seeds is out of TLC's reach; `Read` abstracts each output to its varint length.
- **`Operation` constructors and `cache`.** The constructors only allocate immutable values. `cache` has no caller among the sources, and its content is the wire encoding, which the spec puts out of scope. None of these constructors sets the encoder `cache` calls. Nothing here is shared between goroutines.
- **Node connection pool, `cluster.go` and `partition.go`.** They are not among the sources. Tend and routing are modelled from the spec (the `spec_modelled` entries of the map).
- **Histogram over float types, and `String`'s formatting.** The bucket ranges `String` prints are the reference definition `Lower` that the bucket properties check against.

## Plan for later work

1. The command retry loop, from the spec, once its source is available: how it chains errors and sets in-doubt status on the final one.
2. A node / connection pool module from the spec (open, idle, close, limits), composed with routing's `Usable`.
