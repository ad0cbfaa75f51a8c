# polars-stats in TLA+

polars-stats is a polars plugin: Python classes (`Normal(mu, sigma).cdf("x")`) build polars
expressions, and each expression calls a Rust function over Arrow columns. This directory holds TLA+
modules of that system, the TLC configurations that check them on small instances, and proofs that
TLAPS checks for instances of every size. Paths are relative to the repository: `rng.rs` is
`src/rng.rs`, `mod.rs` and the distributions are under `src/distributions/`, the Python package is
`polars_stats/`. `PROJECT.json` puts one more `src/` in front, the directory of the checkout.

## 1. Inventory

### How a call runs

    Uniform(a, b).samples(3)                    Python: distributions/_base.py, uniform.py, ...
      -> parameters coerced to expressions      coerce_param, coerce_n, coerce_int
      -> one elementwise plugin registered      _draw, _value_plugin, _param_plugin
           over the parameters and a row index  row_index_expr
      -> polars calls the plugin                once (in memory) or once per morsel (streaming)
           Rust entry point (uniform.rs)        picks a driver, gives it checks, a body, a draw
             -> driver                          mod.rs (value-keyed), rng.rs (samplers)
                  -> domain pass                mod.rs: check_params, check_joint, for_each_valid
                  -> body, per row              a density, a tail, an inverse, a draw

Nothing survives a call. The state that matters is inside one call (columns, chunks, per-row draw
states, one shared draw buffer, a search's bracket), plus what several calls of one expression have
to agree on (the position of a row in its frame).

### Components

| Component | Source | State | Operations | Interacts with |
|---|---|---|---|---|
| Sampler drivers | `rng.rs` | aligned columns, row states, root seed, the shared draw buffer, its two validity bitmaps | `elementwise_sample(s)(_with)`, `fill_rows` | rayon pool, row streams, domain passes, a distribution's draw |
| Row streams | `rng.rs` | a splitmix64 state per row | `RowSeed`, `row_rng`, `fill` | seed and row index from Python |
| Value-keyed and parameter-keyed drivers | `src/src/distributions/mod.rs` | aligned columns, an optional constant state | `value_keyed`, `value_keyed_with`, `param_keyed`, point-keyed drivers of DiscreteUniform | domain passes, a distribution's body |
| Domain passes | `mod.rs:95-261` | a position in chunked, nullable columns | own rules and joint rules, a fast and a reporting reading | every driver |
| Plugin registration and row index | `polars_stats/distributions/_base.py` | an expression | `row_index_expr`, `_draw` | polars' engines |
| Python coercion and wire format | `polars_stats/distributions/_base.py` | a distribution: parameter expressions, scalar kwargs | `_coerce`, `coerce_n`, `coerce_int`, `_checked_seed`, `_checked_size`, `scalar_kwargs` | the constructors, every plugin |
| Moment gating | `_base.py` and the 14 distribution classes | none | `_validated`, `_moment`, `_param_plugin`; mean, variance, std, median, entropy | the validating plugins, polars' arithmetic |
| Poisson, Binomial inverses | `poisson.rs`, `binomial.rs` | a search bracket | gallop and bisection; binary search | a rounded cdf |
| DiscreteUniform | `discrete_uniform.rs` | bounds and their count | `place`, `cdf`, `sf`, `ppf`, `isf`, moments | points of both integer kinds and floats |
| Uniform, Bernoulli, Geometric, Exponential, Pareto, Weibull | their files, helpers in `mod.rs` | none | densities, tails, logs, inverses, draws in closed form | `f64` arithmetic |
| Normal, Gamma, Cauchy, Beta, ... | their files | Gamma: a Newton search | real-valued functions, mostly statrs | the drivers |
| Accuracy audit | `tools/accuracy/audit.py` | the sweep's position, probes, a search's bracket, the report | `audit_registry`, `audit_method`, `evaluate`, `classify`, `smallest_from`, `main` | the library, mpmath, the exit code |
| Benchmarks, docs, tests | `tools/benchmarks/`, `docs/`, `tests/` | - | offline | - |

### What is hard here, and what makes each part correct

* **Sampler drivers.** Above 4096 draws the rows are filled by rayon workers in any order into one
  buffer. Correct: a seeded answer is a function of the arguments alone, no draw is written twice, a
  null row is masked although its slots hold valid-looking zeroes, an impossible size is an error, and
  an unbuildable row fails the whole call.
* **Row index.** The streaming engine cuts a frame into morsels answered in any order, and an
  expression can be taller than its frame. Correct: a row's draws depend on its position in the frame
  only, no two rows share a stream, and an invalid parameter in one morsel fails the query as the
  in-memory call fails.
* **Value-keyed drivers.** Up to four reasons to raise, tested in different orders on five routes; a
  constant parameterisation with a missing part goes down two routes in turn. Correct: all routes give
  one answer, every reported error is real, reports come in the documented order, and a constant
  parameterisation is checked even on an empty frame.
* **Domain passes.** The fast reading looks at whole chunks, the reporting one at cells, and two
  columns may be chunked differently. Correct: accepted exactly when every row is inside its domain,
  the value reported is the first one rejected, what lies behind a null is never read.
* **Searches.** Each compares rounded tails that need not be monotone, in a format where past 2^53
  adding 1 changes nothing. Correct: they end, answer a step, and a cdf value inverts to its own step.
* **DiscreteUniform.** Integers wider than the floats that index them. Correct: monotone
  probabilities, integer and float points agree, inverses stay inside the support and climb.
* **Closed forms.** Each function has several forms and crossovers between them; `0 * inf`,
  cancellation and premature overflow are one wrong factor order away. Correct: no NaN for valid
  inputs, monotone tails across crossovers, logs that keep what a tail rounded away, inverses that
  undo tails, draws inside their interval.
* **Python's side of a call.** A parameter is a scalar, a literal or a column; scalars ride in kwargs
  by name, others as inputs by position; a moment is recomputed from raw parameters behind a validated
  column. Correct: a moment is null or raises exactly as its parameters say, on every row and route,
  and no integer reaches a plugin that its wire cannot carry.
* **Audit.** One row that raises fails its whole batch, which is then retried row by row; some library
  methods never return; oracles give up or break; an interrupt still reports. Correct: each point is
  probed once and charged for itself alone, a verdict is fair at zero, among the subnormals and past
  the float limit, discrete references are found from any seed, and exit code 0 means an audit
  happened and was clean.

Not present in this system: persistence, messages, timeouts. No hazard of those kinds is claimed.

## 2. Modules

| Layer | Modules | Models |
|---|---|---|
| Arguments | `PluginArgs`, `SampleArgs`, `ValueArgs` | what a call is given; alignment and broadcast; the rules of a parameterisation; what a call owes |
| Abstract specifications | `SampleContract`, `ValueContract` | a call as one step: raise with a cause, or return what is owed |
| Drivers | `Sampler`, `ValueKeyed` | the calls step by step, shown to implement the contracts |
| Domain passes | `Chunks`, `ParamCheck` | the two readings over chunked, nullable columns |
| Frame | `SampledFrame` | one expression over a frame as many calls, composed from the sampling contract |
| Python | `Distributions`, `PluginDomains`, `PythonCalls` | the 14 classes' parameters and moments, the same parameters as Rust reads them, and a program's calls, composed with `SampledFrame` for the draws |
| Audit | `AuditSearch`, `AuditVerdict`, `Audit` | the searches behind the discrete oracles, `classify`, and a whole run, composed from both |
| Inverses | `TinyFloat`, `BinomialQuantile`, `PoissonQuantile`, `DiscreteUniform` | the searches, and integers over floats |
| Closed forms | `BitFloat`, `FormTools`, `UniformForms`, `BernoulliForms`, `GeometricForms`, `ExponentialForms`, `ParetoForms`, `WeibullForms`, `ClosedForms` | six distributions in float arithmetic |
| Instances | `MC*` | constants for TLC; `MCClosedForms` also holds libm's functions as correctly rounded tables |
| Proofs | `SamplerProofs`, `ValueProofs`, `CheckProofs`, `RoundingProofs`, `BinomialQuantileProofs`, `PoissonProofs`, `DiscreteUniformProofs`, `ClosedFormProofs` | theorems, and lemmas they share |

Operators that begin a definition with "Mutant:" in their comment are deliberate faults. They are
never used by a specification; `PROJECT.json` says which property each one must break.

### Correspondence with the code

**`Sampler`.** One plugin call. `phase` is the position in the driver; `cols`, `index` are the aligned
columns, `states` the draw states built per row, `draws` the zeroed row-major buffer, `todo` the
chunks no worker has taken, `held`, `slot` and `rng` each worker's chunk, how many of its slots are written, and
the stream they are drawn from, `rows` the answer. The end of a chunk is the slice's, never the stream's.

| Action | Code |
|---|---|
| `Align`, `Coerce`, `CheckParams`, `BuildStates` | the column drivers' prologue, in the code's order |
| `BuildOnce` | the scalar twins' one build |
| `ResolveRoot` | the seed, or a root from the operating system |
| `SampleRow`, `CollectRows` | the single-draw loop; building a row's sampler can fail inside it |
| `AllocDraws` | the checked product `rows * size` and the fallible allocation |
| `ClaimRow`, `DrawSlot` | `fill_rows`: a worker takes a chunk, then writes one slot per step |
| `MaskRows` | the two bitmaps over the filled buffer |

The parallel and the serial fill are the same two actions; below `ParallelMinDraws` only the calling
thread takes chunks, in row order. A draw is the record of what it depends on (row parameters, root,
row index, position in the stream), so two draws are equal exactly when nothing they depend on differs.

**`ValueKeyed`.** `phase` again is the position in the driver, and `error` remembers which check
raised. Five routes share the actions: the scalar twin (`BuildOnce`), the constant branch
(`CoerceConstant`, `CheckConstant`), columns (`Align`, `GateKey`, `CoerceColumns`, `CheckColumns`),
DiscreteUniform's point-keyed drivers and the parameter-keyed methods; `Proceed` names the next check
each route makes.

**`ParamCheck`.** `pass` is the rule being read, `reading` whether by chunks, by aligned chunks or by
cells, `at` the position in each column. The value behind a null slot is any value, as Arrow leaves it.

**`SampledFrame`.** `morsels` is the cut, `answered` the rows so far. Each morsel's call is judged by
`SampleContract`'s definitions, so the module composes the frame with the very contract `Sampler`
implements.

`Submit` is the environment's: it hands the frame an expression to run. `FrameInit` is before any.

**`PythonCalls`.** `distro` is a constructor call with its Python objects, `asked` the method, `answer`
per row the parameters its value was computed from, so that a value that took another row's or another
parameter's place shows. `Construct` coerces in the constructor's order, `RefuseDraws` / `AskDraws` are
`sample` and `samples` (the latter submit to `SampledFrame`), `AskMoment` and `AskValue` the others, and
`EvaluateQuery` runs those whole or in morsels. `Distributions` gives for each class its parameters'
order, its validated quantity and the shape of each moment (`Gated`, `Validated`, `Plugin`, `AtHalf`, `Of`,
`Undefined`, `Diverging`); `PluginDomains` says what Rust reads at each position. A class whose order
differed on the two sides would answer with swapped parameters. A formula is the set of parameters it
reads: what it computes is not modelled, nor the dtype it is computed in (a moment of integer columns
is polars' integer arithmetic).

**`Audit`.** `method` (an index into `Registry`), `set` and `point` are the sweep's position, `place` the three together, `rows` what the library does on each point of
the set, `seen` the observations made of it, `found` and `probes` the lists of `audit_method` and `main`.

| Action | Code |
|---|---|
| `RunControls`, `Guards` | `main` up to the sweep, each early return |
| `NextMethod`, `EndMethod`, `Yield`, `EndSweep` | `audit_registry`, which hands a method's probes over one by one |
| `PassSet`, `Batch`, `RetryRow` | `audit_method`, `evaluate`: a batch that raises is asked again row by row, a moment is not |
| `JudgePanic`, `AskClosed`, `AskRefined`, `AskEnd`, `AskWithin`, `AskFrom` | an error, or the oracle by its kind: a formula, `solve_monotone`, a discrete inverse at an end or searched for |
| `Search` | one step of `smallest_satisfying` / `smallest_from` (`AuditSearch`) |
| `Judge` | `classify` (`AuditVerdict`) |
| `Interrupt`, `WriteReport`, `Leave` | an interrupt, the `finally`, the exit code |

The library and the oracles are the environment. An interrupt or an exception other than
`OracleUnavailableError` still writes the report and exits with the interpreter's own code, here
`ByException`. Values are integers in quarters of the smallest subnormal, so that a reference may lie
between two floats or past the largest; subnormal spacing is the only spacing, and `1 / Tolerance` is the
method's relative tolerance.

**`BinomialQuantile`, `PoissonQuantile`.** `lo`, `hi`, `step` are the code's. A cdf is a step function
and every evaluation adds a fresh error within `Noise`, so the same point may reach a level once and
miss it the next time: the worst a rounded series can do. Poisson compares the logs of its tails, so
its errors and its tolerance are ratios of the tail compared: in the model a tail and its target are
compared after multiplication by parts of `Unit`, and a fixed slack in the log is a factor `1 - Slack / Unit`.
Poisson's starting estimate is any support
point, since the normal approximation that computes it is not modelled.

**`DiscreteUniform`.** `Place`, `Cdf`, `Sf`, `Ppf`, `Isf`, `Midpoint` are the code's functions over
integers of `IntBits` bits and floats of `Precision` bits, with `IntBits > Precision` as 64 > 53.

**`ClosedForms`.** A distribution is built and checked, asked for one method at one point, and its
answer handed to the method that inverts it. Every operation of the code's expression is one rounded
operation of `BitFloat`, in the code's order.

**Floats.** Two external modules stand for `f64`. `TinyFloat` has signed fixed-point values rounded to
`Precision` bits (round half to even) with overflow, enough where no subnormal or NaN can arise.
`BitFloat` has subnormals, signed infinities and NaN at the places `f64` has them; zero has one sign.
Its four operations, `floor` and `ceil` round once each, to nearest, ties to even. `exp`, `ln`, `ln_1p` and `sinh` are
libm's and enter as constants, functions from bit patterns to bit patterns. The run gives them `MCClosedForms`'s tables, the
correctly rounded values at every float of its format; the proofs know of them only what four assumptions say
(section 5). A helper of the code that composes several operations is composed of as many rounded
operations here, in the code's order: `expm1` is `2 * exp(t / 2) * sinh(t / 2)` with each factor and each product
rounded, `ln_abs_expm1` a sum of three terms, `scale_exp` two products. Thresholds the code states for 53 bits are
restated for the format: the identity range of `expm1` (2^-53 becomes 2^-Precision), `LN_CDF_IS_LN_POWER_BELOW`
(`ln(2^-53)` becomes `ln(2^-Precision)`), and `CDF_DIRECT_COMPLEMENT_MAX`, whose 20 is the constant
`DirectComplement`, 2 in the run, where `1 - exp` has both forms a few floats from 1.

## 3. What each run checks

Twelve runs. A run marked *violation* shows a place where the code and its documentation part: TLC
finds the documented statement violated by what the code does.

| Run | Question | Bounds |
|---|---|---|
| `sampler` | Does a sampler call answer or raise exactly as the one-step contract allows, on both routes, whichever worker writes which row when? | 2 parameters, 0..2 rows with every cell, 3 rows for the parallel fill, 2 workers, sizes 1, 2, 3, 5, 2 roots, `MaxUsize` 9, parallel from 6 draws |
| `sampler_empty_frame` (violation) | Is a constant parameterisation checked on an empty frame? | the same inputs, 1 worker |
| `python_calls` | Do the engine, the cut into morsels and their order show in a seeded answer? Can a moment disagree with its validated parameters, or a scalar reach a plugin it does not fit? | 14 classes, every spelling of each parameter, 0..2 rows with bad, null and negative cells; draws of Uniform over frames of 0..2 rows, parameters of 0..3, every cut, every order; frames of a value-keyed method up to `MaxHeight` = 2; a wire of -3..2 |
| `value_keyed` | Do five routes implement one contract and report what is wrong in the documented order? | 0..2 rows with every cell, lengths 0..3, every dtype pattern |
| `param_check` | Do two readings of chunked, nullable columns accept exactly the domain? | every pair of columns of 0..2 rows, chosen ones of 3, every null and chunk pattern |
| `binomial_quantile` | Does the binary search end on a step of a noisy cdf? | 0..4 trials, 4 levels, errors of 1/32, quantiles on, beside, outside |
| `binomial_isf_domain` (violation) | Is a quantile outside [0, 1] always null? | the same |
| `poisson_quantile` | Do gallop and bisection end on the quantile, from any estimate, past where whole numbers run out? | 4-bit floats, whole numbers exact to 16, overflow above 248, 3-step distributions in 64 levels with a narrow step on either tail, errors of 1/16 and a tolerance of 3/16 of the tail compared, every estimate |
| `discrete_uniform` | Monotone, consistent, invertible on integers wider than the floats? | 7-bit integers, 5-bit floats, 22 bounds, every quantile of the format |
| `discrete_uniform_counts` (violation) | Are counts only read inside [1, N - 1]? | one pair of bounds past the float grid |
| `audit` | Does a run of the audit charge each point once, judge it fairly, end, and exit 0 only over a clean sweep? | 6 methods of 4 distributions, 1 or 2 points a set, 9 command lines, references from -80 to 80 subnormal spacings in quarters around every threshold |
| `closed_forms` | Are six distributions free of NaN, monotone, invertible, right in their logs, at every float? | 5-bit floats with subnormals and overflow, 12 values of each parameter, every float, every quantile |

### Properties

* **`sampler`.** `BufferHoldsPrefixes`: at every moment of every interleaving the buffer holds exactly
  each row's own draws up to where its worker stands, and zeroes elsewhere. `DrawsWrittenOnce`: no step replaces a draw. `ImplementsContract`: refinement of `SampleContract`, so
  route, worker order and fill mode do not show in an answer.
* **`python_calls`.** `AnswerIsFrames`: each row holds what one call over the frame owes it, at the frame's height.
  `RowsHaveOwnStreams`: no two rows share a stream, also where a parameter is taller than the frame.
  `RaisesAsOneCall`: a query fails if and only if a whole-frame call does (but for the limit on one
  call's draws, which smaller calls may escape). `MomentsFollowTheirParameters`: a row of a moment or
  a value is null exactly where a parameter of its row is (or where the moment is undefined), whichever
  of them its formula reads; no invalid row is answered, an error has a cause, and scalars agree with
  the same values as literals. `OnlyTheWireable`: what goes into kwargs fits the 64-bit wire, and what is
  refused could not have been sent.
* **`value_keyed`.** `ValueDriversReportInOrder`, `ImplementsContract` (refinement of `ValueContract`).
* **`param_check`.** `VerdictIsTheDomains`, `RejectsTheFirst`.
* **`binomial_quantile`, `poisson_quantile`.** `AnswerIsQuantile`, `RoundTrips`, `Terminates`, and
  `InfinityIsOutOfReach` for Poisson: `+inf` is answered only past the reach of the doubling, that is, no
  support point in the nearer half of the way from the estimate to overflow clearly meets the quantile.
  Poisson's `RoundTrips` has two halves. Up to one half the tail compared is the quantile's own, and a computed
  quantile inverts to its own step. Past it that tail is `1 - q`, exact, but `q` itself was rounded: while the tail is
  large beside that rounding (`Resolved`) the step is its own still, and once it is not (below about 5e-5 in `f64`,
  `poisson.rs:61-64`, `docs/explanation/accuracy.md:55-57`) the answer may be the next step and no later one.
* **`discrete_uniform`.** `CdfClimbs` (at integer points on any support, at float points on bounds inside
  ±2^53), `IntAndFloatAgree`, `InverseClimbs` (the inverses stay in the support
  and climb), `InversesInvert` (they undo the tails, and are the rational step functions off the edges),
  `MidpointIsExact`.
* **`closed_forms`.** `AnswersAreNumbers`, `TailsClimb`, `LogsKeepTheTail`, `PdfKeepsItsRange`,
  `InversesInvert`, `DrawsStayInside`. `TailsClimb` allows `cdf` and `sf` a step back of `TailSlack`, as
  `test_cdf_bounded_and_monotone` does (`_MONOTONE_SLACK`): `expm1` is three rounded operations and not monotone by
  itself. `PdfKeepsItsRange` says where a density may be 0 or infinite: where its log has left the format, and for
  Pareto and Weibull, which apply their second half exponential last, 0 below the normal floats and infinite where shape
  over the point or the scale is.
* **`audit`.** `SearchFindsSmallest`: a wrong library answer cannot become its own reference.
  `VerdictsAreFair`: a correctly rounded answer is OK, and OK is never given to a saturated, sign-flipped or
  distant one. `EachPointOnce`: whatever raises, gives up or is interrupted, the probes so far are the sweep's first,
  one to a point, and one reads PANIC exactly if its own row raises. `ExitIsHonest`: exit code 0 means a complete,
  clean, nonempty sweep of what was asked for. `SweepEnds`: a sweep that skips what hangs ends.

`IInv` in a run is the inductive invariant of the module's proofs: the runs check what the proofs
rest on before they rest on it. `PythonIInv`, `AuditIInv`, DiscreteUniform's `IInv` and Poisson's `IInv` and `Gallop`
hold on the instances of `python_calls`, `audit`, `discrete_uniform` and `poisson_quantile` too; the runs check by
name the properties that follow from them.

### Why the bounds are enough

* Two parameters are the fewest that have a joint rule and can disagree in length, dtype, nulls and
  chunks. Three rows are the fewest at which a chunk has two neighbours and two workers leave one
  waiting. The nine draws of the
  largest fill pass the parallel threshold of six, the three of the smallest do not, and ten exceed
  `MaxUsize`. Nothing in a driver depends on a count beyond those comparisons, and the
  theorems below remove the bound altogether.
* Cells come from one value per behaviour: accepted, accepted alone but rejected jointly, rejected by
  its own rule, accepted but impossible to build, null.
* The wire of `python_calls` has one integer beyond each end and room for the unsigned and the signed
  limit to differ; parameter cells are null, not a number, negative, 0, 1, 2 and 3, which separates every
  rule and both of Pareto's thresholds.
* The audit's command lines filter the registry to one distribution each, and one runs two, since what
  a method leaves behind is only its probes; the references lie on, between and beside the floats at 0, one
  subnormal, the smallest normal and the largest.
* The float formats are small enough to enumerate every float and every quantile, and keep the
  relations of `f64` that the code relies on: integers wider than the significand, whole numbers running out
  below overflow, subnormals, a threshold for each crossover. The formats are coarse: a
  property that tolerates one float tolerates a larger relative error than in `f64`, so the runs
  establish structure (order, range, NaN, round trips to the neighbour) and not accuracy, which the
  repository audits against mpmath.
* `closed_forms` has 5 bits, the least float at 2^-12 and overflow at 2^10. As in `f64`, the least float is further
  below 1 than the greatest is above it, by the same rule (`Depth` = `TopExponent` + `Precision` - 3, 1074 = 1024 + 53 - 3), so that
  a reciprocal of a subnormal overflows and a product of two small normals vanishes. Its parameters are both
  ends of the format, the least normal float, 1/2, 1 and both its neighbours, and 96, a shape that passes any scale.
* Tolerances are stated as constants of the run. `cdf` and `sf` may step back by `TailSlack`, here 2^-5, one ulp
  below 1 (the test allows 1e-12); half of it fails. Logs of a tail may cross by `LogUlps` = 8 floats (Uniform changes
  its anchor at the midpoint, and `expm1` rounds thrice); all inverses climb with no slack at all. A continuous inverse
  undoes its tail to `TailUlps` = 3 floats of probability when its answer is moved by `InverseUlps` = 8 floats; a discrete
  one to one support point, as `test_geometric_ppf_at_an_exact_step_boundary_can_miss_by_one` documents.

### Fairness

Liveness is checked in three runs. The two searches assume `WF_vars(Next)` only: some step is taken as long as
one is possible. A search is a sequential loop on a thread polars has started; nothing in it waits for an outside event
or for a lock, and what an evaluation rounds to is left to the worst case. The drivers loop over rows by index and the
workers over the slots of a slice, which end by their shape; their liveness is not stated.
The audit is one thread, so `WF_auditVars(Step)` says that it goes on; a query that never returns has no step, an
interrupt is never owed, and `SweepEnds` assumes that what hangs is skipped, as `KNOWN_HANGS` does by default.

### Cases set aside inside properties

* `LogsKeepTheTail` leaves out Geometric at the least subnormal probability (section 4).
* `PdfKeepsItsRange` leaves out Weibull of shape below 1, where the second half exponential can exceed 1 and
  `shape * half / scale` leaves the range on either side of an ordinary density: `Weibull(1e-300, 1e-300).pdf(1)` is 0 with a
  log of -691.8, `Weibull(1e-30, 1e308).pdf(5e-324)` is infinite. For Pareto and a shape from 1 up the property names
  where the order of the factors lets the density leave the format; one of these cases a test rules out (section 4).
* `scale_exp` is said to hold "for every normal `scale`" (`mod.rs:534`). A subnormal Pareto scale is among the
  parameters, but the format's half exponents overflow no earlier for it than its quantiles need: the run neither
  shows nor excludes that case in `f64`.
* `CdfClimbs` leaves out float points on bounds past 2^53. `discrete_uniform_counts` shows `sf` above 1 there, and `cdf`
  can pass it too: on bounds -36028797018963980 and 6, `cdf(5.0)` is 1.0000000000000002.
* DiscreteUniform's round trip and its agreement with rational arithmetic are stated for bounds
  strictly inside the integers floats address and a count one bit below that, and off the
  one-float window above a step's edge that `docs/explanation/accuracy.md` documents.
* Poisson may answer a fraction within the last support interval when its estimate overshoots the
  quantile by more than `SeedError` and the gallop down crosses magnitudes; the property asks for a
  whole answer only from closer estimates.

## 4. Findings

| Run | Kind | What |
|---|---|---|
| `sampler_empty_frame` | documentation | On a 0-row frame the column drivers of `rng.rs` broadcast a length-1 parameter to no rows before checking it (line 428), so an invalid constant expression is answered with an empty column; `docs/reference/parameters-and-contracts.md:179-182` says it is still checked. The value-keyed drivers do check it. |
| `binomial_isf_domain` | code | `isf_value` (`binomial.rs:224`) complements before it checks the domain: a `q` in [-2^-54, 0) becomes exactly 1 and is answered with the support's bound `n` instead of null. `beta.rs` has the same complement. |
| `discrete_uniform_counts` | code | For bounds past 2^53 whose casts part by more than they do, `place` (`discrete_uniform.rs:151`) reads a tail longer than the support, and `sf` answers more than 1, against the comment at lines 120-121. |

Three more divergences are stated in no run. Two were met while bounding what `closed_forms` may ask:

* `pareto.rs:85` divides before its second half exponential. `Pareto(1e-307, 3e17)` one float above its scale has a
  log density of 687.9 and a density of `inf`, where `tests/distributions/precision_test.py:679-681` says that "the
  intermediate stays inside `float64` wherever the density itself does".
* `ln_abs_expm1` (`mod.rs:486`) halves its argument before `sinh`, and half the least subnormal is 0:
  `Geometric(5e-324).log_cdf(1)` is `-inf` although `cdf(1)` is `5e-324`. `expm1` (`mod.rs:474`) is guarded against the same
  halving; `mod.rs:481-483` says that the rounding stays relative.

The third: `point_keyed` (`discrete_uniform.rs:328`) checks the bounds before
it reads the value column, so with both invalid six methods of DiscreteUniform report the parameter where
`parameters-and-contracts.md:183-185` promises the value column. `ValueKeyed` has that route in the code's order, and
`ValueDriversReportInOrder` is stated of the drivers of `mod.rs` alone.

## 5. What is proved

Every theorem holds for all values of the constants, under the assumptions the modules name:

| Assumption | Says | Why the code justifies it |
|---|---|---|
| `DomainAssumption` (`PluginArgs`) | a plugin has finitely many parameters, and null is none of their values | a plugin names its inputs one by one |
| `ConstantsAssumption`, `PointsAssumption`, `CallsAssumption` | sizes, thresholds and limits are naturals; calls are well formed | polars hands over columns of the declared kinds |
| `WorkersAssumption` (`Sampler`) | the calling thread belongs to the pool; the zero a slot starts with is no draw | rayon's `install`; a draw records what it depends on, and a zero depends on nothing |
| `ColumnsAssumption` (`ParamCheck`), `WireAssumption` (`PluginDomains`) | the columns of a call have one length; the largest wire integer and the widest Uniform are positive | `align_inputs` runs first; `_MAX_WIRE_INT`, `f64::MAX` |
| `ObjectsAssumption` (`PythonCalls`) | a distribution is built from one object per parameter of its class | Python's own signature check |
| `AnswersAssumption` | null is no computed answer | Arrow keeps nulls apart from values |
| `RegistryAssumption` (`Audit`) | the registry is a finite list of methods; a predicate that is searched for holds from some count on; a raise is no answer | `build_registry`, discrete oracles over monotone tails |
| `VerdictAssumption` (`AuditVerdict`) | the format leaves a rounding inside every method's tolerance | audit.py:88-126, where 1e-6 is the loosest and 2^-52 a spacing |
| `DiscreteUniformAssumption` | bounds and points of the integers' width, quantiles floats of either sign; the integers outgrow a significand, no integer of twice the width overflows the floats, and no count has a subnormal reciprocal | i64 bounds, i64 and u64 points, Float64 quantiles; in `f64` `Precision` = 53, `FractionBits` = 1074, `MaxExponent` = 2045, and 53 < 64, 64 + 1074 + 1 < 53 + 2045, 64 + 53 <= 1074 + 2 |
| `FormatAssumption`, `CdfsAssumption` (`TinyFloat`, `BinomialQuantile`) | a float format; nondecreasing distributions that end at 1 | IEEE 754; statrs' cdfs before their rounding |
| `FormatAssumption`, `RangeAssumption` (`BitFloat`) | significands of at least 3 bits, subnormals deeper than a significand, overflow from 4 up | 53 bits; the least subnormal is 2^-1074; `Infinity` is 2^1024, `Binades` = 2045 |
| `ExpAssumption`, `LnAssumption`, `Ln1pAssumption`, `SinhAssumption` (`BitFloat`) | `exp` and `ln` are monotone, exact at 0, at 1 and at the ends; `ln` of a finite positive float is within a quarter of `Infinity`; `ln_1p` has its argument's sign, is finite above -1 and -inf at it; `sinh` is not positive from 0 down | what every libm keeps of exact values far apart; no digit is assumed |
| `CrossoverAssumption` (`GeometricForms`) | `cdf` leaves `expm1` at a finite point from 1 up, and `sinh` is finite as far | 20; `sinh` overflows past 710 |
| `CountAssumption` (`GeometricForms`), `InputsAssumption` (`ClosedForms`) | the cap on a trial count is a finite float from 1 up; parameters and points are numbers, infinite or not, and null is none | `u64::MAX`; NaN points are answered before the body (`ValueKeyed`) |
| `LevelsAssumption` (`PoissonQuantile`) | floats of at least 3 bits; nondecreasing distributions strictly between 0 and 1 | 53 bits; both tails of a Poisson are positive at every finite point |

Columns, frames, heights, cuts, registries, supports and pools are of any size. TLC evaluates each assumption on
the instance of every run that extends its module.

Each proof has the same shape: `Init => IInv`, one lemma per action for `IInv /\ Action => IInv'`,
their conjunction for `[Next]_vars`, and a short step from `IInv` to the property.

**`SamplerProofs`.** `BufferHoldsPrefixes` is not inductive: it needs to know
that a worker's stream is the stream of the row it holds (`WorkersOnCourse`), that two workers never
hold one row nor one still to be taken (`ChunksDisjoint`), and that different rows' slots never
coincide (the arithmetic lemmas `SlotsDisjoint`, `SlotInBuffer`, `RowOfSlot`). That the answer is what
is owed needs in turn that draw states were built from each row's own parameters (`StatesBuilt`,
`InputsAligned`), that the root is the call's (`RootResolved`), and which checks lie behind a phase
(`ChecksPassed`, `PhaseOfCall`). From the invariant: `TypeCorrect`, `PrefixesInBuffer`,
`ChunksNeverShared`, `AnswerDetermined`, `DrawsNeverReplaced` (an action property) and
`CallImplementsContract`, that every step is a step of `SampleContract` or a stutter.

**`ValueProofs`.** `RouteOfCall` says which phases a route visits, `StateIsConstant` that a state built
once is every row's own parameters, `InputsAligned` that row r of the columns is row r of the call,
`ChecksPassed` which checks lie behind a phase, `RowsOwed` what the answer is so far. From it:
`ErrorsAreReal`, `ReportsInOrder`, `ConstantsChecked`, `CallImplementsContract`.

**`BinomialQuantileProofs`.** `BracketHolds`: the top of the bracket may reach the level, and the point under
its bottom may miss it, whatever errors the evaluations had. From it: `AnswersAStep`, and `StepsRoundTrip`: at each
quantile where `ToleranceCovers`, that is where two evaluations of one point part by less than the tolerance and the
rounded threshold by no more than another one, a cdf value inverts to its own step. An f64 tolerance of 1e-12 covers a
few ulp at every normal quantile; at the least subnormals the threshold rounds to the quantile itself and the
hypothesis fails, as it does in the run for 1 and 2 spacings and for no other quantile inside the unit interval.

**`CheckProofs`.** What stands around the computations: the arguments, in Python and in Rust, and the accuracy
audit; the three share lemmas about naturals and sets, and no constant or variable. Python's side has two invariants, one for
each module. `FrameIInv` says that the morsels are a cut of the
whole call's rows (`MorselsMakeTheFrame`) and that each morsel answered got what its own call owes it
(`AnsweredAsOwed`); it is the answer of every order of every cut. The lemmas under it are about broadcasting: the
row index is as tall as the frame and as any parameter that is not bare (`IndexSpans`), the columns of a
morsel at its row are those of the frame at that row, so that what it owes is the frame's own (`FrameAnswers`), rows
carry their own index (`FrameStreams`), and an invalid row of the frame is an invalid row of the one morsel that
covers it (`FrameRaises`). `PythonIInv` adds the program: which coercions
lie behind a stage (`FirstError`), what was asked, and that the size and the seed of a drawing frame fit the wire. Under it lie two
facts about the 14 classes, proved class by class: the Python parameters and the Rust domain name the same inputs
in the same order, and each of the 70 moments has a form whose gate covers what its formula reads (`EveryMoment`).
From them: `AnswersAreTheFrames`, `StreamsAreTheRows`, `FramesRaiseAsOneCall`, `MomentsFollow`, `OnlyTheWireableIsSent`.
None of them cites an assumption of `ParamCheck`.

On Rust's side `OwnProgress` and `JointProgress` say that what a domain pass has read is inside
the domain, that a reading by chunks stands at a chunk's start, and that after an alarm the cause lies
ahead of the reporting reading. From it: `VerdictCorrect`, `FirstRejected`, `AlarmsReal`.

Of the audit, `SearchIInv`: the answer never leaves the bracket, the gallop down stands on a point that holds and
the gallop up on one that does not. `ClassifyIsFair`: the verdict is `Fair` on every pair of an answer and a
reference, for any float limit, smallest normal and tolerance, where `VerdictAssumption`'s last conjunct is
the one that matters: half a spacing at the smallest normal is within the relative tolerance
(`RoundingIsWithinTolerance`), so that rounding alone is never a defect. `AuditIInv` puts both in the sweep.
`EachPointOnce` alone is not inductive: it takes `Reached`, that the probes made are exactly those of the points
before the sweep's place in the order of methods, sets and points, and `SeenIsRows`, that an observation is its own
row's behaviour whether it came from the batch or from a retry. A recorded probe is the next in that order (`NextPoint`,
`NextProbe`), a skipped method or set hides no point (`NothingBetween`), and handing a probe from
`audit_method` to `main` leaves their concatenation alone (`HandedOver`). `ExitIsHonest` needs that a
report without failure was written past every point. From it: `AuditSearchCorrect`, `OraclesAreIndependent`,
`EveryVerdictIsFair`, `ProbesAreThePoints`, `CodesAreHonest`.

**`RoundingProofs`.** Lemmas about `TinyFloat` in every format. The library has no facts about `^`, so powers of 2 are
counted as sets of subsets (`PowerSum`). From them the format: the spacing around a ratio is the least that fits
(`SpacingFacts`), rounding lands on the grid (`NearestInGrid`), leaves it alone (`NearestFixesGrid`), keeps order
(`NearestClimbs`), errs by half a spacing at most (`NearestError`), keeps a multiple of a power of 2 one
(`MultipleFrom`), has no units (`RoundScales`), and `floor` of a float is a float (`FloorOfGrid`).

**`PoissonProofs`.** `Bracket`: the top of the bracket may reach the level and its bottom may miss it, whatever errors
the evaluations had. The bisection stops when no middle lies inside; that this leaves no support point between the
ends (`NothingInside`) is a fact about rounding, since past 2^53 the middle is itself rounded and may land on an end
(`MiddleIsAbove`, `MiddleIsBelow`). `Fractions`: no number the search forms is finer than the floats at 1, and none is a fraction
unless the estimate is past 2^52, where the first step may be one. From them `AnswersAQuantile`, where an estimate at most one
above the answer gives a whole number, and `QuantilesInvert`. Each has one hypothesis, which the run's instance meets: `SeedError
<= 1`, a bound on which estimates the last conjunct speaks of, and `2 * Noise <= Slack`, that the tolerance covers two errors of
evaluation, all of them ratios of the tail compared (`STEP_TOLERANCE` is 1e-12 in the logarithm, an evaluation a few ulp).
What the tolerance does not cover is the rounding of `q` itself where the tail compared is its complement and
small: there (`~ Resolved`) the theorem places the answer no further than the next step that can be told apart, which is
the `k + 1` that `poisson.rs:61-64` and `accuracy.md:55-57` speak of.
`OverflowsOutOfReach` needs that doubling outruns rounding: with `d` the first step, the gallop should stand `step - d` above the estimate, but every addition may
round, and a bound on the accumulated error would have to count the steps. `KeepsUp` does without: every multiple of the spacing at
`lo` that lies below `step` is at most `lo - seed + d`. An addition keeps it because the sum is rounded on just that
grid (`GallopAt`, `GallopLands`), and where the sum overflows it bounds how far the estimate was from it (`GallopOverflows`).
The property had been stated with `4 * d` in place of `d`; the proof shows the sharper bound.

**`DiscreteUniformProofs`.** `IInv` says that a state holds its method's answer of accepted bounds; the work is in
the arithmetic under it, over the lemmas of `RoundingProofs`. Three facts carry the properties. `Reciprocal`: the rounded `1 / N` times `N`
rounds to 1 or less, since the product is at most half a spacing above 1 and that tie goes to the even 1; hence
`cdf` and `sf` of an integer point on any support, and of a float point between exact bounds, are probabilities that meet
their explicit ends (`CdfNeverFalls`). `CastsPlaceAlike`: below the
significands casts are exact, and beyond them keep their side of the bounds (`DtypesAgree`). `PpfClimbs`,
`IsfFalls`: of two quantiles the candidates, rounded to whole floats, are ordered as the quantiles are, and a
correction step compares a quotient that is monotone in the point with the quantile itself, so the higher quantile
is never corrected past the lower one (`InversesNeverCross`); this holds past 2^53 too, where `candidate - 1` may be the
candidate. `HalfStep`: a midpoint is rounded once where the width is even and at most a spacing off where
the cast and the added half are both rounded (`MidpointsAreExact`).
`InversesInvert` is a race of errors on a support narrower than the significands, where every whole number the
inverses form is exact (`WholesAreExact`). A quantile times `N` is at most a quarter of a point off (`ScaledIsClose`), the
probability of a point, rounded reciprocal and rounded product, less than three quarters of one (`MassIsClose`), and the
quotient a correction compares with a quarter (`EdgeFacts`): so the product of `N` and a probability never reaches the
steps two away, nor does the quotient there confuse the correction (`MassAmongEdges`), and a point comes back as itself or
its neighbour. For the rational step functions, a product is on the right side of every whole number or on it. A ppf
candidate one too high is stepped down by its quotient, one too low has no correction, and `PastTheEdge` shows that
none is: two spacings past a rounded step, the product with `N` rounds above that step's count. The property leaves out one
spacing past an edge for this reason.

**`ClosedFormProofs`.** `AnswersStayNumbers` and `DrawsAreInside`, in every format of `BitFloat`. `NumberInvariant` says
that an answered distribution's parameters were accepted and that what it answered is a number or null: an answer is the next
call's point, so neither half is inductive alone. The work is again in the arithmetic. A code's `Number` is its
value in least units; codes and numbers climb together (`ValueClimbs`), a ratio rounds to the nearest code, ties to even,
whatever its exponent and however far its summands are apart (`NearestRounds`, `SumIsNear`), and rounding keeps order
and leaves codes alone (`NearClimbs`, `NearFixes`). From these, each of the four operations is a number except where IEEE 754
says it is not (`AddNumber`, `SubNumber`, `MulNumber`, `DivNumber`). libm's functions are what their assumptions say
(`LnNumber`, `Ln1pNumber`, `ExpNumber`, `SinhFacts`), and `expm1` and `ln_abs_expm1`, composed of them, have the sign and
the finiteness they owe (`Expm1Facts`, `LnAbsExpm1Facts`). No form then meets `inf - inf`, `0 * inf` or `0 / 0`:
a log of a finite positive float is never near `Infinity` (`Far`), a density's two halves never meet a zero and an infinity
(`HalvesMeet`), the logs of two positive numbers are a finite distance apart (`LnDifference`), and the excess over
Weibull's scale stays above -1 through two roundings (`ExcessAboveMinusOne`). `Doubles`, that a positive float is at
most twice the one before it, keeps Uniform's mean inside bounds that are whole binades apart (`MidpointInside`).
How far a rounding may go in a product like `k * ln(1 - p)` or a quotient of logs is never asked: only its sign, its side of
a landmark, and whether it left the format.

The prover cannot instantiate the library's induction theorems, which take an operator, so induction over the naturals
is stated of a set, as its least and its greatest natural (`LeastNatural`, `GreatestNatural` in `CheckProofs`).

Two definitions read by a proof turned out to say less than they seemed to. The arms of a CASE may overlap, and TLA+
then leaves the value open, where the code's early returns take the first: `CoerceError`, the arithmetic of `BitFloat` and
`ClosedForms!Answer` are chains of IF for that reason, and `Answer` of a quantile outside [0, 1] is null before any
other rule.

**Only model-checked.** Liveness (the searches' `Terminates`, `SweepEnds`), which needs fairness and ENABLED; `RoundTrips` of the
Binomial search where its tolerance does not cover the noise; and four properties of `ClosedForms`: `TailsClimb`,
`LogsKeepTheTail`, `PdfKeepsItsRange` and `InversesInvert` bound a composed rounding error by slacks (`TailSlack`, `LogUlps`,
`TailUlps`, `InverseUlps`, a factor e^2) that are chosen for the run's format; how large they have to be in
another one is not known. No module declares a RECURSIVE operator.

## 6. What is not modelled

* **splitmix64 and the generators.** A row's stream is an opaque function of seed and position; that
  two positions do not collide is arithmetic over 2^64 states. statrs' and rand's sampling algorithms
  are a draw that depends on the stream.
* **statrs and libm.** erf, incomplete beta and gamma, Normal, Beta, LogNormal, Cauchy, Gamma: real-valued functions
  whose correctness is accuracy. Their drivers and checks are modelled.
* **What a moment computes**, other than DiscreteUniform's and Uniform's midpoint; Poisson's entropy sum. Which
  parameters it reads and the gate it stands behind are modelled.
* **The audit's oracles**: formulas at 50 digits, the points they are asked at, and the text of the report.
* **polars.** Broadcasting, morsels and elementwise evaluation are modelled from how `_base.py` and the drivers
  use them.
* **Module registration, benchmarks, tests.** No behaviour of the library.

Components that are only partly modelled say in `PROJECT.json` what is missing.

## 7. Plan

Order of work, the most important behaviour first; done steps are marked.

1. [done] Arguments, `SampleContract`, `Sampler` with its parallel fill; `IInv` and the proofs of
   determinism, of single writes and of the contract.
2. [done] `SampledFrame` over the sampling contract.
3. [done] `ValueKeyed` and `ValueContract` with their proofs; `ParamCheck` with its proofs.
4. [done] The searches: `BinomialQuantile` with its proof, `PoissonQuantile`.
5. [done] `DiscreteUniform`; the closed forms over `BitFloat`.
6. [done] Python's side of a call: coercion, the scalar twins, moments behind a validated column, seeds
   and sizes on the wire, morsels of the value-keyed methods; `SampledFrame` behind it.
7. [done] The audit: `AuditSearch` and `AuditVerdict` with their proofs, `Audit`.
8. Gamma's guarded Newton inverse (`ln_quantile`) with its step cap, sharing the noisy-tail model and
   the run of the Poisson search; then the caps of the series and of the continued fraction.
9. Cauchy's tails and inverse, and the variances of Uniform and Geometric, as further distributions of
   `ClosedForms`.
10. [done] Theorems: `SampledFrame` and `PythonCalls`; `Audit`.
11. [done] Theorems: rounding to nearest, from powers of 2 up; DiscreteUniform's tails, dtypes, midpoint and inverses,
    the way back from a probability included.
12. [done] Theorems: Poisson's bracket, its round trip and the reach of its gallop.
13. [done] Theorems: rounding over the bit patterns of `BitFloat`, and over it the closed forms' numbers and draws.
