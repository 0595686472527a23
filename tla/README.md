# TLA+ models of sx-dnn's dispatch, descriptor and parallel-kernel code

This directory holds TLA+ models of the C++ sources under `src/` of
sx-dnn, the NEC SX-Aurora (VE) port of oneDNN. Each module is written from
the code. `PROJECT.json` lists which definition models which lines, every run
and its expected result, the mutants that show each property can fail, the
findings, and the hazards.

## The system and how its parts interact

* **Reorder dispatch** (`src/common/reorder.cpp`). `dnnl_reorder_primitive_desc_create`
  works in four stages:
  1. It validates the arguments.
  2. It picks the executing engine with `get_reorder_engine`.
  3. It walks that engine's ordered candidate list, which is registered in
     `src/cpu/ve/cpu_reorder_*.cpp`. The first candidate whose factory returns
     success wins.
  4. It wraps the winner's `reorder_pd_t` in a pd iface through `safe_ptr_assign`.
* **Primitive descriptors.** `batch_normalization_pd.hpp` defines the
  forward and backward bnorm pds: their flags, `arg_usage`, `arg_md`, the
  argument counts and the workspace descriptor. A backward implementation
  checks its workspace against the forward *hint* with
  `primitive_desc_t::compare_ws` (`primitive_desc.cpp`).
* **Object creation.** Three paths turn a descriptor or an engine into an
  object and hand it to the caller, and one accessor hands out a pointer
  the same way (`dnnl_primitive_desc_get_attr`):
  * `dnnl_primitive_desc::create_primitive_iface` (`primitive_desc.cpp`);
  * `cpu_engine_t::create_memory_storage` (`cpu_engine.cpp`);
  * `cpu_engine_t::create_stream` (`cpu_engine.cpp`).
* **GEMM threading** (`src/vgemm/gemm_utils.cpp`):
  * `calc_nthr_nocopy_ve` (VE build), and `calc_nthr_nocopy_avx512_common`
    and `calc_nthr_nocopy_avx` (x86 build), choose the M×N×K thread grid
    and block sizes;
  * `partition_unit_diff` splits n units over nthr threads.
* **JIT conv kernel helpers** (`src/cpu/jit_avx512_common_conv_kernel.hpp`).
  The forward and backward-data kernel generators emit, for each kernel
  tap, FMAs only over the width range their helpers return. Inside the
  range the input column must be a real column; outside it, padding.
* **Softmax kernels** (`src/cpu/ve/dev/ref_softmax.cpp`). The parallel regions
  of the reference softmax divide rows among OpenMP workers. There are four
  regions: forward and backward, each in a generic and a dense version.
  The pd picks the dense version when the softmax axis is the innermost
  dense dimension (`inner_size_ = 1`). The generic forward region uses a
  per-row scratchpad slice. The dense regions keep their reductions in
  locals and address row `ou` at `ou * outer_stride()`.

Descriptor creation is single-threaded per call (spec §5). The kernels run
as data-parallel regions without synchronisation. Their correctness rests on
the index arithmetic giving each worker disjoint cells.

## Modules

| module | models | state / actions |
|---|---|---|
| `ReorderDispatch` | reorder.cpp, the four VE lists | A caller `Call`s, and the pd is built in four actions: `Validate` (lines 55-85), `TryCandidate` per list entry (85-103), `Exhausted` (104) and `Wrap` (90-101). The caller may `Release` the handle. `livePds` tracks allocated reorder pds. An allocation can fail at each step. |
| `BatchNormPd` | batch_normalization_pd.hpp, compare_ws | The sequences `fwd` and `bwd` hold pd records. `CreateFwd` runs the constructor plus `init_default_ws`. `CreateBwd` runs the constructor, `set_default_formats_common`, `init_default_ws` and `compare_ws` against a hint. `DestroyBwd` removes a pd. Every pd method is an operator over a record. |
| `ReorderContract`, `MC_ReorderDispatch` | what `dnnl_reorder_primitive_desc_create` promises its caller | One atomic `Return` step per call. It chooses a <<status, handle>> pair from `Outcomes(args)`: `invalid_arguments` for bad arguments, and otherwise the first applicable candidate of the executing engine's list or `unimplemented`. When allocations can fail, it may instead return a later applicable candidate, `unimplemented` or `out_of_memory`. `MC_ReorderDispatch` maps `validate`/`iterate`/`wrap` to `busy`, and counts a pd being wrapped as not yet the caller's (`CLive`). |
| `ObjectCreation` | create_primitive_iface, create_memory_storage, create_stream, dnnl_primitive_desc_get_attr | Each creation path is one atomic action. `get_attr` writes its out-pointer unless an argument is null. Every failure point is chosen with `\E`. `live` and `owned` track allocations. `Destroy` is the caller releasing an object. |
| `GemmNthr` | calc_nthr_nocopy_ve (363-514), calc_nthr_nocopy_avx512_common (188-339), calc_nthr_nocopy_avx (80-166) | `isa` is the function called. It is chosen at `Init` and selects the row of the `Blocking` table. One action per loop iteration or straight-line segment, and `pc` names the code position. The avx512_common function is the VE one token for token with other constants, so it runs the same actions. The avx function has its own actions (`AvxInit`, `AvxSplitK`, `AvxReduce`, `AvxIncrement`). It shares `Fallback` (with its own guard, `AvxFallbackSkipped`), `FallbackLoop` and `Blocks`. |
| `UnitPartition`, `PartitionRegion` | partition_unit_diff | `partition_unit_diff` is a pure operator. `PartitionRegion` lets each thread claim its share and compares the share with the band/tail split of spec §5 (`RefShare`). |
| `ConvIndex` | get_input_offset, get_ow_start/end, get_iw_start/end | The helpers are operators over a `jcp` record, with C's truncating `/` (`CDiv`). The variable `geo` is the geometry the kernel object was constructed with; the constructor fixes its `jcp` member. The pads come from the caller's `init_conf`, which is not in this source. They follow its definition, which the module header states. |
| `MC_IndexArith` | composition | `PartitionRegion` beside a `ConvIndex` kernel object. The two share no state. |
| `SoftmaxFwd` | execute_forward_generic (lines 226-496) | Each worker `t` has `Enter` (the next ou, scratch slice cleared), `Exp` (max and exp pass of a row) and `Scale` (scaling pass, next in/ou). `dst` and `scratch` hold the row that last wrote each cell. `writers` records who wrote what. `AbsOut` maps each `<<ou, in>>` row to `SoftmaxRows`. |
| `SoftmaxBwd` | execute_backward_generic, softmax branches (lines 532-659) | Each worker has `Sum` (one chunk of the sbr loop) and `Write` (one chunk of the write loop). With `InPlace`, diff_src and diff_dst are one buffer. |
| `SoftmaxDense` | execute_forward_dense (89-224), execute_backward_dense (503-530) | `dir`, chosen at `DenseInit`, says which primitive runs. Forward workers run `FwdMax`, `FwdExp` and `FwdScal` per row; backward workers run `BwdSum` and `BwdWrite`. Rows lie at `ou * OuStride`. With `InPlace`, the output buffer is the input buffer. `DenseOut` maps each row to `SoftmaxRows`. |
| `MC_SoftmaxFwd` | composition | The generic forward region, then a dense region on the same stream. The dense steps are enabled once every generic worker is done. |
| `SoftmaxRows` | spec: a softmax pass computes each row once | This is the abstract specification. `SoftmaxFwd`, `SoftmaxBwd` and `SoftmaxDense` each implement it through their `AbsOut`, which maps a row to "none", "correct" or "wrong". |

### Abstractions

* **Data** is reduced to what the properties tell apart:
  * memory descriptors are records of data type, format tag and shape;
  * softmax values are the `<<ou, in>>` row they were computed for;
  * candidates are `<<sdt, tag_i, ddt, tag_o, order, spec>>` records.
* **Numerics** are not modelled. In `GemmNthr`:
  * the float ratio at line 408 is modelled exactly over the inputs,
    including where float rounding makes it one less than the quotient
    (`InvExact`);
  * the `0.95 * nthr` test (VE, avx512) is modelled exactly as
    `100 x < 95 nthr`;
  * the avx `0.9 * nthr` test is modelled exactly as `10 x > 9 nthr`. For
    nthr ≤ 16 the double product rounds to the exact value;
  * `(int)sqrt((double)nthr)` is the integer square root.
* **Code outside `src/`** is modelled from its known behaviour and marked
  `spec_modelled` in the map:
  * `memory_desc_wrapper::off_l` and `nelems(true)`;
  * the `REG_SR` macros;
  * `balance211`;
  * descriptor init.

## Runs

| run | checks | result |
|---|---|---|
| `reorder_dispatch` | `TypeOK`, first match in list order, the generic reference reorder returned only when no other candidate applies (`ReorderReferenceIsLastResort`, which checks the registration order of the lists), the engine tie-break of spec §8.5, no leaked pd, a failure writes no handle, and `ReorderRefinesContract`: the detailed pipeline implements `ReorderContract`. With allocation failures allowed, the contract accepts any applicable candidate, so first-match order rests on the two invariants. | pass, 275,877 states, 25 s |
| `reorder_oom` | `ReorderOomSurfaced` | **violation**: the out_of_memory of a candidate is swallowed and the call returns `unimplemented` |
| `bnorm_pd` | forward argument counts equal the usage (`BnormFwdArgCounts`), every used argument has a non-zero md (`BnormUsedArgsHaveMd`), compare_ws accepts only equal workspaces and accepts matching ones | pass, 23,265 states |
| `bnorm_bwd_counts` | `BnormArgCounts` for backward and backward_data | **violation**: `n_outputs` follows the diff scale-shift md, which the descriptor sets for prop_kind backward only, and `arg_usage` follows `use_scaleshift`. Backward without the flag has `n_outputs` = 2 with one output (the trace). backward_data with the flag has 1 with two. |
| `bnorm_compare_ws_nows` | `BnormCompareWsNoWorkspace` | **violation**: a bnorm pd without workspace returns `&glob_zero_md`, not null, so line 29 does not return early. compare_ws then fails when the hint is missing, or when the hint has a workspace. A hint without a workspace compares zero with zero and passes. |
| `bnorm_ws_dims` | `BnormWsFromSameDims` | **violation**: nchw and nChw16c over the same dims give workspaces of different sizes |
| `gemm_nthr` | for each of the three functions: grid ≤ nthrs, blocks cover M/N/K, termination | pass, 151,331 states |
| `gemm_nthr_empty` | `NthrNoDivByZero` with m or n = 0 | **violation**: division by zero at line 472 (VE), and at line 124 in the avx function |
| `index_arith` | shares equal the band/tail reference for all n ≤ 12, nthr ≤ 8; the conv width ranges equal the set of in-row taps (`ConvOwRangeExact`, `ConvIwRangeExact`) | pass, 214,500 states |
| `softmax_fwd` | generic forward: disjoint dst and scratch cells, row integrity, refinement of `SoftmaxRows` (no row rewritten once scaled, every row scaled in the end). Then a dense region, forward or backward, in place: disjoint rows with no write past the buffer (`DenseNoSharedCells`), and refinement of `SoftmaxRows` (`DenseRefinesRows`) | pass, 2,057 states |
| `softmax_bwd_generic` | full-sum of input values, disjoint cells, refinement of `SoftmaxRows` (safety and liveness) | pass, 8,281 states |
| `object_creation` | no leak, no handle to a deleted object (`CreationNoDangling`), out-pointer written iff success | pass, 290 states |

Each passing property has a mutant in `PROJECT.json`. A mutant is a
plausible bug in the modelled code that TLC shows violates the property, such
as:
* a dropped `delete`;
* a swapped tie-break;
* a fused loop;
* a missing counter reset.

### Bounds

* **ReorderDispatch**: two cpu engines and two gpu engines, two shapes, and
  the data types f32, s32 and s8. This reaches every list, including the
  s32/undef list, and every engine pairing. Shape sB is one whose channels
  a blocked layout pads (`PaddedShapes`), so a same-layout nChw16c pair
  misses both direct copies and falls to the reference reorder. Symmetry
  applies over engines of the same kind only; the two shapes are not
  interchangeable.
* **BatchNormPd**: two dims, one with C = 3 and one with C = 16, so padding
  to 16 matters. Bits ∈ {1, 8}. Every flag subset and both formats are
  included, with at most one forward and one backward pd alive.
* **GemmNthr**: M, N and K values on both sides of every block size of all
  three tables, nthrs 1..16, and all three functions. Every branch is
  reached:
  * the VE K-split loop iterates (e.g. nthrs = 9);
  * the avx K split takes several candidates (k = 4096);
  * the avx fallback is both entered and skipped.
* **ConvIndex**: strides 1-3, kernels 1-4 wide, rows 1-7 columns, and every
  left pad below kw. So ceiling divisions with a remainder, blocks with
  both pads, and taps that see no real column all occur. Backward data
  is at stride 1, where the overflow formulas hold.
* **SoftmaxFwd**: 5 rows on 3 threads, so there are tail rows, with
  inner_size 2 so the scratchpad is used, and channels_last so `off_l`
  permutes.
* **SoftmaxDense** (in `softmax_fwd`): 3 unpadded rows of 3 channels on 2
  threads, in place, in both directions. The first worker gets two rows,
  so a channel loop that runs one element too far reaches the second
  worker's row. Without padding (`OuStride = channels`), such an overrun
  has no gap to fall into.
* **SoftmaxBwd**: 3×2 items on 4 threads. balance211 then splits an ou
  between workers. With 5 channels in chunks of 2 there are three chunks and
  a 1-channel tail.
* **ObjectCreation**: 4 objects.

### Fairness

* **Softmax**: weak fairness per worker. OpenMP runs every thread of a
  `parallel_nd` region to the end of its range, and the region's join waits
  for all of them. A cpu stream executes the primitives it is given in
  order, so the dense region of `softmax_fwd` starts after the generic one
  has finished. Its workers are then weakly fair as well.
* **GemmNthr**: `WF_vars(Next)`, because it is one sequential function.
* **Everything else**: no liveness is claimed.

The runs whose system really stops set `CHECK_DEADLOCK FALSE`:
* finished softmax workers;
* the final `pc` of `GemmNthr`;
* `index_arith` once all threads of `PartitionRegion` have claimed;
* `ObjectCreation` after its bound.

## Not modelled

* **The other parts of the split reorder lists.** `cpu_reorder_f32_s8_3.cpp`
  and `cpu_reorder_s8_s8_6.cpp` are parts of lists split over several files,
  and only these parts are in this source. The model's f32→s8 and s8→s8
  lists hold just their entries, with no direct copy and no reference reorder.
  Every pair of data types other than the four lists gets an empty list.
* **Code outside `src/` modelled from its known behaviour.**
  `simple_reorder`'s `is_applicable` is modelled in `Applicable`: the direct
  copies need the same layout and no padding on both sides.
  `bnrm_desc_init` is modelled in `MakeDesc`: the scale-shift md is always
  set, and the diff scale-shift md is set for prop_kind backward only.
* **Kernel arithmetic** (exp, sums) and the rest of the JIT conv kernel
  header. The header declares registers and code-generation routines whose
  bodies are not in this source. `vadd`, `vcmp` and `vmul` only choose an
  instruction to emit.
* **The x86 branches of execute_forward_dense**: the unrolled max at lines
  117-146 and the `#else` loops at lines 167-192 and 209-221. The
  unconditional `#define VE_FWD_DENSE 1` (line 64) compiles them out.
  `outer_stride()` is defined outside this source, so it is a constant of
  `SoftmaxDense`, assumed to be at least `channels_`.
* **The x86 GEMM paths' distinct code**: only the avx512_common body shares
  the VE definitions. Its lines are therefore not mapped a second time.
* **The logsoftmax branches of the generic backward region** (lines
  672-832). They read and write the same elements in the same order as
  the softmax ones, and differ only in the values they compute. Choosing
  the branch at `Init` doubles the state space of `softmax_bwd_generic`,
  and a run then takes close to three minutes, yet no property can tell
  the branches apart.
* **The bnorm hint pointer's lifetime**. `hint_fwd_pd_` is stored by the
  constructor (line 79). In this source it is dereferenced only by
  `constructor_debug` and `init_ws_debug` during construction, while the
  caller's hint is alive. No code here reads it later, so there is no
  dangling read to check.
* **The tests.**

## Plan for later work

1. Model the caller-side pads of the conv helpers, if `init_conf` becomes
   part of this source.
