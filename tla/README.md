# TLA+ models of ideep's computation layer

These are TLA+ models of `src/include/ideep/computations.hpp`, the
computation layer of ideep. The layer sits on top of the MKL-DNN engine and
does three things:

- it caches built computation objects;
- it negotiates memory layouts between callers and the engine;
- when `web_opt` is set, it defers operators into a lazy fusion graph.

`spec.md` is the design these models are checked against.

Only `computations.hpp` is in the source tree. Its collaborators
`lru_cache.hpp` (the cache, `fetch_or_create_m`), `web.hpp` (the
computation web) and `tensor.hpp` (descriptors, `reinit`, `opts`) are not.
What the models need of them is modelled from `spec.md`, and those
definitions are marked `spec_modelled` in `PROJECT.json`.

## 1. The system and how its parts interact

A caller runs `X::compute(...)`, which goes through these steps:

1. It builds a key from some of its arguments (`utils::create_key`). Each
   operator picks which arguments go into its key.
2. `fetch_or_create_m` returns the object cached under that key in the
   operator's own cache, or builds one from the caller's arguments. When
   the engine (`format_any`) picks another layout than the caller's, the
   object is built with a reorder attached to that input slot.
3. Convolution and inner product leave the caller's layouts out of the key.
   Conv, conv-backward, deconv and inner-product `compute` compare the
   caller's descriptors with the object's expected ones, allocate scratch
   buffers (`src_in`, `weights_in`, `grady_in`), and `reorder::compute`
   into them.
4. `computation::execute` binds the buffers in `connect_handle_for`. A
   buffer already in the engine's layout is bound directly, and the attached
   reorder is thrown away: the "destructional move".
5. With `web_opt`, the call creates a node instead and enqueues it. A node
   offered to the producing conv node's `fuse_if_necessary` rebuilds the
   conv through captured closures:
   - `conv_fuse_` adds a RELU post-op;
   - `conv_bn_folding_` folds a following batch norm into the weights and
     caches the folded pair in `weights.opts()`.

Cached objects are shared by every caller of a key. Whatever a call leaves
in an object is seen by the next call with that key. This includes:

- a removed reorder;
- a workspace handle bound to the object's output;
- a momentum captured at construction.

Everything runs on one stream (spec section 5). The interleavings that
matter are interleavings of calls, node creation and node firing. There are
no thread interleavings to explore, except inside the OpenMP kernels of
`sum_array` and `channel_shuffle`, whose threads must write disjoint
slots. There, what matters is the partition of the work.

## 2. Modules

| Module | Models | MC module | Runs |
|---|---|---|---|
| `Computation` | the computation object: `computation::init`, `connect_handle_for`, `primitive_group::execute`, `computation::execute` (847-909) | (operators only) | composed into `ConvFamily` |
| `ConvFamily` | the eager `compute` of the nine convolution-family operators (convolution, convolution_transpose and inner_product; forward, backward data and backward weights) and of a two-input `concat`, `batch_normalization_backward` and `eltwise_backward`, composed with `Computation` and a per-operator LRU cache | `MCConvFamily` | `conv_family` |
| `ConvFusion` | the `web_opt` path of `convolution_forward`, `eltwise_forward` and `batch_normalization_forward_inference`, with `fuse_if_necessary`, `conv_fuse_`, `conv_bn_folding_` and the `opts` fold cache | `MCConvFusion` | `fusion_conv_bn_relu`, `fusion_relu_bn`, `fusion_stale_fold` |
| `EagerCompute` | the promise of spec 4.4 and 8: every `compute` call of the three operators takes effect as eager execution does, at the moment of the call; the abstract specification `ConvFusion` refines | (instanced by `ConvFusion`) | `fusion_conv_bn_relu` |
| `SumArray` | `sum_nChwXC_along_channel` and `sum_along_axis`: the hand-written thread partition, the kernels and the all-reduces, as pure (partly RECURSIVE) operators checked against a reference sum | `MCSumArray`, `MCKernels` | `kernels`, `sum_partial_block`, `sum_batch_only` |
| `ChannelShuffle` | `channel_shuffle_forward` and `channel_shuffle_backward` (3622-3732): the enforce on `C % group`, the direct copy for `group <= 1`, and the collapse(3) loop of per-(n, g, i) copies, checked against a reference channel transpose | `MCKernels` | `kernels` |
| `Workspace` | the workspace side channel of `lrn_forward`/`lrn_backward` and `pooling_forward`/`pooling_backward`: `with_workspace`, in-place calls, `reinit`/`init_extra`, the binding of the object's workspace output | `MCWorkspace` | `workspace_out_of_place`, `workspace_in_place` |
| `ExpectedWeights` | the spatial arithmetic of `convolution_forward::expected_weights_descriptor` (1659-1705): `dilates_in`, the dummy input 2kh x 4kw and the output formula in C++ int division | (its own cfg) | `expected_weights_dilated` |
| `BatchNormTraining` | both `compute` overloads of `batch_normalization_forward_training`: the key, `init` building `sum_` with the caller's momentum, the LRU cache, `running_statistic` | `MCBatchNormTraining` | `bn_training_momentum` |

### `Computation`

The object is a record with these fields:

| Field | Code member |
|---|---|
| `expected[i]` | the `primitive_inputs_[i]` descriptor |
| `inout[i]` | the `inouts_[i]` descriptor |
| `aux[i]` | `auxiliaries_[i]` is present |
| `src[i]` | the buffer bound to `inouts_[i]` |
| `prim[i]` | the buffer bound to `primitive_inputs_[i]` |

A tensor is a layout tag and a logical content. A reorder keeps the content
and changes the tag.

`Slots == 0..1`. `primitive_group::execute` schedules only the reorders of
inputs 0 and 1, and every `create_reorder_pds` call passes two descriptors.

The operators map to the code as follows:

- `ConnectInput` is `connect_handle_for`. It covers the three branches
  (reorder source, destructional move, throw) and the assert branch. On the
  assert branch a debug build aborts and a release build binds anyway, so
  both outcomes are modelled.
- `ExecuteOn` is `computation::execute`. A throw at input 1 leaves input 0
  rebound.

The module has no variables and no run of its own. `ConvFamily` holds
objects in its caches and runs these operators on them behind the `compute`
entry points, which negotiate layouts first.

### `ExpectedWeights`

`expected_weights_descriptor` builds a dummy convolution around the
weights: an input of 2kh x 4kw, with the caller's strides, paddings and
dilations. The engine reports the weights layout it wants for that dummy.
`CDiv` is C++ `/` on `int`, which truncates toward zero. One action is one
call with spatial arguments drawn from small sets. The channel dims pass
through unchanged and are left out.

### `ConvFamily`

There is one action per operator's `compute`. Each follows the code's order
of steps:

1. `Reshape`: inner product's rank reshapes.
2. `Fetch`: the operator's LRU cache.
3. `NeedsScratch`: the negotiation against the object's expected layouts.
4. `ReorderThrows`: a reorder from the caller's un-reshaped tensor has no
   conversion plan (spec section 6: convert works between descriptors of
   equal shape).
5. `DoComputeInputs`: the reorders into scratch buffers.
6. `ExecuteOn`: executing the object.

`Release` says what goes back to the cache:

- `convolution_forward` executes a copy (`comp = _comp`). Its reorder slots
  are its own, but the memory bound to them is shared with the cached
  object.
- The other operators execute the cached object itself.

`HasReorders` records that only the descriptors of convolution and
`inner_product_forward` call `create_reorder_pds`.

The engine's layout choice is a constant function `EngineLayout` of the key,
because the descriptors use `format_any`. A key stands for a configuration:
its dims, type and attributes.

`concat` of two inputs is the tenth operator. It differs from the others in
three ways:

- its key holds the inputs' formats (`KeyFits`, with the formats of a key in
  `KeyFormats`);
- it aligns input 1 to input 0's format rather than to the object's
  expected layout (`ConcatAligns`, `ScratchLayout`);
- its object is built on the aligned descriptors, with no reorder attached.

Input 0 is never negotiated. It is the formats in the key that keep input 0
in the layout the object was built for. The second mutant of
`ComputeReadsCallerData` drops them from the key, and an object built for a
blocked input 0 then reads a plain one.

`batch_normalization_backward` (the two `compute` overloads, 4417-4480) is
the eleventh operator. Its key holds src's format only. `fetch_or_create_m`
builds it with `src.get_descriptor()` for both src and grady, so grady's
slot expects src's format, and `compute` passes grady on as it is
(`Scratch` is false). Eltwise and pooling backward, by contrast, reorder
grady when its format differs. The constant `GradyFollowsSrc` states the
caller discipline that makes this safe: a grady in src's format, as an
eltwise or pooling backward of the same activation produces. The pass run
assumes it; the run `bn_backward_grady_layout` drops it.

`eltwise_backward` (3575-3614) is the twelfth operator, and the contrast
case. Like BN backward, its key holds src's format and its object is built
with grady's slot in src's format. However, `compute` first gives
`grady_in` src's descriptor when the formats differ
(`EltwiseBackwardAligns`), and `do_compute` reorders grady into it
whenever the handles differ. So it reads the caller's grady whatever its
format, and the pass run checks this with no caller discipline.

### `ConvFusion`

`web.hpp` is modelled from spec 4.4:

- every `compute` creates a node, and `build_deps` succeeds;
- a node with a fusion attribute whose source is the target of the conv node
  enqueued just before it is offered to that node's `fuse_if_necessary`;
- reading a tensor fires the pending nodes in enqueue order.

Contents are symbolic terms: `conv(x, w, b, relu)`, `relu(.)` and
`bn(., stats)`. A ghost variable `eager` holds each tensor's value under
eager execution. `Meaning` normalises a term by the algebra that makes
fusion sound: a fold of statistics into the weights and bias is BN after
the convolution, and RELU is idempotent.

`ReadIsEager` compares only what a read returns. The refinement
`ImplementsEager` covers every tensor, read or not. `ConvFusion` instances
`EagerCompute` with these substitutions:

- `val <- EagerView`: the contents once the queue has fired in enqueue
  order (`Flushed`), normalised by `Meaning`; a dead output is `Undef`.
- `Dead <- Undef`.

Under this mapping:

- a call, enqueued (fused or not), is the eager call;
- a read, which fires a prefix of the queue, is a stuttering step;
- a caller's write is `Overwrite`.

`EagerView` binds the flushed contents once, through a set map. TLC does
not cache an operator argument that contains primed variables. Written as
a plain `LET`, the mapping would re-fire the queue at every use inside the
recursive `Meaning`, and the run would slow down by more than ten times.

### `SumArray`

Every source element is its memory offset, and a sum is the bag of offsets
added into it, so a dropped, doubled or foreign element shows. A buffer slot
nothing wrote is `Garbage`, an uninitialised value.

The reference definitions are:

- `ChannelReference`: the per-channel sum over all of the batch and spatial
  positions;
- `AxisReference`: the sum over the reduced axes of a coordinate
  enumeration.

`Init` ranges over all inputs of the chosen case sets. Each state is one
input, and the invariant compares the kernel with the reference on it.

### `ChannelShuffle`

A tensor is its nchw image, a function from offset to value. `compute`
reorders a non-public source into nchw, which keeps the content, so the
kernel's input is that image. Each source element holds its own offset.

`compute_impl` is modelled as the set of `memcpy` copies its loop makes
(`ForwardCopies`, `BackwardCopies`), one per (n, g, i) iteration and float.
The output `Copied` is:

- an element exactly one copy writes gets the copied value;
- an element none writes is `Garbage` (`reinit_like` leaves the buffer
  uninitialised);
- an element two copies write is also `Garbage`, because two OpenMP threads
  race on it.

`ChannelShuffleForward` takes any call of `ShuffleCases`. A rejected group
(one that does not divide C) makes `y` `Rejected`. `ChannelShuffleBackward`
runs the backward of the last forward's output. `ShuffleReference` is the
channel transpose from its definition: output channel c holds input channel
`(c % group) * K + c \div group`.

`MCKernels` checks `SumArray` and `ChannelShuffle` in one run. Their states
are disjoint: a behaviour either holds one `sum_array` input and stutters,
or has no input and runs shuffle calls.

### `Workspace`

Activation tensors have one shape, so in-place calls are possible.
Contents are symbolic, `[key, of]`: the configuration and the input a
forward ran on. `bound[k]` is the buffer bound to the workspace output of
key `k`'s cached object. A process crash, from a null workspace handle or a
failed assert, is the variable `crashed`.

### `BatchNormTraining`

Each layer has a source shape, an epsilon, a momentum and its own running
mean. `Key(l)` is what `create_key` holds: shape and epsilon, not momentum.
`Build` is `init`, whose `sum_` gets scales `<<m, 1 - m>>`.
`RunningStatistic` is `sum_.execute({running_mean, mean}, running_mean)`,
kept as a symbolic weighted sum. A ghost `history[l]` records the batches
folded into layer `l`'s statistics. The variance takes the same path as the
mean.

## 3. Runs and what they show

| Run | Expect | Distinct states | Checks |
|---|---|---|---|
| `conv_family` | pass | 1,485 (about 65 s) | `ComputeReadsCallerData` for the nine operators, concat, BN backward and eltwise backward |
| `bn_backward_grady_layout` | violation | | `ComputeReadsCallerData` when a BN backward caller passes grady in another format than src |
| `fusion_conv_bn_relu` | pass | 98,756 (about 50 s) | `ReadIsEager` for conv → bn → relu/eltwise networks, with the fold cache; `ImplementsEager`: the web refines `EagerCompute` |
| `fusion_relu_bn` | violation | | `ReadIsEager` when BN follows a RELU fused into a convolution |
| `fusion_stale_fold` | violation | | `ReadIsEager` when the caller rewrites weights or scale in place |
| `kernels` | pass | 999 | `FastMatchesReference` (whole channel blocks) and `CommonMatchesReference` (accepted plain reductions) for `sum_array`; `ShuffleMatchesReference` (forward is the channel transpose, backward inverts it) for `channel_shuffle` |
| `sum_partial_block` | violation | | `FastMatchesReference` for a channel count that is not a multiple of the block |
| `sum_batch_only` | violation | | `CommonMatchesReference` for a batch-only reduction of a 3-D or 5-D tensor |
| `workspace_out_of_place` | pass | 461,576 | `BackwardReadsOwnWorkspace` and `NoAbort` when training forwards run out of place |
| `workspace_in_place` | violation | | `BackwardReadsOwnWorkspace` for in-place training forwards |
| `expected_weights_dilated` | violation | | `DummyOutputNonEmpty` for kernels 1-3, dilations 0-3, paddings 0-1 and strides 1-2 per axis |
| `bn_training_momentum` | violation | | `RunningStatsUseCallerMomentum` for two layers of one shape and epsilon with different momenta |

Each violation run is a finding in `PROJECT.json`:

- **`bn_backward_grady_layout`.** BN backward builds grady's slot with
  src's descriptor and never reorders grady (computations.hpp:4421). A
  grady in a plain format beside a blocked src reaches the assert branch of
  `connect_handle_for`: a debug build aborts, a release build binds it and
  the primitive reads plain data as blocked. Spec section 7 makes such a
  binding a programming error, yet nothing in `compute` prevents it.
- **`fusion_relu_bn`.** `conv_bn_folding` rebuilds the node from `pre_comp`
  whatever post-op it carries. conv → relu → bn becomes RELU(BN(conv)).
- **`fusion_stale_fold`.** The folded pair in `weights.opts()` is reused
  whenever the scale's handle matches. Rewritten weights or statistics are
  not noticed.
- **`sum_partial_block`.** `sum_nChwXC_along_channel` fills only
  `ic / cg * cg` channels and then reads all `ic`.
- **`sum_batch_only`.** `sum_along_axis` with axis `{0}` on a 3-D or 5-D
  tensor reads the never-set `loc_ws`.
- **`workspace_in_place`.** An in-place training LRN or pooling call skips
  `init_extra`. The shared object's workspace output keeps the previous
  caller's handle, and another tensor's workspace is overwritten.
- **`expected_weights_dilated`.** The dummy input is 2kh high whatever the
  dilation. A 3x3 kernel with dilation 3, no padding and stride 1 gives a
  dummy output height of `(6 - 7) / 1 + 1 = 0`. The weights query then
  fails for a convolution that is valid on any input of height 7 or more.
- **`bn_training_momentum`.** The training key omits momentum, but the
  cached object's `sum_` holds the momentum of whoever built it. That can
  even be a call of the overload that keeps no running statistics. A later
  layer's running statistics are averaged with the wrong factor, depending
  on cache history.

Every property of a passing run has a mutant in `PROJECT.json`: a plausible
bug in a mapped definition that the run detects. The mutants are:

| Mutant | Caught by |
|---|---|
| negotiation against `inouts_` instead of the expected layout | `ComputeReadsCallerData` |
| a concat key without the inputs' formats | `ComputeReadsCallerData` |
| a fold that reuses any folded pair cached in `opts`, whatever scale it was folded with | `ReadIsEager` |
| a read that fires only the producer of the tensor read, leaving earlier pending nodes queued | `ImplementsEager` |
| the long partition given to the last thread | `FastMatchesReference` |
| the axis shift applied to every later axis | `CommonMatchesReference` |
| LRN using pooling's workspace condition | `BackwardReadsOwnWorkspace` |
| `init_extra` only for a dst without one | `NoAbort` |
| the shuffle's output stride `K * S` instead of `group * S` | `ShuffleMatchesReference` |

## 4. Bounds, and why they are enough

- **Layouts and contents.** Two contents tell stale data apart. `ConvFamily`
  has three layouts (`nc`, `nchw`, blocked) in two ranks, so inner
  product's reshapes and reorders between ranks happen.
- **`ConvFamily` keys.** Each operator has two keys:
  - `C1` wants a reorder on both inputs;
  - `C2` wants one on input 0 only, or on none (inner product).

  Capacity is 1 per operator, so an eviction and rebuild happens within two
  calls. There are 5 calls: build, strip a reorder, change layout, evict,
  reuse. The caches of different operators are disjoint, so the
  `OneOperator` constraint explores one operator per behaviour. This loses
  no interaction, and data symmetry is sound because contents are only
  compared.
- **`ConvFusion`.** One input, one weights tensor, two statistics groups,
  two outputs and 7 calls are enough for conv → bn → relu with the fold
  reused and a read in between. The violation runs need 4 calls.
- **`SumArray`.**
  - Channel blocks of 8 and 16; channel counts of 8, 12 and 16.
  - 1 to 4 threads, and teams smaller than requested.
  - Every axis list of 2-D to 5-D shapes with dims up to 3.
- **`ChannelShuffle`.** Batch 1 and 2, 1 to 6 channels, 1 and 2 spatial
  positions, and every group from 1 to C + 1: 108 calls. These cover prime
  and composite channel counts, groups equal to C (K = 1), non-divisors
  (rejected) and groups above C. With 6 channels, groups 2 and 3 give
  non-square transposes, where a swapped stride shows.
- **`Workspace`.** Three activation tensors and 4 calls cover the sequences
  that bite: forward, another forward of the same key, then backward.
- **`ExpectedWeights`.** Kernels 1 to 3, caller dilations 0 to 3 (0 means
  none, as does any non-positive entry), paddings 0 and 1, and strides 1
  and 2, independently per axis: 9,216 argument lists. Dilation 3 is the
  first at which a 3-wide kernel outgrows the dummy.
- **`BatchNormTraining`.**
  - Two layers share a shape and epsilon; a third has another shape.
  - Capacity is 1, so the third layer's call evicts and the next call
    rebuilds.
  - 4 calls.

## 5. Fairness

There is none. Every property is a safety property. The program is a
sequential caller, and nothing it does is obliged to happen: a pending web
node fires only when a read asks for it. `Done` steps keep the runs free of
deadlock at the call bound.

## 6. Assumptions about code outside the source tree

- `fetch_or_create_m` hands out the cached object itself. A cache per
  operator kind is an LRU of bounded capacity (spec 4.1).
- `tensor::reinit` to the descriptor a tensor already has keeps its buffer
  and its extra.
- The engine gives training LRN and training max pooling a workspace
  output, and a reorder exists only between descriptors of equal shape
  (spec section 6).
- The web offers a node to the conv node enqueued just before it (spec 4.4).

## 7. Not modelled, and why

- **Engine numerics and descriptor construction.** These belong to the
  external engine; its layout choice is a constant.
- **Key byte layout** (`to_bytes`). Keys are model values. Which arguments
  each key holds is modelled where it matters (`ConvFamily`,
  `BatchNormTraining`).
- **`sum`.** Not cached: each call builds a new object. Its `web_opt` path
  and SUM fusion turn on `tensor::operator==` and `reinit` (tensor.hpp) and
  on `web.hpp`, none of which is under `src/`.
- **`concat`, beyond the eager two-input compute.** The `web_opt` node,
  the `add_axis` overload, which copies through views, and `spliter` are not
  modelled.
- **`batch_normalization_backward`, beyond the layout of its inputs.** Its
  key covers every other constructor argument, and its member scratch
  buffers are filled and used within one call.
- **The training `web_opt` path.** It defers the same `do_compute`.
- **`softmax`.** `softmax_forward` has no `compute`: it is a constructor
  and nothing more, so there is no state change to model.
- **`eltwise` forward, beyond fusion.** It has one input and a key with
  its format, so there is nothing to negotiate.
- **`channel_shuffle` with group 0, and the AVX2 build.** `compute_impl`
  computes `C / group` before it checks `group`, so a group of 0 divides by
  zero (hazard at :3629). That is undefined behaviour with no outcome to
  choose between. The AVX2 build copies with `FM_AVX2_PREF::memcpy`, whose
  source is not in the tree; the `std::memcpy` build is modelled.
- **`dropout`.** Its mask comes from `rand()`.
- **`eltwise_binary`.** A stateless add kernel.
- **OpenMP inside the engine.** Opaque per spec section 5.

## 8. Plan for further work

1. `BnFolding`: the `bn_folding` arithmetic over small integers, checked
   against convolution followed by BN.
