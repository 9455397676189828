-------------------------- MODULE BatchNormTraining --------------------------
(***************************************************************************)
(* batch_normalization_forward_training: the cached object and the        *)
(* running statistics it maintains.                                        *)
(*                                                                         *)
(* Both compute() overloads key the object on the source's data type,     *)
(* dims and format and on epsilon, and pass momentum to the constructor,  *)
(* which builds the member sum_ with scales {momentum, 1 - momentum}.     *)
(* The overload with running_mean / running_var then updates them through *)
(* that sum_: running = scales[0] * running + scales[1] * mean.           *)
(*                                                                         *)
(* Layers are the callers: each has its own source shape, epsilon and     *)
(* momentum, and its own running statistics.  Values are symbolic: a sum  *)
(* is the record of its scales and inputs, a batch's mean is the batch.   *)
(* The variance takes the same path as the mean and is not repeated.      *)
(* The caller's running tensors already have the statistic descriptor, so *)
(* their reinit keeps buffer and content.                                   *)
(***************************************************************************)
EXTENDS Naturals, Sequences, SequencesExt

CONSTANTS
    Layers,       \* callers, each with its own running statistics
    ShapeOf,      \* ShapeOf[l]: data type, dims and format of l's source
    EpsOf,        \* EpsOf[l]: l's epsilon
    MomentumOf,   \* MomentumOf[l]: l's momentum
    Batches,      \* batch contents (a batch stands for its mean)
    Initial,      \* the running statistics a layer starts with
    None,
    Capacity,     \* the cache's capacity for this operator
    MaxCalls

ASSUME Capacity \in Nat \ {0}
ASSUME MaxCalls \in Nat

VARIABLES
    cache,        \* cache[k]: the object cached under key k, or None
    lru,          \* keys from most to least recently used
    running,      \* running[l]: l's running mean
    history,      \* history[l]: the batches l has folded into running[l]
    calls

vars == <<cache, lru, running, history, calls>>

(***************************************************************************)
(* utils::create_key(src.get_data_type(), src.get_dims(),                 *)
(* src.get_internal_format(), epsilon): momentum is not part of it.       *)
(***************************************************************************)
Key(l) == [shape |-> ShapeOf[l], eps |-> EpsOf[l]]

Keys == {Key(l): l \in Layers}

\* The scale 1 - m.
Complement(m) == [oneMinus |-> m]

(***************************************************************************)
(* init: sum_.init({momentum, 1.f - momentum}, {scale, shift}).  The      *)
(* primitive and weights_ carry no per-caller state between calls.        *)
(***************************************************************************)
Build(momentum) == [scales |-> <<momentum, Complement(momentum)>>]

\* sum::execute(inputs, output): the weighted sum of the inputs.
SumExecute(scales, inputs) == [scales |-> scales, inputs |-> inputs]

(***************************************************************************)
(* running_statistic: inputs_for_mean {running_mean, mean} summed by sum_ *)
(* into running_mean.                                                       *)
(***************************************************************************)
RunningStatistic(o, mean, runningMean) == SumExecute(o.scales, <<runningMean, mean>>)

Touch(k) == <<k>> \o SelectSeq(lru, LAMBDA x: x # k)

(***************************************************************************)
(* fetch_or_create_m: the cached object of key k, or one built with the   *)
(* caller's arguments and inserted, evicting the least recently used key  *)
(* beyond Capacity.                                                         *)
(***************************************************************************)
Fetch(k, momentum) ==
    IF cache[k] # None
    THEN [obj |-> cache[k], cache |-> cache, lru |-> Touch(k)]
    ELSE LET o      == Build(momentum)
             l      == <<k>> \o lru
             victim == IF Len(l) > Capacity THEN {l[Len(l)]} ELSE {}
         IN [obj   |-> o,
             cache |-> [x \in Keys |-> IF x \in victim THEN None
                                       ELSE IF x = k THEN o ELSE cache[x]],
             lru   |-> IF victim # {} THEN SubSeq(l, 1, Capacity) ELSE l]

Init ==
    /\ cache = [k \in Keys |-> None]
    /\ lru = <<>>
    /\ running = [l \in Layers |-> Initial]
    /\ history = [l \in Layers |-> <<>>]
    /\ calls = 0

(***************************************************************************)
(* compute(src, scale, shift, dst, mean, variance, momentum, epsilon),    *)
(* eager path: fetch, reinit the outputs, do_compute.  dst, mean and      *)
(* variance are the call's own outputs; the object is the lasting effect. *)
(***************************************************************************)
ForwardTraining(l) ==
    /\ calls < MaxCalls
    /\ LET f == Fetch(Key(l), MomentumOf[l])
       IN /\ cache' = f.cache
          /\ lru' = f.lru
    /\ calls' = calls + 1
    /\ UNCHANGED <<running, history>>

(***************************************************************************)
(* compute(..., running_mean, running_var, momentum, epsilon), eager      *)
(* path: fetch, reinit, then do_compute: execute, which yields the batch  *)
(* mean, and running_statistic with the fetched object's sum_.             *)
(***************************************************************************)
ForwardTrainingRunning(l, b) ==
    /\ calls < MaxCalls
    /\ LET f == Fetch(Key(l), MomentumOf[l])
       IN /\ cache' = f.cache
          /\ lru' = f.lru
          /\ running' = [running EXCEPT ![l] = RunningStatistic(f.obj, b, @)]
    /\ history' = [history EXCEPT ![l] = Append(@, b)]
    /\ calls' = calls + 1

\* The bound on calls is reached.
Done == calls = MaxCalls /\ UNCHANGED vars

Next ==
    \/ \E l \in Layers: ForwardTraining(l)
    \/ \E l \in Layers, b \in Batches: ForwardTrainingRunning(l, b)
    \/ Done

Spec == Init /\ [][Next]_vars

TypeOK ==
    /\ cache \in [Keys -> {None} \cup {Build(m): m \in {MomentumOf[l]: l \in Layers}}]
    /\ Len(lru) <= Capacity
    /\ \A k \in Keys: cache[k] # None <=> k \in Range(lru)
    /\ calls \in 0..MaxCalls

(***************************************************************************)
(* The running statistics a layer gets: the exponential average of its    *)
(* batches with its own momentum, running = m * running + (1 - m) * mean, *)
(* one step per update in call order.                                      *)
(***************************************************************************)
Intended(l) ==
    FoldLeft(LAMBDA acc, b: SumExecute(<<MomentumOf[l], Complement(MomentumOf[l])>>,
                                       <<acc, b>>),
             Initial, history[l])

(***************************************************************************)
(* Every layer's running mean is the average that compute() was asked    *)
(* for with that layer's momentum, whichever layer built the cached       *)
(* object its running_statistic used, and whatever was evicted between.   *)
(***************************************************************************)
RunningStatsUseCallerMomentum == \A l \in Layers: running[l] = Intended(l)

=============================================================================
