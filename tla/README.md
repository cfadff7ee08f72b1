# ChampSim prefetcher fork: models, checks and proofs

This directory holds TLA+ models of the components of this repository, the TLC
configurations that check them on small instances, and TLAPS proofs of the facts
that hold for every size of the tables.

The repository is a fork of the ChampSim simulator in which the SPP prefetcher
and perceptron filters over several prefetchers are studied.  It holds the
*modules* a simulated core is assembled from - prefetchers, replacement policies,
branch predictors, a branch target buffer - with the headers of the simulator,
the configuration script and a tracer.  The simulator's own loop is not in it:
`cache.cc`, `ooo_cpu.cc`, `ptw.cc`, `vmem.cc`, `dram_controller.cc` and `main.cc`
are absent.  What calls a module is therefore modelled as an external
environment, from the hooks the modules implement and the comments on them.

Everything here is single-threaded code (but for what Pin does with the tracer,
section 6).  What makes it hard is not threads but
long sequences of calls: tables that must keep an order or a permutation through
any mix of hits, insertions and replacements; counters that are halved while
events they counted are still outstanding; requests a full queue refuses; hooks
of one cache (access, fill, eviction) that come in any order; arrays that only
the decay of a confidence keeps in bounds.

## 1. Inventory

### Containers and clock (`src/inc`)

| Component | State | Operations | What makes it correct |
|---|---|---|---|
| circular buffer (`circular_buffer.hpp`) | vector of N+1 slots, head, tail | push_back, pop_front, clear, iterators with wrapping arithmetic | a ring of N; iterator order is the order of insertion |
| delay queue (`delay_queue.hpp`) | two circular buffers and the cached iterator `_end_ready` | push_back, push_back_ready, operate, pop_front, clear | a FIFO whose members can be taken only after their delay |
| operable (`operable.h`) | leap accumulator, current cycle | `_operate` once per fastest cycle | a slower component skips the cycles its scale says, also where sums of doubles round |
| helpers (`util.h`, `block.h`) | none | comparators, lru_updater, eq_addr | the comparator orders, an invalid element is extreme |

### Replacement policies (`src/replacement`)

| Component | State | Operations | What makes it correct |
|---|---|---|---|
| lru | `lru` of each block | update_replacement_state at each hit and fill, find_victim | the fields order the ways by recency; the victim is the least recent |
| srrip | `lru` used as a 2-bit re-reference prediction | same | find_victim terminates; a way that was hit outlives the ways filled before it |
| drrip | same, the sampled sets, PSEL, bip_counter | same | leader sets move PSEL, followers obey it |
| ship | same, a sampler of accesses, SHCT | same | a counter never exceeds the reuses the sampler saw; the blocks as in srrip |

### Prefetchers (`src/prefetcher`)

| Component | State | Operations | What makes it correct |
|---|---|---|---|
| spp_dev, spp_dev_agg | signature table, pattern table, filter, global history register | prefetcher_cache_operate, prefetcher_cache_fill | victims are found, the lookahead ends inside its arrays, counters agree |
| ppf_spp_dev, _2, _3 | the above, a ring of predictions, inverted_address, feature weights | the same hooks | an outcome trains the predictions of its own line, each once |
| ppf_next_line_5, ppf_ip_stride | ring of predictions, weights, lookahead | the hooks and cycle_operate | as above |
| ip_stride, ip_stride_modified | trackers of instructions, one lookahead | access, cycle_operate | only a repeated stride is followed; each step is issued once, a refused one is retried |
| next_line_degree_3, _5 | one lookahead | the same | the same; never across a page unless addresses are virtual |
| next_line, next_line_instr | none | one request at each access | - |
| va_ampm_lite | regions with bitmaps of accesses and prefetches, a cached lookup | access | one region per virtual page, which marks accesses of that page only |
| kpcp | page table with bitmaps of prefetched and used lines, pattern table, two counters | hooks of an older simulator | the path fades; what the bitmaps mark is in the cache |
| no, no_instr | none | empty hooks | - |

### Branch prediction (`src/branch`, `src/btb`)

| Component | State | Operations | What makes it correct |
|---|---|---|---|
| bimodal1..3, gshare1..3 | counters, history | predict_branch, last_branch_result | a bias is learned |
| perceptron1..3 | weights, speculative and real history, buffer of in-flight predictions | same | an update trains on what its own prediction read; the two histories agree; a bias is learned |
| hashed_perceptron | weights, history, the indices and the sum of the last prediction, threshold | same | a bias is learned; the threshold stays in range |
| basic_btb | set-associative table, indirect table, return address stack, call sizes | btb_prediction, update_btb | returns find their calls; a full set replaces its earliest used entry |

### Tools

| Component | State | Operations | What makes it correct |
|---|---|---|---|
| `config.py` | the merged configuration | defaults, removal of unused caches, fill levels, order of writing | each element is written after the one below it; what is refused has a reason |
| tracer (`tracer/champsim_tracer.cpp`) | instruction count, current record, open file | per-instruction callbacks of Pin | exactly the instructions of the window are written |
| `snif.py`, `snif_2.py`, `set_pref_name.py`, job scripts, Makefile | none | text processing, job submission | not modelled |

### How they interact

The cache calls `prefetcher_cache_operate` at each access and
`prefetcher_cache_fill` at each fill, with the address that the fill evicted; the
prefetcher calls `prefetch_line`, which puts a request in the prefetch queue or
returns 0 when that queue is full.  The cache calls `find_victim` for a fill
without a free way and `update_replacement_state` at each hit and fill.  Inside
SPP the tables call each other: the signature table asks the global history
register for a signature when it meets a new page, the lookahead reads the
pattern table and sends each candidate through the filter, which moves the
counters of the global register, from which the next access computes the
accuracy that scales the lookahead.  The perceptron filter sits between the
lookahead and the filter.  The components share nothing else.

## 2. Modules

### Delay queue

`CircularBuffer` is the ring as operators on a record; iterator subtraction is
the code's, including its sign across the wrap.  `DelayQueue` is the queue with a
client: `Push`, `PushReady`, `Operate`, `PopAllReady`, `PopBandwidth`, `Clear` are
the methods and the two pop loops of the header comment; `uses` says which of
them the client calls.  The state is the two rings, `_end_ready` as a position,
what the last loop popped, and whether an assertion of `circular_buffer` failed.
The binary search of `operate` is its contract: `PartitionPoints` are the
positions `std::partition_point` may return (exactly one in a sorted range), and
any of them is taken.  `DelayFifo` is the abstract specification: a sequence of
items with the cycles each has left.  `MCDelayQueue` maps the one to the other
(`AbsQueue`).

### Replacement

`ReplacementParams` has the ways of one set.  `LruReplacement` is the LRU policy:
`Hit`, `Fill`, `Invalidate` are what the cache does, with the calls of the policy
inside.  `used` and `usedBefore` are history variables: the order of the last
uses, against which the fields are compared.

`Rrip` is what SRRIP and DRRIP share - `find_victim` as the number of `Rounds` its
loop makes, modulo the width of the field, and the row it leaves - and SRRIP.
`Drrip` adds the duel: `role` is the set's place among the sampled sets (any, as
the code draws them pseudo-randomly), `Duel` what a miss does to PSEL and
bip_counter, `OtherSetMisses` the misses of the sets that are not modelled.
`inserted` and `outlives` are history: which ways were hit since others were
inserted.  `Ship` adds SHiP, as two specifications over the same counters `shct`: the
sampler under the accesses of all sampled sets (`Sample`), and the blocks of one
set (`ShipHit`, `ShipFill`) while the counters change in any way (`CountersChange`).  The
split is sound because the sampler never reads the blocks and the blocks read
the counters only.

### SPP

`SppParams` has pages, offsets, deltas and signatures.  The hash functions, the
partial tags and the signature update are parameters: nothing that is stated
depends on what they compute.

- `SignatureTable`: `ReadAndUpdateSig` with its three cases (`StHit`,
  `InsertFree`, `InsertOldest`), the delta and signatures it returns, and the
  LRU counters.
- `PatternTable`: `UpdatePattern` (`PtHit`, `PtReplace`) with the halving, and
  the confidences `read_pattern` computes.
- `GlobalRegister`: `UpdateEntry` (`GhrRefresh`, `GhrReplace`) and `CheckEntry`.
- `PrefetchFilter`: `IssueL2`, `Demand`, `Evict` are the requests of
  `PREFETCH_FILTER::check` that change state, with the counters `pf_useful` and
  `pf_issued` and their halving.  `halved` is a history variable.
- `FilterInCache`: the filter beside the cache: which lines are cached or in
  flight, and whether `prefetch_line` takes a request.
- `SppDev`: the hook.  Its locals are the records `base` (the access), `path` (the
  lookahead) and `queue` (the candidates that wait); `pc` is where it is.
  `Operate` is stages 1 and 2, `ReadPattern` a call of `read_pattern`,
  `PrefetchL2`, `PrefetchLLCOrNot` and `CrossPage` what happens to a candidate,
  `Advance` the end of an iteration of the do loop.  The cache takes steps only
  while the hook is not running.

A failed assertion of the code sets an `...Aborted` flag and stops the table.
`MCSppTables` runs the tables side by side; its `recency` is a history variable,
for each set the order of the latest accesses of its tags, which the code's ages
are compared with.

### Perceptron filters

`Perceptron` has the weights, their update and the decision.  `PerceptronFilter`
is the ring, `inverted_address` and the calls that train: `Predict` (a candidate
of the lookahead), `Demand`, `Evict`.  The three versions over SPP are one module:
`rebound` is what a weight does at the end of its range (0 in versions 1 and 2, a
step back of four in version 3), `HalfRange`, `Bias`, `Threshold`, `RingSize` and
the features (`SlotOf`) are constants; version 3 also trains at an access before
it trains SPP, which the filter's own training of the same line repeats without
effect.  In `SppDev` the filter is `Decisions`: it may turn any candidate down
(`TurnDown`), which covers every state of the weights.

`LookaheadFilter` is the filter over next_line_5 and ip_stride: it reuses the ring
and the training, and has the walk of the lookahead (`AheadCycle`) and the
access (`AheadAccess`).  `indexed` tells the two apart: ppf_ip_stride looks entries
up in `inverted_address`, ppf_next_line_5 scans the ring.

`PredictionWindow` is the abstract specification of all five: a window of the
latest predictions, each trained once, with the outcome of its own line.

### Stride prefetchers

`StridePrefetcher` is ip_stride, ip_stride_modified, next_line_degree_3 and _5, and
the lookaheads of the two that run under a filter: `kind` says which.
`StrideAccess` and `NextLineAccess` are the access hooks, `CycleOperate` is the
cycle hook with its request, which may be refused.  `trackers`, `lastUsed` and
`look` are the state of the code; the cycle in which a tracker was last used is
kept as a rank, since only its order is read.  `history` and `burst` are history
variables: the last stride of each instruction whatever tracker it has, and what
the present lookahead was granted.

### VA AMPM Lite

`VaAmpm` is one action, the access hook: the record `ampm` (regions, and the page
and result of the last search) is passed through every search the hook makes, in
the code's order, because each search changes what the next is answered from
memory.  `refused` are the lines `prefetch_line` refuses.

### KPCP

`KpcpTables` has the page table (one variable for each field of its entries) and
the pattern table, `Kpcp` the hook: `KpcpAccess` up to the lookahead,
`KpcpLookahead` a turn of its loop, `KpcpRequest` a request, `KpcpEvict` the fill
hook.  `stage`, `access`, `walk` and `buffer` are the locals of the hook.

### Front end

`BranchStreak` is the history of outcomes the predictors are compared with.
`CounterPredictors` is bimodal and gshare, `PerceptronPredictor` the perceptron with
its buffer, `HashedPerceptron` the hashed one.  Weights, saturation, thresholds and
histories are those of the code; the index hashes too, bit by bit.  Of the
processor, which is not in the repository, the perceptron's module has the
branches in flight and the rule that nothing is fetched past a misprediction
(`fetch_stall` in `ooo_cpu.h`); the other modules have the outcome of each branch
before the next prediction, because their code keeps one prediction only (static
`indices` and `yout`; the pop of the return address stack at the update).
`BranchTargetBuffer` is basic_btb with a program whose calls and returns nest: `calls`
is the program's stack, `intact` how much of it the bounded one can still hold.
Branches have addresses other than 0, which is the tag of an entry never used.  The
time of a use is kept as an order: `lastUses` is, for each set, which entry was
used before which.
`FrontEnd` has these and the modules below as its units, of which one runs at a time
(as in `MCPrefetchers` and `MCReplacement`); `MCFrontEnd` gives it the values of its
constants.  gshare's hash is a constant, for which `MCFrontEnd` has `gs_table_hash`
with its exclusive ors: what is learned does not depend on it.  So are half the
values of a counter (`CounterHalf`, 1 << (COUNTER_BITS - 1)) and half those of a
weight (`HalfRange`): any, not only powers of two.

### Around the core

`Tracer`: the environment is Pin, which calls the routines of an instruction in the
order `Instruction` inserted them: each has its place (`AtBranch`, `AtRead(i)`, ...),
`Sites` are the places of an instruction and `toCall` those whose routines are still
to be called.  `ran` is the history of executed instructions.  `Operable`:
`Leap` and `OperateOnce` are the two branches of `_operate()`.  The scale, `CLOCK_SCALE`
and `leap_operation` are doubles, counted in units of the spacing of the doubles
from 1 to 2, of which 1 has `One` (2^52); `Rounded` is the double nearest to a
quotient, ties to even, and every division, difference and sum of the code goes through it.
`Configuration`: each phase of the
script on the memory system is an action, the loops a turn at a time; a `KeyError`
and the script's own exit are both the phase "failed".

## 3. What the runs check

| Run | Module, bounds | Shows |
|---|---|---|
| delay_queue | `MCDelayQueue`: capacity 2, latency 2, two items | a plain client never trips an assertion and never gets a member early; the queue implements `DelayFifo`; members become ready in the end |
| delay_queue_bandwidth | capacity 3, bandwidth 2 | violation, section 5 |
| replacement | `MCReplacement`: one set of 3 ways, two access types, a field of 4 bits; SHiP's sampler with 2 sampled sets of 2 ways that share an entry, 3 regions, 2 instructions | LRU: the victim is the least recent of a full set, whatever was invalidated; SRRIP, SHiP and DRRIP's predicting sets: a victim is found in three rounds, a hit protects a way against those inserted before; SHiP's counters and the reused entries of an instruction never exceed the sampler |
| drrip_sampled_sets | the same, DRRIP only | violation, section 5 |
| spp_tables | `MCSppTables`: each table alone under all its legal inputs | victims are always found, no key twice, the most recent pages kept, confidence decays, counters of the filter drift by at most its size, the register forgets its least confident entry |
| spp_dev | `MCSppDev`: 3 pages of 4 blocks, 11 accesses, one jump, any answers of a perceptron filter | the lookahead ends and stays in its arrays; the pattern table is trained with real deltas only; the filter agrees with the cache |
| spp_accuracy, spp_dropped_prefetch | `MCSppDev` | violations, section 5 |
| prefetchers | `MCPrefetchers`: filters with a ring of 2 and 2 tables, over 2 lines of candidates or 3 lines that are walked; strides with 3 instructions, 3 consecutive blocks over a page boundary, 2 sets of 2 trackers, degree 3; VA AMPM with 4 lines of 2 pages, 3 regions, distance 2; KPCP with 4 pages of 4 blocks, 10 accesses, one jump | the index finds the predictions of a line and no other, the ring implements the window, a step that is refused and retried is entered once, a reward never turns down an accepted candidate; each step of a lookahead is granted once, within its degree and page, and only a repeated stride is followed; marks of a region are accesses of its page; KPCP finds its victims, its path fades, its marks are lines in the cache |
| stride_units, va_ampm_regions | the same, ip_stride only; VA AMPM only | violations, section 5 |
| frontend | `MCFrontEnd`: 2 branches, histories of 2 bits, weights of 2 bits, 3 branches in flight and a buffer of 2; 3 calls nested up to 3 deep over a stack of 2, 3 direct branches for 2 ways; traces of 4 instructions out of 3, files appended to up to 2 records; frequencies 10, 9, 5 and 3, doubles of four bits, 30 cycles; 1296 hierarchies of 9 caches | every predictor learns a bias from any state; the perceptron trains on its own prediction and its histories agree; returns find their calls; a full set replaces its earliest use; a trace is exactly the window of instructions asked for; components keep pace; what the script writes is complete and in order, and what it refuses has a reason |

Why the bounds are enough.  *delay_queue*: with a capacity of 2 the ring has three
slots and wraps within three pushes, and a latency of 2 makes members with 0, 1
and 2 cycles left coexist.  `MaxOverdue` stops the count of cycles below zero,
which nothing reads beyond its sign.  *replacement*: with three ways a way can be
younger than one and older than another; a field of four bits with its default in
the middle makes the wrap of `find_victim` 12 rounds long instead of 2^31.  *spp_tables*: a
set of three ways and five pages, two of them with one partial tag, so that
hits, free insertions and replacements mix and tags collide; three bits of C_SIG
halve the counters every few updates; the filter has two sets for three lines
and address 0.  *spp_dev*: `CSigMax` 7, two signatures, page of four blocks: a
streaming program makes the lookahead run over the page and into the register,
and one jump retrains it.  `MaxAccesses` bounds the run, `MaxJumps` the accesses
that leave the stream, `MaxInflight` the lines on their way at an access
(0: each access finds the earlier requests filled), `CounterMax` 31 is not
reached within 11 accesses, so this run is about the time before the first
halving and `spp_accuracy` about the time after.  Page boundaries, both of the
table's levels of confidence and a path of four steps are all within it.
*prefetchers*: a ring of two is overwritten at the third prediction, weights of
two bits reach both ends, and the three lines of a page let a lookahead in each
direction end on it or run off it, and take two steps with a refusal between.  The windows of the two tracker sets share a
tracker, so that each instruction can lose its tracker and come back to it, with
its old stride, another instruction's, or none; three blocks give strides of both
signs that repeat; a lookahead of three steps both leaves its page and ends
within it.  VA AMPM's accesses touch two pages and its requests their neighbours,
four pages for three regions, so regions are taken away while find_region
remembers them.  KPCP's page table holds two of four pages, two of which share a
partial tag; counters of at most 3 are halved every few requests and its
pattern counters of at most 4 at every fourth update.
*frontend*: histories and weights of two bits saturate and are undone in a dozen
outcomes; with three branches in flight and a buffer of two a state is lost (the
properties are stated for a buffer as deep as the processor; that case is among
the depths); a stack of two wraps both ways, and programs with more calls than
it holds and returns without a call are included.
The traced program has a branch, an instruction with more operands than the
record has slots, with repeated ones and registers that coincide in the kept
bits (`RegSize` 4 stands for 256), and one that reads and writes one address; the
windows begin at 0 or 1 and are shorter than, or longer than, the execution
(`MaxInstructions`).  `MaxRecords` bounds the file that later executions append to.  Of the
frequencies 10, 9, 5 and 3 one quotient is a double (2), one is rounded down and one
up when 1 has 8 units; within 30 calls the
rounded ones have drifted by more than one operation can hide: a lead between 0 and
one operation, which exact fractions would keep, is not kept in this run.  The hierarchies include shared, separate, cyclic and undefined lower
levels, chains of different lengths to one cache, caches nobody uses, and caches
that only the page table walker leads to.

Deadlock is not checked in the runs of the delay queue, of `MCSppDev` and of
`MCPrefetchers`: a queue whose assertion failed stops, and the walks end after
`MaxAccesses`.

Fairness.  `FairSpec` of the delay queue has weak fairness of `Operate`: the
header says "call operate() once every cycle".  `SppSpec` has weak fairness of
`Hook`: it is one call of sequential code, which goes on until it returns.
Nothing is assumed of the cache or the program.  The other modules have no
fairness: `KpcpLookahead` ends because of `PathFades`, which needs none.

Each property of a passing run has a mutant: a variant of one definition with a
plausible error (an ageing loop that spares a way, a halving of one counter
only, an index entry not removed), under which TLC reports the property
violated.  Mutants stand before the definition they change and are named in its
comment.

## 4. What is proved

The theorems hold for every value of the constants under the named assumptions
(`...Assumption`), which say no more than that sizes are positive, the hash
functions stay within their ranges and the counters have a whole number of bits.
Each module of proofs is about the components of one part of the system;
`TableLemmas` has what they share: minima of finite sets ("the first way that
..."), what an ageing loop does to a permutation of ages, which SPP's and KPCP's
tables both keep, what a loop over a sequence keeps when each turn keeps it
(`LoopKeeps`), and folds over finite sets: that one exists (`FoldExists`), that its
turns may be taken in any order when they commute (`FoldAnyOrder`) and over any
other set that names the same turns (`FoldRenamed`).  The argument is the same everywhere: an invariant that
every step keeps (`...IInv`), from which the property follows; where the property
is not inductive the invariant adds what is written below.

Induction over data has a form of its own, since no induction theorem can be
instantiated: a claim about all turns of a loop holds because the set of turns at
which it fails has no least element, and a recursive function or fold is used
through the theorem that says what its next value is (`LoopUnrolls`, `FoldExists`).

**Replacement** (`ReplacementProofs`)

- `Invariance` of LRU's `IInv`: the fields of the used ways are 0..n-1 and ordered by
  recency, the fresh ones all equal the default plus n; the second half is what
  lets a fresh way and a used one age in the same loop.  From it
  `VictimLeastRecentAlways`.
- `SrripInvariance`, `DrripInvariance` and `ShipInvariance` of `RripIInv`: in a set where
  each fill predicts, the fields of valid ways are at most maxRRPV, those of ways
  not promoted at least maxRRPV - 1, and `outlives` is ordered by the fields.  Ageing
  adds the same to all ways and stops at maxRRPV, so it keeps all three and never
  wraps.  From it the bound on the search and the protection of a hit.
- `DrripAbandonsTheLoser`: only a miss in a leader set moves PSEL across its
  middle, and away from the policy that missed.  It is about one step, and has
  no run.
- `ShipSamplerInvariance` of `SamplerIInv` is the bound on the counters for a
  sampler of any size: an entry joins the reused ones of its instruction when the
  counter falls, and leaves them when it rises.  The invariant adds that reused
  entries were written and lie in the window of some set; the bound needs it where
  the counter is 0 and cannot fall.
- `AllTypesAlways`: the fields and counters keep to their widths under every policy.
  Its hard step is `VictimExists`: `find_victim` finds a way from any fields, over
  the wrap of the field, as in DRRIP's sampled sets.

**The tables of SPP** (`SppTablesProofs`), each alone

- Signature table: the invariant has the permutation of the LRU counters, the
  uniqueness of tags, and that valid ways are younger than invalid ones.  The
  last is needed because insertion fills free ways by index, not by age.  Since
  the counters are a permutation some way has age ST_WAY - 1, so the assertion
  `Cannot find a replacement victim!` never fails.
- Pattern table: a way counts strictly less than its set unless the set has
  counted nothing and the way holds delta 0.  It survives the halving because
  C_SIG_MAX is odd (`2^n - 1`): the count is halved from an even number.  From it
  victims are found and `LookaheadDecays`.  `CountersAddUpAlways`: the counts of the
  ways of a set add up to at most the set's own, though each is halved on its own
  with rounding; the sum is what bounds the branches of the lookahead.
- Filter: `pf_useful` and the unused valid entries together are at most `pf_issued`
  until the first halving, and at most that plus the number of filter sets after
  it.  `ValidAlwaysMeansPrefetched`, beside a cache: a valid entry is a line in the
  cache or on its way, if no request is refused (`Accepts = {TRUE}`); the run
  `spp_dropped_prefetch` shows that the condition is not idle.
- Global register: offsets are unique, a victim is found as long as all
  confidences stored are below 100, and it is one of the lowest confidence
  (`AlwaysForgetsLeastConfident`).  `spp_accuracy` shows that the condition is not idle.

**SPP at work** (`SppProofs`)

- `TablesInvariance` puts the four invariants side by side for `MCSppTables`, with one
  more: in each set the ages of valid ways are ordered as the last accesses of their
  tags, and a page that is absent was accessed before every page that is
  present.  From it `MostRecentAlwaysKept`, for any mix of hits, free insertions and
  replacements; and `VictimsAlwaysFound`, `TablesTypeCorrect`.
- `SppInvariance` is the invariant of the whole hook.  What the code never checks
  is in it: signatures and deltas in the path and the queue come out of the tables,
  so that what the hook asks of a table is a step that the table's own
  specification allows.  `HookUsesPatternTable`, `HookUsesOtherTables` and
  `HookUsesRegister` prove just that, step by step, as refinements, and therefore
  what was proved of the tables alone holds inside the prefetcher
  (`HookTablesSound`, `HookValidMeansPrefetched`).  `HookUsesRegister` has the register
  for any positive confidences (`Confs = Nat \ {0}`), since the accuracy may pass
  100 percent; this is why `VictimFound` does not carry over, and indeed it fails.
- `QueueInBudget` and `QueueAlwaysInBounds`: the queue of a lookahead fits MSHR_SIZE.
  The confidences of the branches of one path element add up to at most its own
  (`CountersAddUp`, before rounding), so those still on the path share 100, and
  each entry takes at least the prefetch threshold of it; a path with a single
  way per step is bounded by how the counters' width makes it fade.  The theorem
  covers spp_dev (threshold 25, 4 bits, 4 ways), spp_dev_agg (20, 4 bits) and
  ppf_spp_dev (20, 5 bits, 8 ways, where 32 slots are exactly enough), with the 32
  MSHRs of the L2C (`src/my_config.json:73`).  ppf_spp_dev_2 and ppf_spp_dev_3
  (threshold 5, 5 bits) could need up to 47 slots and are covered only by
  `QueueInBudget`, for a larger MSHR_SIZE.  Both have the hypothesis that the
  accuracy is at most 100 percent, which `spp_accuracy` shows is not idle.

**Prefetchers** (`PrefetcherProofs`, `KpcpProofs`)

- `IndexAlwaysInverse`, `AheadIndexInverse`: `inverted_address` is the inverse of the ring,
  under the calls of the filters over SPP and of those that walk ahead.  An entry that
  is overwritten leaves the index of its old line first, which needs that
  entries never written are in no index.
- `RingImplementsWindow`, `AheadImplementsWindow`: the ring with its index implements
  `PredictionWindow`, where an outcome rewards or blames the predictions that are
  still remembered.  The invariant adds `RingOrder`, how far the ring has been
  written; the loops over the index and over the window are folds of turns that
  commute, since a turn moves the weights of its own features by one, so they
  may be taken in any order and under any numbering of the entries (`FoldRenamed`).
- `WeightsStayInRange`, `AheadWeightsStayInRange`: the weights keep to their range,
  also where version 3 rebounds by four.  `RewardAlwaysKeepsAccepted` and
  `AheadRewardKeepsAccepted`: in a step that only rewards, no weight falls, so the
  sum of a candidate that was accepted grows over every feature.
- `AccessMarksAlwaysReal`: what VA AMPM reads for a virtual line is what it marked
  for it.  The invariant is `Remembered`: a region that an access found before its
  searches is still that page's when it marks, and the marks of a region are real
  accesses and prefetches of its page.
- `PrefetcherTypesAlwaysOK`: the types of all components of `MCPrefetchers`, which
  need most of the invariants above (the trackers' in particular).
- `StepsAlwaysEnteredOnce`: from where the ring stood at the access, the steps that the
  lookahead under a filter has taken follow one another, each entered once, however
  often the cache refuses one.  `AheadWalks` is the arithmetic of the ring: an entry is
  taken again only after all others.
- `StepsTakenOnce`: what a lookahead was granted and what it has still to do make up
  its degree, through refusals and replacements.
- `OnlyRepeatedStrides`: a tracker in use holds what the history holds of the
  instruction it names, lies in that instruction's window, and is its only one.
  Windows overlap, so this is kept only because an access looks for its own
  tracker in the whole window before it takes the least recent one.
- KPCP: `KpcpInvariance` has the permutation of the ages of the page table, that no
  counter of the pattern table exceeds its signature's, that delta 0 has no counts,
  and that the entry the hook works on stays the page's.  From it `KpcpDoesNotAbort`.
  `KpcpPathFades`: a delta may have all the counts of its signature; the cap of 99 on MAX_CONF
  makes each product smaller.  `KpcpMarksAreResident`: marks of a line go with it, and
  an entry that is taken over loses its marks, also when pages share a tag.

**Delay queue** (`DelayQueueProofs`)

- `QueueInvariance`: for a plain client the two rings move together, the delays
  ascend (all begin with the same latency and fall together) and `_end_ready` is
  never past a member whose delay is not over.  Positions are compared through
  their distance from the head, since iterators wrap.  From it
  `PlainClientNeverAborts` and `EndReadyAlwaysSound`.
- `QueueImplementsFifo`: every method under every client is a step of `DelayFifo` or a
  stutter, for any capacity, latency and items.  Half the module is what pushing,
  popping and wrapping do to the sequence that a ring stands for.

**Front end** (`FrontEndProofs`)

- `ReturnsAlwaysFound`: the bounded stack holds the innermost `intact` open calls
  in order, however deep the program nests; and the tracker of a call whose
  instruction was the last to train it has its size.
- `AlwaysReplacesEarliest`: `lru` orders the entries of a set that are in use by
  their last use, and no branch has two.
- `TrainsAlwaysOwn` and `HistoriesAlwaysAgree`, for a buffer at least as long as the
  processor is deep (`depth <= BufferSize`): the buffer holds the states of the branches in flight in
  order, and all of them but the latest were predicted well, because nothing is
  fetched past a misprediction.  So the first state of an address is the
  oldest branch's own, and when history is repaired no later prediction is in it.
- `ClockInvariance`: `leap_operation` is exactly what a component is ahead of its
  rounded scale, and below it; from it `KeepsPaceAlways`, for any frequencies, any
  number of cycles and any precision of the doubles.  That the sums round nothing
  is the lemma `SumsAreExact`: each sum and difference is below the scale and a multiple of
  the spacing of the doubles at the scale, so it is a double itself.  The only error is
  that of the quotient (`RatioIsNear`), at most 2^-53 of it, which every operation adds
  again.  It shows: at frequencies 4000 and 3000 the quotient is 2^-52 / 3 less than
  4/3, the sum after three operations is 1 - 2^-52, and the fourth call, which exact
  arithmetic would skip, operates.  A property that counts n operations as exactly
  n times the ratio of the frequencies is therefore false, and is not what
  `KeepsPace` says: it counts them by the scale, and bounds what the scale is off.
- `BiasAlwaysLearned`: the invariant of each predictor says how far a streak, of
  outcomes in one direction, has taken it.  First it fills the history, so that what is read for
  a branch is from then on the same; each outcome behind that moves
  what is read by one towards the direction or saturates it (bimodal and gshare), or, where
  training stops at a threshold, finds the sum far enough on its side.  Branches
  that share an entry only push it in the same direction; weights grow together,
  and at their ends they give the direction's sign (`SumGrows`, `SumHasSign`).  For the
  perceptron the states in flight were made earlier: the invariant has each of them
  stale by no more than what is in flight behind it, which is where the
  depth of the processor enters the bound (`StaleBehind`).
- `TraceAlwaysWindow`: between two routines the global record is what the routines
  called so far should have made of it (`SoFar`), which is the reset record
  before the first and `RecordOf` before the last; entering an operand is one more
  step of "the first n distinct operands that are not 0" (`OneMoreEntered`, by
  counting the first occurrences).  The file holds what it held before and the
  records of the window's instructions that have finished.
- `FrontEndTypesAlwaysOK`: counters, weights and thresholds saturate in their
  ranges, the buffer of the perceptron has at most its size, the tables of the
  branch target buffer hold addresses and sizes of the program, and the levels of
  `config.py` stay below its round.  All of the above are parts of one inductive
  invariant, `FrontEndIInv` (`FrontEndInvariance`): a step of one unit leaves
  the variables of the others alone, except for the streaks the predictors share.

Some facts have a theorem and no run of their own, since a run at small sizes
adds nothing to them: `CountersAlways` (each way counts at most its set),
`UsefulWereIssuedAlways`, `UniqueOffsetsAlways`, `KpcpTypeCorrect`.

Only model-checked, and why:

- `EventuallyReady` and `AccessReturns` are liveness, and beyond this prover.
- `WritesSystemInOrder` compares the script's levels with two recursions over the
  hierarchy (what the core reaches, and whether there is a cycle).  A proof needs
  that a chain longer than the number of elements repeats one of them, by induction
  over the chain.  The run checks it for 1296 hierarchies: with every reason for a
  refusal, with caches reached over paths of different lengths, and with a page
  table walker on the L1D, on the L2C and on a cache of its own.

## 5. Findings

- `delay_queue_bandwidth`: `circular_buffer_iterator::operator-` adds the size and
  subtracts a positive difference, so of two iterators on both sides of the wrap
  each is less than the other and `std::min` in the loop the header recommends
  returns the later one: members are popped before their delay is over.
- `drrip_sampled_sets`: DRRIP samples 64 sets, but only two of them are leaders and
  the code has no branch for the other 62: a fill there leaves the field as it
  was.  A line that is hit there gets 0 while lines that were never hit keep the
  default 2^31 - 1, and is the next to be evicted.  The search for a victim may
  also run over the wrap of 32 bits.
- `spp_accuracy`: `pf_useful` and `pf_issued` are halved together, but a prefetch
  issued before the halving counts as one when it is used.  The accuracy can
  pass 100 percent, after which the confidence of the lookahead grows along the
  path, entries of confidence 100 fill the register, and its assertion fails.
- `spp_dropped_prefetch`: the filter records a line as prefetched before
  `prefetch_line` is called, and ignores that the request was refused.
- `stride_units`: ip_stride and ip_stride_modified start their lookahead at the
  block number of the access and then treat it as a byte address, so that the
  lines they request are unrelated to the access and its page.
- `va_ampm_regions`: `find_region` remembers that a page has no region, and
  allocating one does not correct it, so the next access to the page gets it
  another region, and so on as long as accesses stay in the page: nothing is
  prefetched there.
- Not a run: the eviction hook is meant to count "a useless prefetch (prefetched
  but not used)" (`src/prefetcher/spp_dev/spp_dev.cc:455`), but it never compares
  the tag, so the eviction of any line that maps to the filter set resets the
  entry and decrements `pf_useful`; the fill of an empty way does so for the set
  of address 0.
- Not runs: DRRIP's comment "do not update replacement state for writebacks"
  (`src/replacement/drrip/drrip.cc:42`) stands above a line that sets the field of
  the block, on hits too; drawing the sampled sets never ends in a cache of fewer
  than 64 sets (`drrip.cc:26`; 256 for SHiP).

- Not runs, in `config.py`: cores added to reach `num_cores` are copies of a
  named one (line 124), so that cores share a name; the cache below the
  DTLB gets the defaults of an L2C (line 156, `default_stlb` is unused); with L1D on
  DRAM, which line 150 provides for, line 159 raises a `KeyError`, and so do the lookups of
  lines 148-161 with the page table walker, which is no cache, directly below L1D, below
  the cache under it or below the DTLB; a missing lower
  level fails at line 395 before the check with a message (line 408) is reached; a
  cache used only by a cache nobody uses stays and has no fill level, which the
  sort at line 403 needs; a cycle of caches makes the loops at lines 191-210
  endless; a cache that only the page table walker uses is removed (line 165 asks
  the caches for users, not the walker) and line 395 raises a `KeyError`, and one
  below it that is kept never gets its `offset_bits`, which line 441 needs when
  half of the file is written.  `WritesSystemInOrder` states these as the only reasons for a refusal.
- Not runs: KPCP's statistics index `useful_depth` by a depth of up to its size
  (`src/prefetcher/kpcp/kpcp.cc:630`); ppf_ip_stride's lookahead forgets its instruction
  after the first step (`src/prefetcher/ppf_ip_stride/ppf_ip_stride.cc:210`), so the
  later steps compute their features for instruction 0, which `LookaheadFilter` models.
- Two values are kept out of the models because memory that was never written holds
  them.  An access of instruction 0 would find a tracker of ip_stride that was never used
  (`src/prefetcher/ip_stride/ip_stride.cc:81`) and learn its own line as a stride
  (`StrideAssumption`), and page 0 is not told from an evicted address of 0, which KPCP's fill
  hook ignores (`src/prefetcher/kpcp/kpcp.cc:734`; `KpcpAssumption`).

## 6. Not modelled, and the plan

Modelled so far: every component with state, but for `config.py` where only the
memory system is (the reading and merging of other keys, the choice of modules
and the text of the generated files are not).

What could follow:

1. *The perceptron filter composed with `SppDev`* as one state instead of any
   answers; it multiplies the states of `spp_dev`, which is why it is abstracted.
2. *`WritesSystemInOrder` for every hierarchy*, with the fill level as a fixed point
   instead of the length of the longest path.

Not modelled, with reasons.  *Next-line prefetchers without lookahead* and *no
prefetcher* keep no state.  *The simulator core* is absent: only its headers are
here, and what it does around a module is the environment of the models.  *Several
threads under the tracer*: the routines share globals without a lock, and nothing
the code says could be stated of the outcome; programs of one thread are
modelled.
*Several cores*: what KPCP, DRRIP and SHiP index by core is modelled for one core;
SHiP's sampler is what cores would share.

Left out for good: the absent simulator core; the result and job scripts, which
keep no state; statistics, logging and the CSV that the perceptron filters write
at the end.
