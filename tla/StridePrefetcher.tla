-------------------------- MODULE StridePrefetcher --------------------------
(***************************************************************************)
(* The prefetchers that walk ahead of an access in steps                   *)
(* (prefetcher/ip_stride, ip_stride_modified and next_line_degree_3 and    *)
(* _5, and under a perceptron filter ppf_ip_stride and ppf_next_line_5).   *)
(* An access may start a lookahead, each cycle asks for the line of its    *)
(* next step, and a request that is refused is tried again.  The IP stride *)
(* prefetchers start one when an instruction repeats a stride, which they  *)
(* learn in a table of trackers; the next-line ones at any access.         *)
(*                                                                         *)
(* A filter may turn a step down, which then counts as taken; how it       *)
(* decides is the subject of LookaheadFilter.                              *)
(*                                                                         *)
(* `current_cycle' is abstracted: only the order of the cycles in which    *)
(* trackers were last used is read, so they are kept as ranks.             *)
(***************************************************************************)
EXTENDS Integers, Sequences, FiniteSetsExt

CONSTANTS
  Accesses,      \* the accesses: a byte address and the instruction's ip
  BlockSize, PageSize,
  Degree,        \* PREFETCH_DEGREE
  TrackerSets, TrackerWays,
  Kinds          \* which of the prefetchers run

StrideKinds == {"ip_stride", "ip_stride_modified", "ppf_ip_stride"}
NextLineKinds == {"next_line_degree", "ppf_next_line"}

(* No access has ip 0, as one without an instruction might: trackers never *)
(* used hold ip 0 and line 0, so it would find one and learn its own line  *)
(* as a stride, which StrideWasRepeated would not hold of.                 *)
ASSUME StrideAssumption ==
  /\ Accesses \subseteq Nat \X (Nat \ {0})
  /\ BlockSize \in Nat \ {0} /\ PageSize \in Nat \ {0}
  /\ Degree \in Nat /\ TrackerSets \in Nat \ {0} /\ TrackerWays \in Nat \ {0}
  /\ Kinds \subseteq StrideKinds \union NextLineKinds

Addrs == {access[1] : access \in Accesses}
Ips == {access[2] : access \in Accesses}

Trackers == 0 .. TrackerSets * TrackerWays - 1

VARIABLES
  kind,      \* the prefetcher
  virtual,   \* virtual_prefetch of the cache
  trackers,  \* ip, last_cl_addr and last_stride of each tracker
  lastUsed,  \* the rank of its last_used_cycle
  look,      \* the lookahead: address, stride and degree remaining
  history,   \* history: of each instruction, its last line and last stride
  burst      \* history: the access that started the lookahead, the steps it has
             \* taken, and whether its instruction had repeated the stride

strideVars == <<kind, virtual, trackers, lastUsed, look, history, burst>>

NoLookahead == [address |-> 0, stride |-> 0, degree |-> 0]

(* What history holds of an instruction not yet seen: no line has this     *)
(* number.  Its stride is then 0, which no lookahead follows.              *)
Unseen == -1

StrideInit ==
  /\ kind \in Kinds /\ virtual \in BOOLEAN
  /\ trackers = [t \in Trackers |-> [ip |-> 0, line |-> 0, stride |-> 0]]
  /\ lastUsed = [t \in Trackers |-> 0]
  /\ look = NoLookahead
  /\ history = [ip \in Ips |-> [line |-> Unseen, stride |-> 0]]
  /\ burst = [addr |-> 0, start |-> 0, step |-> 0, taken |-> <<>>, repeated |-> TRUE]
-----------------------------------------------------------------------------
LineOf(addr) == addr \div BlockSize
PageOf(addr) == addr \div PageSize

(***************************************************************************)
(* The distance between two prefetches of a lookahead.  Addresses are 64   *)
(* bit in the code, so that a step below address 0 gives a number of       *)
(* another page there, as the negative one does here.                      *)
(***************************************************************************)
Step(stride) ==
  CASE kind = "ip_stride" -> stride * BlockSize
    [] kind = "next_line_degree" -> BlockSize
    [] OTHER -> stride

(* (Mutant: a lookahead of which no step remains goes on.)                 *)
ActiveAnyway == look.degree >= 0

Active == look.degree > 0

(* The request of a step: it is granted or a filter turns it down, or      *)
(* nothing moves because the cache refuses it, so that the next cycle      *)
(* tries again.  (Mutant: the lookahead moves on all the same.)            *)
RequestAnyway(next) ==
  \E success \in BOOLEAN :
    /\ look' = [address |-> next, stride |-> look.stride, degree |-> look.degree - 1]
    /\ burst' = IF success THEN [burst EXCEPT !.taken = Append(@, next)] ELSE burst

Request(next) ==
  \/ /\ look' = [address |-> next, stride |-> look.stride, degree |-> look.degree - 1]
     /\ burst' = [burst EXCEPT !.taken = Append(@, next)]
  \/ UNCHANGED <<look, burst>>

(* prefetcher_cycle_operate: a step off the page ends the lookahead.       *)
CycleOperate ==
  LET next == look.address + Step(look.stride)
  IN  /\ Active
      /\ IF virtual \/ PageOf(next) = PageOf(look.address)
         THEN Request(next)
         ELSE look' = NoLookahead /\ UNCHANGED burst
      /\ UNCHANGED <<kind, virtual, trackers, lastUsed, history>>

(* A new lookahead takes the place of one that is not finished.            *)
Start(addr, address, stride, repeated) ==
  /\ look' = [address |-> address, stride |-> stride, degree |-> Degree]
  /\ burst' = [addr |-> addr, start |-> address, step |-> Step(stride),
                taken |-> <<>>, repeated |-> repeated]

(***************************************************************************)
(* The trackers an instruction may use: TRACKER_WAYS of them from          *)
(* ip % TRACKER_SETS on, so that the windows of neighbours overlap.        *)
(***************************************************************************)
TrackersOf(ip) == {(ip % TrackerSets) + way : way \in 0 .. TrackerWays - 1}

(* (Mutant: any tracker of the window that was used will do.)              *)
FoundAny(ip) == {t \in TrackersOf(ip) : trackers[t].ip # 0}

Found(ip) == {t \in TrackersOf(ip) : trackers[t].ip = ip}

LeastRecent(ip) == {t \in TrackersOf(ip) : \A u \in TrackersOf(ip) : lastUsed[t] <= lastUsed[u]}

Ranked(used) ==
  [t \in Trackers |-> Cardinality({used[u] : u \in Trackers} \cap 0 .. used[t] - 1)]

Use(t) ==
  \E cycle \in {Max({lastUsed[u] : u \in Trackers}) + k : k \in 0 .. 1} :
    lastUsed' = Ranked([lastUsed EXCEPT ![t] = cycle])

(* prefetcher_cache_operate of the IP stride prefetchers.                  *)
StrideAccess(addr, ip) ==
  LET line == LineOf(addr)
      known == Found(ip) # {}
      t == IF known THEN Min(Found(ip)) ELSE Min(LeastRecent(ip))
      stride == IF known THEN line - trackers[t].line ELSE 0
      moved == IF history[ip].line = Unseen THEN 0 ELSE line - history[ip].line
  IN  /\ kind \in StrideKinds
      /\ IF known /\ stride # 0 /\ stride = trackers[t].stride
         THEN Start(addr, line, stride, moved = stride /\ history[ip].stride = stride)
         ELSE UNCHANGED <<look, burst>>
      /\ trackers' = [trackers EXCEPT ![t] = [ip |-> ip, line |-> line, stride |-> stride]]
      /\ Use(t)
      /\ history' = [history EXCEPT ![ip] = [line |-> line, stride |-> moved]]
      /\ UNCHANGED <<kind, virtual>>

(* prefetcher_cache_operate of the next-line prefetchers: one steps from   *)
(* the address, the other from the number of its block.                    *)
NextLineAccess(addr) ==
  /\ kind \in NextLineKinds
  /\ IF kind = "next_line_degree" THEN Start(addr, addr, 0, TRUE)
                                  ELSE Start(addr, LineOf(addr), 1, TRUE)
  /\ UNCHANGED <<kind, virtual, trackers, lastUsed, history>>

StrideNext ==
  \/ CycleOperate
  \/ \E access \in Accesses : StrideAccess(access[1], access[2])
  \/ \E addr \in Addrs : NextLineAccess(addr)

StrideSpec == StrideInit /\ [][StrideNext]_strideVars
-----------------------------------------------------------------------------
StrideTypeOK ==
  /\ kind \in Kinds /\ virtual \in BOOLEAN
  /\ \A t \in Trackers : /\ trackers[t].ip \in Ips \union {0}
                         /\ trackers[t].line \in {LineOf(a) : a \in Addrs} \union {0}
                         /\ trackers[t].stride \in Int
                         /\ lastUsed[t] \in Trackers
  /\ look.degree \in 0 .. Degree

(***************************************************************************)
(* A lookahead takes its steps each once and in order, at most             *)
(* PREFETCH_DEGREE of them and as many as it has counted, however often    *)
(* the cache refused one or a filter turned one down; and none off the     *)
(* page it started in unless addresses are virtual.                        *)
(***************************************************************************)
EachStepOnce ==
  LET taken == burst.taken
  IN  /\ Len(taken) + look.degree <= Degree
      /\ look.degree > 0 => Len(taken) + look.degree = Degree
      /\ \A k \in DOMAIN taken :
           /\ taken[k] = burst.start + k * burst.step
           /\ virtual \/ PageOf(taken[k]) = PageOf(burst.start)

(***************************************************************************)
(* A stride is followed only when the instruction itself has moved by it   *)
(* twice in a row, although trackers are shared and evicted.               *)
(***************************************************************************)
StrideWasRepeated == burst.repeated

(***************************************************************************)
(* `If the next step would exceed the degree or run off the page, stop':   *)
(* what is prefetched lies in the page of the access that started it.      *)
(***************************************************************************)
OnPageOfAccess ==
  virtual \/ \A k \in DOMAIN burst.taken : PageOf(burst.taken[k]) = PageOf(burst.addr)
=============================================================================
