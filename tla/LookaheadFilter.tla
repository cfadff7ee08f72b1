--------------------------- MODULE LookaheadFilter ---------------------------
(***************************************************************************)
(* The perceptron filter over the prefetchers that walk ahead of an access *)
(* (prefetcher/ppf_next_line_5 and ppf_ip_stride).  The ring, the decision *)
(* and the training are those of PerceptronFilter; what differs is when a  *)
(* prediction is entered, and that only hits of the cache are outcomes.    *)
(*                                                                         *)
(* Which accesses ppf_ip_stride follows is the subject of StridePrefetcher *)
(* (kind "ppf_ip_stride"); here any access may be followed by any stride.  *)
(***************************************************************************)
EXTENDS PerceptronFilter

CONSTANTS
  AheadIps,               \* instructions
  AheadStrides,           \* strides that ppf_ip_stride may find, in blocks
  AheadDegree,            \* PREFETCH_DEGREE
  BlocksPerPage,          \* the shift by LOG2_PAGE_SIZE
  VirtualPrefetch,        \* virtual_prefetch
  Features(_, _, _),      \* the features of an ip, a degree and a line
  BiasTable               \* the table of one weight: bias

ASSUME LookaheadAssumption ==
  /\ Lines \subseteq Nat /\ AheadStrides \subseteq Int
  /\ AheadDegree \in Nat /\ BlocksPerPage \in Nat \ {0}
  /\ VirtualPrefetch \in BOOLEAN
  /\ 0 \notin AheadIps
  /\ \A line \in Lines, stride \in AheadStrides \union {1} :
       \/ line + stride \in Lines
       \/ ~VirtualPrefetch /\ (line + stride) \div BlocksPerPage # line \div BlocksPerPage
  /\ \A ip \in AheadIps \union {0}, degree \in 1 .. AheadDegree, line \in Lines :
       Features(ip, degree, line) \in Keys
  /\ 0 \in Rebounds
  /\ BiasTable \in Tables

VARIABLES
  indexed,   \* whether entries are found by inverted_address, as ppf_ip_stride does
  ahead,     \* lookahead: address, stride, degree remaining and ip
  since      \* history: ptr_to_trans_buff when the lookahead was started

aheadVars == <<indexed, ahead, since>>

NotAhead == [line |-> 0, stride |-> 0, degree |-> 0, ip |-> 0]

(* The tables start with small weights, the bias with 1.                   *)
AheadInit ==
  /\ RingInit
  /\ weights \in [Tables -> [Slots -> (-2 .. 3) \intersect NegMaxWeight .. PosMaxWeight]]
  /\ weights[BiasTable] = [slot \in Slots |-> 1]
  /\ rebound = 0
  /\ indexed \in BOOLEAN
  /\ ahead = NotAhead /\ since = top
-----------------------------------------------------------------------------
(* The lookahead after a step; ppf_ip_stride does not take the ip along.   *)
Advanced(line) ==
  [line |-> line, stride |-> ahead.stride, degree |-> ahead.degree - 1,
   ip |-> IF indexed THEN 0 ELSE ahead.ip]

(* A step that is to be prefetched and that the cache refuses is tried     *)
(* again: nothing is entered.  (Mutant: its prediction is.)                *)
RefusedEntered(line, key) ==
  Accepted(weights, key) /\ Entered(line, key) /\ UNCHANGED <<rebound, cached, ahead>>

Refused(line, key) == Accepted(weights, key) /\ UNCHANGED <<ppfVars, ahead>>

(***************************************************************************)
(* prefetcher_cycle_operate.  The decision is made before the entry to be  *)
(* overwritten is trained.                                                 *)
(***************************************************************************)
AheadCycle ==
  LET line == ahead.line + ahead.stride
      key == Features(ahead.ip, ahead.degree, line)
      onPage == line \div BlocksPerPage = ahead.line \div BlocksPerPage
  IN  /\ ahead.degree > 0
      /\ \/ /\ VirtualPrefetch \/ onPage
            /\ Entered(line, key)
            /\ ahead' = Advanced(line)
            /\ UNCHANGED <<rebound, cached>>
         \/ /\ VirtualPrefetch \/ onPage
            /\ Refused(line, key)
         \/ /\ ~VirtualPrefetch /\ ~onPage
            /\ ahead' = NotAhead
            /\ UNCHANGED ppfVars
      /\ UNCHANGED <<indexed, since>>

(* The entries of a line: by the index, or by a scan of the ring.          *)
EntriesOf(line) ==
  IF indexed THEN inverted[line] ELSE {i \in Slot : ring[i].line = line}

(***************************************************************************)
(* prefetcher_cache_operate: an access that is followed replaces the       *)
(* lookahead; ppf_next_line_5 follows each.  A hit is what makes the       *)
(* predictions of its line useful.                                         *)
(***************************************************************************)
AheadAccess(line, ip, hit) ==
  /\ \/ \E stride \in IF indexed THEN AheadStrides ELSE {1} :
          /\ ahead' = [line |-> line, stride |-> stride, degree |-> AheadDegree, ip |-> ip]
          /\ since' = top
     \/ indexed /\ UNCHANGED <<ahead, since>>
  /\ IF hit THEN RetrainEntries(EntriesOf(line), TRUE) /\ UNCHANGED cached
            ELSE UNCHANGED ppfVars
  /\ UNCHANGED indexed

AheadNext ==
  \/ AheadCycle
  \/ \E line \in Lines, ip \in AheadIps, hit \in BOOLEAN : AheadAccess(line, ip, hit)

AheadSpec == AheadInit /\ [][AheadNext]_<<ppfVars, aheadVars>>
-----------------------------------------------------------------------------
AheadTypeOK ==
  /\ TypeOK
  /\ ahead.line \in Lines \union {0} /\ ahead.stride \in AheadStrides \union {0, 1}
  /\ ahead.degree \in 0 .. AheadDegree
  /\ ahead.ip \in AheadIps \union {0}
  /\ since \in Slot

(* The entry k behind entry i, around the ring.                            *)
Ahead(i, k) == (i + k) % RingSize

(***************************************************************************)
(* Each step that a lookahead has taken is entered in the ring once, one   *)
(* after the other, and no step that it has not taken: from where the ring *)
(* stood when the access came, its steps follow, whatever requests are     *)
(* refused and tried again and whatever predictions are trained meanwhile. *)
(* Of more steps than the ring has entries the latest are left.            *)
(***************************************************************************)
StepsEnteredOnce ==
  LET taken == AheadDegree - ahead.degree
  IN  ahead # NotAhead =>
        /\ top = Ahead(since, taken)
        /\ \A k \in 1 .. taken : taken - k < RingSize =>
              ring[Ahead(since, k)].line = ahead.line - (taken - k) * ahead.stride
=============================================================================
