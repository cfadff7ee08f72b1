------------------------------- MODULE Tracer -------------------------------
(***************************************************************************)
(* The trace generator (tracer/champsim_tracer.cpp): a Pin tool whose      *)
(* analysis routines Pin calls before every instruction of a program, in   *)
(* the order Instruction inserts them.  They fill one global record, and   *)
(* EndInstruction writes it while the window of instructions lasts.        *)
(*                                                                         *)
(* The traced program has one thread: the globals have no lock.            *)
(***************************************************************************)
EXTENDS Naturals, Sequences, FiniteSetsExt, Functions, SequencesExt

CONSTANTS
  Program,          \* the instructions the traced program may execute
  Knobs,            \* the values of -s and -t: records of skip and trace
  NumDestinations,  \* NUM_INSTR_DESTINATIONS
  NumSources,       \* NUM_INSTR_SOURCES
  RegSize,          \* registers are stored in an unsigned char: 256
  MaxInstructions,  \* bound: the instructions of one execution
  MaxRecords        \* bound: the records of a file that is appended to

ASSUME TracerAssumption ==
  /\ Program \subseteq
       [ip : Nat, isBranch : BOOLEAN, taken : BOOLEAN, reads : Seq(Nat), writes : Seq(Nat),
        memory : Seq([address : Nat, read : BOOLEAN, written : BOOLEAN])]
  /\ Knobs \subseteq [skip : Nat, trace : Nat]
  /\ {NumDestinations, NumSources, MaxInstructions, MaxRecords} \subseteq Nat
  /\ RegSize \in Nat \ {0}

VARIABLES
  knobs,       \* the command line of this execution
  instrCount,  \* instrCount
  tracingOn,   \* tracing_on
  currInstr,   \* curr_instr
  out,         \* the records in the output file
  fileClosed,  \* output_file_closed
  toCall,      \* where the routines still to be called are inserted
  exited,      \* the program has ended
  before,      \* history: the records in the file when it was opened
  ran          \* history: the instructions executed

tracerVars == <<knobs, instrCount, tracingOn, currInstr, out, fileClosed,
                toCall, exited, before, ran>>

NoOperands(n) == [slot \in 1 .. n |-> 0]

Reset(ip) ==
  [ip |-> ip, isBranch |-> FALSE, branchTaken |-> FALSE,
   destinationRegisters |-> NoOperands(NumDestinations),
   sourceRegisters |-> NoOperands(NumSources),
   destinationMemory |-> NoOperands(NumDestinations),
   sourceMemory |-> NoOperands(NumSources)]

(* main: the globals are fresh, the file is opened to append.              *)
TracerInit ==
  /\ knobs \in Knobs
  /\ instrCount = 0 /\ tracingOn = FALSE /\ currInstr = Reset(0)
  /\ out = <<>> /\ fileClosed = FALSE
  /\ toCall = {} /\ exited = FALSE
  /\ before = <<>> /\ ran = <<>>

(* A new execution writes to a new file or to the one of the last.         *)
Main(k, records) ==
  /\ exited /\ Len(records) <= MaxRecords
  /\ knobs' = k
  /\ instrCount' = 0 /\ tracingOn' = FALSE /\ currInstr' = Reset(0)
  /\ out' = records /\ fileClosed' = FALSE
  /\ toCall' = {} /\ exited' = FALSE
  /\ before' = records /\ ran' = <<>>
-----------------------------------------------------------------------------
(***************************************************************************)
(* Instruction: where it inserts routines before an instruction, after     *)
(* BeginInstruction; they are called in the order of the places.  For an   *)
(* operand in memory that is read and written it inserts two.              *)
(***************************************************************************)
AtBranch == <<1, 1>>
AtRead(i) == <<2, i>>
AtWrite(i) == <<3, i>>
AtMemoryRead(i) == <<4, 2 * i - 1>>
AtMemoryWrite(i) == <<4, 2 * i>>
AtEnd == <<5, 1>>

Earlier(p, q) == p[1] < q[1] \/ (p[1] = q[1] /\ p[2] < q[2])

Sites(ins) ==
  {p \in {AtBranch} : ins.isBranch}
  \union {AtRead(i) : i \in DOMAIN ins.reads} \union {AtWrite(i) : i \in DOMAIN ins.writes}
  \union {AtMemoryRead(i) : i \in {i \in DOMAIN ins.memory : ins.memory[i].read}}
  \union {AtMemoryWrite(i) : i \in {i \in DOMAIN ins.memory : ins.memory[i].written}}
  \union {AtEnd}

LastTraced == knobs.trace + knobs.skip

(* BeginInstruction.  (Mutant: the operands of the last record stay.)      *)
BeginWith(ins, record) ==
  /\ ~exited /\ toCall = {} /\ Len(ran) < MaxInstructions
  /\ instrCount' = instrCount + 1
  /\ tracingOn' = IF instrCount' > knobs.skip THEN instrCount' <= LastTraced ELSE tracingOn
  /\ currInstr' = IF tracingOn' THEN record ELSE currInstr
  /\ toCall' = Sites(ins)
  /\ ran' = Append(ran, ins)
  /\ UNCHANGED <<knobs, out, fileClosed, exited, before>>

BeginInstructionDirty(ins) ==
  BeginWith(ins, [currInstr EXCEPT !.ip = ins.ip, !.isBranch = FALSE, !.branchTaken = FALSE])

BeginInstruction(ins) == BeginWith(ins, Reset(ins.ip))

Running == Last(ran)

(* Pin calls the next routine.                                             *)
NextIs(place) ==
  /\ place \in toCall /\ \A p \in toCall : p = place \/ Earlier(place, p)
  /\ toCall' = toCall \ {place}

Records(record) ==
  /\ currInstr' = record
  /\ UNCHANGED <<knobs, instrCount, tracingOn, out, fileClosed, exited, before, ran>>

(***************************************************************************)
(* How an operand is entered: not again when a slot holds it, else in the  *)
(* first slot that holds 0, if one is left.                                *)
(***************************************************************************)
Entered(slots, x) ==
  LET empty == {i \in DOMAIN slots : slots[i] = 0}
  IN  IF x \in Range(slots) \/ empty = {} THEN slots ELSE [slots EXCEPT ![Min(empty)] = x]

(* BranchOrNot does not look at tracing_on.                                *)
BranchOrNot ==
  /\ NextIs(AtBranch)
  /\ Records([currInstr EXCEPT !.isBranch = TRUE, !.branchTaken = @ \/ Running.taken])

RegRead(i) ==
  /\ NextIs(AtRead(i))
  /\ Records(IF tracingOn
             THEN [currInstr EXCEPT !.sourceRegisters = Entered(@, Running.reads[i] % RegSize)]
             ELSE currInstr)

RegWrite(i) ==
  /\ NextIs(AtWrite(i))
  /\ Records(IF tracingOn
             THEN [currInstr EXCEPT !.destinationRegisters = Entered(@, Running.writes[i] % RegSize)]
             ELSE currInstr)

MemoryRead(i) ==
  /\ NextIs(AtMemoryRead(i))
  /\ Records(IF tracingOn
             THEN [currInstr EXCEPT !.sourceMemory = Entered(@, Running.memory[i].address)]
             ELSE currInstr)

MemoryWrite(i) ==
  /\ NextIs(AtMemoryWrite(i))
  /\ Records(IF tracingOn
             THEN [currInstr EXCEPT !.destinationMemory = Entered(@, Running.memory[i].address)]
             ELSE currInstr)

(***************************************************************************)
(* EndInstruction: writes the record, or, behind the window, closes the    *)
(* file and exits; Fini, which exit() runs, then finds it closed.          *)
(***************************************************************************)
WriteRecord ==
  /\ NextIs(AtEnd) /\ instrCount > knobs.skip /\ instrCount <= LastTraced
  /\ tracingOn' = TRUE
  /\ out' = Append(out, currInstr)
  /\ UNCHANGED <<knobs, instrCount, currInstr, fileClosed, exited, before, ran>>

Finish ==
  /\ NextIs(AtEnd) /\ instrCount > knobs.skip /\ instrCount > LastTraced
  /\ tracingOn' = FALSE
  /\ fileClosed' = TRUE
  /\ exited' = TRUE
  /\ UNCHANGED <<knobs, instrCount, currInstr, out, before, ran>>

SkipRecord ==
  /\ NextIs(AtEnd) /\ instrCount <= knobs.skip
  /\ UNCHANGED <<knobs, instrCount, tracingOn, currInstr, out, fileClosed, exited, before, ran>>

EndInstruction == WriteRecord \/ Finish \/ SkipRecord

(* The program ends by itself.                                             *)
Fini ==
  /\ ~exited /\ toCall = {}
  /\ fileClosed' = TRUE
  /\ exited' = TRUE
  /\ UNCHANGED <<knobs, instrCount, tracingOn, currInstr, out, toCall, before, ran>>

TracerNext ==
  \/ \E k \in Knobs, records \in {<<>>, out} : Main(k, records)
  \/ \E ins \in Program : BeginInstruction(ins)
  \/ BranchOrNot
  \/ toCall # {} /\ \E i \in DOMAIN Running.reads : RegRead(i)
  \/ toCall # {} /\ \E i \in DOMAIN Running.writes : RegWrite(i)
  \/ toCall # {} /\ \E i \in DOMAIN Running.memory : MemoryRead(i) \/ MemoryWrite(i)
  \/ EndInstruction
  \/ Fini
-----------------------------------------------------------------------------
TracerTypeOK ==
  /\ knobs \in Knobs
  /\ instrCount = Len(ran) /\ Len(ran) <= MaxInstructions
  /\ tracingOn \in BOOLEAN /\ fileClosed \in BOOLEAN /\ exited \in BOOLEAN
  /\ DOMAIN currInstr = DOMAIN Reset(0)
  /\ Len(out) <= MaxRecords + MaxInstructions

(* The operands an instruction's record should name: the first n distinct  *)
(* ones that are not 0, in the order of their first occurrence.            *)
FirstDistinct(f, n) ==
  LET new == {i \in DOMAIN f : f[i] # 0 /\ \A j \in DOMAIN f : j < i => f[j] # f[i]}
      slot(i) == Cardinality({j \in new : j <= i})
  IN  [k \in 1 .. n |-> IF \E i \in new : slot(i) = k
                        THEN f[CHOOSE i \in new : slot(i) = k] ELSE 0]

RecordOf(ins) ==
  LET read == {i \in DOMAIN ins.memory : ins.memory[i].read}
      written == {i \in DOMAIN ins.memory : ins.memory[i].written}
      bytes(s) == [i \in DOMAIN s |-> s[i] % RegSize]
      addresses(operands) == [i \in operands |-> ins.memory[i].address]
  IN  [ip |-> ins.ip, isBranch |-> ins.isBranch, branchTaken |-> ins.isBranch /\ ins.taken,
       destinationRegisters |-> FirstDistinct(bytes(ins.writes), NumDestinations),
       sourceRegisters |-> FirstDistinct(bytes(ins.reads), NumSources),
       destinationMemory |-> FirstDistinct(addresses(written), NumDestinations),
       sourceMemory |-> FirstDistinct(addresses(read), NumSources)]

(***************************************************************************)
(* The trace is what the knobs ask for: behind what the file held before,  *)
(* one record for each finished instruction of the window, in order, with  *)
(* its own operands and none of the records before it; and when the        *)
(* program has ended, by itself or by the tool, the file is closed.        *)
(***************************************************************************)
TraceIsWindow ==
  LET done == IF toCall = {} THEN ran ELSE Front(ran)
      last == Min({Len(done), LastTraced})
  IN  /\ out = before \o [i \in 1 .. last - Min({knobs.skip, last}) |->
                            RecordOf(done[knobs.skip + i])]
      /\ exited => fileClosed
=============================================================================
