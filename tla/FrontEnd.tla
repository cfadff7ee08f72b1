------------------------------ MODULE FrontEnd ------------------------------
(***************************************************************************)
(* What stands before and around the core: the branch predictors, the      *)
(* branch target buffer, the tool that makes the traces, the clock of the  *)
(* components and the script that connects them.  `unit' names the one     *)
(* that runs, the variables of the others stay as initialised.             *)
(***************************************************************************)
EXTENDS CounterPredictors, PerceptronPredictor, HashedPerceptron,
  BranchTargetBuffer, Tracer, Operable, Configuration

CONSTANT Units

AllUnits == {"counters", "perceptron", "hashed_perceptron", "basic_btb", "tracer", "clock", "config"}

ASSUME UnitsAssumption == Units \subseteq AllUnits

VARIABLE unit

frontEndVars == <<unit, streakVars, counterVars, perceptronVars, hashedVars, btbVars,
            tracerVars, clockVars, configVars>>

FrontEndInit ==
  /\ unit \in Units
  /\ StreakInit
  /\ CounterInit /\ PerceptronInit /\ HashedInit /\ BtbInit
  /\ TracerInit /\ OperableInit /\ ConfigInit
  /\ unit # "counters" => ~gshare
  /\ unit # "perceptron" => depth = 1
  /\ unit # "tracer" => knobs = CHOOSE k \in Knobs : TRUE
  /\ unit # "config" => lower = CHOOSE h \in Hierarchies : TRUE

Counters ==
  /\ unit = "counters" /\ CounterNext
  /\ UNCHANGED <<perceptronVars, hashedVars, btbVars, tracerVars, clockVars, configVars, unit>>

Perceptrons ==
  /\ unit = "perceptron" /\ PerceptronNext
  /\ UNCHANGED <<counterVars, hashedVars, btbVars, tracerVars, clockVars, configVars, unit>>

Hashed ==
  /\ unit = "hashed_perceptron" /\ HashedNext
  /\ UNCHANGED <<counterVars, perceptronVars, btbVars, tracerVars, clockVars, configVars, unit>>

Btb ==
  /\ unit = "basic_btb" /\ BtbNext
  /\ UNCHANGED <<counterVars, perceptronVars, hashedVars, streakVars, tracerVars, clockVars, configVars, unit>>

Tracing ==
  /\ unit = "tracer" /\ TracerNext
  /\ UNCHANGED <<counterVars, perceptronVars, hashedVars, streakVars, btbVars, clockVars, configVars, unit>>

Clock ==
  /\ unit = "clock" /\ OperableNext
  /\ UNCHANGED <<counterVars, perceptronVars, hashedVars, streakVars, btbVars, tracerVars, configVars, unit>>

Config ==
  /\ unit = "config" /\ ConfigNext
  /\ UNCHANGED <<counterVars, perceptronVars, hashedVars, streakVars, btbVars, tracerVars, clockVars, unit>>

FrontEndNext == Counters \/ Perceptrons \/ Hashed \/ Btb \/ Tracing \/ Clock \/ Config

FrontEndSpec == FrontEndInit /\ [][FrontEndNext]_frontEndVars
-----------------------------------------------------------------------------
FrontEndTypesOK ==
  CASE unit = "counters" -> CounterTypeOK
    [] unit = "perceptron" -> PerceptronTypeOK
    [] unit = "hashed_perceptron" -> HashedTypeOK
    [] unit = "basic_btb" -> BtbTypeOK
    [] unit = "tracer" -> TracerTypeOK
    [] unit = "config" -> ConfigTypeOK
    [] unit = "clock" -> ClockTypeOK

(***************************************************************************)
(* Each predictor learns a bias: when no branch has gone the other way for *)
(* long enough to fill the history and to saturate the weights, a branch   *)
(* is predicted to go on, from every state before and although branches    *)
(* share counters and perceptrons and the predictions in flight were made  *)
(* from older states.                                                      *)
(***************************************************************************)
LearnsBias ==
  CASE unit = "counters" -> Learned(CounterPredicts, CounterBound)
    [] unit = "perceptron" ->
         depth <= BufferSize /\ inFlight = <<>> =>
           Learned(LAMBDA ip : PredictionState(ip).prediction, PerceptronBound)
    [] unit = "hashed_perceptron" -> pending = NoBranch => Learned(HashedPredicts, HashedBound)
    [] OTHER -> TRUE
=============================================================================
