------------------------- MODULE CompiledPipelineProofs -------------------------
(* Theorems about CompiledPipeline, for pipelines of any length made of    *)
(* any types, any markers, and stacks of wrappers of any height.           *)
EXTENDS CompiledPipeline, FiniteSetTheorems, SequenceTheorems, WellFoundedInduction, TLAPS

Ops == {"run", "try_run", "each"}
FrameType == [level : Nat, op : Ops]
ResultType == [is : {"value", "error"}, category : Categories \union {"none"}]

(* What an engine says of a run.                                           *)
Said == ResultType \union {Thrown("stage"), Thrown("observer")}

CallTypes ==
  /\ layers \in Seq(Wrappers)
  /\ frames \in Seq(FrameType)
  /\ results \in Seq(ResultType)
  /\ engineSaid \in Said \union {NoOutcome}

(* There are wrappers and calls of what is compiled only, and nodes run in *)
(* a call that has no outcome.                                             *)
Phases ==
  /\ frames # <<>> => Compiled
  /\ at # 0 => frames # <<>>

(* The functions in progress, outermost first, are those of the layers     *)
(* from the outside in, each called by the one before it.                  *)
Stacked ==
  \A k \in DOMAIN frames :
    /\ frames[k].level = Len(layers) + 1 - k
    /\ k > 1 => frames[k].op = Forwarded(layers[frames[k - 1].level], frames[k - 1].op)

(* A function is run only if the call is, and all wrappers around it are   *)
(* verbose; a batch is a batch on every layer.                             *)
Asked ==
  \A k \in DOMAIN frames :
    /\ frames[k].op = "run" =>
         /\ frames[1].op = "run"
         /\ \A q \in DOMAIN layers : q > frames[k].level => layers[q] = "verbose"
    /\ frames[k].op = "each" <=> frames[1].op = "each"

(* Layer p is the outermost error policy of the n innermost layers.        *)
Decides(p, n) ==
  /\ p \in 1 .. n
  /\ layers[p] # "verbose"
  /\ \A q \in 1 .. n : q > p => layers[q] = "verbose"

(* What a function that has returned gave.                                 *)
Gave(f) ==
  /\ f.op = "try_run" => outcome = engineSaid /\ engineSaid \in Said
  /\ f.op = "run" =>
       /\ engineSaid \in Said
       /\ (\A q \in 1 .. f.level : layers[q] = "verbose") => outcome = engineSaid
       /\ \A p \in 1 .. f.level :
            Decides(p, f.level) => outcome = Made(layers[p], "run", engineSaid)
  /\ f.op = "each" =>
       \/ outcome = Results /\ left = 0
       \/ outcome = engineSaid /\ engineSaid = Thrown("observer")

Answers == frames # <<>> /\ outcome # NoOutcome => Gave(Last(frames))

(* The engine lets an exception of a stage out only when run has come      *)
(* through to it, with no error policy in between.                         *)
Raw ==
  frames # <<>> /\ engineSaid = Thrown("stage") =>
    /\ frames[1].op = "run"
    /\ \A q \in DOMAIN layers : layers[q] = "verbose"

(* Who is attached, and who is told of the run.                            *)
Owned == Verbose \in Range(layers) /\ ~under
Telling ==
  /\ told \in [before : {told.before}, during : {told.during}]
  /\ Owned => observer = Verbose
  /\ at # 0 => /\ told.before = sink
               /\ told.during \subseteq {sink}
               /\ Owned => sink = Verbose

IInv ==
  /\ CallTypes /\ Phases
  /\ Stacked /\ Asked
  /\ Answers /\ Raw
  /\ Telling

(* Each action by what it does to the stack, the call and the observer.    *)
StackKept == UNCHANGED <<layers, frames>>
SaidKept == UNCHANGED <<outcome, engineSaid, left, results, saidOf>>
TellingKept == UNCHANGED <<layers, observer, under, at, sink, told>>

(* The wrappers that compile picks are of the kinds there are.             *)
LEMMA CompiledKinds ==
  ASSUME NEW ms
  PROVE  CompiledLayers(ms) \in Seq(Wrappers)
<1>1. ErrorLayer(ms) \in Seq(Wrappers)
  <2> DEFINE marker == FirstPolicy(ms, "errors")
             mine == marker \in {"throwing", "terminating", "ignoring"}
  <2>1. ErrorLayer(ms) = IF mine THEN <<marker>> ELSE <<>>
    BY DEF ErrorLayer
  <2>2. mine => marker \in Wrappers
    BY DEF Wrappers
  <2> HIDE DEF marker, mine
  <2>3. marker \in Wrappers => <<marker>> \in Seq(Wrappers)
    OBVIOUS
  <2>4. <<>> \in Seq(Wrappers)
    OBVIOUS
  <2>5. CASE mine
    BY <2>1, <2>2, <2>3, <2>5
  <2>6. CASE ~mine
    BY <2>1, <2>4, <2>6
  <2> QED  BY <2>5, <2>6
<1>2. DiagnosticsLayer(ms) \in Seq(Wrappers)
  <2>1. <<"verbose">> \in Seq(Wrappers) /\ <<>> \in Seq(Wrappers)
    BY DEF Wrappers
  <2>2. DiagnosticsLayer(ms) \in {<<"verbose">>, <<>>}
    BY DEF DiagnosticsLayer
  <2> QED  BY <2>1, <2>2
<1> QED  BY <1>1, <1>2 DEF CompiledLayers

(* What a run of the engine ends with.                                     *)
LEMMA EngineSays ==
  ASSUME NEW o, EndRun(o),
         \/ o = Value
         \/ o \in {Error(c) : c \in Categories} \union {Thrown("stage"), Thrown("observer")}
  PROVE  o \in Said /\ o # NoOutcome /\ (o.is # "thrown" => o \in ResultType)
BY DEF Said, ResultType, Value, Error, Thrown, NoOutcome, Categories

(* The outcomes of the engine's runs.                                      *)
LEMMA RunEnds ==
  ASSUME \/ Finish
         \/ \E c \in Categories : Fail(c)
         \/ Escape
  PROVE  \E o \in Said :
           /\ AtEngine /\ EndRun(o)
           /\ o # NoOutcome
           /\ o.is # "thrown" => o \in ResultType
           /\ o = Thrown("stage") => Frame.op = "run"
<1>1. CASE Finish
  <2>1. AtEngine /\ EndRun(Value)
    BY <1>1 DEF Finish, Running
  <2>2. Value # Thrown("stage")
    BY DEF Value, Thrown
  <2> QED  BY <2>1, <2>2, EngineSays
<1>2. ASSUME NEW c \in Categories, Fail(c)
      PROVE  \E o \in Said :
               /\ AtEngine /\ EndRun(o)
               /\ o # NoOutcome
               /\ o.is # "thrown" => o \in ResultType
               /\ o = Thrown("stage") => Frame.op = "run"
  <2> DEFINE o == IF raw /\ Frame.op = "run" THEN Thrown("stage") ELSE Error(c)
  <2>1. AtEngine /\ EndRun(o)
    BY <1>2 DEF Fail, Running
  <2>2. o = Thrown("stage") => Frame.op = "run"
    BY DEF Error, Thrown
  <2>3. o \in {Error(d) : d \in Categories} \union {Thrown("stage"), Thrown("observer")}
    OBVIOUS
  <2> HIDE DEF o
  <2> QED  BY <2>1, <2>2, <2>3, EngineSays
<1>3. CASE Escape
  <2>1. AtEngine /\ EndRun(Thrown("observer"))
    BY <1>3 DEF Escape, Running
  <2>2. Thrown("observer") # Thrown("stage")
    BY DEF Thrown
  <2> QED  BY <2>1, <2>2, EngineSays
<1> QED  BY <1>1, <1>2, <1>3

(* What is done before a node's outcome is known.                          *)
LEMMA NodeSteps ==
  ASSUME \/ RunStage
         \/ \E j \in 1 .. MaxCases : Running /\ at <= Len(nodes) /\ j <= CaseCount(Node) /\ RunBranch(j)
         \/ \E cs \in SUBSET (1 .. MaxCases) :
              Running /\ at <= Len(nodes) /\ (\A j \in cs : j <= CaseCount(Node)) /\ RunFanIn(cs)
  PROVE  /\ Running /\ Tell
         /\ StackKept /\ SaidKept
         /\ UNCHANGED <<backend, observer, under, sink>>
BY DEF RunStage, RunBranch, RunFanIn, Pass, StackKept, SaidKept, engineVars

(* Front leaves all but the innermost function.                            *)
LEMMA FrontProperties ==
  ASSUME NEW S, NEW s \in Seq(S), Len(s) > 1
  PROVE  /\ Front(s) \in Seq(S) /\ Len(Front(s)) = Len(s) - 1
         /\ \A k \in 1 .. Len(s) - 1 : Front(s)[k] = s[k]
         /\ Front(s) # <<>> /\ Last(Front(s)) = s[Len(s) - 1]
<1>1. Len(s) \in Nat
  OBVIOUS
<1>2. /\ Front(s) \in Seq(S) /\ Len(Front(s)) = Len(s) - 1
      /\ \A k \in 1 .. Len(s) - 1 : Front(s)[k] = s[k]
  BY <1>1, SubSeqProperties DEF Front
<1> HIDE DEF Front
<1> QED  BY <1>1, <1>2 DEF Last

(* The types of the stack are kept.                                        *)
LEMMA TypesStep ==
  ASSUME CallTypes, [Next]_vars
  PROVE  CallTypes'
<1> USE DEF CallTypes
<1>1. CASE UNCHANGED vars
  BY <1>1 DEF vars, engineVars, callVars
<1>2. CASE Build
  BY <1>2 DEF Build, engineVars, callVars
<1>3. ASSUME NEW b, NEW r, Compile(b, r)
      PROVE  CallTypes'
  <2>1. layers' \in Seq(Wrappers)
    BY <1>3, CompiledKinds DEF Compile
  <2> QED  BY <1>3, <2>1 DEF Compile, callVars
<1>4. ASSUME NEW w \in Wrappers, Wrap(w)
      PROVE  CallTypes'
  BY <1>4 DEF Wrap, callVars
<1>5. ASSUME NEW o, SetObserver(o)
      PROVE  CallTypes'
  BY <1>5 DEF SetObserver, callVars
<1>6. ASSUME NEW op \in Ops, NEW n, Call(op, n)
      PROVE  CallTypes'
  <2>1. [level |-> Len(layers), op |-> op] \in FrameType
    BY DEF FrameType
  <2> QED  BY <1>6, <2>1 DEF Call, engineVars
<1>7. CASE Descend
  <2>1. Frame \in FrameType
    BY <1>7 DEF Descend, Frame, Last
  <2>2. Frame.level - 1 \in Nat /\ Frame.op \in Ops
    BY <1>7, <2>1 DEF Descend, FrameType
  <2>3. Forwarded(layers[Frame.level], Frame.op) \in Ops
    BY <2>2 DEF Forwarded, Ops
  <2>4. [level |-> Frame.level - 1, op |-> Forwarded(layers[Frame.level], Frame.op)] \in FrameType
    BY <2>2, <2>3 DEF FrameType
  <2> QED  BY <1>7, <2>4 DEF Descend, engineVars
<1>8. CASE BeginRun
  BY <1>8 DEF BeginRun, engineVars
<1>9. ASSUME StackKept, SaidKept
      PROVE  CallTypes'
  BY <1>9 DEF StackKept, SaidKept
<1>10. ASSUME NEW o \in Said, EndRun(o), o.is # "thrown" => o \in ResultType
       PROVE  CallTypes'
  <2>1. UNCHANGED <<layers, frames>> /\ engineSaid' = o
    BY <1>10 DEF EndRun, engineVars
  <2>2. results' = results \/ (o \in ResultType /\ results' = Append(results, o))
    <3>1. CASE Frame.op = "each" /\ o.is # "thrown"
      BY <1>10, <3>1 DEF EndRun, Collect
    <3>2. CASE ~ (Frame.op = "each" /\ o.is # "thrown")
      BY <1>10, <3>2 DEF EndRun
    <3> QED  BY <3>1, <3>2
  <2>3. results' \in Seq(ResultType)
    <3> HIDE DEF CallTypes
    <3>1. results \in Seq(ResultType)
      BY DEF CallTypes
    <3>2. \A r \in ResultType : Append(results, r) \in Seq(ResultType)
      BY <3>1
    <3> QED  BY <2>2, <3>1, <3>2
  <2> QED  BY <2>1, <2>3
<1>11. CASE BatchDone
  BY <1>11 DEF BatchDone, engineVars
<1>12. CASE Return
  BY <1>12, FrontProperties DEF Return, engineVars
<1>13. CASE Answer
  BY <1>13 DEF Answer, engineVars
<1> HIDE DEF CallTypes
<1> QED  BY <1>1, <1>2, <1>3, <1>4, <1>5, <1>6, <1>7, <1>8, <1>9, <1>10, <1>11, <1>12, <1>13,
            RunEnds, NodeSteps DEF Next, Run, Ops

(* Nodes run in a call, and calls are of what is compiled.                 *)
LEMMA PhasesStep ==
  ASSUME CallTypes, Phases, [Next]_vars
  PROVE  Phases'
<1> USE DEF Phases, Compiled
<1>1. CASE UNCHANGED vars
  BY <1>1 DEF vars, engineVars, callVars
<1>2. CASE Build
  BY <1>2 DEF Build, engineVars, callVars
<1>3. ASSUME NEW b, NEW r, Compile(b, r)
      PROVE  Phases'
  BY <1>3 DEF Compile, callVars
<1>4. ASSUME NEW w, Wrap(w)
      PROVE  Phases'
  BY <1>4 DEF Wrap, callVars
<1>5. ASSUME NEW o, SetObserver(o)
      PROVE  Phases'
  BY <1>5 DEF SetObserver, callVars
<1>6. ASSUME NEW op, NEW n, Call(op, n)
      PROVE  Phases'
  BY <1>6 DEF Call, Idle, engineVars
<1>7. CASE Descend
  <2>1. frames # <<>> /\ \E f : frames' = Append(frames, f)
    BY <1>7 DEF Descend
  <2>2. frames' # <<>>
    BY <2>1 DEF CallTypes
  <2> QED  BY <1>7, <2>1, <2>2 DEF Descend, engineVars
<1>8. CASE BeginRun
  BY <1>8 DEF BeginRun, AtEngine, engineVars
<1>9. ASSUME Running, StackKept, backend' = backend
      PROVE  Phases'
  BY <1>9 DEF StackKept, Running, AtEngine
<1>10. ASSUME NEW o, EndRun(o)
       PROVE  Phases'
  BY <1>10 DEF EndRun, engineVars
<1>11. CASE BatchDone
  BY <1>11 DEF BatchDone, engineVars
<1>12. CASE Return
  <2>1. frames' # <<>> /\ frames # <<>>
    BY <1>12, FrontProperties DEF Return, Returning, CallTypes
  <2> QED  BY <1>12, <2>1 DEF Return, engineVars
<1>13. CASE Answer
  BY <1>13 DEF Answer, engineVars
<1> HIDE DEF Phases
<1> QED  BY <1>1, <1>2, <1>3, <1>4, <1>5, <1>6, <1>7, <1>8, <1>9, <1>10, <1>11, <1>12, <1>13,
            RunEnds, NodeSteps DEF Next, Run

(* A run keeps to the observer it began with, which is the owned one if no *)
(* one has gone through underlying().                                      *)
LEMMA TellingStep ==
  ASSUME CallTypes, Phases, Telling, [Next]_vars
  PROVE  Telling'
<1> USE DEF Telling, Owned
<1>1. CASE UNCHANGED vars
  BY <1>1 DEF vars, engineVars, callVars
<1>2. CASE Build
  BY <1>2 DEF Build, engineVars, callVars
<1>3. ASSUME NEW b, NEW r, Compile(b, r)
      PROVE  Telling'
  <2>1. at = 0
    BY <1>3 DEF Compile, Phases
  <2> QED  BY <1>3, <2>1 DEF Compile, Attached, callVars
<1>4. ASSUME NEW w, Wrap(w)
      PROVE  Telling'
  <2>1. at = 0
    BY <1>4 DEF Wrap, Idle, Phases
  <2> QED  BY <1>4, <2>1 DEF Wrap, Attached, callVars
<1>5. ASSUME NEW o, SetObserver(o)
      PROVE  Telling'
  BY <1>5 DEF SetObserver, callVars
<1>6. ASSUME NEW op, NEW n, Call(op, n)
      PROVE  Telling'
  BY <1>6 DEF Call, engineVars
<1>7. CASE Descend
  BY <1>7 DEF Descend, engineVars
<1>8. CASE BeginRun
  BY <1>8 DEF BeginRun, engineVars
<1>9. ASSUME Running, Tell, StackKept, UNCHANGED <<observer, under, sink>>
      PROVE  Telling'
  <2>1. told.before = sink /\ told.during \subseteq {sink} /\ (Owned => sink = Verbose)
    BY <1>9 DEF Running
  <2>2. told' = [before |-> told.before, during |-> told.during \union {sink}]
    BY <1>9 DEF Tell
  <2>3. told'.during = told.during \union {sink} /\ told'.before = told.before
    BY <2>2
  <2>4. told' \in [before : {told'.before}, during : {told'.during}]
    BY <2>2
  <2> QED  BY <1>9, <2>1, <2>3, <2>4 DEF StackKept
<1>10. ASSUME NEW o, EndRun(o)
       PROVE  Telling'
  BY <1>10 DEF EndRun, engineVars
<1>11. CASE BatchDone
  BY <1>11 DEF BatchDone, engineVars
<1>12. CASE Return
  BY <1>12 DEF Return, engineVars
<1>13. CASE Answer
  BY <1>13 DEF Answer, engineVars
<1> HIDE DEF Telling
<1> QED  BY <1>1, <1>2, <1>3, <1>4, <1>5, <1>6, <1>7, <1>8, <1>9, <1>10, <1>11, <1>12, <1>13,
            RunEnds, NodeSteps DEF Next, Run

(* A layer's function, once it has been called, is as the one before it    *)
(* has asked.                                                              *)
LEMMA StackedStep ==
  ASSUME CallTypes, Phases, Stacked, [Next]_vars
  PROVE  Stacked'
<1>1. ASSUME StackKept
      PROVE  Stacked'
  BY <1>1 DEF Stacked, StackKept, Forwarded
<1>2. ASSUME frames' = <<>>
      PROVE  Stacked'
  BY <1>2 DEF Stacked
<1>3. ASSUME NEW op, NEW n, Call(op, n)
      PROVE  Stacked'
  <2>1. frames' = <<[level |-> Len(layers), op |-> op]>> /\ layers' = layers
    BY <1>3 DEF Call, engineVars
  <2>2. DOMAIN frames' = {1} /\ frames'[1].level = Len(layers)
    BY <2>1
  <2>3. Len(layers) \in Nat
    BY DEF CallTypes
  <2> QED  BY <2>1, <2>2, <2>3 DEF Stacked
<1>4. CASE Descend
  <2> DEFINE n == Len(frames)
             f == [level |-> Frame.level - 1, op |-> Forwarded(layers[Frame.level], Frame.op)]
  <2>1. /\ n \in Nat /\ n > 0 /\ DOMAIN frames = 1 .. n /\ Frame = frames[n]
        /\ Len(layers) \in Nat
    BY <1>4 DEF Descend, CallTypes, Frame, Last
  <2>2. frames' = Append(frames, f) /\ layers' = layers
    BY <1>4 DEF Descend, engineVars
  <2>3. DOMAIN frames' = 1 .. n + 1 /\ frames'[n + 1] = f
        /\ \A k \in 1 .. n : frames'[k] = frames[k]
    BY <2>1, <2>2 DEF CallTypes
  <2>4. f.level = Frame.level - 1 /\ f.op = Forwarded(layers[Frame.level], Frame.op)
    OBVIOUS
  <2>5. Frame.level = Len(layers) + 1 - n
    BY <2>1 DEF Stacked
  <2> HIDE DEF f
  <2>6. ASSUME NEW k \in DOMAIN frames'
        PROVE  /\ frames'[k].level = Len(layers') + 1 - k
               /\ k > 1 => frames'[k].op = Forwarded(layers'[frames'[k - 1].level], frames'[k - 1].op)
    <3>1. CASE k = n + 1
      <4>1. frames'[k] = f /\ frames'[k - 1] = frames[n]
        BY <2>1, <2>3, <3>1
      <4>2. f.level = Len(layers) + 1 - k
        BY <2>1, <2>4, <2>5, <3>1
      <4> QED  BY <2>1, <2>2, <2>4, <4>1, <4>2
    <3>2. CASE k \in 1 .. n
      <4>1. frames'[k] = frames[k] /\ (k > 1 => frames'[k - 1] = frames[k - 1])
        BY <2>1, <2>3, <3>2
      <4> QED  BY <2>1, <2>2, <3>2, <4>1 DEF Stacked
    <3> QED  BY <2>1, <2>3, <3>1, <3>2
  <2> QED  BY <2>6 DEF Stacked, Forwarded
<1>5. CASE Return
  <2>1. /\ layers' = layers /\ frames' = Front(frames) /\ Len(frames) > 1
        /\ frames \in Seq(FrameType)
    BY <1>5 DEF Return, engineVars, CallTypes
  <2>2. /\ DOMAIN frames' = 1 .. Len(frames) - 1 /\ DOMAIN frames = 1 .. Len(frames)
        /\ Len(frames) \in Nat
        /\ \A k \in 1 .. Len(frames) - 1 : frames'[k] = frames[k]
    BY <2>1, FrontProperties
  <2>3. ASSUME NEW k \in DOMAIN frames'
        PROVE  /\ frames'[k].level = Len(layers') + 1 - k
               /\ k > 1 => frames'[k].op = Forwarded(layers'[frames'[k - 1].level], frames'[k - 1].op)
    <3>1. frames'[k] = frames[k] /\ (k > 1 => frames'[k - 1] = frames[k - 1])
          /\ k \in DOMAIN frames
      BY <2>2
    <3> QED  BY <2>1, <3>1 DEF Stacked
  <2> QED  BY <2>3 DEF Stacked, Forwarded
<1>6. CASE UNCHANGED vars \/ Build \/ BeginRun \/ BatchDone
  BY <1>1, <1>6 DEF vars, engineVars, callVars, Build, BeginRun, BatchDone, StackKept
<1>7. ASSUME NEW o, SetObserver(o) \/ EndRun(o)
      PROVE  Stacked'
  BY <1>1, <1>7 DEF SetObserver, EndRun, engineVars, callVars, StackKept
<1>8. ASSUME NEW b, NEW r, Compile(b, r)
      PROVE  Stacked'
  BY <1>2, <1>8 DEF Compile, callVars, Phases
<1>9. ASSUME NEW w, Wrap(w)
      PROVE  Stacked'
  BY <1>2, <1>9 DEF Wrap, callVars, Idle
<1>10. CASE Answer
  BY <1>2, <1>10 DEF Answer
<1> QED  BY <1>1, <1>3, <1>4, <1>5, <1>6, <1>7, <1>8, <1>9, <1>10,
            RunEnds, NodeSteps DEF Next, Run

(* How the function a layer calls follows from the one before it.          *)
LEMMA AskedOf ==
  ASSUME NEW layer, NEW op \in Ops
  PROVE  /\ Forwarded(layer, op) = "run" => op = "run" /\ layer = "verbose"
         /\ Forwarded(layer, op) = "each" <=> op = "each"
         /\ op = "run" => Forwarded(layer, op) = IF layer = "verbose" THEN "run" ELSE "try_run"
BY DEF Forwarded, Ops

(* What is asked of each layer is kept.                                    *)
LEMMA AskedStep ==
  ASSUME CallTypes, Phases, Stacked, Asked, [Next]_vars
  PROVE  Asked'
<1>1. ASSUME StackKept
      PROVE  Asked'
  BY <1>1 DEF Asked, StackKept
<1>2. ASSUME frames' = <<>>
      PROVE  Asked'
  BY <1>2 DEF Asked
<1>3. ASSUME NEW op, NEW n, Call(op, n)
      PROVE  Asked'
  <2>1. frames' = <<[level |-> Len(layers), op |-> op]>> /\ layers' = layers
    BY <1>3 DEF Call, engineVars
  <2>2. DOMAIN frames' = {1} /\ frames'[1].level = Len(layers) /\ frames'[1].op = op
    BY <2>1
  <2>3. Len(layers) \in Nat /\ DOMAIN layers = 1 .. Len(layers)
    BY DEF CallTypes
  <2> QED  BY <2>1, <2>2, <2>3 DEF Asked
<1>4. CASE Descend
  <2> DEFINE n == Len(frames)
             f == [level |-> Frame.level - 1, op |-> Forwarded(layers[Frame.level], Frame.op)]
  <2>1. /\ n \in Nat /\ n > 0 /\ DOMAIN frames = 1 .. n /\ Frame = frames[n]
        /\ Len(layers) \in Nat /\ DOMAIN layers = 1 .. Len(layers)
        /\ frames \in Seq(FrameType)
    BY <1>4 DEF Descend, CallTypes, Frame, Last
  <2>2. frames' = Append(frames, f) /\ layers' = layers
    BY <1>4 DEF Descend, engineVars
  <2>3. DOMAIN frames' = 1 .. n + 1 /\ frames'[n + 1] = f
        /\ \A k \in 1 .. n : frames'[k] = frames[k]
    BY <2>1, <2>2
  <2>4. f.level = Frame.level - 1 /\ f.op = Forwarded(layers[Frame.level], Frame.op)
    OBVIOUS
  <2>5. Frame.level \in Nat /\ Frame.op \in Ops
    <3>1. Frame \in FrameType
      BY <2>1
    <3> QED  BY <3>1 DEF FrameType
  <2> HIDE DEF f
  <2>6. /\ Frame.op = "run" =>
             /\ frames[1].op = "run"
             /\ \A q \in DOMAIN layers : q > Frame.level => layers[q] = "verbose"
        /\ Frame.op = "each" <=> frames[1].op = "each"
    BY <2>1 DEF Asked
  <2>7. /\ f.op = "run" =>
             /\ frames[1].op = "run"
             /\ \A q \in DOMAIN layers : q > f.level => layers[q] = "verbose"
        /\ f.op = "each" <=> frames[1].op = "each"
    <3>1. /\ f.op = "run" => Frame.op = "run" /\ layers[Frame.level] = "verbose"
          /\ f.op = "each" <=> Frame.op = "each"
      BY <2>4, <2>5, AskedOf
    <3>2. \A q \in DOMAIN layers : q > f.level => q = Frame.level \/ q > Frame.level
      BY <2>1, <2>4, <2>5
    <3> QED  BY <2>6, <3>1, <3>2
  <2>8. ASSUME NEW k \in DOMAIN frames'
        PROVE  /\ frames'[k].op = "run" =>
                    /\ frames'[1].op = "run"
                    /\ \A q \in DOMAIN layers' : q > frames'[k].level => layers'[q] = "verbose"
               /\ frames'[k].op = "each" <=> frames'[1].op = "each"
    <3>1. frames'[1] = frames[1]
      BY <2>1, <2>3
    <3>2. CASE k = n + 1
      BY <2>2, <2>3, <2>7, <3>1, <3>2
    <3>3. CASE k \in 1 .. n
      BY <2>1, <2>2, <2>3, <3>1, <3>3 DEF Asked
    <3> QED  BY <2>1, <2>3, <3>2, <3>3
  <2> QED  BY <2>8 DEF Asked
<1>5. CASE Return
  <2>1. /\ layers' = layers /\ frames' = Front(frames) /\ Len(frames) > 1
        /\ frames \in Seq(FrameType)
    BY <1>5 DEF Return, engineVars, CallTypes
  <2>2. /\ DOMAIN frames' = 1 .. Len(frames) - 1 /\ DOMAIN frames = 1 .. Len(frames)
        /\ Len(frames) \in Nat
        /\ \A k \in 1 .. Len(frames) - 1 : frames'[k] = frames[k]
    BY <2>1, FrontProperties
  <2>3. \A k \in DOMAIN frames' : k \in DOMAIN frames /\ frames'[k] = frames[k]
    BY <2>2
  <2>4. frames'[1] = frames[1]
    BY <2>1, <2>2
  <2> QED  BY <2>1, <2>3, <2>4 DEF Asked
<1>6. CASE UNCHANGED vars \/ Build \/ BeginRun \/ BatchDone
  BY <1>1, <1>6 DEF vars, engineVars, callVars, Build, BeginRun, BatchDone, StackKept
<1>7. ASSUME NEW o, SetObserver(o) \/ EndRun(o)
      PROVE  Asked'
  BY <1>1, <1>7 DEF SetObserver, EndRun, engineVars, callVars, StackKept
<1>8. ASSUME NEW b, NEW r, Compile(b, r)
      PROVE  Asked'
  BY <1>2, <1>8 DEF Compile, callVars, Phases
<1>9. ASSUME NEW w, Wrap(w)
      PROVE  Asked'
  BY <1>2, <1>9 DEF Wrap, callVars, Idle
<1>10. CASE Answer
  BY <1>2, <1>10 DEF Answer
<1> QED  BY <1>1, <1>3, <1>4, <1>5, <1>6, <1>7, <1>8, <1>9, <1>10,
            RunEnds, NodeSteps DEF Next, Run, Ops

(* What a run of the engine ends with is what the engine's function gave,  *)
(* unless it is a result of a batch that goes on.                          *)
LEMMA EndGives ==
  ASSUME CallTypes, AtEngine, NEW o \in Said, EndRun(o), o = Thrown("stage") => Frame.op = "run"
  PROVE  Answers'
<1>1. /\ frames # <<>> /\ Frame.level = 0 /\ outcome = NoOutcome
      /\ layers' = layers /\ frames' = frames /\ engineSaid' = o /\ Last(frames') = Frame
  BY DEF AtEngine, EndRun, engineVars, Frame
<1>2. CASE Frame.op = "each" /\ o.is # "thrown"
  <2>1. outcome' = NoOutcome
    BY <1>1, <1>2 DEF EndRun
  <2> QED  BY <2>1 DEF Answers, NoOutcome
<1>3. CASE ~(Frame.op = "each" /\ o.is # "thrown")
  <2>1. outcome' = o /\ left' = left
    BY <1>3 DEF EndRun
  <2>2. Frame.op = "each" => o = Thrown("observer")
    <3>1. o \in Said /\ o.is = "thrown" => o \in {Thrown("stage"), Thrown("observer")}
      BY DEF Said, ResultType
    <3> QED  BY <1>3, <3>1
  <2>3. Gave(Frame)'
    BY <1>1, <2>1, <2>2 DEF Gave, Decides, Frame, Said, ResultType, Thrown, Categories
  <2> QED  BY <1>1, <2>3 DEF Answers, Frame
<1> QED  BY <1>2, <1>3

(* A wrapper that is the outermost error policy of the layers it stands on *)
(* decides; any other lets what is below it decide.                        *)
LEMMA ReturnGives ==
  ASSUME CallTypes, Stacked, Answers, Return
  PROVE  Answers'
<1> DEFINE n == Len(frames)
<1>1. /\ frames \in Seq(FrameType) /\ n \in Nat /\ n > 1 /\ outcome # NoOutcome /\ frames # <<>>
      /\ frames' = Front(frames) /\ layers' = layers /\ engineSaid' = engineSaid /\ left' = left
      /\ outcome' = Made(layers[frames[n - 1].level], frames[n - 1].op, outcome)
  BY DEF CallTypes, Return, Returning, engineVars
<1>2. PICK c : c = frames[n - 1]
  OBVIOUS
<1>3. PICK f : f = frames[n]
  OBVIOUS
<1>4. Last(frames') = c /\ Last(frames) = f
  BY <1>1, <1>2, <1>3, FrontProperties DEF Last
<1>5. n \in DOMAIN frames /\ n - 1 \in DOMAIN frames /\ Len(layers) \in Nat
      /\ DOMAIN layers = 1 .. Len(layers)
  BY <1>1 DEF CallTypes
<1>6. c \in FrameType /\ f \in FrameType
  BY <1>1, <1>2, <1>3, <1>5
<1>7. c.level \in Nat /\ c.op \in Ops /\ f.level \in Nat
  BY <1>6 DEF FrameType
<1>8. /\ f.level = Len(layers) + 1 - n
      /\ f.op = Forwarded(layers[c.level], c.op)
  BY <1>1, <1>2, <1>3, <1>5 DEF Stacked
<1>9. c.level = Len(layers) + 1 - (n - 1)
  BY <1>2, <1>5 DEF Stacked
<1>10. f.level = c.level - 1 /\ c.level \in DOMAIN layers
  BY <1>1, <1>5, <1>7, <1>8, <1>9
<1>11. Gave(f)
  BY <1>1, <1>4 DEF Answers
<1>12. layers[c.level] \in Wrappers
  BY <1>10 DEF CallTypes
<1>13. outcome' = Made(layers[c.level], c.op, outcome)
  BY <1>1, <1>2
<1> HIDE DEF n
<1>14. ASSUME Gave(c)'
       PROVE  Answers'
  BY <1>4, <1>14 DEF Answers
<1>15. CASE c.op # "run"
  <2>1. outcome' = outcome
    BY <1>13, <1>15 DEF Made
  <2>2. f.op = c.op
    BY <1>8, <1>15 DEF Forwarded
  <2>3. Gave(c)'
    BY <1>1, <1>11, <1>15, <2>1, <2>2 DEF Gave
  <2> QED  BY <1>14, <2>3
<1>16. CASE c.op = "run" /\ layers[c.level] = "verbose"
  <2>1. outcome' = outcome
    BY <1>13, <1>16 DEF Made
  <2>2. f.op = "run"
    BY <1>8, <1>16 DEF Forwarded
  <2>3. /\ engineSaid \in Said
        /\ (\A q \in 1 .. f.level : layers[q] = "verbose") => outcome = engineSaid
        /\ \A p \in 1 .. f.level :
             Decides(p, f.level) => outcome = Made(layers[p], "run", engineSaid)
    BY <1>11, <2>2 DEF Gave
  <2>4. 1 .. f.level \subseteq 1 .. c.level /\ 1 .. c.level = (1 .. f.level) \union {c.level}
    BY <1>5, <1>7, <1>10
  <2>5. (\A q \in 1 .. c.level : layers[q] = "verbose") => outcome' = engineSaid
    BY <2>1, <2>3, <2>4
  <2>6. ASSUME NEW p \in 1 .. c.level, Decides(p, c.level)
        PROVE  outcome' = Made(layers[p], "run", engineSaid)
    <3>1. p \in 1 .. f.level
      BY <1>16, <2>4, <2>6 DEF Decides
    <3>2. Decides(p, f.level)
      BY <2>4, <2>6, <3>1 DEF Decides
    <3> QED  BY <2>1, <2>3, <3>1, <3>2
  <2>7. Gave(c)'
    BY <1>1, <1>16, <2>3, <2>5, <2>6 DEF Gave, Decides
  <2> QED  BY <1>14, <2>7
<1>17. CASE c.op = "run" /\ layers[c.level] # "verbose"
  <2>1. f.op = "try_run"
    BY <1>8, <1>17 DEF Forwarded
  <2>2. outcome = engineSaid /\ engineSaid \in Said
    BY <1>11, <2>1 DEF Gave
  <2>3. c.level \in 1 .. c.level
    BY <1>5, <1>10
  <2>4. ASSUME NEW p \in 1 .. c.level, Decides(p, c.level)
        PROVE  outcome' = Made(layers[p], "run", engineSaid)
    <3>1. p = c.level
      <4>1. c.level > p => layers[c.level] = "verbose"
        BY <2>3, <2>4 DEF Decides
      <4> QED  BY <1>7, <1>17, <4>1
    <3> QED  BY <1>13, <1>17, <2>2, <3>1
  <2>5. Gave(c)'
    <3>1. ~ \A q \in 1 .. c.level : layers[q] = "verbose"
      BY <1>17, <2>3
    <3> QED  BY <1>1, <1>17, <2>2, <2>4, <3>1 DEF Gave, Decides
  <2> QED  BY <1>14, <2>5
<1> QED  BY <1>15, <1>16, <1>17

(* What a returned function gave follows from its layers and the engine.   *)
LEMMA AnswersStep ==
  ASSUME CallTypes, Phases, Stacked, Answers, [Next]_vars
  PROVE  Answers'
<1>1. ASSUME StackKept, SaidKept
      PROVE  Answers'
  BY <1>1 DEF Answers, Gave, Decides, StackKept, SaidKept
<1>2. ASSUME frames' = <<>> \/ outcome' = NoOutcome
      PROVE  Answers'
  BY <1>2 DEF Answers
<1>3. CASE BatchDone
  <2>1. /\ frames' = frames /\ layers' = layers /\ Last(frames) = Frame
        /\ Frame.op = "each" /\ outcome' = Results /\ left' = 0
    BY <1>3 DEF BatchDone, engineVars, Frame
  <2>2. PICK f : f = Frame
    OBVIOUS
  <2>3. Gave(f)'
    BY <2>1, <2>2 DEF Gave
  <2> QED  BY <2>1, <2>2, <2>3 DEF Answers
<1>4. CASE UNCHANGED vars \/ Build
  BY <1>1, <1>4 DEF vars, engineVars, callVars, Build, StackKept, SaidKept
<1>5. ASSUME NEW o, SetObserver(o)
      PROVE  Answers'
  BY <1>1, <1>5 DEF SetObserver, callVars, StackKept, SaidKept
<1>6. ASSUME NEW b, NEW r, Compile(b, r)
      PROVE  Answers'
  BY <1>2, <1>6 DEF Compile, callVars, Phases
<1>7. ASSUME NEW w, Wrap(w)
      PROVE  Answers'
  BY <1>2, <1>7 DEF Wrap, callVars, Idle
<1>8. ASSUME NEW op, NEW n, Call(op, n)
      PROVE  Answers'
  BY <1>2, <1>8 DEF Call
<1>9. CASE Descend \/ BeginRun
  BY <1>2, <1>9 DEF Descend, BeginRun, AtEngine
<1>10. CASE Answer
  BY <1>2, <1>10 DEF Answer
<1> QED  BY <1>1, <1>3, <1>4, <1>5, <1>6, <1>7, <1>8, <1>9, <1>10,
            RunEnds, NodeSteps, EndGives, ReturnGives DEF Next, Run

(* The engine's function is run only if no error policy is around it.      *)
LEMMA RawStep ==
  ASSUME CallTypes, Phases, Stacked, Asked, Raw, [Next]_vars
  PROVE  Raw'
<1>1. ASSUME StackKept, SaidKept
      PROVE  Raw'
  BY <1>1 DEF Raw, StackKept, SaidKept
<1>2. ASSUME frames' = <<>> \/ engineSaid' = NoOutcome
      PROVE  Raw'
  BY <1>2 DEF Raw, NoOutcome, Thrown
<1>3. ASSUME frames # <<>>, frames'[1] = frames[1], layers' = layers, engineSaid' = engineSaid
      PROVE  Raw'
  BY <1>3 DEF Raw
<1>4. CASE Descend
  <2>1. frames # <<>> /\ layers' = layers /\ engineSaid' = engineSaid
    BY <1>4 DEF Descend, engineVars
  <2>2. frames'[1] = frames[1]
    BY <1>4, <2>1 DEF Descend, CallTypes
  <2> QED  BY <1>3, <2>1, <2>2
<1>5. CASE Return
  <2>1. frames # <<>> /\ layers' = layers /\ engineSaid' = engineSaid
    BY <1>5 DEF Return, Returning, engineVars
  <2>2. frames' = Front(frames) /\ Len(frames) > 1 /\ frames \in Seq(FrameType)
    BY <1>5 DEF Return, CallTypes
  <2>3. Len(frames) \in Nat /\ 1 \in 1 .. Len(frames) - 1
    BY <2>2
  <2>4. frames'[1] = frames[1]
    BY <2>2, <2>3, FrontProperties
  <2> QED  BY <1>3, <2>1, <2>4
<1>6. ASSUME NEW o \in Said, AtEngine, EndRun(o), o = Thrown("stage") => Frame.op = "run"
      PROVE  Raw'
  <2>1. /\ frames' = frames /\ layers' = layers /\ engineSaid' = o
        /\ frames # <<>> /\ Frame.level = 0
    BY <1>6 DEF EndRun, engineVars, AtEngine
  <2>2. Len(frames) \in DOMAIN frames /\ Frame = frames[Len(frames)]
    BY <2>1 DEF CallTypes, Frame, Last
  <2>3. \A q \in DOMAIN layers : q > 0
    BY DEF CallTypes
  <2>4. Frame.op = "run" => frames[1].op = "run" /\ \A q \in DOMAIN layers : layers[q] = "verbose"
    BY <2>1, <2>2, <2>3 DEF Asked
  <2> QED  BY <1>6, <2>1, <2>4 DEF Raw
<1>7. CASE BatchDone
  <2>1. frames # <<>> /\ frames' = frames /\ layers' = layers /\ engineSaid' = engineSaid
    BY <1>7 DEF BatchDone, AtEngine, engineVars
  <2> QED  BY <1>3, <2>1
<1>8. CASE UNCHANGED vars \/ Build \/ BeginRun
  BY <1>1, <1>8 DEF vars, engineVars, callVars, Build, BeginRun, StackKept, SaidKept
<1>9. ASSUME NEW o, SetObserver(o)
      PROVE  Raw'
  BY <1>1, <1>9 DEF SetObserver, callVars, StackKept, SaidKept
<1>10. ASSUME NEW b, NEW r, Compile(b, r)
      PROVE  Raw'
  BY <1>2, <1>10 DEF Compile, callVars, Phases
<1>11. ASSUME NEW w, Wrap(w)
      PROVE  Raw'
  BY <1>2, <1>11 DEF Wrap, callVars, Idle
<1>12. ASSUME NEW op, NEW n, Call(op, n)
      PROVE  Raw'
  BY <1>2, <1>12 DEF Call
<1>13. CASE Answer
  BY <1>2, <1>13 DEF Answer
<1> QED  BY <1>1, <1>4, <1>5, <1>6, <1>7, <1>8, <1>9, <1>10, <1>11, <1>12, <1>13,
            RunEnds, NodeSteps DEF Next, Run

(* Nothing is called before there is an engine.                            *)
LEMMA Initial ==
  ASSUME Init
  PROVE  IInv
<1>1. frames = <<>> /\ layers = <<>> /\ results = <<>> /\ at = 0 /\ engineSaid = NoOutcome
      /\ told = [before |-> None, during |-> {}]
  BY DEF Init, IdleCall
<1>2. CallTypes /\ Phases /\ Stacked /\ Asked /\ Answers /\ Raw
  BY <1>1 DEF CallTypes, Phases, Stacked, Asked, Answers, Raw
<1>3. Range(layers) = {}
  BY <1>1 DEF Range
<1>4. Telling
  BY <1>1, <1>3 DEF Telling, Owned
<1> QED  BY <1>2, <1>4 DEF IInv

(* Every step keeps the invariant.                                         *)
LEMMA Inductive ==
  ASSUME IInv, [Next]_vars
  PROVE  IInv'
BY TypesStep, PhasesStep, TellingStep, StackedStep, AskedStep, AnswersStep, RawStep DEF IInv

(* The stack, its answers and the observer in all reachable states.        *)
THEOREM Invariance == Spec => []IInv
<1>1. Init => IInv
  BY Initial
<1>2. IInv /\ [Next]_vars => IInv'
  BY Inductive
<1> QED  BY <1>1, <1>2, PTL DEF Spec

(* A run tells one observer of all it does, the one attached when it began *)
(* or the one that a verbose wrapper owns, however often stages attach     *)
(* others: with_observation_scope takes the observer once.                 *)
THEOREM OneObserver == Spec => []OneObserverPerRun
<1>1. IInv => OneObserverPerRun
  BY DEF IInv, Telling, Owned, OneObserverPerRun, Verbose
<1> QED  BY <1>1, Invariance, PTL

-----------------------------------------------------------------------------
(* A set of naturals has a least element.                                  *)
LEMMA LeastExists ==
  ASSUME NEW T, T \subseteq Nat, T # {}
  PROVE  \E x \in T : \A y \in T : x <= y
<1>1. PICK x \in T : \A y \in T : ~ (<<y, x>> \in OpToRel(<, Nat))
  BY WFMin, NatLessThanWellFounded
<1>2. \A y \in T : ~ (y < x)
  BY <1>1 DEF OpToRel
<1> QED  BY <1>2

(* Max finds the greatest one of a set that is bounded.                    *)
LEMMA MaxIsGreatest ==
  ASSUME NEW n \in Nat, NEW T, T \subseteq 1 .. n, T # {}
  PROVE  Max(T) \in T /\ \A y \in T : y <= Max(T)
<1> DEFINE U == {n - y : y \in T}
<1>1. U \subseteq Nat /\ U # {}
  OBVIOUS
<1> HIDE DEF U
<1>2. PICK x \in U : \A y \in U : x <= y
  BY <1>1, LeastExists
<1>3. PICK z \in T : x = n - z
  BY DEF U
<1>4. \A y \in T : n - y \in U
  BY DEF U
<1>5. \A y \in T : z >= y
  BY <1>2, <1>3, <1>4
<1> QED  BY <1>3, <1>5 DEF Max

(* The outermost error policy, found from the outside in.                  *)
LEMMA OutermostIs ==
  ASSUME layers \in Seq(Wrappers)
  PROVE  \/ (\A q \in DOMAIN layers : layers[q] = "verbose") /\ Outermost = "none"
         \/ \E p : Decides(p, Len(layers)) /\ Outermost = layers[p]
<1> DEFINE I == {i \in 1 .. Len(layers) : layers[i] # "verbose"}
           i == IF I # {} THEN Max(I) ELSE 0
<1>1. Len(layers) \in Nat /\ DOMAIN layers = 1 .. Len(layers)
  OBVIOUS
<1>2. Outermost = IF i = 0 THEN "none" ELSE layers[i]
  BY DEF Outermost, SelectLastInSeq
<1>3. CASE I = {}
  BY <1>1, <1>2, <1>3
<1>4. CASE I # {}
  <2>1. i \in I /\ \A q \in I : q <= i
    BY <1>1, <1>4, MaxIsGreatest
  <2> HIDE DEF i
  <2>2. Decides(i, Len(layers))
    BY <1>1, <2>1 DEF Decides
  <2> QED  BY <1>1, <1>2, <2>1, <2>2
<1> QED  BY <1>3, <1>4

(* Functions that are run give what the outermost of all error policies    *)
(* makes of the engine's outcome: the layers around them are verbose.      *)
LEMMA RunGave ==
  ASSUME IInv, frames # <<>>, outcome # NoOutcome, Last(frames).op = "run"
  PROVE  /\ engineSaid \in Said
         /\ frames[1].op = "run"
         /\ (\A q \in DOMAIN layers : layers[q] = "verbose") => outcome = engineSaid
         /\ \A p : Decides(p, Len(layers)) => outcome = Made(layers[p], "run", engineSaid)
<1>1. PICK f : f = Last(frames)
  OBVIOUS
<1>2. PICK n : n = Len(frames)
  OBVIOUS
<1>3. /\ n \in DOMAIN frames /\ n \in Nat /\ f = frames[n] /\ f \in FrameType /\ f.op = "run"
      /\ Len(layers) \in Nat /\ DOMAIN layers = 1 .. Len(layers)
  BY <1>1, <1>2 DEF IInv, CallTypes, Last
<1>4. f.level \in Nat /\ f.level = Len(layers) + 1 - n
  BY <1>3 DEF IInv, Stacked, FrameType
<1>5. n >= 1
  BY <1>2, <1>3 DEF IInv, CallTypes
<1>6. f.level <= Len(layers)
  BY <1>3, <1>4, <1>5
<1>7. frames[1].op = "run" /\ \A q \in DOMAIN layers : q > f.level => layers[q] = "verbose"
  BY <1>3 DEF IInv, Asked
<1>8. /\ engineSaid \in Said
      /\ (\A q \in 1 .. f.level : layers[q] = "verbose") => outcome = engineSaid
      /\ \A p \in 1 .. f.level :
           Decides(p, f.level) => outcome = Made(layers[p], "run", engineSaid)
  BY <1>1, <1>3 DEF IInv, Answers, Gave
<1>9. 1 .. f.level \subseteq DOMAIN layers
  BY <1>3, <1>4, <1>6
<1>10. ASSUME NEW p, Decides(p, Len(layers))
       PROVE  p \in 1 .. f.level /\ Decides(p, f.level)
  <2>1. p \in DOMAIN layers /\ layers[p] # "verbose"
    BY <1>3, <1>10 DEF Decides
  <2>2. p \in 1 .. f.level
    BY <1>3, <1>4, <1>7, <2>1
  <2> QED  BY <1>3, <1>9, <1>10, <2>2 DEF Decides
<1> QED  BY <1>7, <1>8, <1>9, <1>10

(* What the engine says of a run is an error, a value or an exception.     *)
LEMMA SaidKinds ==
  ASSUME NEW o \in Said
  PROVE  /\ o # Terminated /\ o # Results /\ o # NoOutcome
         /\ o.is = "error" /\ o.category = "exception" => o = Error("exception")
         /\ o.is # "error" => o # Error("exception")
BY DEF Said, ResultType, Terminated, Results, NoOutcome, Thrown, Error

(* What an error policy makes of a run.                                    *)
LEMMA PolicyMakes ==
  ASSUME NEW o \in Said, NEW l \in Wrappers, l # "verbose"
  PROVE  /\ o.is # "error" => Made(l, "run", o) = o
         /\ o.is = "error" =>
              Made(l, "run", o) = CASE l = "throwing" -> Thrown(o.category)
                                    [] l = "terminating" -> Terminated
                                    [] l = "ignoring" -> Fallback
                                    [] l = "propagating" /\ o.category = "exception" -> Thrown("exception")
                                    [] OTHER -> o
<1>1. CASE l = "throwing"
  BY <1>1 DEF Made, Throws
<1>2. CASE l = "terminating"
  BY <1>2 DEF Made, Terminates
<1>3. CASE l = "ignoring"
  BY <1>3 DEF Made, Ignores
<1>4. CASE l = "propagating"
  BY <1>4, SaidKinds DEF Made, Propagates, Error
<1> QED  BY <1>1, <1>2, <1>3, <1>4 DEF Wrappers

(* What the outermost error policy decides of a state of the stack.        *)
LEMMA Decided ==
  ASSUME IInv
  PROVE  OutermostPolicyDecides
<1> SUFFICES ASSUME frames # <<>>, outcome # NoOutcome, Len(frames) = 1 \/ outcome = Terminated
             PROVE  LET op == frames[1].op
                        said == engineSaid
                    IN
                    /\ op = "run" /\ said.is = "error" =>
                         outcome = CASE Outermost = "throwing" -> Thrown(said.category)
                                     [] Outermost = "terminating" -> Terminated
                                     [] Outermost = "ignoring" -> Fallback
                                     [] Outermost = "propagating" /\ said.category = "exception" -> Thrown("exception")
                                     [] OTHER -> said
                    /\ op = "run" /\ said.is # "error" => outcome = said
                    /\ op = "try_run" => outcome = said
                    /\ op = "each" => \/ outcome = Results /\ left = 0
                                      \/ outcome = said /\ said = Thrown("observer")
                    /\ op # "run" \/ Outermost # "none" => said # Thrown("stage")
                    /\ \A i \in DOMAIN results : results[i].is \in {"value", "error"}
  BY DEF OutermostPolicyDecides
<1> DEFINE op == frames[1].op
           said == engineSaid
<1>1. /\ frames \in Seq(FrameType) /\ layers \in Seq(Wrappers) /\ results \in Seq(ResultType)
  BY DEF IInv, CallTypes
<1>2. Last(frames) = frames[Len(frames)] /\ Len(frames) \in DOMAIN frames
  BY <1>1 DEF Last
<1>3. Last(frames).op \in Ops
  <2>1. Last(frames) \in FrameType
    BY <1>1, <1>2
  <2> QED  BY <2>1 DEF FrameType
<1>4. Gave(Last(frames))
  BY DEF IInv, Answers
<1>5. \A i \in DOMAIN results : results[i].is \in {"value", "error"}
  <2>1. \A i \in DOMAIN results : results[i] \in ResultType
    BY <1>1
  <2> QED  BY <2>1 DEF ResultType
<1>6. op # "run" \/ Outermost # "none" => said # Thrown("stage")
  <2>1. CASE said = Thrown("stage")
    <3>1. op = "run" /\ \A q \in DOMAIN layers : layers[q] = "verbose"
      BY <2>1 DEF IInv, Raw
    <3>2. ~ \E p : Decides(p, Len(layers))
      BY <1>1, <3>1 DEF Decides
    <3> QED  BY <1>1, <3>1, <3>2, OutermostIs
  <2> QED  BY <2>1
<1>7. CASE Last(frames).op = "run"
  <2>1. /\ said \in Said /\ op = "run"
        /\ (\A q \in DOMAIN layers : layers[q] = "verbose") => outcome = said
        /\ \A p : Decides(p, Len(layers)) => outcome = Made(layers[p], "run", said)
    BY <1>7, RunGave
  <2>2. CASE (\A q \in DOMAIN layers : layers[q] = "verbose") /\ Outermost = "none"
    BY <1>5, <1>6, <2>1, <2>2
  <2>3. ASSUME NEW p, Decides(p, Len(layers)), Outermost = layers[p]
        PROVE  /\ said.is # "error" => outcome = said
               /\ said.is = "error" =>
                    outcome = CASE Outermost = "throwing" -> Thrown(said.category)
                                [] Outermost = "terminating" -> Terminated
                                [] Outermost = "ignoring" -> Fallback
                                [] Outermost = "propagating" /\ said.category = "exception" -> Thrown("exception")
                                [] OTHER -> said
    <3>1. Outermost \in Wrappers /\ Outermost # "verbose"
      BY <1>1, <2>3 DEF Decides
    <3>2. outcome = Made(Outermost, "run", said)
      BY <2>1, <2>3
    <3> QED  BY <2>1, <3>1, <3>2, PolicyMakes
  <2> QED  BY <1>1, <1>5, <1>6, <2>1, <2>2, <2>3, OutermostIs
<1>8. CASE Last(frames).op # "run"
  <2>1. /\ Last(frames).op = "try_run" => outcome = said /\ said \in Said
        /\ Last(frames).op = "each" =>
             \/ outcome = Results /\ left = 0
             \/ outcome = said /\ said = Thrown("observer")
    BY <1>4 DEF Gave
  <2>2. outcome # Terminated
    BY <1>3, <1>8, <2>1, SaidKinds DEF Ops, Results, Thrown, Terminated
  <2>3. Last(frames) = frames[1]
    BY <1>2, <2>2
  <2> QED  BY <1>3, <1>5, <1>6, <1>8, <2>1, <2>3 DEF Ops
<1> QED  BY <1>7, <1>8

(* However wrappers are stacked, by markers or by hand, what run answers   *)
(* is what the outermost error policy of error_policy.hpp makes of the     *)
(* engine's own result; no exception of a stage comes through a policy;    *)
(* try_run and batches are as the engine gives them.                       *)
THEOREM OutermostDecides == Spec => []OutermostPolicyDecides
<1>1. IInv => OutermostPolicyDecides
  BY Decided
<1> QED  BY <1>1, Invariance, PTL

-----------------------------------------------------------------------------
(* How far a batch is: its first inputs have their results, those behind   *)
(* have not been run; the one between them may have thrown.                *)
Left(n) == \A i \in n + 1 .. Len(saidOf) : saidOf[i] = NoOutcome

Batch ==
  LET done == Len(results)
  IN  /\ done + left = Len(saidOf)
      /\ at # 0 => left # 0
      /\ \A i \in 1 .. done : results[i] = saidOf[i]
      /\ outcome \in {NoOutcome, Results} => Left(done)
      /\ outcome = Results => left = 0
      /\ outcome \notin {NoOutcome, Results} =>
           left # 0 /\ saidOf[done + 1] = outcome /\ Left(done + 1)

Batches ==
  /\ left \in Nat /\ saidOf \in Seq(Said \union {NoOutcome})
  /\ frames # <<>> /\ frames[1].op = "each" => Batch

(* The engine's function is called by the call's, for a batch or not.      *)
LEMMA BatchFrames ==
  ASSUME CallTypes, Asked, frames # <<>>
  PROVE  /\ Len(frames) \in Nat \ {0} /\ Frame = frames[Len(frames)]
         /\ Frame.op = "each" <=> frames[1].op = "each"
<1>1. Len(frames) \in Nat \ {0} /\ DOMAIN frames = 1 .. Len(frames)
  BY DEF CallTypes
<1>2. Frame = frames[Len(frames)]
  BY DEF Frame, Last
<1> QED  BY <1>1, <1>2 DEF Asked

(* The run of one input ends: its result is the next, or it has thrown.    *)
LEMMA BatchEnds ==
  ASSUME CallTypes, Asked, Batches, AtEngine, at # 0, NEW o \in Said, EndRun(o),
         o # NoOutcome, o.is # "thrown" => o \in ResultType
  PROVE  Batches'
<1>1. /\ frames # <<>> /\ frames' = frames /\ outcome = NoOutcome /\ at' = 0
      /\ Frame.op = "each" <=> frames[1].op = "each"
  BY BatchFrames DEF AtEngine, EndRun
<1>2. PICK k : k = Len(saidOf) - left + 1
  OBVIOUS
<1>3. saidOf' = [saidOf EXCEPT ![k] = o]
  BY <1>2 DEF EndRun
<1>4. /\ saidOf' \in Seq(Said \union {NoOutcome}) /\ Len(saidOf') = Len(saidOf)
      /\ \A i \in 1 .. Len(saidOf) : saidOf'[i] = IF i = k THEN o ELSE saidOf[i]
  <2>1. saidOf \in Seq(Said \union {NoOutcome}) /\ o \in Said \union {NoOutcome}
    BY DEF Batches
  <2>2. PICK t : t = saidOf'
    OBVIOUS
  <2>3. t = [saidOf EXCEPT ![k] = o]
    BY <1>3, <2>2
  <2>4. PICK S : S = Said \union {NoOutcome}
    OBVIOUS
  <2>5. PICK n \in Nat : n = Len(saidOf) /\ saidOf \in [1 .. n -> S] /\ DOMAIN saidOf = 1 .. n
    BY <2>1, <2>4
  <2>6. \A i \in 1 .. n : t[i] = IF i = k THEN o ELSE saidOf[i]
    BY <2>3, <2>5
  <2>7. t \in [1 .. n -> S]
    BY <2>1, <2>3, <2>4, <2>5, <2>6
  <2>8. t \in Seq(S)
    BY <2>7
  <2>9. Len(t) = n
    BY <2>7, <2>8
  <2> QED  BY <2>2, <2>4, <2>5, <2>6, <2>8, <2>9
<1>5. CASE frames[1].op # "each"
  BY <1>1, <1>4, <1>5 DEF EndRun, Batches
<1>6. CASE frames[1].op = "each"
  <2>1. /\ Len(results) \in Nat /\ left \in Nat /\ Len(saidOf) \in Nat
        /\ Len(results) + left = Len(saidOf) /\ left # 0
        /\ \A i \in 1 .. Len(results) : results[i] = saidOf[i]
        /\ Left(Len(results))
    BY <1>1, <1>6 DEF Batches, Batch, CallTypes
  <2>2. k = Len(results) + 1 /\ k \in 1 .. Len(saidOf)
    BY <1>2, <2>1
  <2>3. saidOf'[k] = o /\ \A i \in 1 .. Len(results) : saidOf'[i] = results[i]
    BY <1>4, <2>1, <2>2
  <2>4. \A i \in k + 1 .. Len(saidOf') : saidOf'[i] = NoOutcome
    BY <1>4, <2>1, <2>2 DEF Left
  <2>5. CASE o.is # "thrown"
    <3>1. results' = Append(results, o) /\ left' = left - 1 /\ outcome' = NoOutcome
      BY <1>1, <1>6, <2>5 DEF EndRun, Collect
    <3>2. /\ Len(results') = k /\ results'[k] = o
          /\ \A i \in 1 .. Len(results) : results'[i] = results[i]
      BY <2>1, <2>2, <2>5, <3>1 DEF CallTypes
    <3>3. left' \in Nat /\ Len(results') + left' = Len(saidOf')
      BY <1>4, <2>1, <2>2, <3>1, <3>2
    <3>4. \A i \in 1 .. Len(results') : results'[i] = saidOf'[i]
      BY <2>1, <2>2, <2>3, <3>2
    <3>5. Left(Len(results))'
      BY <2>4, <3>2 DEF Left
    <3>6. outcome' # Results
      BY <3>1 DEF NoOutcome, Results
    <3>7. Batch'
      BY <1>1, <3>1, <3>3, <3>4, <3>5, <3>6 DEF Batch
    <3> QED  BY <1>4, <3>3, <3>7 DEF Batches
  <2>6. CASE o.is = "thrown"
    <3>1. UNCHANGED <<results, left>> /\ outcome' = o
      BY <2>6 DEF EndRun
    <3>2. o \notin {NoOutcome, Results}
      BY <2>6 DEF Results, NoOutcome
    <3>3. saidOf'[Len(results) + 1] = o
      BY <2>2, <2>3
    <3>4. Left(Len(results) + 1)'
      BY <2>2, <2>4, <3>1 DEF Left
    <3>5. /\ Len(results') + left' = Len(saidOf') /\ left' # 0
          /\ \A i \in 1 .. Len(results') : results'[i] = saidOf'[i]
      BY <1>4, <2>1, <2>3, <3>1
    <3>6. Batch'
      BY <1>1, <3>1, <3>2, <3>3, <3>4, <3>5 DEF Batch
    <3> QED  BY <1>4, <2>1, <3>1, <3>6 DEF Batches
  <2> QED  BY <2>5, <2>6
<1> QED  BY <1>5, <1>6

(* Inputs are run in order, and only the end of a run adds a result.       *)
LEMMA BatchesStep ==
  ASSUME CallTypes, Phases, Asked, Batches, [Next]_vars
  PROVE  Batches'
<1>1. ASSUME frames' = frames, SaidKept, at' # 0 => at # 0
      PROVE  Batches'
  BY <1>1 DEF Batches, Batch, Left, SaidKept
<1>2. CASE UNCHANGED vars \/ Build
  BY <1>1, <1>2 DEF vars, callVars, Build, SaidKept
<1>3. ASSUME NEW o, SetObserver(o)
      PROVE  Batches'
  BY <1>1, <1>3 DEF SetObserver, callVars, SaidKept
<1>4. ASSUME NEW b, NEW r, Compile(b, r)
      PROVE  Batches'
  BY <1>1, <1>4 DEF Compile, callVars, SaidKept
<1>5. ASSUME NEW w, Wrap(w)
      PROVE  Batches'
  BY <1>1, <1>5 DEF Wrap, callVars, SaidKept
<1>6. ASSUME NEW op, NEW n \in Nat, Call(op, n)
      PROVE  Batches'
  <2>1. /\ left' = n /\ results' = <<>> /\ outcome' = NoOutcome /\ at' = 0
        /\ saidOf' = [i \in 1 .. n |-> NoOutcome]
    BY <1>6 DEF Call, Idle, Phases
  <2>2. /\ saidOf' \in Seq(Said \union {NoOutcome}) /\ Len(saidOf') = n
        /\ \A i \in 1 .. n : saidOf'[i] = NoOutcome
    <3>1. saidOf' \in [1 .. n -> Said \union {NoOutcome}]
      BY <2>1
    <3> QED  BY <2>1, <3>1
  <2>3. Len(results') = 0 /\ NoOutcome # Results
    BY <2>1 DEF NoOutcome, Results
  <2>4. Left(Len(results))'
    BY <2>2, <2>3 DEF Left
  <2>5. Batch'
    BY <2>1, <2>2, <2>3, <2>4 DEF Batch
  <2> QED  BY <2>1, <2>2, <2>5 DEF Batches
<1>7. CASE Descend
  <2>1. /\ frames # <<>> /\ UNCHANGED <<left, results, at, outcome, saidOf>>
        /\ \E f : frames' = Append(frames, f)
    BY <1>7 DEF Descend
  <2>2. frames'[1] = frames[1]
    BY <2>1 DEF CallTypes
  <2> QED  BY <2>1, <2>2 DEF Batches, Batch, Left
<1>8. CASE BeginRun
  <2>1. /\ frames # <<>>
        /\ Frame.op = "each" => left > 0
        /\ UNCHANGED <<frames, left, results, outcome, saidOf>>
    BY <1>8 DEF BeginRun, AtEngine
  <2>2. frames[1].op = "each" => left > 0
    <3>1. Frame.op = "each" <=> frames[1].op = "each"
      BY <2>1, BatchFrames
    <3> QED  BY <2>1, <3>1
  <2>3. left > 0 => left # 0
    BY DEF Batches
  <2> QED  BY <2>1, <2>2, <2>3 DEF Batches, Batch, Left
<1>9. ASSUME Running, StackKept, SaidKept
      PROVE  Batches'
  BY <1>1, <1>9 DEF Running, StackKept
<1>10. CASE Finish \/ (\E c \in Categories : Fail(c)) \/ Escape
  <2>1. at # 0
    BY <1>10 DEF Finish, Fail, Escape, Running
  <2> QED  BY <1>10, <2>1, RunEnds, BatchEnds
<1>11. CASE BatchDone
  <2>1. /\ frames # <<>> /\ Frame.op = "each" /\ left = 0 /\ at = 0 /\ outcome = NoOutcome
        /\ UNCHANGED <<frames, left, results, at, saidOf>> /\ outcome' = Results
    BY <1>11 DEF BatchDone, AtEngine
  <2> QED  BY <2>1, BatchFrames DEF Batches, Batch, Left
<1>12. CASE Return
  <2>1. PICK n \in Nat : n = Len(frames) /\ n > 1 /\ frames # <<>>
    BY <1>12 DEF Return, Returning, CallTypes
  <2>2. /\ frames' = Front(frames)
        /\ UNCHANGED <<left, results, at, saidOf>>
        /\ outcome' = Made(layers[frames[n - 1].level], frames[n - 1].op, outcome)
    BY <1>12, <2>1 DEF Return
  <2>3. frames'[1] = frames[1]
    BY <2>1, <2>2, FrontProperties DEF CallTypes
  <2>4. frames[1].op = "each" => outcome' = outcome
    <3>1. n - 1 \in DOMAIN frames
      BY <2>1 DEF CallTypes
    <3>2. frames[1].op = "each" => frames[n - 1].op = "each"
      BY <3>1 DEF Asked
    <3> QED  BY <2>2, <3>2 DEF Made
  <2> QED  BY <2>1, <2>2, <2>3, <2>4 DEF Batches, Batch, Left
<1>13. CASE Answer
  BY <1>13 DEF Answer, Batches
<1>14. \A n \in 0 .. MaxBatch : n \in Nat
  OBVIOUS
<1> QED  BY <1>2, <1>3, <1>4, <1>5, <1>6, <1>7, <1>8, <1>9, <1>10, <1>11, <1>12, <1>13, <1>14,
            NodeSteps DEF Next, Run

(* A batch that is over has a result for each input, or ends with the      *)
(* first input that threw.                                                 *)
LEMMA BatchAnswers ==
  ASSUME CallTypes, Batches
  PROVE  BatchAnswersEachInput
<1> SUFFICES ASSUME frames # <<>>, frames[1].op = "each", outcome # NoOutcome
             PROVE  LET done == Len(results)
                    IN  /\ \A i \in 1 .. done : results[i] = saidOf[i]
                        /\ IF outcome = Results
                           THEN done = Len(saidOf)
                           ELSE /\ done < Len(saidOf) /\ saidOf[done + 1] = outcome
                                /\ \A i \in done + 2 .. Len(saidOf) : saidOf[i] = NoOutcome
  BY DEF BatchAnswersEachInput
<1>1. PICK done \in Nat : done = Len(results)
  BY DEF CallTypes
<1>2. left \in Nat /\ done + left = Len(saidOf) /\ \A i \in 1 .. done : results[i] = saidOf[i]
  BY <1>1 DEF Batches, Batch
<1>3. CASE outcome = Results
  BY <1>1, <1>2, <1>3 DEF Batches, Batch
<1>4. CASE outcome # Results
  <2>1. left # 0 /\ saidOf[done + 1] = outcome /\ Left(done + 1)
    BY <1>1, <1>4 DEF Batches, Batch
  <2>2. PICK k \in Nat : k = done + 2 /\ k = (done + 1) + 1
    BY <1>1
  <2>3. \A i \in k .. Len(saidOf) : saidOf[i] = NoOutcome
    BY <2>1, <2>2 DEF Left
  <2> QED  BY <1>1, <1>2, <1>4, <2>1, <2>2, <2>3
<1> QED  BY <1>3, <1>4

(* Of a batch of any size, on any stack of wrappers, every input has its   *)
(* own result in its place whatever became of the others, or an exception  *)
(* ends the batch at the first input that throws (BatchAnswersEachInput).  *)
THEOREM BatchesAnswer == Spec => []BatchAnswersEachInput
<1>1. Init => Batches
  BY DEF Init, IdleCall, Batches
<1>2. IInv /\ Batches /\ [Next]_vars => Batches'
  BY BatchesStep DEF IInv
<1>3. IInv /\ Batches => BatchAnswersEachInput
  BY BatchAnswers DEF IInv
<1> QED  BY <1>1, <1>2, <1>3, Invariance, PTL DEF Spec

(* Callers get what the outermost error policy decides, and of a batch the *)
(* result of each input (CallersAreAnswered).                              *)
THEOREM Answered == Spec => []CallersAreAnswered
<1>1. OutermostPolicyDecides /\ BatchAnswersEachInput => CallersAreAnswered
  BY DEF CallersAreAnswered
<1> QED  BY <1>1, OutermostDecides, BatchesAnswer, PTL

-----------------------------------------------------------------------------
(* What the builder has accepted: at most one marker of an axis, and a     *)
(* chain whose last output is the current type, in which every node is     *)
(* called with what it takes, and a branch gives what its cases do.        *)
OneMarker ==
  /\ policies \in Seq(Range(policies))
  /\ \A axis \in Axes :
       Cardinality({i \in DOMAIN policies : policies[i].axis = axis}) <= 1

NodeFits(i) == Callable(nodes[i], Arrives(i)) \/ UniformVariantJoin(i)

BranchFits(i) ==
  LET cs == nodes[i].cases
  IN
  /\ cs \in Seq(Range(cs)) /\ cs # <<>>
  /\ nodes[i].out = Unified(CaseOutputs(cs))
  /\ Callable(nodes[i], Arrives(i))

Chained ==
  /\ nodes \in Seq(Range(nodes))
  /\ current = IF nodes = <<>> THEN input ELSE Last(nodes).out
  /\ current.is # "type_list"
  /\ \A i \in DOMAIN nodes :
       /\ NodeFits(i)
       /\ nodes[i].kind = "branch" => BranchFits(i)

(* A sequence is one of its own elements.                                  *)
LEMMA OfItsElements ==
  ASSUME NEW S, NEW s \in Seq(S)
  PROVE  s \in Seq(Range(s))
<1>1. Len(s) \in Nat /\ s \in [1 .. Len(s) -> Range(s)]
  BY DEF Range
<1> QED  BY <1>1

(* One of an axis is only one.                                             *)
LEMMA OneIsOne ==
  ASSUME NEW n \in Nat, NEW T, T \subseteq 1 .. n, Cardinality(T) <= 1,
         NEW i \in T, NEW j \in T
  PROVE  i = j
<1>1. SUFFICES ASSUME i # j
               PROVE  FALSE
  OBVIOUS
<1>2. IsFiniteSet(T)
  <2>1. IsFiniteSet(1 .. n)
    BY FS_Interval
  <2> QED  BY <2>1, FS_Subset
<1>3. Cardinality({i}) = 1 /\ IsFiniteSet({i})
  BY FS_Singleton
<1>4. Cardinality({i} \union {j}) = 2
  BY <1>1, <1>3, FS_AddElement
<1>5. Cardinality({i} \union {j}) <= Cardinality(T)
  BY <1>2, FS_Subset
<1>6. Cardinality(T) \in Nat
  BY <1>2, FS_CardinalityType
<1> QED  BY <1>4, <1>5, <1>6

(* first_policy_matching finds the marker of the axis, wherever it stands. *)
LEMMA FirstFound ==
  ASSUME NEW S, NEW ms \in Seq(S), NEW axis, NEW j \in DOMAIN ms, ms[j].axis = axis,
         \A i \in DOMAIN ms : ms[i].axis = axis => ms[i] = ms[j]
  PROVE  FirstPolicy(ms, axis) = ms[j].name
<1> DEFINE I == {i \in 1 .. Len(ms) : ms[i].axis = axis}
           k == IF I # {} THEN Min(I) ELSE 0
<1>1. Len(ms) \in Nat /\ DOMAIN ms = 1 .. Len(ms)
  OBVIOUS
<1>2. I \subseteq Nat /\ I # {}
  BY <1>1
<1>3. FirstPolicy(ms, axis) = IF k = 0 THEN None ELSE ms[k].name
  BY DEF FirstPolicy, SelectInSeq
<1>4. k \in I
  <2> HIDE DEF I
  <2>1. PICK x \in I : \A y \in I : x <= y
    BY <1>2, LeastExists
  <2> QED  BY <1>2, <2>1 DEF Min
<1> HIDE DEF k
<1> QED  BY <1>1, <1>3, <1>4

LEMMA NoneFound ==
  ASSUME NEW ms, NEW axis, \A i \in 1 .. Len(ms) : ms[i].axis # axis
  PROVE  FirstPolicy(ms, axis) = None
BY DEF FirstPolicy, SelectInSeq

(* The markers in another order have the same first one of each axis.      *)
LEMMA SameFirst ==
  ASSUME OneMarker, NEW p \in [DOMAIN policies -> DOMAIN policies],
         Range(p) = DOMAIN policies, NEW axis \in Axes
  PROVE  FirstPolicy([i \in DOMAIN policies |-> policies[p[i]]], axis) = FirstPolicy(policies, axis)
<1> DEFINE other == [i \in DOMAIN policies |-> policies[p[i]]]
           T == {i \in DOMAIN policies : policies[i].axis = axis}
<1>1. /\ Len(policies) \in Nat /\ DOMAIN policies = 1 .. Len(policies)
      /\ policies \in Seq(Range(policies))
  BY DEF OneMarker
<1>2. \A i \in DOMAIN policies : policies[p[i]] \in Range(policies)
  BY DEF Range
<1>3. other \in Seq(Range(policies)) /\ Len(other) = Len(policies) /\ DOMAIN other = DOMAIN policies
  BY <1>1, <1>2
<1>4. \A i \in DOMAIN policies : other[i] = policies[p[i]] /\ p[i] \in DOMAIN policies
  OBVIOUS
<1> HIDE DEF other
<1>5. CASE T = {}
  <2>1. \A i \in DOMAIN policies : policies[i].axis # axis
    BY <1>5
  <2>2. \A i \in DOMAIN policies : other[i].axis # axis
    BY <1>4, <2>1
  <2> QED  BY <1>1, <1>3, <2>1, <2>2, NoneFound DEF other
<1>6. CASE T # {}
  <2>1. PICK j \in T : TRUE
    BY <1>6
  <2>2. j \in DOMAIN policies /\ policies[j].axis = axis
    BY <2>1
  <2>3. \A i \in T : i = j
    <3>1. Cardinality(T) <= 1 /\ T \subseteq 1 .. Len(policies)
      BY <1>1 DEF OneMarker
    <3> HIDE DEF T
    <3> QED  BY <1>1, <2>1, <3>1, OneIsOne
  <2>4. \A i \in DOMAIN policies : policies[i].axis = axis => i = j
    BY <2>3
  <2>5. FirstPolicy(policies, axis) = policies[j].name
    BY <1>1, <2>2, <2>4, FirstFound
  <2>6. PICK k \in DOMAIN policies : p[k] = j
    BY <2>2 DEF Range
  <2>7. other[k] = policies[j] /\ other[k].axis = axis
    BY <1>4, <2>2, <2>6
  <2>8. \A i \in DOMAIN other : other[i].axis = axis => other[i] = other[k]
    BY <1>3, <1>4, <2>4, <2>7
  <2>9. FirstPolicy(other, axis) = other[k].name
    BY <1>3, <2>7, <2>8, FirstFound
  <2> QED  BY <2>5, <2>7, <2>9 DEF other
<1> QED  BY <1>5, <1>6

LEMMA SameLayers ==
  ASSUME OneMarker
  PROVE  MarkersCommute
<1> SUFFICES ASSUME NEW p \in [DOMAIN policies -> DOMAIN policies],
                    Cardinality(Range(p)) = Len(policies)
             PROVE  CompiledLayers([i \in DOMAIN policies |-> policies[p[i]]]) = CompiledLayers(policies)
  BY DEF MarkersCommute
<1>1. Len(policies) \in Nat /\ DOMAIN policies = 1 .. Len(policies)
  BY DEF OneMarker
<1>2. IsFiniteSet(DOMAIN policies) /\ Cardinality(DOMAIN policies) = Len(policies)
  <2>1. PICK n \in Nat : n = Len(policies)
    BY <1>1
  <2>2. IsFiniteSet(1 .. n) /\ Cardinality(1 .. n) = IF 1 > n THEN 0 ELSE n - 1 + 1
    BY FS_Interval
  <2>3. (IF 1 > n THEN 0 ELSE n - 1 + 1) = n
    OBVIOUS
  <2> QED  BY <1>1, <2>1, <2>2, <2>3
<1>3. Range(p) \subseteq DOMAIN policies
  BY DEF Range
<1>4. Range(p) = DOMAIN policies
  BY <1>2, <1>3, FS_Subset
<1> DEFINE other == [i \in DOMAIN policies |-> policies[p[i]]]
<1>5. \A axis \in Axes : FirstPolicy(other, axis) = FirstPolicy(policies, axis)
  BY <1>4, SameFirst
<1> HIDE DEF other
<1>6. FirstPolicy(other, "errors") = FirstPolicy(policies, "errors")
  BY <1>5 DEF Axes
<1>7. FirstPolicy(other, "diagnostics") = FirstPolicy(policies, "diagnostics")
  BY <1>5 DEF Axes
<1>8. CompiledLayers(other) = CompiledLayers(policies)
  BY <1>6, <1>7 DEF CompiledLayers, ErrorLayer, DiagnosticsLayer
<1> QED  BY <1>8 DEF other

(* The builder's part of the state is its own.                             *)
LEMMA OnlyBuilds ==
  ASSUME [Next]_vars
  PROVE  BuilderNext \/ UNCHANGED builderVars
BY DEF Next, Run, vars, Build, Compile, Wrap, SetObserver, Call, Descend, BeginRun,
       RunStage, RunBranch, RunFanIn, Pass, Finish, Fail, Escape, EndRun, BatchDone, Return, Answer

LEMMA OneMarkerStep ==
  ASSUME OneMarker, BuilderNext \/ UNCHANGED builderVars
  PROVE  OneMarker'
<1>1. ASSUME policies' = policies
      PROVE  OneMarker'
  BY <1>1 DEF OneMarker, Range
<1>2. ASSUME NEW m \in Markers, With(<<m>>)
      PROVE  OneMarker'
  <2>1. policies \o <<m>> \in Seq(Range(policies) \union {m})
    BY DEF OneMarker
  <2>2. policies' \in Seq(Range(policies'))
    BY <1>2, <2>1, OfItsElements DEF With
  <2> QED  BY <1>2, <2>2 DEF With, OneMarker, Range
<1> QED  BY <1>1, <1>2 DEF BuilderNext, Then, Join, FanIn, Branch, To, builderVars

(* The stages tried: one that declares no list takes its input.            *)
LEMMA StageIs ==
  ASSUME NEW s \in StagesTried
  PROVE  /\ s.kind = "stage" /\ s.out \in Outputs
         /\ s.in.is # "type_list" => s.takes = {s.in}
BY DEF StagesTried, Stage

(* The nodes before those a step changes are called as before.             *)
LEMMA Kept ==
  ASSUME Chained, input' = input, NEW i \in DOMAIN nodes,
         \A j \in 1 .. i : nodes'[j] = nodes[j]
  PROVE  NodeFits(i)' /\ (nodes'[i].kind = "branch" => BranchFits(i)')
<1>1. i \in Nat /\ i >= 1 /\ nodes'[i] = nodes[i] /\ (i > 1 => nodes'[i - 1] = nodes[i - 1])
  <2>1. i \in 1 .. Len(nodes) /\ Len(nodes) \in Nat
    BY DEF Chained
  <2> QED  BY <2>1
<1>2. i # 1 <=> i > 1
  BY <1>1
<1>3. Arrives(i)' = Arrives(i)
  BY <1>1, <1>2 DEF Arrives
<1>4. UniformVariantJoin(i)' <=> UniformVariantJoin(i)
  <2>1. CASE i > 1
    BY <1>1, <2>1 DEF UniformVariantJoin
  <2>2. CASE ~(i > 1)
    BY <2>2 DEF UniformVariantJoin
  <2> QED  BY <2>1, <2>2
<1>5. NodeFits(i) /\ (nodes[i].kind = "branch" => BranchFits(i))
  BY DEF Chained
<1>6. Callable(nodes[i], Arrives(i))' <=> Callable(nodes[i], Arrives(i))
  BY <1>1, <1>3
<1> QED  BY <1>1, <1>4, <1>5, <1>6 DEF NodeFits, BranchFits

(* A node is added to the chain.                                           *)
LEMMA Appended ==
  ASSUME Chained, NEW n, nodes' = Append(nodes, n), input' = input, current' = n.out,
         n.out.is # "type_list",
         NEW k, k = Len(nodes) + 1,
         NodeFits(k)',
         n.kind = "branch" => BranchFits(k)'
  PROVE  Chained'
<1>1. /\ Len(nodes) \in Nat /\ DOMAIN nodes = 1 .. Len(nodes)
      /\ nodes \in Seq(Range(nodes) \union {n})
  BY DEF Chained
<1>2. /\ nodes' \in Seq(Range(nodes) \union {n}) /\ Len(nodes') = Len(nodes) + 1
      /\ DOMAIN nodes' = 1 .. Len(nodes) + 1
      /\ nodes'[Len(nodes) + 1] = n
      /\ \A i \in 1 .. Len(nodes) : nodes'[i] = nodes[i]
  BY <1>1
<1>3. nodes' \in Seq(Range(nodes'))
  BY <1>2, OfItsElements
<1>4. current' = (IF nodes = <<>> THEN input ELSE Last(nodes).out)'
  <2>1. nodes' # <<>> /\ Last(nodes') = n
    BY <1>1, <1>2 DEF Last
  <2> QED  BY <2>1
<1>5. ASSUME NEW i \in DOMAIN nodes'
      PROVE  NodeFits(i)' /\ (nodes'[i].kind = "branch" => BranchFits(i)')
  <2>1. i \in DOMAIN nodes \/ i = k
    BY <1>1, <1>2
  <2>2. CASE i = k
    BY <1>2, <2>2
  <2>3. CASE i \in DOMAIN nodes
    <3>1. \A j \in 1 .. i : nodes'[j] = nodes[j]
      BY <1>1, <1>2, <2>3
    <3> QED  BY <2>3, <3>1, Kept
  <2> QED  BY <2>1, <2>2, <2>3
<1> QED  BY <1>3, <1>4, <1>5 DEF Chained

(* The type that arrives at a new node is the current one.                 *)
LEMMA NextArrives ==
  ASSUME Chained, input' = input, NEW k, k = Len(nodes) + 1,
         \A i \in DOMAIN nodes : nodes'[i] = nodes[i]
  PROVE  Arrives(k)' = current
<1>1. Len(nodes) \in Nat /\ DOMAIN nodes = 1 .. Len(nodes) /\ nodes \in Seq(Range(nodes))
  BY DEF Chained
<1>2. CASE nodes = <<>>
  BY <1>1, <1>2 DEF Chained, Arrives
<1>3. CASE nodes # <<>>
  <2>1. Len(nodes) >= 1 /\ k # 1 /\ k - 1 = Len(nodes) /\ nodes'[Len(nodes)] = Last(nodes)
    BY <1>1, <1>3 DEF Last
  <2> QED  BY <1>3, <2>1 DEF Chained, Arrives
<1> QED  BY <1>2, <1>3

(* The outputs of the cases of a branch, and what they unify to.           *)
LEMMA Outs ==
  ASSUME NEW S, NEW cs \in Seq(S), cs # <<>>
  PROVE  LET gave == CaseOutputs(cs)
         IN  /\ gave \in Seq(Range(gave)) /\ gave # <<>> /\ Head(gave) = cs[1].out
             /\ Head(gave) \in Range(gave)
             /\ \/ Unified(gave) = Variant(gave)
                \/ Unified(gave) = Head(gave) /\ Range(gave) = {Head(gave)}
<1> DEFINE gave == CaseOutputs(cs)
<1>1. Len(cs) \in Nat /\ DOMAIN cs = 1 .. Len(cs) /\ Len(cs) >= 1
  OBVIOUS
<1>2. gave = [i \in 1 .. Len(cs) |-> cs[i].out]
  BY <1>1 DEF CaseOutputs
<1>3. gave \in Seq({cs[i].out : i \in 1 .. Len(cs)}) /\ Len(gave) = Len(cs) /\ gave[1] = cs[1].out
  BY <1>1, <1>2
<1> HIDE DEF gave
<1>4. gave \in Seq(Range(gave)) /\ gave # <<>> /\ Head(gave) = cs[1].out
  BY <1>1, <1>3, OfItsElements
<1>5. Head(gave) \in Range(gave)
  BY <1>1, <1>2, <1>4 DEF Range
<1>6. IsFiniteSet(Range(gave))
  <2>1. IsFiniteSet(1 .. Len(cs))
    BY <1>1, FS_Interval
  <2>2. gave \in Surjection(1 .. Len(cs), Range(gave))
    <3>1. DOMAIN gave = 1 .. Len(cs) /\ gave \in [1 .. Len(cs) -> Range(gave)]
      BY <1>1, <1>3, <1>4
    <3> QED  BY <3>1 DEF Range, Surjection
  <2> QED  BY <2>1, <2>2, FS_Surjection
<1>7. CASE Cardinality(Range(gave)) = 1
  <2>1. PICK x : Range(gave) = {x}
    BY <1>6, <1>7, FS_Singleton
  <2> QED  BY <1>4, <1>5, <1>7, <2>1 DEF Unified, gave
<1>8. CASE Cardinality(Range(gave)) # 1
  BY <1>4, <1>5, <1>8 DEF Unified, gave
<1> QED  BY <1>7, <1>8

(* then: a stage on the current type.                                      *)
LEMMA ThenChains ==
  ASSUME Chained, NEW s \in StagesTried, Then(s)
  PROVE  Chained'
<1>1. PICK k : k = Len(nodes) + 1
  OBVIOUS
<1>2. /\ Len(nodes) \in Nat /\ DOMAIN nodes = 1 .. Len(nodes) /\ nodes \in Seq(Range(nodes) \union {s})
  BY DEF Chained
<1>3. nodes' = Append(nodes, s) /\ input' = input /\ current' = s.out /\ s.in = current
  BY DEF Then
<1>4. nodes'[k] = s /\ \A i \in DOMAIN nodes : nodes'[i] = nodes[i]
  BY <1>1, <1>2, <1>3
<1>5. Arrives(k)' = current
  BY <1>1, <1>3, <1>4, NextArrives
<1>6. s.kind = "stage" /\ s.out.is # "type_list" /\ s.takes = {s.in}
  BY <1>3, StageIs, TypesAssumption DEF Chained
<1>7. s.in.is # "type_list"
  BY <1>3 DEF Chained
<1>8. Callable(s, current)
  BY <1>3, <1>6, <1>7 DEF Callable
<1>9. NodeFits(k)'
  BY <1>4, <1>5, <1>8 DEF NodeFits
<1> QED  BY <1>1, <1>3, <1>6, <1>9, Appended

(* branch: every case is on the current type.                              *)
LEMMA BranchChains ==
  ASSUME Chained, NEW n \in Nat, NEW cs \in [1 .. n -> CasesTried], Branch(cs)
  PROVE  Chained'
<1> DEFINE b == SelectedBranch(cs)
<1>1. PICK k : k = Len(nodes) + 1
  OBVIOUS
<1>2. /\ Len(nodes) \in Nat /\ DOMAIN nodes = 1 .. Len(nodes) /\ nodes \in Seq(Range(nodes) \union {b})
  BY DEF Chained
<1>3. nodes' = Append(nodes, b) /\ input' = input /\ current' = b.out
  BY DEF Branch
<1>4. /\ b.kind = "branch" /\ b.cases = cs /\ b.out = Unified(CaseOutputs(cs))
  BY DEF SelectedBranch
<1> HIDE DEF b
<1>5. nodes'[k] = b /\ \A i \in DOMAIN nodes : nodes'[i] = nodes[i]
  BY <1>1, <1>2, <1>3
<1>6. Arrives(k)' = current
  BY <1>1, <1>3, <1>5, NextArrives
<1>7. /\ cs # <<>> /\ \A i \in DOMAIN cs : cs[i].asks = current /\ cs[i].in = current
      /\ current.copies \/ \A i \in DOMAIN cs : cs[i].peeks
  BY DEF Branch, ValidCase
<1>8. cs \in Seq(CasesTried) /\ cs[1] \in CasesTried
  BY <1>7
<1>9. cs[1].out \in Outputs
  BY <1>8 DEF CasesTried, Case
<1>10. b.out.is # "type_list"
  <2>1. \/ b.out = Variant(CaseOutputs(cs))
        \/ b.out = cs[1].out
    BY <1>4, <1>7, <1>8, Outs
  <2> QED  BY <1>9, <2>1, TypesAssumption DEF Variant
<1>11. Callable(b, current)
  BY <1>4, <1>7 DEF Callable
<1>12. cs \in Seq(Range(cs))
  BY <1>8, OfItsElements
<1>13. NodeFits(k)' /\ BranchFits(k)'
  BY <1>4, <1>5, <1>6, <1>7, <1>11, <1>12 DEF NodeFits, BranchFits
<1> QED  BY <1>1, <1>3, <1>10, <1>13, Appended

(* join: a stage on the unified output, or on each of a list.              *)
LEMMA JoinChains ==
  ASSUME Chained, NEW s \in StagesTried, Join(s)
  PROVE  Chained'
<1> DEFINE last == Last(nodes)
           gave == CaseOutputs(last.cases)
<1>1. PICK k : k = Len(nodes) + 1
  OBVIOUS
<1>2. /\ Len(nodes) \in Nat /\ DOMAIN nodes = 1 .. Len(nodes) /\ nodes \in Seq(Range(nodes) \union {s})
  BY DEF Chained
<1>3. nodes' = Append(nodes, s) /\ input' = input /\ current' = s.out
      /\ nodes # <<>> /\ last.kind = "branch" /\ AcceptsOutputs(s, last.cases)
  BY DEF Join, AfterBranch
<1>4. nodes'[k] = s /\ \A i \in DOMAIN nodes : nodes'[i] = nodes[i]
  BY <1>1, <1>2, <1>3
<1>5. Arrives(k)' = current
  BY <1>1, <1>3, <1>4, NextArrives
<1>6. /\ k > 1 /\ k - 1 = Len(nodes) /\ nodes'[k - 1] = last /\ Len(nodes) \in DOMAIN nodes
      /\ last = nodes[Len(nodes)]
  <2>1. Len(nodes) >= 1
    BY <1>2, <1>3
  <2>2. Len(nodes) \in DOMAIN nodes /\ last = nodes[Len(nodes)]
    BY <1>2, <2>1 DEF Last
  <2>3. k > 1 /\ k - 1 = Len(nodes)
    BY <1>1, <1>2, <2>1
  <2> QED  BY <1>4, <2>2, <2>3
<1>7. /\ last.cases \in Seq(Range(last.cases)) /\ last.cases # <<>>
      /\ last.out = Unified(gave)
  BY <1>3, <1>6 DEF Chained, BranchFits
<1>8. current = last.out /\ current.is # "type_list"
  BY <1>3 DEF Chained
<1>9. s.kind = "stage" /\ s.out.is # "type_list" /\ (s.in.is # "type_list" => s.takes = {s.in})
  BY StageIs, TypesAssumption
<1>10. \/ s.in = current
       \/ s.in = TypeList(gave) /\ Range(gave) \subseteq s.takes
  BY <1>3, <1>7, <1>8 DEF AcceptsOutputs
<1>11. /\ Head(gave) \in Range(gave)
       /\ \/ current = Variant(gave)
          \/ current = Head(gave) /\ Range(gave) = {Head(gave)}
  BY <1>7, <1>8, Outs
<1>12. Callable(s, current) \/ UniformVariantJoin(k)'
  <2>1. CASE s.in = current
    BY <1>8, <1>9, <2>1 DEF Callable
  <2>2. CASE s.in = TypeList(gave) /\ Range(gave) \subseteq s.takes
    <3>1. s.in.is = "type_list"
      BY <2>2 DEF TypeList
    <3>2. CASE current = Variant(gave)
      <4>1. current.is = "variant" /\ current.of = gave
        BY <3>2 DEF Variant
      <4> QED  BY <1>9, <2>2, <3>1, <4>1 DEF Callable
    <3>3. CASE current = Head(gave) /\ Range(gave) = {Head(gave)} /\ current.is = "variant"
      <4>1. nodes'[k - 1].cases = last.cases /\ nodes'[k - 1].out = current /\ nodes'[k - 1].kind = "branch"
        BY <1>3, <1>6, <1>8
      <4> QED  BY <1>4, <1>6, <3>1, <3>3, <4>1 DEF UniformVariantJoin
    <3>4. CASE current = Head(gave) /\ Range(gave) = {Head(gave)} /\ current.is # "variant"
      BY <1>9, <1>11, <2>2, <3>4 DEF Callable
    <3> QED  BY <1>11, <3>2, <3>3, <3>4
  <2> QED  BY <1>10, <2>1, <2>2
<1>13. NodeFits(k)'
  BY <1>4, <1>5, <1>12 DEF NodeFits
<1> QED  BY <1>1, <1>3, <1>9, <1>13, Appended

(* join_fan_in: the branch becomes a fan-in branch, and the stage takes    *)
(* the results of all its cases.                                           *)
LEMMA FanInChains ==
  ASSUME Chained, NEW s \in StagesTried, FanIn(s)
  PROVE  Chained'
<1> DEFINE cs == Last(nodes).cases
           b == FanInBranch(cs)
<1>1. PICK n : n = Len(nodes)
  OBVIOUS
<1>2. /\ n \in Nat /\ DOMAIN nodes = 1 .. n /\ nodes \in Seq(Range(nodes) \union {b, s})
      /\ nodes # <<>>
  BY <1>1 DEF Chained, FanIn, AfterBranch
<1>3. n >= 1 /\ n \in DOMAIN nodes /\ Last(nodes) = nodes[n]
  BY <1>1, <1>2 DEF Last
<1>4. /\ nodes' = Append([nodes EXCEPT ![n] = b], s) /\ input' = input /\ current' = s.out
      /\ Last(nodes).kind = "branch" /\ s.in = b.out
      /\ cs[1].in.copies \/ \A i \in DOMAIN cs : cs[i].borrows
      /\ \A i \in DOMAIN cs : cs[i].peeks
  BY <1>1 DEF FanIn, AfterBranch, ReplaceAt
<1>5. b.kind = "fan_in" /\ b.cases = cs /\ b.out = FanInResults(CaseOutputs(cs))
  BY DEF FanInBranch
<1>6. b.out.is # "type_list"
  BY <1>5 DEF FanInResults
<1>7. s.kind = "stage" /\ s.out.is # "type_list" /\ s.takes = {s.in} /\ s.in.is # "type_list"
  BY <1>4, <1>6, StageIs, TypesAssumption
<1>8. cs \in Seq(Range(cs)) /\ cs # <<>> /\ Callable(nodes[n], Arrives(n))
  BY <1>3, <1>4 DEF Chained, BranchFits
<1> HIDE DEF b
<1>9. /\ nodes' \in Seq(Range(nodes) \union {b, s})
      /\ Len(nodes') = n + 1 /\ DOMAIN nodes' = 1 .. n + 1
      /\ nodes'[n + 1] = s /\ nodes'[n] = b
      /\ \A i \in 1 .. n : i # n => nodes'[i] = nodes[i]
  <2> DEFINE other == [nodes EXCEPT ![n] = b]
  <2>1. /\ other \in Seq(Range(nodes) \union {b, s}) /\ Len(other) = n
        /\ other[n] = b /\ \A i \in 1 .. n : i # n => other[i] = nodes[i]
    BY <1>1, <1>2, <1>3
  <2> HIDE DEF other
  <2>2. nodes' = Append(other, s)
    BY <1>4 DEF other
  <2> QED  BY <1>2, <1>3, <2>1, <2>2
<1>10. nodes' \in Seq(Range(nodes'))
  BY <1>9, OfItsElements
<1>11. current' = (IF nodes = <<>> THEN input ELSE Last(nodes).out)'
  <2>1. nodes' # <<>> /\ Last(nodes') = s
    BY <1>2, <1>9 DEF Last
  <2> QED  BY <1>4, <2>1
<1>12. Callable(b, Arrives(n))
  <2>1. \A i \in DOMAIN cs : cs[i].asks = Arrives(n) /\ cs[i].in = Arrives(n)
    BY <1>3, <1>4, <1>8 DEF Callable
  <2>2. 1 \in DOMAIN cs
    BY <1>8
  <2> QED  BY <1>4, <1>5, <2>1, <2>2 DEF Callable
<1>13. Arrives(n)' = Arrives(n)
  <2>1. n # 1 => nodes'[n - 1] = nodes[n - 1]
    BY <1>3, <1>2, <1>9
  <2> QED  BY <1>4, <2>1 DEF Arrives
<1>14. NodeFits(n)' /\ nodes'[n].kind # "branch"
  BY <1>5, <1>9, <1>12, <1>13 DEF NodeFits
<1>15. PICK k : k = n + 1
  OBVIOUS
<1>16. Arrives(k)' = s.in
  <2>1. k # 1 /\ k - 1 = n
    BY <1>2, <1>3, <1>15
  <2> QED  BY <1>4, <1>9, <2>1 DEF Arrives
<1>17. NodeFits(k)' /\ nodes'[k].kind # "branch"
  <2>1. Callable(s, s.in)
    BY <1>7 DEF Callable
  <2> QED  BY <1>7, <1>9, <1>15, <1>16, <2>1 DEF NodeFits
<1>18. ASSUME NEW i \in DOMAIN nodes'
       PROVE  NodeFits(i)' /\ (nodes'[i].kind = "branch" => BranchFits(i)')
  <2>1. i = n \/ i = k \/ (i \in DOMAIN nodes /\ \A j \in 1 .. i : nodes'[j] = nodes[j])
    BY <1>2, <1>3, <1>9, <1>15
  <2> QED  BY <1>4, <1>14, <1>17, <2>1, Kept
<1> QED  BY <1>4, <1>7, <1>10, <1>11, <1>18 DEF Chained

LEMMA ChainedStep ==
  ASSUME Chained, BuilderNext \/ UNCHANGED builderVars
  PROVE  Chained'
<1>1. ASSUME UNCHANGED <<input, current, nodes>>
      PROVE  Chained'
  BY <1>1 DEF Chained, NodeFits, BranchFits, Arrives, UniformVariantJoin
<1>2. ASSUME NEW n \in 1 .. MaxCases, NEW cs \in [1 .. n -> CasesTried], Branch(cs)
      PROVE  Chained'
  BY <1>2, BranchChains
<1>3. CASE UNCHANGED builderVars
  BY <1>1, <1>3 DEF builderVars
<1>4. ASSUME NEW m, With(<<m>>)
      PROVE  Chained'
  BY <1>1, <1>4 DEF With
<1>5. ASSUME NEW output, To(output)
      PROVE  Chained'
  BY <1>1, <1>5 DEF To
<1> QED  BY <1>2, <1>3, <1>4, <1>5, ThenChains, JoinChains, FanInChains DEF BuilderNext

(* The builder's part of all reachable states.                             *)
THEOREM BuilderInvariance == Spec => [](OneMarker /\ Chained)
<1>1. Init => OneMarker /\ Chained
  <2> SUFFICES ASSUME Init
               PROVE  OneMarker /\ Chained
    OBVIOUS
  <2>1. input \in Sources /\ current = input /\ nodes = <<>> /\ policies = <<>>
    BY DEF Init, BuilderInit
  <2>2. current.is # "type_list"
    BY <2>1, TypesAssumption
  <2>3. \A axis \in Axes : {i \in DOMAIN policies : policies[i].axis = axis} = {}
    BY <2>1
  <2>4. OneMarker
    BY <2>1, <2>3, FS_EmptySet DEF OneMarker
  <2> QED  BY <2>1, <2>2, <2>4 DEF Chained
<1>2. (OneMarker /\ Chained) /\ [Next]_vars => (OneMarker /\ Chained)'
  BY OnlyBuilds, OneMarkerStep, ChainedStep
<1> QED  BY <1>1, <1>2, PTL DEF Spec

(* The order of with's markers, and over how many calls they are spread,   *)
(* says nothing about the wrappers that compile picks: pipeline_state::with*)
(* lets only one marker of an axis in.                                     *)
THEOREM Commute == Spec => []MarkersCommute
<1>1. OneMarker /\ Chained => MarkersCommute
  BY SameLayers
<1> QED  BY <1>1, BuilderInvariance, PTL

(* Each node of a pipeline that the builder has accepted is called with    *)
(* what it takes, in the engine's own way of calling it, of any length and *)
(* with any types, but for the type-list join after a branch of one        *)
(* std::variant.                                                           *)
THEOREM Compiles == Spec => []AcceptedPipelinesCompile
<1>1. OneMarker /\ Chained => AcceptedPipelinesCompile
  BY DEF Chained, NodeFits, AcceptedPipelinesCompile
<1> QED  BY <1>1, BuilderInvariance, PTL

-----------------------------------------------------------------------------
(* Induction over a set of naturals.                                       *)
LEMMA Induction ==
  ASSUME NEW S, 0 \in S, \A n \in Nat : n \in S => n + 1 \in S
  PROVE  \A n \in Nat : n \in S
<1> DEFINE T == {n \in Nat : n \notin S}
<1>1. SUFFICES ASSUME T # {}
               PROVE  FALSE
  OBVIOUS
<1> HIDE DEF T
<1>2. PICK x \in T : \A y \in T : x <= y
  BY <1>1, LeastExists DEF T
<1>3. x \in Nat /\ x # 0 /\ x \notin S
  BY <1>2 DEF T
<1>4. x - 1 \in Nat /\ x - 1 + 1 = x /\ ~(x <= x - 1)
  BY <1>3
<1>5. x - 1 \in S
  BY <1>2, <1>4 DEF T
<1> QED  BY <1>3, <1>4, <1>5

(* A function can be defined by recursion: a first value, and a step from  *)
(* each value to the next.                                                 *)
Iterates(f, base, n, step) ==
  /\ f[0] = base
  /\ \A i \in 1 .. n : f[i] = step[i][f[i - 1]]

Keeps(V, n, step) == \A i \in 1 .. n : \A v \in V : step[i][v] \in V

LEMMA Iterated ==
  ASSUME NEW V, NEW base \in V, NEW n \in Nat, NEW step, Keeps(V, n, step)
  PROVE  \E f \in [0 .. n -> V] : Iterates(f, base, n, step)
<1> DEFINE Good(m, f) == /\ f[0] = base
                         /\ \A i \in 1 .. m : f[i] = step[i][f[i - 1]]
           T == {m \in Nat : m <= n => \E f \in [0 .. m -> V] : Good(m, f)}
<1>1. 0 \in T
  <2> DEFINE f == [i \in 0 .. 0 |-> base]
  <2>1. f \in [0 .. 0 -> V] /\ Good(0, f)
    OBVIOUS
  <2> QED  BY <2>1
<1>2. ASSUME NEW m \in Nat, m \in T
      PROVE  m + 1 \in T
  <2>1. CASE m + 1 <= n
    <3>1. PICK f \in [0 .. m -> V] : Good(m, f)
      BY <1>2, <2>1
    <3>2. PICK v : v = step[m + 1][f[m]]
      OBVIOUS
    <3> DEFINE g == [i \in 0 .. m + 1 |-> IF i = m + 1 THEN v ELSE f[i]]
    <3>3. v \in V
      <4>1. m + 1 \in 1 .. n /\ m \in 0 .. m
        BY <2>1
      <4>2. f[m] \in V
        BY <4>1
      <4> QED  BY <3>2, <4>1, <4>2 DEF Keeps
    <3>4. g \in [0 .. m + 1 -> V]
      BY <3>3
    <3>5. g[m + 1] = v /\ \A i \in 0 .. m : g[i] = f[i]
      OBVIOUS
    <3> HIDE DEF g
    <3>6. g[0] = base
      BY <3>1, <3>5
    <3>7. ASSUME NEW i \in 1 .. m + 1
          PROVE  g[i] = step[i][g[i - 1]]
      <4>1. CASE i = m + 1
        <5>1. i - 1 = m /\ m \in 0 .. m
          BY <4>1
        <5> QED  BY <3>2, <3>5, <4>1, <5>1
      <4>2. CASE i # m + 1
        <5>1. i \in 1 .. m /\ i \in 0 .. m /\ i - 1 \in 0 .. m
          BY <4>2
        <5> QED  BY <3>1, <3>5, <5>1
      <4> QED  BY <4>1, <4>2
    <3>8. Good(m + 1, g)
      BY <3>6, <3>7
    <3>9. \E h \in [0 .. m + 1 -> V] : Good(m + 1, h)
      BY <3>4, <3>8
    <3>10. m + 1 \in Nat
      OBVIOUS
    <3> HIDE DEF Good
    <3> QED  BY <3>9, <3>10
  <2>2. CASE ~(m + 1 <= n)
    BY <2>2
  <2> QED  BY <2>1, <2>2
<1> HIDE DEF T
<1>3. n \in T
  BY <1>1, <1>2, Induction
<1>4. \E f \in [0 .. n -> V] : Good(n, f)
  <2> HIDE DEF Good
  <2>1. n <= n
    OBVIOUS
  <2> QED  BY <1>3, <2>1 DEF T
<1> QED  BY <1>4 DEF Iterates

(* The records of the branches, one branch's after another's.              *)
Records(ns, i) == [j \in 1 .. CaseCount(ns[i]) |-> [branch |-> i - 1, case |-> j - 1]]

LEMMA Filled ==
  ASSUME NEW S, NEW ns \in Seq(S), \A i \in DOMAIN ns : CaseCount(ns[i]) \in Nat,
         NEW n, n = Len(ns)
  PROVE  \E f : /\ f[0] = <<>>
                /\ \A i \in 1 .. n : f[i] = f[i - 1] \o Records(ns, i)
                /\ CaseRecords(ns) = f[n]
<1> DEFINE C == [branch : Nat, case : Nat]
           V == Seq(C)
           step == [i \in 1 .. n |-> [s \in V |-> s \o Records(ns, i)]]
<1>1. n \in Nat /\ DOMAIN ns = 1 .. n
  OBVIOUS
<1>2. ASSUME NEW i \in 1 .. n
      PROVE  Records(ns, i) \in V
  <2>1. PICK c \in Nat : c = CaseCount(ns[i])
    BY <1>1
  <2>2. \A j \in 1 .. c : [branch |-> i - 1, case |-> j - 1] \in C
    <3>1. i - 1 \in Nat
      BY <1>1
    <3>2. \A j \in 1 .. c : j - 1 \in Nat
      BY <2>1
    <3> QED  BY <3>1, <3>2
  <2> HIDE DEF C
  <2> QED  BY <2>1, <2>2 DEF Records
<1>3. \A i \in 1 .. n : \A s \in V : s \o Records(ns, i) \in V
  <2> HIDE DEF C
  <2> QED  BY <1>2
<1>4. <<>> \in V
  OBVIOUS
<1> HIDE DEF V
<1>5. Keeps(V, n, step)
  BY <1>3 DEF Keeps
<1>6. \A i \in 1 .. n : \A s \in V : step[i][s] = s \o Records(ns, i)
  OBVIOUS
<1> HIDE DEF step
<1>7. PICK f \in [0 .. n -> V] :
        /\ f[0] = <<>>
        /\ \A i \in 1 .. n : f[i] = step[i][f[i - 1]]
  <2>1. PICK base \in V : base = <<>>
    BY <1>4
  <2>2. n \in Nat
    BY <1>1
  <2>3. \E f \in [0 .. n -> V] : Iterates(f, base, n, step)
    BY <2>2, <1>5, Iterated
  <2> QED  BY <2>1, <2>3 DEF Iterates
<1>8. ASSUME NEW i \in 1 .. n
      PROVE  f[i] = f[i - 1] \o Records(ns, i)
  <2>1. i - 1 \in 0 .. n
    BY <1>1
  <2> QED  BY <1>6, <1>7, <2>1
<1> DEFINE Is(g) == g = [i \in 0 .. n |-> IF i = 0 THEN <<>> ELSE g[i - 1] \o Records(ns, i)]
           g == CHOOSE g : Is(g)
<1>9. Is(f)
  <2> DEFINE h == [i \in 0 .. n |-> IF i = 0 THEN <<>> ELSE f[i - 1] \o Records(ns, i)]
  <2>1. DOMAIN f = 0 .. n /\ f = [i \in 0 .. n |-> f[i]]
    BY <1>7
  <2>2. ASSUME NEW i \in 0 .. n
        PROVE  f[i] = IF i = 0 THEN <<>> ELSE f[i - 1] \o Records(ns, i)
    <3>1. i = 0 \/ i \in 1 .. n
      BY <1>1
    <3> QED  BY <1>7, <1>8, <3>1
  <2> QED  BY <2>1, <2>2
<1>10. Is(g)
  <2>1. \E x : Is(x)
    BY <1>9
  <2> HIDE DEF Is
  <2> QED  BY <2>1
<1>11. CaseRecords(ns) = g[n]
  BY DEF CaseRecords, Records
<1> HIDE DEF g
<1>12. g[0] = <<>> /\ \A i \in 1 .. n : g[i] = g[i - 1] \o Records(ns, i)
  <2>1. n \in Nat /\ 0 \in 0 .. n /\ \A i \in 1 .. n : i \in 0 .. n /\ i # 0
    BY <1>1
  <2> QED  BY <1>10, <2>1
<1> QED  BY <1>11, <1>12

(* Joined sequences hold what both held.                                   *)
LEMMA JoinedHolds ==
  ASSUME NEW S, NEW s \in Seq(S), NEW t \in Seq(S)
  PROVE  s \o t \in Seq(S) /\ ToSet(s \o t) = ToSet(s) \union ToSet(t)
<1>1. PICK m \in Nat, k \in Nat : m = Len(s) /\ k = Len(t)
  OBVIOUS
<1>2. PICK u : u = s \o t
  OBVIOUS
<1>3. /\ u \in Seq(S)
      /\ DOMAIN u = 1 .. m + k /\ DOMAIN s = 1 .. m /\ DOMAIN t = 1 .. k
      /\ \A i \in 1 .. m : u[i] = s[i]
      /\ \A i \in 1 .. m + k : i > m => u[i] = t[i - m]
  BY <1>1, <1>2
<1>4. ASSUME NEW i \in 1 .. m + k
      PROVE  u[i] \in ToSet(s) \union ToSet(t)
  <2>1. CASE i \in 1 .. m
    BY <1>3, <2>1 DEF ToSet
  <2>2. CASE i \notin 1 .. m
    <3>1. PICK j \in 1 .. k : j = i - m /\ i > m
      BY <2>2
    <3>2. u[i] = t[j]
      BY <1>3, <3>1
    <3> QED  BY <1>3, <3>2 DEF ToSet
  <2> QED  BY <2>1, <2>2
<1>5. ASSUME NEW i \in 1 .. m
      PROVE  s[i] \in ToSet(u)
  <2>1. i \in DOMAIN u
    BY <1>3
  <2>2. u[i] = s[i]
    BY <1>3
  <2> QED  BY <2>1, <2>2 DEF ToSet
<1>6. ASSUME NEW i \in 1 .. k
      PROVE  t[i] \in ToSet(u)
  <2>1. PICK j \in 1 .. m + k : j > m /\ j - m = i
    <3>1. m + i \in 1 .. m + k /\ m + i > m /\ m + i - m = i
      OBVIOUS
    <3> QED  BY <3>1
  <2>2. u[j] = t[i]
    BY <1>3, <2>1
  <2>3. j \in DOMAIN u
    BY <1>3
  <2> QED  BY <2>2, <2>3 DEF ToSet
<1>7. /\ \A x \in ToSet(s) : \E i \in 1 .. m : x = s[i]
      /\ \A x \in ToSet(t) : \E i \in 1 .. k : x = t[i]
      /\ \A x \in ToSet(u) : \E i \in 1 .. m + k : x = u[i]
  BY <1>3 DEF ToSet
<1>8. ToSet(u) = ToSet(s) \union ToSet(t)
  BY <1>4, <1>5, <1>6, <1>7
<1> QED  BY <1>2, <1>3, <1>8

(* What the records hold: each case of each branch, once it is known which. *)
LEMMA CaseRecordsAre ==
  ASSUME NEW S, NEW ns \in Seq(S), \A i \in DOMAIN ns : CaseCount(ns[i]) \in Nat,
         NEW c
  PROVE  c \in ToSet(CaseRecords(ns)) <=>
           \E i \in 1 .. Len(ns) : \E j \in 1 .. CaseCount(ns[i]) :
             c = [branch |-> i - 1, case |-> j - 1]
<1>1. PICK n \in Nat : n = Len(ns)
  OBVIOUS
<1>2. PICK f : /\ f[0] = <<>>
               /\ \A i \in 1 .. n : f[i] = f[i - 1] \o Records(ns, i)
               /\ CaseRecords(ns) = f[n]
  BY <1>1, Filled
<1> DEFINE C == [branch : Nat, case : Nat]
           Of(i) == \E j \in 1 .. CaseCount(ns[i]) : c = [branch |-> i - 1, case |-> j - 1]
           T == {m \in Nat : m <= n =>
                   /\ f[m] \in Seq(C)
                   /\ c \in ToSet(f[m]) <=> \E i \in 1 .. m : Of(i)}
<1>3. ASSUME NEW i \in 1 .. n
      PROVE  Records(ns, i) \in Seq(C) /\ (c \in ToSet(Records(ns, i)) <=> Of(i))
  <2>1. PICK k \in Nat : k = CaseCount(ns[i])
    BY <1>1
  <2>2. i - 1 \in Nat /\ \A j \in 1 .. k : j - 1 \in Nat
    BY <1>1, <2>1
  <2>3. \A j \in 1 .. k : [branch |-> i - 1, case |-> j - 1] \in C
    BY <2>2
  <2>4. Records(ns, i) = [j \in 1 .. k |-> [branch |-> i - 1, case |-> j - 1]]
    BY <2>1 DEF Records
  <2>5. Records(ns, i) \in Seq(C)
    <3> HIDE DEF C
    <3> QED  BY <2>1, <2>3, <2>4
  <2>6. ToSet(Records(ns, i)) = {[branch |-> i - 1, case |-> j - 1] : j \in 1 .. k}
    <3>1. PICK r : r = [j \in 1 .. k |-> [branch |-> i - 1, case |-> j - 1]]
      OBVIOUS
    <3>2. DOMAIN r = 1 .. k /\ \A j \in 1 .. k : r[j] = [branch |-> i - 1, case |-> j - 1]
      BY <3>1
    <3>3. ToSet(r) = {[branch |-> i - 1, case |-> j - 1] : j \in 1 .. k}
      BY <3>2 DEF ToSet
    <3> QED  BY <2>4, <3>1, <3>3
  <2>7. c \in ToSet(Records(ns, i)) <=> Of(i)
    BY <2>1, <2>6
  <2> QED  BY <2>5, <2>7
<1> HIDE DEF C, Of
<1>4. 0 \in T
  <2>1. f[0] \in Seq(C) /\ ToSet(f[0]) = {}
    BY <1>2 DEF ToSet
  <2>2. ~ \E i \in 1 .. 0 : Of(i)
    OBVIOUS
  <2> QED  BY <2>1, <2>2
<1>5. ASSUME NEW m \in Nat, m \in T
      PROVE  m + 1 \in T
  <2>1. CASE m + 1 <= n
    <3>1. m + 1 \in 1 .. n /\ m + 1 - 1 = m /\ m <= n
      BY <2>1
    <3>2. PICK k \in 1 .. n : k = m + 1 /\ k - 1 = m
      BY <3>1
    <3>3. f[k] = f[m] \o Records(ns, k)
      BY <1>2, <3>2
    <3>4. f[m] \in Seq(C) /\ (c \in ToSet(f[m]) <=> \E i \in 1 .. m : Of(i))
      BY <1>5, <3>1
    <3>5. Records(ns, k) \in Seq(C) /\ (c \in ToSet(Records(ns, k)) <=> Of(k))
      BY <1>3
    <3>6. f[k] \in Seq(C) /\ ToSet(f[k]) = ToSet(f[m]) \union ToSet(Records(ns, k))
      BY <3>3, <3>4, <3>5, JoinedHolds
    <3>7. (\E i \in 1 .. k : Of(i)) <=> (\E i \in 1 .. m : Of(i)) \/ Of(k)
      <4>1. \A i \in 1 .. k : i \in 1 .. m \/ i = k
        BY <3>2
      <4>2. k \in 1 .. k /\ \A i \in 1 .. m : i \in 1 .. k
        BY <3>2
      <4> QED  BY <4>1, <4>2
    <3>8. k \in Nat
      OBVIOUS
    <3>9. k \in T
      BY <3>4, <3>5, <3>6, <3>7, <3>8
    <3> QED  BY <3>2, <3>9
  <2>2. CASE ~(m + 1 <= n)
    BY <2>2
  <2> QED  BY <2>1, <2>2
<1> HIDE DEF T
<1>6. n \in T
  BY <1>1, <1>4, <1>5, Induction
<1>7. c \in ToSet(f[n]) <=> \E i \in 1 .. n : Of(i)
  BY <1>1, <1>6 DEF T
<1> QED  BY <1>1, <1>2, <1>7 DEF Of
-----------------------------------------------------------------------------
(* Stages have no cases, branches and fan-in branches at least one.        *)
Shaped ==
  \A i \in DOMAIN nodes :
    \/ nodes[i].kind = "stage" /\ nodes[i].cases = <<>>
    \/ /\ Branches(nodes[i])
       /\ nodes[i].cases \in Seq(Range(nodes[i].cases)) /\ nodes[i].cases # <<>>

(* Stage i is a branch; x is one of the places it is left from; e is an    *)
(* edge within it; i, and the next stage, are in the pipeline.             *)
IsBranch(i) == Branches(nodes[i + 1])
Leaves(x, i) ==
  IF IsBranch(i) THEN \E j \in 1 .. CaseCount(nodes[i + 1]) : x = CaseNode(i, j - 1)
                 ELSE x = StageNode(i)
Entered(i) == IF IsBranch(i) THEN BranchNode(i) ELSE StageNode(i)
Within(e, i) ==
  \E j \in 1 .. CaseCount(nodes[i + 1]) :
    \/ e = <<BranchNode(i), PredNode(i, j - 1)>>
    \/ e = <<PredNode(i, j - 1), CaseNode(i, j - 1)>>
Stages == 0 .. Len(nodes) - 1

(* How many cases a node has.                                              *)
LEMMA CaseCounts ==
  ASSUME Shaped, NEW i \in DOMAIN nodes
  PROVE  /\ CaseCount(nodes[i]) \in Nat
         /\ DOMAIN nodes[i].cases = 1 .. CaseCount(nodes[i])
         /\ CaseCount(nodes[i]) > 0 <=> Branches(nodes[i])
         /\ ~Branches(nodes[i]) => nodes[i].kind = "stage"
<1>1. CASE nodes[i].kind = "stage" /\ nodes[i].cases = <<>>
  BY <1>1 DEF CaseCount, Branches
<1>2. CASE /\ Branches(nodes[i])
           /\ nodes[i].cases \in Seq(Range(nodes[i].cases)) /\ nodes[i].cases # <<>>
  <2>1. CaseCount(nodes[i]) = Len(nodes[i].cases)
    BY <1>2 DEF CaseCount
  <2> QED  BY <1>2, <2>1
<1> QED  BY <1>1, <1>2 DEF Shaped

(* The records, stage by stage.                                            *)
LEMMA RecordsAre ==
  ASSUME nodes \in Seq(Range(nodes))
  PROVE  /\ Len(Graph.stages) = Len(nodes) /\ DOMAIN Graph.stages = 1 .. Len(nodes)
         /\ \A i \in 1 .. Len(nodes) : Graph.stages[i].topology = Topology(nodes[i])
         /\ Graph.edges = EdgeRecords(nodes)
         /\ Graph.cases = CaseRecords(nodes)
         /\ Graph.topology = OverallTopology(nodes)
<1>1. Len(nodes) \in Nat /\ DOMAIN nodes = 1 .. Len(nodes)
  OBVIOUS
<1>2. Graph.stages = [i \in 1 .. Len(nodes) |-> [index |-> i - 1, topology |-> Topology(nodes[i])]]
  BY <1>1 DEF Graph, Descriptor, StageRecords
<1> QED  BY <1>1, <1>2 DEF Graph, Descriptor

(* The parts of the graph that a stage becomes.                            *)
LEMMA PartsAre ==
  ASSUME nodes \in Seq(Range(nodes)), Shaped, NEW i \in Stages
  PROVE  /\ i \in Nat /\ i + 1 \in DOMAIN nodes
         /\ IsBranchStage(Graph, i) <=> IsBranch(i)
         /\ NodeOf(Graph, i) = Entered(i)
         /\ \A c \in CasesOf(Graph, i) : \E j \in 1 .. CaseCount(nodes[i + 1]) : c.case = j - 1
         /\ \A j \in 1 .. CaseCount(nodes[i + 1]) : \E c \in CasesOf(Graph, i) : c.case = j - 1
<1>1. PICK n \in Nat : n = Len(nodes)
  OBVIOUS
<1>2. PICK k \in 1 .. n : k = i + 1 /\ i = k - 1
  BY <1>1 DEF Stages
<1>3. i \in Nat /\ DOMAIN nodes = 1 .. n /\ i + 1 \in DOMAIN nodes
  BY <1>1, <1>2
<1>4. IsBranchStage(Graph, i) <=> IsBranch(i)
  <2>1. Graph.stages[k].topology = Topology(nodes[k])
    BY <1>1, RecordsAre
  <2> QED  BY <1>2, <2>1 DEF IsBranchStage, IsBranch, Topology, Branches
<1>5. ASSUME NEW c
      PROVE  c \in CasesOf(Graph, i) <=>
               \E j \in 1 .. CaseCount(nodes[k]) : c = [branch |-> i, case |-> j - 1]
  <2>1. c \in ToSet(CaseRecords(nodes)) <=>
          \E p \in 1 .. n : \E j \in 1 .. CaseCount(nodes[p]) :
            c = [branch |-> p - 1, case |-> j - 1]
    <3>1. \A p \in DOMAIN nodes : CaseCount(nodes[p]) \in Nat
      BY CaseCounts
    <3>2. c \in ToSet(CaseRecords(nodes)) <=>
            \E p \in 1 .. Len(nodes) : \E j \in 1 .. CaseCount(nodes[p]) :
              c = [branch |-> p - 1, case |-> j - 1]
      BY <3>1, CaseRecordsAre
    <3> QED  BY <1>1, <3>2
  <2>2. c \in CasesOf(Graph, i) <=> c \in ToSet(CaseRecords(nodes)) /\ c.branch = i
    BY RecordsAre DEF CasesOf
  <2>3. \A p \in 1 .. n : p - 1 = i <=> p = k
    BY <1>2
  <2>4. ASSUME c \in CasesOf(Graph, i)
        PROVE  \E j \in 1 .. CaseCount(nodes[k]) : c = [branch |-> i, case |-> j - 1]
    <3>1. c.branch = i
      BY <2>2, <2>4
    <3>2. PICK p \in 1 .. n : \E j \in 1 .. CaseCount(nodes[p]) : c = [branch |-> p - 1, case |-> j - 1]
      BY <2>1, <2>2, <2>4
    <3>3. p - 1 = i
      BY <3>1, <3>2
    <3> QED  BY <2>3, <3>2, <3>3
  <2>5. ASSUME NEW j \in 1 .. CaseCount(nodes[k]), c = [branch |-> i, case |-> j - 1]
        PROVE  c \in CasesOf(Graph, i)
    <3>1. c.branch = i
      BY <2>5
    <3>2. c \in ToSet(CaseRecords(nodes))
      BY <1>2, <2>1, <2>5
    <3> QED  BY <2>2, <3>1, <3>2
  <2> QED  BY <2>4, <2>5
<1>6. ASSUME NEW c \in CasesOf(Graph, i)
      PROVE  \E j \in 1 .. CaseCount(nodes[k]) : c.case = j - 1
  <2>1. PICK j \in 1 .. CaseCount(nodes[k]) : c = [branch |-> i, case |-> j - 1]
    BY <1>5
  <2> QED  BY <2>1
<1>7. ASSUME NEW j \in 1 .. CaseCount(nodes[k])
      PROVE  \E c \in CasesOf(Graph, i) : c.case = j - 1
  <2>1. PICK c : c = [branch |-> i, case |-> j - 1]
    OBVIOUS
  <2>2. c \in CasesOf(Graph, i)
    BY <1>5, <2>1
  <2> QED  BY <2>1, <2>2
<1>8. NodeOf(Graph, i) = Entered(i)
  BY <1>4 DEF NodeOf, Entered
<1> QED  BY <1>2, <1>3, <1>4, <1>6, <1>7, <1>8

(* What a stage is left from, and the edges within it.                     *)
LEMMA EndsAre ==
  ASSUME nodes \in Seq(Range(nodes)), Shaped, NEW i \in Stages
  PROVE  /\ \A x : x \in Exits(Graph, i) <=> Leaves(x, i)
         /\ \A e : e \in CaseEdges(Graph, i) <=> Within(e, i)
<1>1. PICK n : n = CaseCount(nodes[i + 1])
  OBVIOUS
<1>2. \A c \in CasesOf(Graph, i) : \E j \in 1 .. n : c.case = j - 1
  BY <1>1, PartsAre
<1>3. \A j \in 1 .. n : \E c \in CasesOf(Graph, i) : c.case = j - 1
  BY <1>1, PartsAre
<1>4. ASSUME NEW x
      PROVE  x \in Exits(Graph, i) <=> Leaves(x, i)
  <2>1. (\E c \in CasesOf(Graph, i) : x = CaseNode(i, c.case)) <=>
          \E j \in 1 .. n : x = CaseNode(i, j - 1)
    BY <1>2, <1>3
  <2>2. x \in Exits(Graph, i) <=> IF IsBranch(i) THEN \E c \in CasesOf(Graph, i) : x = CaseNode(i, c.case)
                                                 ELSE x = StageNode(i)
    BY PartsAre DEF Exits
  <2> QED  BY <1>1, <2>1, <2>2 DEF Leaves
<1>5. ASSUME NEW e
      PROVE  e \in CaseEdges(Graph, i) <=> Within(e, i)
  <2> DEFINE Part(v) == \/ e = <<BranchNode(i), PredNode(i, v)>>
                        \/ e = <<PredNode(i, v), CaseNode(i, v)>>
  <2>1. e \in CaseEdges(Graph, i) <=> \E c \in CasesOf(Graph, i) : Part(c.case)
    BY DEF CaseEdges
  <2>2. Within(e, i) <=> \E j \in 1 .. n : Part(j - 1)
    BY <1>1 DEF Within
  <2> HIDE DEF Part
  <2>3. (\E c \in CasesOf(Graph, i) : Part(c.case)) <=> \E j \in 1 .. n : Part(j - 1)
    BY <1>2, <1>3
  <2> QED  BY <2>1, <2>2, <2>3
<1> QED  BY <1>4, <1>5

(* A pipeline has a branch, in the records as in its nodes.                *)
LEMMA BranchedIs ==
  ASSUME nodes \in Seq(Range(nodes))
  PROVE  /\ HasBranch(Graph) <=> \E i \in DOMAIN nodes : Branches(nodes[i])
         /\ HasBranch(Graph) <=> Graph.topology # "linear"
<1>1. HasBranch(Graph) <=> \E i \in DOMAIN nodes : Topology(nodes[i]) # "linear"
  BY RecordsAre DEF HasBranch
<1>2. \A i \in DOMAIN nodes : Topology(nodes[i]) # "linear" <=> Branches(nodes[i])
  BY DEF Topology, Branches
<1>3. \A i \in DOMAIN nodes : Topology(nodes[i]) \in {"linear", "branch", "fan_in"}
  BY DEF Topology, Branches
<1>4. Graph.topology # "linear" <=> \E i \in DOMAIN nodes : Topology(nodes[i]) # "linear"
  BY <1>3, RecordsAre DEF OverallTopology
<1> QED  BY <1>1, <1>2, <1>4

(* The edges of the DOT graph.                                             *)
LEMMA DotEdgesAre ==
  ASSUME nodes \in Seq(Range(nodes)), Shaped, HasBranch(Graph), NEW e
  PROVE  e \in DotEdges(Graph) <=>
           \/ e = <<FromInput, Entered(0)>>
           \/ \E i \in Stages : IsBranch(i) /\ Within(e, i)
           \/ \E i \in Stages : i + 1 \in Stages /\ \E x : Leaves(x, i) /\ e = <<x, Entered(i + 1)>>
           \/ \E x : Leaves(x, Len(nodes) - 1) /\ e = <<x, ToOutput>>
<1>1. PICK n \in Nat : n = Len(nodes)
  OBVIOUS
<1>2. n > 0 /\ n = Len(Graph.stages)
  BY <1>1, BranchedIs, RecordsAre
<1>3. Stages = 0 .. n - 1 /\ 0 \in Stages /\ n - 1 \in Stages /\ n # 0
  BY <1>1, <1>2 DEF Stages
<1> DEFINE A == UNION {CaseEdges(Graph, i) : i \in {k \in 0 .. n - 1 : IsBranchStage(Graph, k)}}
           B == UNION {Exits(Graph, i) \X {NodeOf(Graph, i + 1)} : i \in {k \in 0 .. n - 1 : k + 1 < n}}
           C == Exits(Graph, n - 1) \X {ToOutput}
<1>4. DotEdges(Graph) = {<<FromInput, NodeOf(Graph, 0)>>} \union A \union B \union C
  BY <1>2 DEF DotEdges, BranchEdges
<1>5. e \in A <=> \E i \in Stages : IsBranch(i) /\ Within(e, i)
  BY <1>3, PartsAre, EndsAre
<1>6. e \in B <=> \E i \in Stages : i + 1 \in Stages /\ \E x : Leaves(x, i) /\ e = <<x, Entered(i + 1)>>
  <2>1. \A i \in 0 .. n - 1 : i + 1 < n <=> i + 1 \in Stages
    BY <1>3
  <2>2. ASSUME NEW i \in Stages, i + 1 \in Stages
        PROVE  e \in Exits(Graph, i) \X {NodeOf(Graph, i + 1)} <=>
                 \E x : Leaves(x, i) /\ e = <<x, Entered(i + 1)>>
    <3>1. NodeOf(Graph, i + 1) = Entered(i + 1)
      BY <2>2, PartsAre
    <3>2. \A x : x \in Exits(Graph, i) <=> Leaves(x, i)
      BY EndsAre
    <3> QED  BY <3>1, <3>2
  <2> QED  BY <1>3, <2>1, <2>2
<1>7. e \in C <=> \E x : Leaves(x, n - 1) /\ e = <<x, ToOutput>>
  <2>1. \A x : x \in Exits(Graph, n - 1) <=> Leaves(x, n - 1)
    BY <1>3, EndsAre
  <2> QED  BY <2>1
<1>8. NodeOf(Graph, 0) = Entered(0)
  BY <1>3, PartsAre
<1> HIDE DEF A, B, C
<1>9. e \in DotEdges(Graph) <=> e = <<FromInput, Entered(0)>> \/ e \in A \/ e \in B \/ e \in C
  BY <1>4, <1>8
<1> QED  BY <1>1, <1>5, <1>6, <1>7, <1>9, Zenon

(* The stage that an end of an edge is part of.                            *)
LEMMA EndsOf ==
  ASSUME NEW i, NEW x, Leaves(x, i)
  PROVE  StageOf(x) = i /\ x[1] # "from_input" /\ x # FromInput
BY DEF Leaves, StageOf, CaseNode, StageNode, FromInput

LEMMA EntriesOf ==
  ASSUME NEW i
  PROVE  /\ StageOf(Entered(i)) = i /\ Entered(i) # ToOutput
         /\ Entered(i)[1] \in {"stage", "branch"}
BY DEF Entered, StageOf, BranchNode, StageNode, ToOutput

(* The edges between stages are those from each to the next.               *)
NextStages == {<<i, i + 1>> : i \in {k \in Stages : k + 1 \in Stages}}

LEMMA Lists ==
  ASSUME nodes \in Seq(Range(nodes))
  PROVE  /\ ListedEdges(Graph) = NextStages /\ PlainDotEdges(nodes) = NextStages
         /\ LinearEdges(Graph) = {<<StageNode(i), StageNode(i + 1)>> : i \in {k \in Stages : k + 1 \in Stages}}
<1>1. PICK n \in Nat : n = Len(nodes)
  OBVIOUS
<1>2. PICK m \in Nat : m = EdgeCount(nodes)
  BY <1>1 DEF EdgeCount
<1> DEFINE K == {k \in Stages : k + 1 \in Stages}
<1>3. \A k \in K : \E i \in 1 .. m : k = i - 1 /\ k + 1 = i
  <2>1. ASSUME NEW k \in K
        PROVE  \E i \in 1 .. m : k = i - 1 /\ k + 1 = i
    <3>1. PICK i : i = k + 1
      OBVIOUS
    <3>2. i \in 1 .. m /\ k = i - 1
      BY <1>1, <1>2, <3>1 DEF Stages, EdgeCount
    <3> QED  BY <3>1, <3>2
  <2> QED  BY <2>1
<1>4. \A i \in 1 .. m : \E k \in K : k = i - 1 /\ k + 1 = i
  <2>1. ASSUME NEW i \in 1 .. m
        PROVE  i - 1 \in K /\ i - 1 + 1 = i
    BY <1>1, <1>2 DEF Stages, EdgeCount
  <2> QED  BY <2>1
<1>5. /\ Graph.edges = [i \in 1 .. m |-> [index |-> i - 1, from |-> i - 1, to |-> i]]
      /\ EdgeRecords(nodes) = [i \in 1 .. m |-> [index |-> i - 1, from |-> i - 1, to |-> i]]
  BY <1>2, RecordsAre DEF EdgeRecords
<1>6. ListedEdges(Graph) = {<<i - 1, i>> : i \in 1 .. m}
  BY <1>5 DEF ListedEdges
<1>7. PlainDotEdges(nodes) = {<<i - 1, i>> : i \in 1 .. m}
  BY <1>2, <1>5 DEF PlainDotEdges
<1>8. LinearEdges(Graph) = {<<StageNode(i - 1), StageNode(i)>> : i \in 1 .. m}
  <2>1. ToSet(Graph.edges) = {[index |-> i - 1, from |-> i - 1, to |-> i] : i \in 1 .. m}
    BY <1>5 DEF ToSet
  <2>2. \A r \in ToSet(Graph.edges) : \E i \in 1 .. m : r.from = i - 1 /\ r.to = i
    BY <2>1
  <2>3. \A i \in 1 .. m : \E r \in ToSet(Graph.edges) : r.from = i - 1 /\ r.to = i
    <3>1. ASSUME NEW i \in 1 .. m
          PROVE  \E r \in ToSet(Graph.edges) : r.from = i - 1 /\ r.to = i
      <4>1. PICK r : r = [index |-> i - 1, from |-> i - 1, to |-> i]
        OBVIOUS
      <4>2. r \in ToSet(Graph.edges)
        BY <2>1, <4>1
      <4> QED  BY <4>1, <4>2
    <3> QED  BY <3>1
  <2>4. LinearEdges(Graph) = {<<StageNode(r.from), StageNode(r.to)>> : r \in ToSet(Graph.edges)}
    BY DEF LinearEdges
  <2> QED  BY <2>2, <2>3, <2>4
<1> HIDE DEF K
<1>9. {<<i - 1, i>> : i \in 1 .. m} = {<<k, k + 1>> : k \in K}
  BY <1>3, <1>4
<1>10. {<<StageNode(i - 1), StageNode(i)>> : i \in 1 .. m} = {<<StageNode(k), StageNode(k + 1)>> : k \in K}
  BY <1>3, <1>4
<1>11. NextStages = {<<k, k + 1>> : k \in K}
  BY DEF NextStages, K
<1> QED  BY <1>6, <1>7, <1>8, <1>9, <1>10, <1>11 DEF K

(* Each stage is left from somewhere.                                      *)
LEMMA IsLeft ==
  ASSUME nodes \in Seq(Range(nodes)), Shaped, NEW i \in Stages
  PROVE  \E x : Leaves(x, i)
<1>1. i + 1 \in DOMAIN nodes
  BY PartsAre
<1>2. PICK n \in Nat : n = CaseCount(nodes[i + 1]) /\ (n > 0 <=> IsBranch(i))
  BY <1>1, CaseCounts DEF IsBranch
<1>3. CASE IsBranch(i)
  <2>1. 1 \in 1 .. n
    BY <1>2, <1>3
  <2> QED  BY <1>2, <1>3, <2>1 DEF Leaves
<1>4. CASE ~IsBranch(i)
  BY <1>4 DEF Leaves
<1> QED  BY <1>3, <1>4

(* Inside a branch, an edge ends in the branch it starts in.               *)
LEMMA WithinOf ==
  ASSUME NEW i, NEW e, Within(e, i)
  PROVE  /\ Inner(e) /\ StageOf(e[1]) = i /\ StageOf(e[2]) = i
         /\ e[2][1] \in {"pred", "case"}
<1>1. PICK j : \/ e = <<BranchNode(i), PredNode(i, j - 1)>>
               \/ e = <<PredNode(i, j - 1), CaseNode(i, j - 1)>>
  BY DEF Within
<1>2. /\ BranchNode(i) # FromInput /\ PredNode(i, j - 1) # FromInput
      /\ PredNode(i, j - 1) # ToOutput /\ CaseNode(i, j - 1) # ToOutput
  BY DEF BranchNode, PredNode, CaseNode, FromInput, ToOutput
<1>3. /\ StageOf(BranchNode(i)) = i /\ StageOf(PredNode(i, j - 1)) = i /\ StageOf(CaseNode(i, j - 1)) = i
      /\ PredNode(i, j - 1)[1] = "pred" /\ CaseNode(i, j - 1)[1] = "case"
  BY DEF StageOf, BranchNode, PredNode, CaseNode
<1>4. CASE e = <<BranchNode(i), PredNode(i, j - 1)>>
  <2>1. e[1] = BranchNode(i) /\ e[2] = PredNode(i, j - 1)
    BY <1>4
  <2> QED  BY <1>2, <1>3, <2>1 DEF Inner
<1>5. CASE e = <<PredNode(i, j - 1), CaseNode(i, j - 1)>>
  <2>1. e[1] = PredNode(i, j - 1) /\ e[2] = CaseNode(i, j - 1)
    BY <1>5
  <2> QED  BY <1>2, <1>3, <2>1 DEF Inner
<1> QED  BY <1>1, <1>4, <1>5

(* With the parts of each stage taken together, the DOT graph has an edge  *)
(* from each stage to the next, and no others.                             *)
LEMMA StagesLinked ==
  ASSUME nodes \in Seq(Range(nodes)), Shaped
  PROVE  StageEdges(Graph) = NextStages
<1>1. ASSUME NEW e \in DotEdges(Graph), Inner(e), StageOf(e[1]) # StageOf(e[2])
      PROVE  <<StageOf(e[1]), StageOf(e[2])>> \in NextStages
  <2>1. CASE HasBranch(Graph)
    <3>1. CASE e = <<FromInput, Entered(0)>>
      BY <1>1, <3>1 DEF Inner
    <3>2. CASE \E i \in Stages : IsBranch(i) /\ Within(e, i)
      BY <1>1, <3>2, WithinOf
    <3>3. CASE \E i \in Stages : i + 1 \in Stages /\ \E x : Leaves(x, i) /\ e = <<x, Entered(i + 1)>>
      <4>1. PICK i \in Stages : i + 1 \in Stages /\ \E x : Leaves(x, i) /\ e = <<x, Entered(i + 1)>>
        BY <3>3
      <4>2. PICK x : Leaves(x, i) /\ e = <<x, Entered(i + 1)>>
        BY <4>1
      <4>3. e[1] = x /\ e[2] = Entered(i + 1)
        BY <4>2
      <4>4. StageOf(e[1]) = i /\ StageOf(e[2]) = i + 1
        BY <4>2, <4>3, EndsOf, EntriesOf
      <4> QED  BY <4>1, <4>4 DEF NextStages
    <3>4. CASE \E x : Leaves(x, Len(nodes) - 1) /\ e = <<x, ToOutput>>
      BY <1>1, <3>4 DEF Inner
    <3> QED  BY <2>1, <3>1, <3>2, <3>3, <3>4, DotEdgesAre
  <2>2. CASE ~HasBranch(Graph)
    <3>1. PICK i \in Stages : i + 1 \in Stages /\ e = <<StageNode(i), StageNode(i + 1)>>
      BY <2>2, Lists DEF DotEdges
    <3>2. StageOf(e[1]) = i /\ StageOf(e[2]) = i + 1
      BY <3>1 DEF StageOf, StageNode
    <3> QED  BY <3>1, <3>2 DEF NextStages
  <2> QED  BY <2>1, <2>2
<1>2. ASSUME NEW i \in Stages, i + 1 \in Stages
      PROVE  \E e \in DotEdges(Graph) :
               /\ Inner(e) /\ StageOf(e[1]) # StageOf(e[2])
               /\ <<i, i + 1>> = <<StageOf(e[1]), StageOf(e[2])>>
  <2>1. i # i + 1
    BY PartsAre
  <2>2. CASE HasBranch(Graph)
    <3>1. PICK x : Leaves(x, i)
      BY IsLeft
    <3>2. PICK e : e = <<x, Entered(i + 1)>>
      OBVIOUS
    <3>3. e \in DotEdges(Graph)
      BY <1>2, <2>2, <3>1, <3>2, DotEdgesAre
    <3>4. Inner(e) /\ StageOf(e[1]) = i /\ StageOf(e[2]) = i + 1
      <4>1. e[1] = x /\ e[2] = Entered(i + 1)
        BY <3>2
      <4> QED  BY <3>1, <4>1, EndsOf, EntriesOf DEF Inner
    <3> QED  BY <2>1, <3>3, <3>4
  <2>3. CASE ~HasBranch(Graph)
    <3>1. PICK e : e = <<StageNode(i), StageNode(i + 1)>>
      OBVIOUS
    <3>2. e \in DotEdges(Graph)
      BY <1>2, <2>3, <3>1, Lists DEF DotEdges
    <3>3. Inner(e) /\ StageOf(e[1]) = i /\ StageOf(e[2]) = i + 1
      <4>1. e[1] = StageNode(i) /\ e[2] = StageNode(i + 1)
        BY <3>1
      <4>2. StageNode(i) # FromInput /\ StageNode(i + 1) # ToOutput
        BY DEF StageNode, FromInput, ToOutput
      <4> QED  BY <4>1, <4>2 DEF Inner, StageOf, StageNode
    <3> QED  BY <2>1, <3>2, <3>3
  <2> QED  BY <2>2, <2>3
<1>3. ASSUME NEW s \in StageEdges(Graph)
      PROVE  s \in NextStages
  <2>1. PICK e \in DotEdges(Graph) : /\ Inner(e) /\ StageOf(e[1]) # StageOf(e[2])
                                     /\ s = <<StageOf(e[1]), StageOf(e[2])>>
    BY DEF StageEdges
  <2> QED  BY <1>1, <2>1
<1>4. ASSUME NEW s \in NextStages
      PROVE  s \in StageEdges(Graph)
  <2>1. PICK i \in Stages : i + 1 \in Stages /\ s = <<i, i + 1>>
    BY DEF NextStages
  <2>2. PICK e \in DotEdges(Graph) : /\ Inner(e) /\ StageOf(e[1]) # StageOf(e[2])
                                     /\ s = <<StageOf(e[1]), StageOf(e[2])>>
    BY <1>2, <2>1
  <2> QED  BY <2>2 DEF StageEdges
<1> QED  BY <1>3, <1>4

(* Each branch has its own cases, in the lists and in the DOT graph.       *)
LEMMA CasesListed ==
  ASSUME nodes \in Seq(Range(nodes)), Shaped, NEW i \in DOMAIN nodes
  PROVE  ListedCases(Graph, i - 1) = {j - 1 : j \in DOMAIN nodes[i].cases}
<1>1. PICK n \in Nat : n = Len(nodes) /\ DOMAIN nodes = 1 .. n
  OBVIOUS
<1>2. PICK k \in Stages : k = i - 1 /\ i = k + 1
  BY <1>1 DEF Stages
<1>3. PICK m \in Nat : m = CaseCount(nodes[i]) /\ DOMAIN nodes[i].cases = 1 .. m /\ (m > 0 <=> IsBranch(k))
  BY <1>2, CaseCounts DEF IsBranch
<1>4. /\ \A c \in CasesOf(Graph, k) : \E j \in 1 .. m : c.case = j - 1
      /\ \A j \in 1 .. m : \E c \in CasesOf(Graph, k) : c.case = j - 1
  BY <1>2, <1>3, PartsAre
<1>5. {c.case : c \in CasesOf(Graph, k)} = {j - 1 : j \in 1 .. m}
  BY <1>4
<1>6. ListedCases(Graph, k) = IF IsBranch(k) THEN {c.case : c \in CasesOf(Graph, k)} ELSE {}
  BY PartsAre DEF ListedCases
<1>7. ListedCases(Graph, k) = {j - 1 : j \in 1 .. m}
  <2>1. CASE IsBranch(k)
    BY <1>5, <1>6, <2>1
  <2>2. CASE ~IsBranch(k)
    <3>1. m = 0
      BY <1>3, <2>2
    <3>2. {j - 1 : j \in 1 .. m} = {}
      BY <3>1
    <3> QED  BY <1>6, <2>2, <3>2
  <2> QED  BY <2>1, <2>2
<1> QED  BY <1>2, <1>3, <1>7

LEMMA CasesDrawn ==
  ASSUME nodes \in Seq(Range(nodes)), Shaped, HasBranch(Graph), NEW i \in DOMAIN nodes
  PROVE  DotCases(Graph, i - 1) = {j - 1 : j \in DOMAIN nodes[i].cases}
<1>1. PICK n \in Nat : n = Len(nodes) /\ DOMAIN nodes = 1 .. n
  OBVIOUS
<1>2. PICK k \in Stages : k = i - 1 /\ i = k + 1
  BY <1>1 DEF Stages
<1>3. PICK m \in Nat : m = CaseCount(nodes[i]) /\ DOMAIN nodes[i].cases = 1 .. m /\ (m > 0 <=> IsBranch(k))
  BY <1>2, CaseCounts DEF IsBranch
<1>4. ASSUME NEW e \in DotEdges(Graph), Inner(e), e[2][1] = "case", e[2][2] = k
      PROVE  \E j \in 1 .. m : e[2][3] = j - 1
  <2>1. CASE e = <<FromInput, Entered(0)>>
    BY <1>4, <2>1 DEF Inner
  <2>2. CASE \E p \in Stages : IsBranch(p) /\ Within(e, p)
    <3>1. PICK p \in Stages : Within(e, p)
      BY <2>2
    <3>2. p = k
      BY <1>4, <3>1, WithinOf DEF StageOf
    <3>3. PICK j \in 1 .. m : \/ e = <<BranchNode(k), PredNode(k, j - 1)>>
                              \/ e = <<PredNode(k, j - 1), CaseNode(k, j - 1)>>
      BY <1>2, <1>3, <3>1, <3>2 DEF Within
    <3>4. PredNode(k, j - 1)[1] = "pred" /\ CaseNode(k, j - 1)[3] = j - 1
      BY DEF PredNode, CaseNode
    <3>5. e[2] = PredNode(k, j - 1) \/ e[2] = CaseNode(k, j - 1)
      BY <3>3
    <3> QED  BY <1>4, <3>4, <3>5
  <2>3. CASE \E p \in Stages : p + 1 \in Stages /\ \E x : Leaves(x, p) /\ e = <<x, Entered(p + 1)>>
    <3>1. PICK p \in Stages : e[2] = Entered(p + 1)
      BY <2>3
    <3> QED  BY <1>4, <3>1, EntriesOf
  <2>4. CASE \E x : Leaves(x, Len(nodes) - 1) /\ e = <<x, ToOutput>>
    BY <1>4, <2>4 DEF Inner
  <2> QED  BY <2>1, <2>2, <2>3, <2>4, DotEdgesAre
<1>5. ASSUME NEW j \in 1 .. m
      PROVE  \E e \in DotEdges(Graph) : /\ Inner(e) /\ e[2][1] = "case" /\ e[2][2] = k
                                        /\ e[2][3] = j - 1
  <2>1. PICK e : e = <<PredNode(k, j - 1), CaseNode(k, j - 1)>>
    OBVIOUS
  <2>2. IsBranch(k)
    BY <1>3
  <2>3. Within(e, k)
    BY <1>2, <1>3, <2>1 DEF Within
  <2>4. e \in DotEdges(Graph)
    BY <2>2, <2>3, DotEdgesAre
  <2>5. e[2] = CaseNode(k, j - 1)
    BY <2>1
  <2>6. CaseNode(k, j - 1)[1] = "case" /\ CaseNode(k, j - 1)[2] = k /\ CaseNode(k, j - 1)[3] = j - 1
    BY DEF CaseNode
  <2> QED  BY <2>3, <2>4, <2>5, <2>6, WithinOf
<1>6. DotCases(Graph, k) = {j - 1 : j \in 1 .. m}
  BY <1>4, <1>5 DEF DotCases
<1> QED  BY <1>2, <1>3, <1>6

(* The exporters agree on what the builder makes.                          *)
LEMMA Agrees ==
  ASSUME Chained, Shaped
  PROVE  ExportsAgree
BY StagesLinked, Lists, BranchedIs, CasesListed, CasesDrawn DEF ExportsAgree, Chained

-----------------------------------------------------------------------------
(* An appended stage, and a branch with its cases, are as they should be.  *)
LEMMA ShapedAppend ==
  ASSUME nodes \in Seq(Range(nodes)), Shaped, NEW n, nodes' = Append(nodes, n),
         \/ n.kind = "stage" /\ n.cases = <<>>
         \/ Branches(n) /\ n.cases \in Seq(Range(n.cases)) /\ n.cases # <<>>
  PROVE  Shaped'
<1>1. PICK k \in Nat : k = Len(nodes) /\ DOMAIN nodes = 1 .. k
  OBVIOUS
<1>2. nodes \in Seq(Range(nodes) \union {n})
  OBVIOUS
<1>3. /\ DOMAIN nodes' = 1 .. k + 1 /\ nodes'[k + 1] = n
      /\ \A i \in 1 .. k : nodes'[i] = nodes[i]
  BY <1>1, <1>2
<1>4. \A i \in 1 .. k + 1 : i \in 1 .. k \/ i = k + 1
  BY <1>1
<1> QED  BY <1>1, <1>3, <1>4 DEF Shaped

LEMMA StageShape ==
  ASSUME NEW s \in StagesTried
  PROVE  s.kind = "stage" /\ s.cases = <<>>
BY DEF StagesTried, Stage

LEMMA ShapedStep ==
  ASSUME Chained, Shaped, BuilderNext \/ UNCHANGED builderVars
  PROVE  Shaped'
<1>1. ASSUME nodes' = nodes
      PROVE  Shaped'
  BY <1>1 DEF Shaped
<1>2. ASSUME NEW s \in StagesTried, Then(s) \/ Join(s)
      PROVE  Shaped'
  BY <1>2, StageShape, ShapedAppend DEF Then, Join, Chained
<1>3. ASSUME NEW n \in 1 .. MaxCases, NEW cs \in [1 .. n -> CasesTried], Branch(cs)
      PROVE  Shaped'
  <2>1. cs \in Seq(CasesTried) /\ cs # <<>> /\ nodes' = Append(nodes, SelectedBranch(cs))
    BY <1>3 DEF Branch
  <2>2. cs \in Seq(Range(cs))
    BY <2>1, OfItsElements
  <2>3. SelectedBranch(cs).kind = "branch" /\ SelectedBranch(cs).cases = cs
    BY DEF SelectedBranch
  <2> QED  BY <2>1, <2>2, <2>3, ShapedAppend DEF Chained, Branches
<1>4. ASSUME NEW s \in StagesTried, FanIn(s)
      PROVE  Shaped'
  <2> DEFINE cs == Last(nodes).cases
             b == FanInBranch(cs)
             other == [nodes EXCEPT ![Len(nodes)] = b]
  <2>1. PICK n \in Nat : n = Len(nodes) /\ DOMAIN nodes = 1 .. n
    BY DEF Chained
  <2>2. n >= 1 /\ Last(nodes) = nodes[n] /\ Last(nodes).kind = "branch" /\ nodes' = Append(other, s)
    BY <1>4, <2>1 DEF FanIn, AfterBranch, ReplaceAt, Last, Chained
  <2>3. b.kind = "fan_in" /\ b.cases = cs
    BY DEF FanInBranch
  <2>4. cs \in Seq(Range(cs)) /\ cs # <<>>
    BY <2>1, <2>2 DEF Chained, BranchFits
  <2> HIDE DEF b, cs
  <2>5. nodes \in Seq(Range(nodes) \union {b, s})
    BY DEF Chained
  <2>6. /\ other \in Seq(Range(nodes) \union {b, s}) /\ Len(other) = n
        /\ other[n] = b /\ \A i \in 1 .. n : i # n => other[i] = nodes[i]
    BY <2>1, <2>2, <2>5
  <2> HIDE DEF other
  <2>7. /\ DOMAIN nodes' = 1 .. n + 1 /\ nodes'[n + 1] = s
        /\ \A i \in 1 .. n : nodes'[i] = other[i]
    BY <2>1, <2>2, <2>5, <2>6
  <2>8. ASSUME NEW i \in DOMAIN nodes'
        PROVE  \/ nodes'[i].kind = "stage" /\ nodes'[i].cases = <<>>
               \/ /\ Branches(nodes'[i])
                  /\ nodes'[i].cases \in Seq(Range(nodes'[i].cases)) /\ nodes'[i].cases # <<>>
    <3>1. i = n + 1 \/ i = n \/ (i \in 1 .. n /\ i # n)
      BY <2>1, <2>7
    <3>2. CASE i = n + 1
      BY <2>7, <3>2, StageShape
    <3>3. CASE i = n
      <4>1. nodes'[i] = b
        BY <2>2, <2>6, <2>7, <3>3
      <4> QED  BY <2>3, <2>4, <4>1 DEF Branches
    <3>4. CASE i \in 1 .. n /\ i # n
      <4>1. nodes'[i] = nodes[i] /\ i \in DOMAIN nodes
        BY <2>1, <2>6, <2>7, <3>4
      <4> QED  BY <4>1 DEF Shaped
    <3> QED  BY <3>1, <3>2, <3>3, <3>4
  <2> QED  BY <2>8 DEF Shaped
<1>5. ASSUME NEW m, With(<<m>>)
      PROVE  Shaped'
  BY <1>1, <1>5 DEF With
<1>6. ASSUME NEW output, To(output)
      PROVE  Shaped'
  BY <1>1, <1>6 DEF To
<1>7. CASE UNCHANGED builderVars
  BY <1>1, <1>7 DEF builderVars
<1> QED  BY <1>2, <1>3, <1>4, <1>5, <1>6, <1>7 DEF BuilderNext

(* The shapes of the nodes in all reachable states.                        *)
THEOREM ShapeInvariance == Spec => []Shaped
<1>1. Init => Shaped
  BY DEF Init, BuilderInit, Shaped
<1>2. Chained /\ Shaped /\ [Next]_vars => Shaped'
  BY OnlyBuilds, ShapedStep
<1> QED  BY <1>1, <1>2, BuilderInvariance, PTL DEF Spec

(* The four exporters draw one graph of every pipeline the builder makes,  *)
(* of any length and with any number of cases.                             *)
THEOREM ExportersAgree == Spec => []ExportsAgree
<1>1. Chained /\ Shaped => ExportsAgree
  BY Agrees
<1> QED  BY <1>1, BuilderInvariance, ShapeInvariance, PTL

-----------------------------------------------------------------------------
(* Where a run is in the graph: it has come along its edges, and goes on   *)
(* from where the stage before is left.  Edges from the input and to the   *)
(* output are drawn only if there is a branch.                             *)
Shown(e) == HasBranch(Graph) \/ Inner(e)

Tracked ==
  /\ Compiled => finished
  /\ at # 0 =>
       /\ at \in 1 .. Len(nodes) + 1
       /\ exits \subseteq IF at = 1 THEN {FromInput} ELSE Exits(Graph, at - 2)
       /\ {e \in track : Shown(e)} \subseteq DotEdges(Graph)

(* The edge by which a stage is entered from the one before is drawn.      *)
LEMMA EntersDrawn ==
  ASSUME nodes \in Seq(Range(nodes)), Shaped, NEW i \in Stages, i + 1 \in Stages,
         NEW x, Leaves(x, i)
  PROVE  <<x, Entered(i + 1)>> \in DotEdges(Graph)
<1>1. CASE HasBranch(Graph)
  BY <1>1, DotEdgesAre
<1>2. CASE ~HasBranch(Graph)
  <2>1. ~IsBranch(i) /\ ~IsBranch(i + 1)
    BY <1>2, BranchedIs, PartsAre DEF IsBranch
  <2>2. x = StageNode(i) /\ Entered(i + 1) = StageNode(i + 1)
    BY <2>1 DEF Leaves, Entered
  <2> QED  BY <1>2, <2>2, Lists DEF DotEdges
<1> QED  BY <1>1, <1>2

(* A node that succeeds is entered, gone through and left along edges of   *)
(* the graph.                                                              *)
LEMMA PassTracks ==
  ASSUME nodes \in Seq(Range(nodes)), Shaped, Tracked,
         at # 0, at <= Len(nodes), NEW k, k = at - 1,
         NEW inside, NEW out, Pass(inside, out),
         \A e \in inside : IsBranch(k) /\ Within(e, k),
         \A x \in out : Leaves(x, k)
  PROVE  Tracked'
<1>1. PICK n \in Nat : n = Len(nodes) /\ DOMAIN nodes = 1 .. n
  OBVIOUS
<1>2. at \in 1 .. n + 1 /\ at <= n
  BY <1>1 DEF Tracked
<1>3. k \in Stages /\ at = k + 1
  BY <1>1, <1>2 DEF Stages
<1>4. Entry = Entered(k)
  BY <1>3 DEF Entry, Node, Entered, IsBranch
<1>5. ASSUME NEW x \in exits, Shown(<<x, Entered(k)>>)
      PROVE  <<x, Entered(k)>> \in DotEdges(Graph)
  <2>1. CASE at = 1
    <3>1. x = FromInput /\ k = 0
      BY <1>2, <1>3, <2>1 DEF Tracked
    <3>2. HasBranch(Graph)
      BY <1>5, <3>1 DEF Shown, Inner
    <3> QED  BY <3>1, <3>2, DotEdgesAre
  <2>2. CASE at # 1
    <3>1. PICK i : i = at - 2
      OBVIOUS
    <3>2. i \in Stages /\ i + 1 = k
      BY <1>1, <1>2, <1>3, <2>2, <3>1 DEF Stages
    <3>3. x \in Exits(Graph, i)
      BY <1>2, <2>2, <3>1 DEF Tracked
    <3>4. Leaves(x, i)
      BY <3>2, <3>3, EndsAre
    <3> QED  BY <1>3, <3>2, <3>4, EntersDrawn
  <2> QED  BY <2>1, <2>2
<1>6. ASSUME NEW e \in inside
      PROVE  e \in DotEdges(Graph)
  <2>1. IsBranch(k) /\ Within(e, k) /\ k + 1 \in DOMAIN nodes
    BY <1>3, PartsAre
  <2>2. HasBranch(Graph)
    BY <2>1, BranchedIs DEF IsBranch
  <2> QED  BY <1>3, <2>1, <2>2, DotEdgesAre
<1>7. /\ nodes' = nodes /\ finished' = finished /\ backend' = backend
      /\ at' = at + 1 /\ exits' = out
      /\ track' = track \union (exits \X {Entered(k)}) \union inside
  BY <1>4 DEF Pass, builderVars, engineVars
<1>8. Graph' = Graph
  BY <1>7 DEF Graph
<1>9. \A e : Shown(e)' <=> Shown(e)
  BY <1>8 DEF Shown
<1>10. at' \in 1 .. n + 1 /\ at' # 1 /\ at' - 2 = k
  BY <1>1, <1>2, <1>3, <1>7
<1>11. exits' \subseteq Exits(Graph', k)
  BY <1>3, <1>7, <1>8, EndsAre
<1>12. ASSUME NEW e \in track', Shown(e)
       PROVE  e \in DotEdges(Graph)
  <2>1. CASE e \in track
    BY <1>2, <1>12, <2>1 DEF Tracked
  <2>2. CASE e \in exits \X {Entered(k)}
    <3>1. PICK x \in exits : e = <<x, Entered(k)>>
      BY <2>2
    <3> QED  BY <1>5, <1>12, <3>1
  <2>3. CASE e \in inside
    BY <1>6, <2>3
  <2> QED  BY <1>7, <1>12, <2>1, <2>2, <2>3
<1>13. {e \in track' : Shown(e)'} \subseteq DotEdges(Graph')
  BY <1>8, <1>9, <1>12
<1>14. exits' \subseteq IF at' = 1 THEN {FromInput} ELSE Exits(Graph', at' - 2)
  BY <1>10, <1>11
<1>15. at' \in 1 .. Len(nodes') + 1
  BY <1>1, <1>7, <1>10
<1>16. Compiled' => finished'
  BY <1>7 DEF Tracked, Compiled
<1> QED  BY <1>13, <1>14, <1>15, <1>16 DEF Tracked

(* A stage, a selected branch and a fan-in branch are gone through so.     *)
LEMMA NodeTracks ==
  ASSUME nodes \in Seq(Range(nodes)), Shaped, Tracked,
         \/ RunStage
         \/ \E j \in 1 .. MaxCases : Running /\ at <= Len(nodes) /\ j <= CaseCount(Node) /\ RunBranch(j)
         \/ \E cs \in SUBSET (1 .. MaxCases) :
              Running /\ at <= Len(nodes) /\ (\A j \in cs : j <= CaseCount(Node)) /\ RunFanIn(cs)
  PROVE  Tracked'
<1>1. PICK n \in Nat : n = Len(nodes) /\ DOMAIN nodes = 1 .. n
  OBVIOUS
<1>2. at # 0 /\ at <= n /\ at \in 1 .. n + 1
  BY <1>1 DEF RunStage, RunBranch, RunFanIn, Running, Tracked
<1>3. PICK k \in Stages : k = at - 1 /\ k + 1 = at
  BY <1>1, <1>2 DEF Stages
<1>4. Node = nodes[k + 1] /\ (Branches(Node) <=> IsBranch(k))
  BY <1>3 DEF Node, IsBranch
<1>5. PICK m \in Nat : m = CaseCount(nodes[k + 1])
  BY <1>1, <1>2, <1>3, CaseCounts
<1>6. CASE RunStage
  <2>1. ~IsBranch(k) /\ Entry = StageNode(k) /\ Pass({}, {Entry})
    BY <1>3, <1>4, <1>6 DEF RunStage, Branches, Entry
  <2>2. \A x \in {Entry} : Leaves(x, k)
    BY <2>1 DEF Leaves
  <2> QED  BY <1>1, <1>2, <1>3, <2>1, <2>2, PassTracks
<1>7. ASSUME IsBranch(k)
      PROVE  Entry = BranchNode(k)
  BY <1>3, <1>4, <1>7 DEF Entry
<1>8. ASSUME IsBranch(k), NEW j \in 1 .. m
      PROVE  /\ Within(<<Entry, PredNode(at - 1, j - 1)>>, k)
             /\ Within(<<PredNode(at - 1, j - 1), CaseNode(at - 1, j - 1)>>, k)
             /\ Leaves(CaseNode(at - 1, j - 1), k)
  BY <1>3, <1>5, <1>7, <1>8 DEF Within, Leaves
<1>9. ASSUME NEW j \in 1 .. MaxCases, j <= CaseCount(Node), RunBranch(j)
      PROVE  Tracked'
  <2> DEFINE inside == Tested(1 .. j) \union Taken({j})
             out == {CaseNode(at - 1, j - 1)}
  <2>1. IsBranch(k) /\ Pass(inside, out)
    BY <1>4, <1>9 DEF RunBranch, Branches
  <2>2. j \in 1 .. m /\ \A i \in 1 .. j : i \in 1 .. m
    BY <1>4, <1>5, <1>9
  <2>3. \A e \in inside : IsBranch(k) /\ Within(e, k)
    BY <1>8, <2>1, <2>2 DEF Tested, Taken
  <2>4. \A x \in out : Leaves(x, k)
    BY <1>8, <2>1, <2>2
  <2> HIDE DEF inside, out
  <2> QED  BY <1>1, <1>2, <1>3, <2>1, <2>3, <2>4, PassTracks
<1>10. ASSUME NEW cs \in SUBSET (1 .. MaxCases), \A j \in cs : j <= CaseCount(Node), RunFanIn(cs)
       PROVE  Tracked'
  <2> DEFINE inside == Tested(1 .. Len(Node.cases)) \union Taken(cs)
             out == {CaseNode(at - 1, j - 1) : j \in cs}
  <2>1. IsBranch(k) /\ Pass(inside, out)
    BY <1>4, <1>10 DEF RunFanIn, Branches
  <2>2. Len(Node.cases) = m
    BY <1>4, <1>5, <2>1 DEF CaseCount, IsBranch
  <2>3. \A j \in cs : j \in 1 .. m
    BY <1>4, <1>5, <1>10
  <2>4. \A e \in inside : IsBranch(k) /\ Within(e, k)
    BY <1>8, <2>1, <2>2, <2>3 DEF Tested, Taken
  <2>5. \A x \in out : Leaves(x, k)
    BY <1>8, <2>1, <2>3
  <2> HIDE DEF inside, out
  <2> QED  BY <1>1, <1>2, <1>3, <2>1, <2>4, <2>5, PassTracks
<1> QED  BY <1>6, <1>9, <1>10

(* Only a node that succeeds moves the run on; nodes are added only before *)
(* there is an engine.                                                     *)
LEMMA TrackedStep ==
  ASSUME nodes \in Seq(Range(nodes)), Shaped, Phases, Tracked, [Next]_vars
  PROVE  Tracked'
<1>1. ASSUME UNCHANGED <<nodes, finished, backend, at, exits, track>>
      PROVE  Tracked'
  <2>1. Graph' = Graph
    BY <1>1 DEF Graph
  <2> QED  BY <1>1, <2>1 DEF Tracked, Shown, Compiled
<1>2. ASSUME at' = 0, Compiled' => finished'
      PROVE  Tracked'
  BY <1>2 DEF Tracked
<1>3. CASE UNCHANGED vars
  BY <1>1, <1>3 DEF vars, builderVars, engineVars, callVars
<1>4. CASE Build
  <2>1. ~finished
    BY <1>4 DEF Build, BuilderNext, Then, Join, FanIn, Branch, With, To, Building
  <2>2. ~Compiled /\ at = 0
    BY <2>1 DEF Tracked, Phases
  <2> QED  BY <1>2, <1>4, <2>2 DEF Build, Compiled, engineVars, callVars
<1>5. ASSUME NEW b, NEW r, Compile(b, r)
      PROVE  Tracked'
  <2>1. at = 0 /\ finished
    BY <1>5 DEF Compile, Phases
  <2> QED  BY <1>2, <1>5, <2>1 DEF Compile, builderVars, callVars
<1>6. ASSUME NEW w, Wrap(w)
      PROVE  Tracked'
  BY <1>1, <1>6 DEF Wrap, builderVars, callVars
<1>7. ASSUME NEW o, SetObserver(o)
      PROVE  Tracked'
  BY <1>1, <1>7 DEF SetObserver, builderVars, callVars
<1>8. ASSUME NEW op, NEW n, Call(op, n)
      PROVE  Tracked'
  BY <1>1, <1>8 DEF Call, builderVars, engineVars
<1>9. CASE Descend \/ BatchDone \/ Return
  BY <1>1, <1>9 DEF Descend, BatchDone, Return, builderVars, engineVars
<1>10. CASE BeginRun
  <2>1. /\ UNCHANGED <<nodes, finished, backend>>
        /\ at' = 1 /\ exits' = {FromInput} /\ track' = {}
    BY <1>10 DEF BeginRun, builderVars, engineVars
  <2>2. 1 \in 1 .. Len(nodes) + 1
    OBVIOUS
  <2> QED  BY <2>1, <2>2 DEF Tracked, Compiled
<1>11. ASSUME NEW o, EndRun(o)
       PROVE  Tracked'
  BY <1>2, <1>11 DEF EndRun, Tracked, Compiled, builderVars, engineVars
<1>12. CASE Answer
  BY <1>2, <1>12 DEF Answer, Tracked, Compiled, builderVars, engineVars
<1> QED  BY <1>3, <1>4, <1>5, <1>6, <1>7, <1>8, <1>9, <1>10, <1>11, <1>12,
            RunEnds, NodeTracks DEF Next, Run

(* A run's place in the graph in all reachable states.                     *)
THEOREM TrackInvariance == Spec => []Tracked
<1>1. Init => Tracked
  BY DEF Init, IdleCall, BuilderInit, Tracked, Compiled
<1>2. IInv /\ Chained /\ Shaped /\ Tracked /\ [Next]_vars => Tracked'
  BY TrackedStep DEF IInv, Chained
<1> QED  BY <1>1, <1>2, Invariance, BuilderInvariance, ShapeInvariance, PTL DEF Spec

(* A track that has come to the end leaves for the output.                 *)
LEMMA Follows ==
  ASSUME nodes \in Seq(Range(nodes)), Shaped, Tracked
  PROVE  TrackFollowsGraph
<1> DEFINE ends == IF at = Len(nodes) + 1 THEN exits \X {ToOutput} ELSE {}
<1>1. ASSUME at # 0, NEW e \in track, Shown(e)
      PROVE  e \in DotEdges(Graph)
  BY <1>1 DEF Tracked
<1>2. ASSUME at # 0, NEW e \in ends, Shown(e)
      PROVE  e \in DotEdges(Graph)
  <2>1. PICK x \in exits : at = Len(nodes) + 1 /\ e = <<x, ToOutput>>
    BY <1>2
  <2>2. HasBranch(Graph)
    BY <1>2, <2>1 DEF Shown, Inner
  <2>3. PICK n \in Nat : n = Len(nodes) /\ n > 0
    BY <2>2, BranchedIs
  <2>4. PICK i : i = n - 1 /\ i = at - 2 /\ at # 1
    BY <2>1, <2>3
  <2>5. i \in Stages
    BY <2>3, <2>4 DEF Stages
  <2>6. Leaves(x, i)
    BY <1>2, <2>4, <2>5, EndsAre DEF Tracked
  <2> QED  BY <2>1, <2>2, <2>3, <2>4, <2>6, DotEdgesAre
<1> HIDE DEF ends
<1>3. TrackFollowsGraph <=>
        (at # 0 => {e \in track \union ends : HasBranch(Graph) \/ Inner(e)} \subseteq DotEdges(Graph))
  BY DEF TrackFollowsGraph, ends
<1> QED  BY <1>1, <1>2, <1>3 DEF Shown

(* Every run walks along the edges the exporters draw, from the input to   *)
(* the output, through the predicates it tests and the cases it takes.     *)
THEOREM TracksFollow == Spec => []TrackFollowsGraph
<1>1. Chained /\ Shaped /\ Tracked => TrackFollowsGraph
  BY Follows DEF Chained
<1> QED  BY <1>1, BuilderInvariance, ShapeInvariance, TrackInvariance, PTL
=============================================================================
