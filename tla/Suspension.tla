----------------------------- MODULE Suspension -----------------------------
(***************************************************************************)
(* ComputerSuspensionModel of the desktop app                              *)
(* (CodeBridgeComputerSpike/SuspensionModel.swift): who controls the       *)
(* computer, which frames input may cite, and what a suspension does to    *)
(* the queue of input.  Frames are captured beside it and reported later,  *)
(* perhaps after what they show has changed.                               *)
(***************************************************************************)
EXTENDS Integers, FiniteSets, Sequences

CONSTANTS Reasons,            \* what suspends a session
          HumanReasons,       \* the ones that are isHumanOriginated
          maxFrameAge,
          MaxFrames,          \* bound: frames that are captured
          MaxQueue,           \* bound: actions in the queue
          MaxStops,           \* bound: suspensions
          MaxControls,        \* bound: times the agent gets control
          MaxTime             \* bound: how long time goes on

ASSUME SuspensionAssumption == HumanReasons \subseteq Reasons

VARIABLES session,   \* "starting", "active", "suspended" or "closed"
          controller, controllerEpoch, geometryGeneration,
          frames,    \* the frames that were recorded; a frame is its stamp
          taken,     \* captured: stamps that are recorded or on their way
          queuedActions,
          humanHold,
          now,
          stops,     \* suspensions so far
          stopped,   \* a human stopped the session, and none resumed it
          ran        \* of the actions that were executed: when they were queued, when the
                     \* frame was captured, when they ran, and whether a human had stopped it

suspensionVars == <<session, controller, controllerEpoch, geometryGeneration, frames, taken,
                    queuedActions, humanHold, now, stops, stopped, ran>>
framesVars == <<frames, taken>>
controlVars == <<controller, controllerEpoch, geometryGeneration>>
historyOfStops == <<stops, stopped>>

\* The capture engine stamps a frame with what is so when it is captured; one of an
\* arbiter that was restarted since has another instance (mine is FALSE).
Capture ==
  /\ Cardinality(taken) < MaxFrames
  /\ \E mine \in BOOLEAN :
       taken' = taken \cup {[mine |-> mine, controllerEpoch |-> controllerEpoch,
                             geometryGeneration |-> geometryGeneration, capturedAt |-> now, span |-> stops]}
  /\ UNCHANGED <<session, controlVars, frames, queuedActions, humanHold, now, historyOfStops, ran>>

validate(fs, f, at) ==
  /\ f \in fs /\ f.mine
  /\ f.controllerEpoch = controllerEpoch
  /\ f.geometryGeneration = geometryGeneration
  /\ at - f.capturedAt <= maxFrameAge

\* What is recorded when a frame is reported; it is validated as of its capture.
Recorded(f) == IF session = "closed" THEN frames ELSE frames \cup {f}
GoodFrame(f) == session # "closed" /\ validate(Recorded(f), f, f.capturedAt)

recordFrame ==
  /\ \E f \in taken : frames' = Recorded(f)
  /\ UNCHANGED <<session, controlVars, taken, queuedActions, humanHold, now, historyOfStops, ran>>

\* A session is opened, or opened again.
activate ==
  /\ \E f \in taken :
       /\ frames' = Recorded(f)
       /\ IF GoodFrame(f)
          THEN /\ session' = "active" /\ controller' = "none" /\ humanHold' = FALSE /\ stopped' = FALSE
          ELSE UNCHANGED <<session, controller, humanHold, stopped>>
  /\ UNCHANGED <<controllerEpoch, geometryGeneration, taken, queuedActions, now, stops, ran>>

acquireAgentControl ==
  /\ controllerEpoch < MaxStops + MaxControls
  /\ session = "active" /\ ~humanHold
  /\ \E f \in frames : validate(frames, f, now)
  /\ controllerEpoch' = controllerEpoch + 1 /\ controller' = "agent"
  /\ UNCHANGED <<session, geometryGeneration, framesVars, queuedActions, humanHold, now, historyOfStops, ran>>

MayInput == session = "active" /\ controller = "agent" /\ ~humanHold

enqueue ==
  /\ MayInput /\ Len(queuedActions) < MaxQueue
  /\ \E f \in frames : validate(frames, f, now)
  /\ queuedActions' = Append(queuedActions, stops)
  /\ UNCHANGED <<session, controlVars, framesVars, humanHold, now, historyOfStops, ran>>

\* The queue is handed out for execution, under a frame that is cited again; if
\* input is not allowed, or the frame cited is unknown or not valid, it is discarded.
drainForExecution ==
  /\ queuedActions # <<>> /\ queuedActions' = <<>>
  /\ \/ /\ MayInput
        /\ \E f \in frames :
             /\ validate(frames, f, now)
             /\ ran' = ran \cup {[queued |-> queuedActions[i], seen |-> f.span, at |-> stops, held |-> stopped]
                                 : i \in 1..Len(queuedActions)}
     \/ UNCHANGED ran
  /\ UNCHANGED <<session, controlVars, framesVars, humanHold, now, historyOfStops>>

\* Mutant: the queue is left for later.
suspend_KeepsQueue(reason) ==
  /\ stops < MaxStops /\ stops' = stops + 1
  /\ UNCHANGED queuedActions /\ frames' = {}
  /\ controller' = "none" /\ controllerEpoch' = controllerEpoch + 1
  /\ geometryGeneration' = geometryGeneration + 1
  /\ humanHold' = (humanHold \/ reason \in HumanReasons \/ controller = "human")
  /\ stopped' = (stopped \/ reason \in HumanReasons)
  /\ session' = IF session = "closed" THEN "closed" ELSE "suspended"
  /\ UNCHANGED <<taken, now, ran>>
suspend(reason) ==
  /\ stops < MaxStops /\ stops' = stops + 1
  /\ queuedActions' = <<>> /\ frames' = {}
  /\ controller' = "none" /\ controllerEpoch' = controllerEpoch + 1
  /\ geometryGeneration' = geometryGeneration + 1
  /\ humanHold' = (humanHold \/ reason \in HumanReasons \/ controller = "human")
  /\ stopped' = (stopped \/ reason \in HumanReasons)
  /\ session' = IF session = "closed" THEN "closed" ELSE "suspended"
  /\ UNCHANGED <<taken, now, ran>>

resumeAfterFreshObservation(humanActor) ==
  /\ session = "suspended" /\ (humanHold => humanActor)
  /\ \E f \in taken :
       /\ frames' = Recorded(f)
       /\ IF GoodFrame(f)
          THEN session' = "active" /\ humanHold' = (humanHold /\ ~humanActor)
          ELSE UNCHANGED <<session, humanHold>>
  /\ stopped' = (stopped /\ ~(humanActor /\ session' = "active"))
  /\ UNCHANGED <<controlVars, taken, queuedActions, now, stops, ran>>

close ==
  /\ session # "closed" /\ session' = "closed"
  /\ queuedActions' = <<>> /\ controller' = "none"
  /\ UNCHANGED <<controllerEpoch, geometryGeneration, framesVars, humanHold, now, historyOfStops, ran>>

FramesAge ==
  /\ now < MaxTime /\ now' = now + 1
  /\ UNCHANGED <<session, controlVars, framesVars, queuedActions, humanHold, historyOfStops, ran>>

-----------------------------------------------------------------------------
SuspensionInit ==
  /\ session = "starting" /\ controller = "none" /\ controllerEpoch = 0 /\ geometryGeneration = 1
  /\ frames = {} /\ taken = {} /\ queuedActions = <<>> /\ humanHold = FALSE /\ now = 0
  /\ stops = 0 /\ stopped = FALSE /\ ran = {}
SuspensionNext ==
  \/ Capture \/ recordFrame \/ activate \/ acquireAgentControl \/ enqueue \/ drainForExecution
  \/ \E reason \in Reasons : suspend(reason)
  \/ \E humanActor \in BOOLEAN : resumeAfterFreshObservation(humanActor)
  \/ close \/ FramesAge

-----------------------------------------------------------------------------
(* Properties *)

\* Input that was queued before a suspension is never executed after it (the question
\* that SuspensionModel.swift:5 asks), whoever resumes the session and however often.
NoReplay == \A x \in ran : x.queued = x.at

\* Input is executed only under a frame that was captured since the last suspension,
\* also when frames from before are reported late.
FreshObservation == \A x \in ran : x.seen = x.at

\* Once a human has stopped the session, by the emergency stop or by touching the
\* machine, no input is executed until a human resumes it or it is opened again.
HumanReleases == \A x \in ran : ~x.held
=============================================================================
