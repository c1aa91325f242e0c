--------------------------- MODULE PINPromptProofs ---------------------------
(***************************************************************************)
(* What the PIN prompt promises, for every promptTimeout and any number of *)
(* validating goroutines.                                                  *)
(***************************************************************************)
EXTENDS PINPrompt, TLAPS

Callbacks == Answers \cup {"quit"}

\* The results of validate among the queued callbacks.
Holds(queue, callback) == \E i \in 1..Len(queue) : queue[i] = callback
Pending(queue) == \E i \in 1..Len(queue) : queue[i] # "quit"
Single(queue) ==
  \A i, j \in 1..Len(queue) : queue[i] # "quit" /\ queue[j] # "quit" => i = j

\* A result has been shown that is not one to try again after.
Decided == success \/ omnibox \/ validationErr

\* There is one attempt at a time: the entry takes input, or one goroutine validates, or
\* its result is queued, or it has been shown.
OneAttempt ==
  /\ sensitive => (\A v \in Validators : validator[v] = Off) /\ ~Pending(idle) /\ ~Decided
  /\ \A v \in Validators : validator[v] # Off => ~Pending(idle) /\ ~Decided
  /\ \A v, w \in Validators : validator[v] # Off /\ validator[w] # Off => v = w
  /\ Single(idle)
  /\ Pending(idle) => ~Decided

\* A success on its way is one that validate returned.
Accepted ==
  /\ \A v \in Validators : validator[v].answer = "success" => accepted # "no"
  /\ Holds(idle, "success") => accepted # "no"
  /\ success \/ omnibox => accepted # "no" /\ ~validationErr

\* The accepted PIN has closed doneCh, which the timer goroutine will see.
Kept ==
  embedded /\ accepted = "in_time" /\ (\A v \in Validators : validator[v].at # "closing")
    => doneCh /\ watch \notin {"closing", "quitting"}

\* A timer that runs was armed no earlier than the last submission allows.
TimerOK == watch = "parked" => left + idleFor >= Timeout

IInv == TypeOK /\ OneAttempt /\ Accepted /\ Kept /\ TimerOK

-----------------------------------------------------------------------------
\* The callback queue.

LEMMA QueueAppend ==
  ASSUME NEW queue \in Seq(Callbacks), NEW callback \in Callbacks,
         NEW after, after = Append(queue, callback)
  PROVE  /\ after \in Seq(Callbacks)
         /\ Pending(after) => Pending(queue) \/ callback # "quit"
         /\ Single(queue) /\ (~Pending(queue) \/ callback = "quit") => Single(after)
         /\ Holds(after, "success") => Holds(queue, "success") \/ callback = "success"
<1>1. /\ after \in Seq(Callbacks) /\ Len(after) = Len(queue) + 1 /\ Len(queue) \in Nat
      /\ \A i \in 1..Len(queue) : after[i] = queue[i]
      /\ after[Len(queue) + 1] = callback
  OBVIOUS
<1>2. \A i \in 1..Len(after) : i \in 1..Len(queue) \/ i = Len(queue) + 1
  BY <1>1
<1> QED
  BY <1>1, <1>2 DEF Pending, Single, Holds

LEMMA QueueTail ==
  ASSUME NEW queue \in Seq(Callbacks), queue # <<>>,
         NEW after, after = Tail(queue)
  PROVE  /\ after \in Seq(Callbacks) /\ Head(queue) \in Callbacks
         /\ Pending(after) => Pending(queue)
         /\ Single(queue) => Single(after)
         /\ Single(queue) /\ Head(queue) # "quit" => ~Pending(after)
         /\ Head(queue) # "quit" => Pending(queue)
         /\ Holds(after, "success") => Holds(queue, "success")
         /\ Head(queue) = "success" => Holds(queue, "success")
<1>1. /\ after \in Seq(Callbacks) /\ Len(after) = Len(queue) - 1 /\ Len(queue) \in Nat \ {0}
      /\ \A i \in 1..Len(after) : after[i] = queue[i + 1]
      /\ Head(queue) = queue[1] /\ Head(queue) \in Callbacks
  OBVIOUS
<1>2. 1 \in 1..Len(queue) /\ \A i \in 1..Len(after) : i + 1 \in 1..Len(queue) /\ i + 1 # 1
  BY <1>1
<1>3. Pending(after) => Pending(queue)
  BY <1>1, <1>2 DEF Pending
<1>4. Single(queue) => Single(after)
  <2> SUFFICES ASSUME Single(queue), NEW i \in 1..Len(after), NEW j \in 1..Len(after),
                      after[i] # "quit", after[j] # "quit"
               PROVE  i = j
    BY DEF Single
  <2>1. i + 1 = j + 1
    BY <1>1, <1>2 DEF Single
  <2> QED
    BY <2>1, <1>1
<1>5. Single(queue) /\ Head(queue) # "quit" => ~Pending(after)
  BY <1>1, <1>2 DEF Pending, Single
<1> QED
  BY <1>1, <1>2, <1>3, <1>4, <1>5 DEF Pending, Holds

-----------------------------------------------------------------------------
\* The validating goroutines.

Slots == [at : {"off", "asking", "closing", "queueing"}, answer : Answers]

LEMMA SlotSet ==
  ASSUME validator \in [Validators -> Slots], NEW v \in Validators, NEW slot \in Slots,
         validator' = [validator EXCEPT ![v] = slot]
  PROVE  /\ validator' \in [Validators -> Slots]
         /\ validator'[v] = slot
         /\ \A w \in Validators : w # v => validator'[w] = validator[w]
OBVIOUS

LEMMA Submitted ==
  ASSUME TypeOK, NEW v \in Validators, Submit(v)
  PROVE  /\ validator' \in [Validators -> Slots]
         /\ validator'[v].at = "asking" /\ validator'[v].answer = "retry"
         /\ \A w \in Validators : w # v => validator'[w] = validator[w]
<1>1. validator \in [Validators -> Slots] /\ validator[v] = Off
  BY DEF TypeOK, Slots, Submit
<1>2. [Off EXCEPT !.at = "asking"] = [at |-> "asking", answer |-> "retry"]
  BY DEF Off
<1>3. validator' = [validator EXCEPT ![v] = [at |-> "asking", answer |-> "retry"]]
  BY <1>1, <1>2 DEF Submit
<1>4. [at |-> "asking", answer |-> "retry"] \in Slots
  BY DEF Slots, Answers
<1> QED
  BY <1>1, <1>3, <1>4, SlotSet

LEMMA Answered ==
  ASSUME TypeOK, NEW v \in Validators, Validated(v)
  PROVE  /\ validator' \in [Validators -> Slots]
         /\ validator'[v].at = IF embedded /\ validator'[v].answer # "retry" THEN "closing"
                                                                          ELSE "queueing"
         /\ accepted' = IF validator'[v].answer = "success" THEN "in_time" ELSE accepted
         /\ \A w \in Validators : w # v => validator'[w] = validator[w]
<1> DEFINE slot(a) == [at |-> IF embedded /\ a # "retry" THEN "closing" ELSE "queueing",
                       answer |-> a]
<1>1. PICK a \in Answers :
        /\ validator' = [validator EXCEPT ![v] = slot(a)]
        /\ accepted' = IF a = "success" THEN "in_time" ELSE accepted
  BY DEF Validated
<1>2. /\ slot(a) \in Slots /\ slot(a).answer = a
      /\ slot(a).at = IF embedded /\ a # "retry" THEN "closing" ELSE "queueing"
  BY DEF Slots
<1>3. validator \in [Validators -> Slots]
  BY DEF TypeOK, Slots
<1> HIDE DEF slot
<1> QED
  BY <1>1, <1>2, <1>3, SlotSet

LEMMA Closing ==
  ASSUME TypeOK, NEW v \in Validators, ValidatorCloses(v)
  PROVE  /\ validator' \in [Validators -> Slots]
         /\ validator'[v].at = "queueing" /\ validator'[v].answer = validator[v].answer
         /\ \A w \in Validators : w # v => validator'[w] = validator[w]
<1> DEFINE slot == [at |-> "queueing", answer |-> validator[v].answer]
<1>1. validator \in [Validators -> Slots] /\ validator[v] \in Slots
  BY DEF TypeOK, Slots
<1>2. [validator[v] EXCEPT !.at = "queueing"] = slot /\ slot \in Slots
  BY <1>1 DEF Slots
<1>3. validator' = [validator EXCEPT ![v] = slot]
  BY <1>1, <1>2 DEF ValidatorCloses
<1>4. slot.at = "queueing" /\ slot.answer = validator[v].answer
  OBVIOUS
<1> HIDE DEF slot
<1> QED
  BY <1>1, <1>2, <1>3, <1>4, SlotSet

LEMMA Queueing ==
  ASSUME TypeOK, NEW v \in Validators, ValidatorQueues(v)
  PROVE  /\ validator' \in [Validators -> Slots]
         /\ validator'[v] = Off
         /\ \A w \in Validators : w # v => validator'[w] = validator[w]
<1>1. validator \in [Validators -> Slots] /\ Off \in Slots
  BY DEF TypeOK, Slots, Off, Answers
<1>2. validator' = [validator EXCEPT ![v] = Off]
  BY DEF ValidatorQueues
<1> QED
  BY <1>1, <1>2, SlotSet

LEMMA IsOff == Off.at = "off" /\ Off.answer = "retry"
BY DEF Off

-----------------------------------------------------------------------------
\* Types.

\* TypeOK without the goroutines and the queue.
Flags ==
  /\ embedded \in BOOLEAN /\ ctxDone \in BOOLEAN /\ resetCh \in BOOLEAN /\ doneCh \in BOOLEAN
  /\ sensitive \in BOOLEAN /\ omnibox \in BOOLEAN
  /\ success \in BOOLEAN /\ validationErr \in BOOLEAN
  /\ watch = "parked" => ~resetCh /\ ~doneCh /\ ~ctxDone

Times == left \in 0..Timeout /\ idleFor \in 0..Timeout

Places ==
  /\ watch \in {"arming", "parked", "leaving", "closing", "quitting", "ended"}
  /\ loop \in {"running", "quitting", "ended"}
  /\ quitter \in {"parked", "ended"}
  /\ accepted \in {"no", "in_time", "late"}

Plain == Flags /\ Times /\ Places

Busy ==
  /\ validator \in [Validators -> Slots]
  /\ \A v \in Validators :
       validator[v].at = "closing" => embedded /\ validator[v].answer # "retry"

Queued == idle \in Seq(Callbacks)

LEMMA TypeParts ==
  /\ TypeOK <=> Plain /\ Busy /\ Queued
  /\ TypeOK' <=> Plain' /\ Busy' /\ Queued'
BY DEF TypeOK, Plain, Flags, Times, Places, Busy, Queued, Slots, Callbacks

LEMMA Initially == Init => TypeOK
<1> SUFFICES ASSUME Init PROVE Plain /\ Busy /\ Queued
  BY TypeParts
<1>1. Plain
  <2>1. Flags /\ Places
    BY DEF Init, Flags, Places
  <2>2. Times
    BY TimeoutAssumption DEF Init, Times
  <2> QED
    BY <2>1, <2>2 DEF Plain
<1>2. Busy
  BY DEF Init, Busy, Slots, Off, Answers
<1>3. Queued
  BY DEF Init, Queued, Callbacks
<1> QED
  BY <1>1, <1>2, <1>3

LEMMA FlagsStep ==
  ASSUME Flags, [Next]_vars
  PROVE  Flags'
<1>1. ASSUME NEW v \in Validators, Submit(v) PROVE Flags'
  BY <1>1 DEF Flags, Submit
<1>2. ASSUME NEW v \in Validators, Validated(v) PROVE Flags'
  BY <1>2 DEF Flags, Validated, uiVars, watchVars
<1>3. ASSUME NEW v \in Validators, ValidatorCloses(v) PROVE Flags'
  BY <1>3 DEF Flags, ValidatorCloses, CloseDone, uiVars
<1>4. ASSUME NEW v \in Validators, ValidatorQueues(v) PROVE Flags'
  BY <1>4 DEF Flags, ValidatorQueues, uiVars, watchVars
<1>5. CASE Close
  BY <1>5 DEF Flags, Close, Quit, watchVars
<1>6. CASE CancelContext
  BY <1>6 DEF Flags, CancelContext, uiVars
<1>7. CASE Arm
  <2>1. CASE watch' = "parked"
    BY <1>7, <2>1 DEF Flags, Arm, WatchStep, uiVars
  <2>2. CASE watch' # "parked"
    <3>1. UNCHANGED <<embedded, ctxDone, doneCh, sensitive, omnibox, success, validationErr>>
      BY <1>7 DEF Arm, uiVars
    <3>2. resetCh' \in BOOLEAN
      BY <1>7 DEF Flags, Arm, WatchStep
    <3> QED
      BY <2>2, <3>1, <3>2 DEF Flags
  <2> QED
    BY <2>1, <2>2
<1>8. CASE TimerFires
  BY <1>8 DEF Flags, TimerFires, WatchStep, uiVars
<1>9. CASE Leave
  BY <1>9 DEF Flags, Leave, WatchStep, uiVars
<1>10. CASE WatchCloses
  BY <1>10 DEF Flags, WatchCloses, WatchStep, uiVars
<1>11. CASE WatchQuits
  BY <1>11 DEF Flags, WatchQuits, WatchStep, uiVars
<1>12. CASE QuitOnContext
  BY <1>12 DEF Flags, QuitOnContext, uiVars, watchVars
<1>13. CASE Dispatch
  BY <1>13 DEF Flags, Dispatch, Dispatched, Quit, watchVars
<1>14. CASE RunReturns
  BY <1>14 DEF Flags, RunReturns, CloseDone
<1>15. CASE Tick
  BY <1>15 DEF Flags, Tick, uiVars
<1>16. CASE UNCHANGED vars
  BY <1>16 DEF Flags, vars, uiVars, watchVars
<1> QED
  BY <1>1, <1>2, <1>3, <1>4, <1>5, <1>6, <1>7, <1>8, <1>9, <1>10, <1>11, <1>12, <1>13, <1>14,
     <1>15, <1>16 DEF Next, Watch

LEMMA TimesStep ==
  ASSUME Times, [Next]_vars
  PROVE  Times'
<1>1. ASSUME NEW v \in Validators, Submit(v) PROVE Times'
  BY TimeoutAssumption, <1>1 DEF Times, Submit
<1>2. ASSUME NEW v \in Validators, Validated(v) PROVE Times'
  BY TimeoutAssumption, <1>2 DEF Times, Validated, uiVars, watchVars
<1>3. ASSUME NEW v \in Validators, ValidatorCloses(v) PROVE Times'
  BY TimeoutAssumption, <1>3 DEF Times, ValidatorCloses, CloseDone, uiVars
<1>4. ASSUME NEW v \in Validators, ValidatorQueues(v) PROVE Times'
  BY TimeoutAssumption, <1>4 DEF Times, ValidatorQueues, uiVars, watchVars
<1>5. CASE Close
  BY TimeoutAssumption, <1>5 DEF Times, Close, Quit, watchVars
<1>6. CASE CancelContext
  BY TimeoutAssumption, <1>6 DEF Times, CancelContext, uiVars
<1>7. CASE Arm
  BY TimeoutAssumption, <1>7 DEF Times, Arm, WatchStep, uiVars
<1>8. CASE TimerFires
  BY TimeoutAssumption, <1>8 DEF Times, TimerFires, WatchStep, uiVars
<1>9. CASE Leave
  BY TimeoutAssumption, <1>9 DEF Times, Leave, WatchStep, uiVars
<1>10. CASE WatchCloses
  BY TimeoutAssumption, <1>10 DEF Times, WatchCloses, WatchStep, uiVars
<1>11. CASE WatchQuits
  BY TimeoutAssumption, <1>11 DEF Times, WatchQuits, WatchStep, uiVars
<1>12. CASE QuitOnContext
  BY TimeoutAssumption, <1>12 DEF Times, QuitOnContext, uiVars, watchVars
<1>13. CASE Dispatch
  BY TimeoutAssumption, <1>13 DEF Times, Dispatch, Dispatched, Quit, watchVars
<1>14. CASE RunReturns
  BY TimeoutAssumption, <1>14 DEF Times, RunReturns, CloseDone
<1>15. CASE Tick
  BY TimeoutAssumption, <1>15 DEF Times, Tick, uiVars
<1>16. CASE UNCHANGED vars
  BY TimeoutAssumption, <1>16 DEF Times, vars, uiVars, watchVars
<1> QED
  BY <1>1, <1>2, <1>3, <1>4, <1>5, <1>6, <1>7, <1>8, <1>9, <1>10, <1>11, <1>12, <1>13, <1>14,
     <1>15, <1>16 DEF Next, Watch

LEMMA PlacesStep ==
  ASSUME Places, [Next]_vars
  PROVE  Places'
<1>1. ASSUME NEW v \in Validators, Submit(v) PROVE Places'
  BY <1>1 DEF Places, Submit
<1>2. ASSUME NEW v \in Validators, Validated(v) PROVE Places'
  BY <1>2 DEF Places, Validated, uiVars, watchVars
<1>3. ASSUME NEW v \in Validators, ValidatorCloses(v) PROVE Places'
  BY <1>3 DEF Places, ValidatorCloses, CloseDone, uiVars
<1>4. ASSUME NEW v \in Validators, ValidatorQueues(v) PROVE Places'
  BY <1>4 DEF Places, ValidatorQueues, uiVars, watchVars
<1>5. CASE Close
  BY <1>5 DEF Places, Close, Quit, watchVars
<1>6. CASE CancelContext
  BY <1>6 DEF Places, CancelContext, uiVars
<1>7. CASE Arm
  BY <1>7 DEF Places, Arm, WatchStep, uiVars
<1>8. CASE TimerFires
  BY <1>8 DEF Places, TimerFires, WatchStep, uiVars
<1>9. CASE Leave
  BY <1>9 DEF Places, Leave, WatchStep, uiVars
<1>10. CASE WatchCloses
  BY <1>10 DEF Places, WatchCloses, WatchStep, uiVars
<1>11. CASE WatchQuits
  BY <1>11 DEF Places, WatchQuits, WatchStep, uiVars
<1>12. CASE QuitOnContext
  BY <1>12 DEF Places, QuitOnContext, uiVars, watchVars
<1>13. CASE Dispatch
  BY <1>13 DEF Places, Dispatch, Dispatched, Quit, watchVars
<1>14. CASE RunReturns
  BY <1>14 DEF Places, RunReturns, CloseDone
<1>15. CASE Tick
  BY <1>15 DEF Places, Tick, uiVars
<1>16. CASE UNCHANGED vars
  BY <1>16 DEF Places, vars, uiVars, watchVars
<1> QED
  BY <1>1, <1>2, <1>3, <1>4, <1>5, <1>6, <1>7, <1>8, <1>9, <1>10, <1>11, <1>12, <1>13, <1>14,
     <1>15, <1>16 DEF Next, Watch

\* Who changes the goroutines, and who the queue.
LEMMA OthersKeepValidators ==
  ASSUME [Next]_vars
  PROVE  \/ \E v \in Validators : Submit(v) \/ Validated(v) \/ ValidatorCloses(v) \/ ValidatorQueues(v)
         \/ UNCHANGED validator
BY Zenon DEF Next, Watch, Close, CancelContext, Arm, TimerFires, Leave, WatchCloses, WatchQuits,
   QuitOnContext, Dispatch, RunReturns, Tick, vars

LEMMA BusyStep ==
  ASSUME TypeOK, [Next]_vars
  PROVE  Busy'
<1> USE TypeParts
<1>1. embedded' = embedded
  BY Zenon DEF Next, Watch, Submit, Validated, ValidatorCloses, ValidatorQueues, Close,
     CancelContext, Arm, TimerFires, Leave, WatchCloses, WatchQuits, QuitOnContext, Dispatch,
     RunReturns, Tick, vars
<1>2. ASSUME NEW v \in Validators, Submit(v) PROVE Busy'
  BY <1>1, <1>2, Submitted DEF Busy
<1>3. ASSUME NEW v \in Validators, Validated(v) PROVE Busy'
  BY <1>1, <1>3, Answered DEF Busy
<1>4. ASSUME NEW v \in Validators, ValidatorCloses(v) PROVE Busy'
  BY <1>1, <1>4, Closing DEF Busy
<1>5. ASSUME NEW v \in Validators, ValidatorQueues(v) PROVE Busy'
  BY <1>1, <1>5, Queueing, IsOff DEF Busy
<1>6. CASE UNCHANGED validator
  BY <1>1, <1>6 DEF Busy
<1> QED
  BY <1>2, <1>3, <1>4, <1>5, <1>6, OthersKeepValidators

LEMMA QueuedStep ==
  ASSUME TypeOK, [Next]_vars
  PROVE  Queued'
<1> USE TypeParts DEF Queued
<1>1. ASSUME NEW v \in Validators, ValidatorQueues(v) PROVE Queued'
  <2>1. idle \in Seq(Callbacks) /\ validator[v].answer \in Callbacks
    BY DEF TypeOK, Callbacks
  <2>2. idle' = Append(idle, validator[v].answer)
    BY <1>1 DEF ValidatorQueues, IdleAddOnce
  <2> QED
    BY <2>1, <2>2, QueueAppend, Zenon
<1>2. CASE WatchQuits \/ QuitOnContext
  BY <1>2, QueueAppend DEF WatchQuits, QuitOnContext, IdleAddOnce, Callbacks
<1>3. CASE Dispatch
  BY <1>3, QueueTail DEF Dispatch
<1>4. CASE UNCHANGED idle
  BY <1>4
<1> QED
  BY <1>1, <1>2, <1>3, <1>4, Zenon
     DEF Next, Watch, Submit, Validated, ValidatorCloses, Close, CancelContext, Arm, TimerFires,
         Leave, WatchCloses, RunReturns, Tick, vars

\* Every variable keeps its type, a parked timer goroutine has no event it has missed, and
\* only PINPane has a goroutine on its way to close doneCh.
THEOREM PromptTypeCorrect == Spec => []TypeOK
<1>1. TypeOK /\ [Next]_vars => TypeOK'
  BY TypeParts, FlagsStep, TimesStep, PlacesStep, BusyStep, QueuedStep DEF Plain
<1> QED
  BY <1>1, Initially, PTL DEF Spec

-----------------------------------------------------------------------------
\* One attempt at a time, and no success that validate did not return.

\* What these two are about, and the steps that leave it alone.
attemptVars == <<validator, idle, sensitive, success, omnibox, validationErr, accepted>>

LEMMA AttemptSteps ==
  ASSUME [Next]_vars
  PROVE  \/ \E v \in Validators : Submit(v) \/ Validated(v) \/ ValidatorCloses(v) \/ ValidatorQueues(v)
         \/ WatchQuits \/ QuitOnContext \/ Dispatch
         \/ UNCHANGED attemptVars
BY Zenon DEF attemptVars, Next, Watch, Close, CancelContext, Arm, TimerFires, Leave, WatchCloses,
   RunReturns, Tick, vars, uiVars, watchVars

LEMMA AttemptStep ==
  ASSUME TypeOK, OneAttempt, [Next]_vars
  PROVE  OneAttempt'
<1> USE IsOff
<1>1. ASSUME NEW v \in Validators, Submit(v) PROVE OneAttempt'
  <2>1. /\ sensitive /\ sensitive' = FALSE /\ UNCHANGED <<idle, success, omnibox, validationErr>>
        /\ \A w \in Validators : validator'[w] # Off => w = v
    BY <1>1, Submitted, Zenon DEF Submit, OneAttempt
  <2> QED
    BY <2>1 DEF OneAttempt, Decided
<1>2. ASSUME NEW v \in Validators, validator[v] # Off,
             \A w \in Validators : w # v => validator'[w] = validator[w],
             UNCHANGED <<idle, sensitive, success, omnibox, validationErr>>
      PROVE  OneAttempt'
  BY <1>2 DEF OneAttempt, Decided
<1>3. ASSUME NEW v \in Validators, Validated(v) \/ ValidatorCloses(v) PROVE OneAttempt'
  <2>1. validator[v] # Off /\ UNCHANGED <<idle, sensitive, success, omnibox, validationErr>>
    BY <1>3 DEF Validated, ValidatorCloses, uiVars
  <2>2. \A w \in Validators : w # v => validator'[w] = validator[w]
    BY <1>3, Answered, Closing
  <2> QED
    BY <1>2, <2>1, <2>2
<1>4. ASSUME NEW v \in Validators, ValidatorQueues(v) PROVE OneAttempt'
  <2>1. validator[v] # Off /\ UNCHANGED <<sensitive, success, omnibox, validationErr>>
    BY <1>4 DEF ValidatorQueues, uiVars
  <2>2. ~sensitive /\ ~Pending(idle) /\ ~Decided /\ Single(idle)
        /\ \A w \in Validators : validator'[w] = Off
    BY <1>4, <2>1, Queueing DEF OneAttempt
  <2>3. idle \in Seq(Callbacks) /\ validator[v].answer \in Callbacks
    BY DEF TypeOK, Callbacks
  <2>4. idle' = Append(idle, validator[v].answer)
    BY <1>4 DEF ValidatorQueues, IdleAddOnce
  <2>5. Single(idle')
    BY <2>2, <2>3, <2>4, QueueAppend, Zenon
  <2> QED
    BY <2>1, <2>2, <2>5 DEF OneAttempt, Decided
<1>5. CASE WatchQuits \/ QuitOnContext
  <2>1. UNCHANGED <<validator, sensitive, success, omnibox, validationErr>>
        /\ idle' = Append(idle, "quit")
    BY <1>5 DEF WatchQuits, QuitOnContext, IdleAddOnce, uiVars
  <2>2. idle \in Seq(Callbacks) /\ "quit" \in Callbacks
    BY DEF TypeOK, Callbacks
  <2>3. (Pending(idle') => Pending(idle)) /\ (Single(idle) => Single(idle'))
    BY <2>1, <2>2, QueueAppend
  <2> QED
    BY <2>1, <2>3 DEF OneAttempt, Decided
<1>6. CASE Dispatch
  <2>1. /\ idle \in Seq(Callbacks) /\ idle # <<>> /\ idle' = Tail(idle)
        /\ Dispatched(Head(idle)) /\ UNCHANGED validator
    BY <1>6 DEF TypeOK, Callbacks, Dispatch
  <2>2. /\ Pending(idle') => Pending(idle)
        /\ Single(idle) => Single(idle')
        /\ Single(idle) /\ Head(idle) # "quit" => ~Pending(idle')
        /\ Head(idle) # "quit" => Pending(idle)
    BY <2>1, QueueTail
  <2>3. CASE Head(idle) = "quit"
    BY <2>1, <2>2, <2>3 DEF Dispatched, OneAttempt, Decided
  <2>4. CASE Head(idle) # "quit"
    <3>1. ~sensitive /\ (\A v \in Validators : validator'[v] = Off) /\ ~Decided
          /\ Single(idle') /\ ~Pending(idle')
      BY <2>1, <2>2, <2>4 DEF OneAttempt
    <3>2. sensitive' => ~Decided'
      BY <2>1, <3>1 DEF Dispatched, Decided
    <3> QED
      BY <3>1, <3>2 DEF OneAttempt
  <2> QED
    BY <2>3, <2>4
<1>7. CASE UNCHANGED attemptVars
  BY <1>7 DEF attemptVars, OneAttempt, Decided
<1> QED
  BY <1>1, <1>3, <1>4, <1>5, <1>6, <1>7, AttemptSteps

LEMMA AcceptedStep ==
  ASSUME TypeOK, OneAttempt, Accepted, [Next]_vars
  PROVE  Accepted'
<1> USE IsOff
<1>1. ASSUME NEW v \in Validators, Submit(v) PROVE Accepted'
  <2>1. UNCHANGED <<idle, success, omnibox, validationErr, accepted>>
    BY <1>1 DEF Submit
  <2> QED
    BY <1>1, <2>1, Submitted DEF Accepted
<1>2. ASSUME NEW v \in Validators, Validated(v) PROVE Accepted'
  <2>1. UNCHANGED <<idle, success, omnibox, validationErr>>
    BY <1>2 DEF Validated, uiVars
  <2>2. accepted # "no" => accepted' # "no"
    BY <1>2, Answered
  <2>3. validator'[v].answer = "success" => accepted' # "no"
    BY <1>2, Answered
  <2> QED
    BY <1>2, <2>1, <2>2, <2>3, Answered DEF Accepted
<1>3. ASSUME NEW v \in Validators, ValidatorCloses(v) PROVE Accepted'
  <2>1. UNCHANGED <<idle, success, omnibox, validationErr>>
        /\ accepted' \in {accepted, "late"}
    BY <1>3 DEF ValidatorCloses, uiVars
  <2> QED
    BY <1>3, <2>1, Closing DEF Accepted
<1>4. ASSUME NEW v \in Validators, ValidatorQueues(v) PROVE Accepted'
  <2>1. UNCHANGED <<success, omnibox, validationErr, accepted>>
    BY <1>4 DEF ValidatorQueues, uiVars
  <2>2. idle \in Seq(Callbacks) /\ validator[v].answer \in Callbacks
    BY DEF TypeOK, Callbacks
  <2>3. idle' = Append(idle, validator[v].answer)
    BY <1>4 DEF ValidatorQueues, IdleAddOnce
  <2>4. Holds(idle', "success") => Holds(idle, "success") \/ validator[v].answer = "success"
    BY <2>2, <2>3, QueueAppend, Zenon
  <2> QED
    BY <1>4, <2>1, <2>4, Queueing DEF Accepted
<1>5. CASE WatchQuits \/ QuitOnContext
  <2>1. UNCHANGED <<validator, success, omnibox, validationErr, accepted>>
        /\ idle' = Append(idle, "quit")
    BY <1>5 DEF WatchQuits, QuitOnContext, IdleAddOnce, uiVars
  <2>2. idle \in Seq(Callbacks) /\ "quit" \in Callbacks
    BY DEF TypeOK, Callbacks
  <2>3. Holds(idle', "success") => Holds(idle, "success")
    BY <2>1, <2>2, QueueAppend
  <2> QED
    BY <2>1, <2>3 DEF Accepted
<1>6. CASE Dispatch
  <2>1. /\ idle \in Seq(Callbacks) /\ idle # <<>> /\ idle' = Tail(idle)
        /\ Dispatched(Head(idle)) /\ UNCHANGED <<validator, accepted>>
    BY <1>6 DEF TypeOK, Callbacks, Dispatch
  <2>2. /\ Head(idle) # "quit" => ~Decided
        /\ Head(idle) = "success" => Holds(idle, "success")
        /\ Holds(idle', "success") => Holds(idle, "success")
    BY <2>1, QueueTail DEF OneAttempt
  <2>3. success' \/ omnibox' => accepted # "no" /\ ~validationErr'
    BY <2>1, <2>2 DEF Dispatched, Accepted, Decided
  <2> QED
    BY <2>1, <2>2, <2>3 DEF Accepted
<1>7. CASE UNCHANGED attemptVars
  BY <1>7 DEF attemptVars, Accepted
<1> QED
  BY <1>1, <1>2, <1>3, <1>4, <1>5, <1>6, <1>7, AttemptSteps

-----------------------------------------------------------------------------
\* A PIN accepted in time stays safe from the timer goroutine.

Closers == \E v \in Validators : validator[v].at = "closing"

LEMMA KeptSteps ==
  ASSUME [Next]_vars
  PROVE  /\ embedded' = embedded
         /\ \/ \E v \in Validators : Submit(v) \/ Validated(v) \/ ValidatorCloses(v) \/ ValidatorQueues(v)
            \/ Arm \/ Leave \/ WatchCloses \/ RunReturns
            \/ UNCHANGED <<validator, accepted, doneCh>> /\ watch' \in {watch, "leaving", "ended"}
<1>1. embedded' = embedded
  BY Zenon DEF Next, Watch, Submit, Validated, ValidatorCloses, ValidatorQueues, Close,
     CancelContext, Arm, TimerFires, Leave, WatchCloses, WatchQuits, QuitOnContext, Dispatch,
     RunReturns, Tick, vars
<1>2. CancelContext \/ TimerFires \/ WatchQuits
        => UNCHANGED <<validator, accepted, doneCh>> /\ watch' \in {watch, "leaving", "ended"}
  BY DEF CancelContext, TimerFires, WatchQuits, WatchStep
<1>3. Close \/ QuitOnContext \/ Dispatch \/ Tick \/ UNCHANGED vars
        => UNCHANGED <<validator, accepted, doneCh>> /\ watch' \in {watch, "leaving", "ended"}
  BY DEF Close, QuitOnContext, Dispatch, Tick, vars, watchVars
<1> QED
  BY <1>1, <1>2, <1>3, Zenon DEF Next, Watch

LEMMA KeptStep ==
  ASSUME TypeOK, Kept, [Next]_vars
  PROVE  Kept'
<1> DEFINE Hyp == embedded /\ accepted = "in_time" /\ ~Closers
           Con == doneCh /\ watch \notin {"closing", "quitting"}
<1>1. Hyp => Con
  BY DEF Kept, Closers
<1>2. ASSUME Hyp' => Con' PROVE Kept'
  BY <1>2 DEF Kept, Closers
<1>3. embedded' = embedded
  BY KeptSteps
<1>4. ASSUME NEW v \in Validators, Submit(v) PROVE Kept'
  <2>1. accepted' = accepted /\ doneCh' = doneCh /\ validator[v] = Off
        /\ (watch' = watch \/ watch' = "arming")
    BY <1>4 DEF Submit
  <2>2. Closers => Closers'
    BY <1>4, <2>1, IsOff, Submitted DEF Closers
  <2> QED
    BY <1>1, <1>2, <1>3, <2>1, <2>2
<1>5. ASSUME NEW v \in Validators, Validated(v) PROVE Kept'
  <2>1. UNCHANGED <<watch, doneCh>> /\ validator[v].at = "asking"
    BY <1>5 DEF Validated, watchVars
  <2>2. Closers => Closers'
    BY <1>5, <2>1, Answered DEF Closers
  <2>3. accepted' = accepted \/ (accepted' = "in_time" /\ (embedded => Closers'))
    BY <1>5, Answered DEF Closers
  <2> QED
    BY <1>1, <1>2, <1>3, <2>1, <2>2, <2>3
<1>6. ASSUME NEW v \in Validators, ValidatorCloses(v) PROVE Kept'
  <2>1. accepted' = "in_time" => watch \notin {"closing", "quitting", "ended"}
    BY <1>6 DEF ValidatorCloses
  <2>2. doneCh' = TRUE /\ watch' \in {watch, "ended"}
    BY <1>6 DEF ValidatorCloses, CloseDone
  <2> QED
    BY <1>2, <2>1, <2>2
<1>7. ASSUME NEW v \in Validators, ValidatorQueues(v) PROVE Kept'
  <2>1. UNCHANGED <<watch, doneCh, accepted>> /\ validator[v].at = "queueing"
    BY <1>7 DEF ValidatorQueues, watchVars
  <2>2. Closers => Closers'
    BY <1>7, <2>1, Queueing DEF Closers
  <2> QED
    BY <1>1, <1>2, <1>3, <2>1, <2>2
<1>8. CASE Arm \/ Leave
  <2>1. UNCHANGED <<validator, accepted, doneCh>>
    BY <1>8 DEF Arm, Leave
  <2>2. doneCh => watch' \notin {"closing", "quitting"}
    BY <1>8 DEF Arm, Leave, WatchStep
  <2> QED
    BY <1>1, <1>2, <1>3, <2>1, <2>2 DEF Closers
<1>9. CASE WatchCloses
  <2>1. UNCHANGED <<validator, accepted>> /\ watch = "closing"
    BY <1>9 DEF WatchCloses, WatchStep
  <2> QED
    BY <1>1, <1>2, <1>3, <2>1 DEF Closers
<1>10. CASE RunReturns
  <2>1. UNCHANGED <<validator, accepted>> /\ (embedded => UNCHANGED <<doneCh, watch>>)
    BY <1>10 DEF RunReturns
  <2> QED
    BY <1>1, <1>2, <1>3, <2>1 DEF Closers
<1>11. CASE UNCHANGED <<validator, accepted, doneCh>> /\ watch' \in {watch, "leaving", "ended"}
  BY <1>1, <1>2, <1>3, <1>11 DEF Closers
<1> QED
  BY <1>4, <1>5, <1>6, <1>7, <1>8, <1>9, <1>10, <1>11, KeptSteps

-----------------------------------------------------------------------------
\* The timer.

LEMMA TimerStep ==
  ASSUME TypeOK, TimerOK, [Next]_vars
  PROVE  TimerOK'
<1> SUFFICES ASSUME watch' = "parked" PROVE left' + idleFor' >= Timeout
  BY DEF TimerOK
<1>1. left \in Nat /\ idleFor \in Nat /\ idleFor <= Timeout /\ Timeout \in Nat
      /\ (watch = "parked" => left + idleFor >= Timeout)
  BY TimeoutAssumption DEF TypeOK, TimerOK
<1>2. ASSUME NEW v \in Validators, Submit(v) PROVE FALSE
  BY <1>2 DEF Submit
<1>3. CASE Arm
  BY <1>1, <1>3 DEF Arm
<1>4. CASE Tick
  BY <1>1, <1>4 DEF Tick
<1>5. CASE UNCHANGED <<left, idleFor, watch>>
  BY <1>1, <1>5
<1>6. (\E v \in Validators : Validated(v) \/ ValidatorQueues(v)) \/ Close \/ QuitOnContext
        \/ Dispatch \/ UNCHANGED vars
          => UNCHANGED <<left, idleFor, watch>>
  BY Zenon DEF Validated, ValidatorQueues, Close, QuitOnContext, Dispatch, vars, watchVars
<1>7. (\E v \in Validators : ValidatorCloses(v)) \/ CancelContext \/ RunReturns
          => UNCHANGED <<left, idleFor, watch>>
  BY DEF ValidatorCloses, CancelContext, RunReturns, CloseDone, watchVars
<1>8. TimerFires \/ Leave \/ WatchCloses \/ WatchQuits => FALSE
  BY DEF TimerFires, Leave, WatchCloses, WatchQuits, WatchStep
<1> QED
  BY <1>2, <1>3, <1>4, <1>5, <1>6, <1>7, <1>8 DEF Next, Watch

-----------------------------------------------------------------------------
LEMMA Inductive == Spec => []IInv
<1>1. Init => IInv
  <2> SUFFICES ASSUME Init PROVE OneAttempt /\ Accepted /\ Kept /\ TimerOK
    BY Initially DEF IInv
  <2>1. ~Pending(idle) /\ Single(idle) /\ ~Holds(idle, "success")
    BY DEF Init, Pending, Single, Holds
  <2>2. \A v \in Validators : validator[v] = Off
    BY DEF Init
  <2>3. OneAttempt
    BY <2>1, <2>2 DEF Init, OneAttempt, Decided
  <2>4. Accepted
    BY <2>1, <2>2, IsOff DEF Init, Accepted
  <2> QED
    BY <2>3, <2>4 DEF Init, Kept, TimerOK
<1>2. IInv /\ [Next]_vars => IInv'
  BY TypeParts, FlagsStep, TimesStep, PlacesStep, BusyStep, QueuedStep, AttemptStep, AcceptedStep,
     KeptStep, TimerStep DEF IInv, Plain
<1> QED
  BY <1>1, <1>2, PTL DEF Spec

\* PromptGUI returns nil, and the omnibox opens, only after validate has returned nil, and
\* then no validationErr is reported: an attempt that has failed cannot be followed by
\* another one's success, since the entry takes no input while one is under way.
THEOREM PromptResultFaithful == Spec => []ResultFaithful
<1>1. IInv => ResultFaithful
  BY DEF IInv, Accepted, ResultFaithful
<1> QED
  BY <1>1, Inductive, PTL

\* The timer goroutine that has not passed its check of doneCh when validate's success is
\* recorded never closes the omnibox that opens.
THEOREM PromptAcceptedIsKept == Spec => []AcceptedIsKept
<1>1. IInv => AcceptedIsKept
  BY DEF IInv, Kept, AcceptedIsKept
<1> QED
  BY <1>1, Inductive, PTL

\* The timer goroutine leaves its loop only when the context is done or promptTimeout has
\* passed since the last submission, whatever resets cross its firing.
THEOREM PromptTimeoutAfterInactivity == Spec => TimeoutAfterInactivity
<1> DEFINE Inactive == watch # "leaving" /\ watch' = "leaving" /\ ~ctxDone' => idleFor = Timeout
<1>1. IInv /\ [Next]_vars => Inactive
  <2> SUFFICES ASSUME IInv, [Next]_vars, watch # "leaving", watch' = "leaving", ~ctxDone'
               PROVE  idleFor = Timeout
    OBVIOUS
  <2>1. left \in Nat /\ idleFor \in Nat /\ idleFor <= Timeout /\ Timeout \in Nat
        /\ (watch = "parked" => left + idleFor >= Timeout)
    BY TimeoutAssumption DEF IInv, TypeOK, TimerOK
  <2>2. CASE TimerFires
    BY <2>1, <2>2 DEF TimerFires, WatchStep
  <2>3. Arm \/ CancelContext => FALSE
    BY DEF Arm, CancelContext, WatchStep
  <2>4. Leave \/ WatchCloses \/ WatchQuits => FALSE
    BY DEF Leave, WatchCloses, WatchQuits, WatchStep
  <2>5. (\E v \in Validators : Submit(v) \/ ValidatorCloses(v)) \/ RunReturns => FALSE
    BY DEF Submit, ValidatorCloses, RunReturns, CloseDone
  <2>6. (\E v \in Validators : Validated(v) \/ ValidatorQueues(v)) \/ Close \/ QuitOnContext
          \/ Dispatch \/ Tick \/ UNCHANGED vars => UNCHANGED watch
    BY Zenon DEF Validated, ValidatorQueues, Close, QuitOnContext, Dispatch, Tick, vars, watchVars
  <2> QED
    BY <2>2, <2>3, <2>4, <2>5, <2>6 DEF Next, Watch
<1>2. IInv /\ [Next]_vars => [Inactive]_vars
  BY <1>1
<1> HIDE DEF Inactive
<1>3. Spec => [][Inactive]_vars
  BY <1>2, Inductive, PTL DEF Spec
<1> QED
  BY <1>3 DEF TimeoutAfterInactivity, Inactive

=============================================================================
