------------------------------ MODULE PINPrompt ------------------------------
(***************************************************************************)
(* The GTK PIN prompt: PINPane inside the omnibox window and PromptGUI in  *)
(* a window of its own (internal/adapters/gui/pin/pin.go), with the main   *)
(* loop that runs them (internal/adapters/gui/app.go).                     *)
(*                                                                         *)
(* GTK callbacks run on one thread, one at a time.  A submission starts a  *)
(* goroutine that validates the PIN and queues a callback with the result; *)
(* a timer goroutine queues one after promptTimeout without submissions.   *)
(* A goroutine parked in a select is woken by the first event that is      *)
(* ready for it; one that comes back to the select takes any that is.      *)
(***************************************************************************)
EXTENDS Integers, Sequences

CONSTANTS
  Validators,  \* slots for the validating goroutines
  Timeout      \* promptTimeout, in ticks

ASSUME TimeoutAssumption == Timeout \in Nat \ {0}

VARIABLES
  embedded,       \* PINPane in the omnibox window, or PromptGUI
  ctxDone,        \* the command's context is cancelled
  left,           \* time until the timer fires
  watch,          \* where the timer goroutine is
  resetCh,        \* its one-element channel is full
  doneCh,         \* doneCh of PINPane, done of PromptGUI: closed
  validator,      \* where the validating goroutines are, and their answers
  sensitive,      \* the entry takes input
  idle,           \* the callbacks queued on the GTK thread
  loop,           \* app.Run
  omnibox,        \* onSuccess has put the omnibox into the window
  success, validationErr,  \* the locals of PromptGUI
  quitter,        \* showOmniboxGUI's goroutine that waits for the context
  idleFor,        \* history: time since the last submission, up to Timeout
  accepted        \* history: whether validate has returned nil, and in time

uiVars    == <<sensitive, loop, omnibox, success, validationErr>>
watchVars == <<left, watch, resetCh, doneCh>>
vars == <<embedded, ctxDone, watchVars, validator, uiVars, idle, quitter, idleFor, accepted>>

Answers == {"success", "fatal", "retry"}    \* nil, PINFatalError, any other error
Off     == [at |-> "off", answer |-> "retry"]

\* Types; a parked goroutine has nothing to wake up for, and only PINPane closes
\* doneCh on the way to its callback.
TypeOK ==
  /\ {embedded, ctxDone, resetCh, doneCh, sensitive, omnibox, success, validationErr}
       \subseteq BOOLEAN
  /\ left \in 0..Timeout /\ idleFor \in 0..Timeout
  /\ watch \in {"arming", "parked", "leaving", "closing", "quitting", "ended"}
  /\ validator \in [Validators -> [at : {"off", "asking", "closing", "queueing"},
                                   answer : Answers]]
  /\ idle \in Seq(Answers \cup {"quit"})
  /\ loop \in {"running", "quitting", "ended"}
  /\ quitter \in {"parked", "ended"}
  /\ accepted \in {"no", "in_time", "late"}
  /\ watch = "parked" => ~resetCh /\ ~doneCh /\ ~ctxDone
  /\ \A v \in Validators :
       validator[v].at = "closing" => embedded /\ validator[v].answer # "retry"

IdleAddOnce(callback) == idle' = Append(idle, callback)

-----------------------------------------------------------------------------
\* The user.

\* activateEntryCb: the reset is sent unless one is waiting already.
Submit(v) ==
  /\ loop = "running" /\ ~omnibox /\ sensitive
  /\ validator[v] = Off
  /\ IF watch = "parked" THEN watch' = "arming" /\ UNCHANGED resetCh
                         ELSE resetCh' = TRUE /\ UNCHANGED watch
  /\ sensitive' = FALSE
  /\ validator' = [validator EXCEPT ![v].at = "asking"]
  /\ idleFor' = 0
  /\ UNCHANGED <<embedded, ctxDone, left, doneCh, loop, omnibox, success, validationErr,
                 idle, quitter, accepted>>

Quit == loop' = "quitting"

\* Escape, or the window's close request; later the omnibox's own quitFn.
Close ==
  /\ loop = "running"
  /\ Quit
  /\ UNCHANGED <<embedded, ctxDone, watchVars, validator, sensitive, omnibox, success,
                 validationErr, idle, quitter, idleFor, accepted>>

\* The context is cancelled, by a signal: it wakes the timer goroutine.
CancelContext ==
  /\ ~ctxDone
  /\ ctxDone' = TRUE
  /\ watch' = IF watch = "parked" THEN "leaving" ELSE watch
  /\ UNCHANGED <<embedded, left, resetCh, doneCh, validator, uiVars, idle, quitter,
                 idleFor, accepted>>

-----------------------------------------------------------------------------
\* The validating goroutine.

\* PINPane closes doneCh before it queues a final result, PromptGUI does not.
Validated(v) ==
  /\ validator[v].at = "asking"
  /\ \E answer \in Answers :
       /\ validator' = [validator EXCEPT ![v] =
            [at |-> IF embedded /\ answer # "retry" THEN "closing" ELSE "queueing",
             answer |-> answer]]
       /\ accepted' = IF answer = "success" THEN "in_time" ELSE accepted
  /\ UNCHANGED <<embedded, ctxDone, watchVars, uiVars, idle, quitter, idleFor>>

\* A closed channel wakes the timer goroutine, which returns.
CloseDone ==
  /\ doneCh' = TRUE
  /\ watch' = IF watch = "parked" THEN "ended" ELSE watch

\* Mutant: the channel is left open.
ValidatorForgetsDone(v) ==
  /\ validator[v].at = "closing"
  /\ validator' = [validator EXCEPT ![v].at = "queueing"]
  /\ UNCHANGED <<embedded, ctxDone, watchVars, uiVars, idle, quitter, idleFor, accepted>>

\* The timer goroutine may have passed its own check by now.
ValidatorCloses(v) ==
  /\ validator[v].at = "closing"
  /\ CloseDone
  /\ validator' = [validator EXCEPT ![v].at = "queueing"]
  /\ accepted' = IF accepted = "in_time" /\ watch \in {"closing", "quitting", "ended"}
                   THEN "late" ELSE accepted
  /\ UNCHANGED <<embedded, ctxDone, left, resetCh, uiVars, idle, quitter, idleFor>>

\* Mutant: the error is not looked at.
ValidatorQueuesSuccess(v) ==
  /\ validator[v].at = "queueing"
  /\ IdleAddOnce("success")
  /\ validator' = [validator EXCEPT ![v] = Off]
  /\ UNCHANGED <<embedded, ctxDone, watchVars, uiVars, quitter, idleFor, accepted>>

ValidatorQueues(v) ==
  /\ validator[v].at = "queueing"
  /\ IdleAddOnce(validator[v].answer)
  /\ validator' = [validator EXCEPT ![v] = Off]
  /\ UNCHANGED <<embedded, ctxDone, watchVars, uiVars, quitter, idleFor, accepted>>

-----------------------------------------------------------------------------
\* The timer goroutine.

WatchStep(from, to) == watch = from /\ watch' = to

\* Mutant: "continue" is missing, a reset leaves the loop.
ArmAndLeave ==
  /\ WatchStep("arming", "leaving")
  /\ left' = Timeout
  /\ UNCHANGED <<embedded, ctxDone, resetCh, doneCh, validator, uiVars, idle, quitter,
                 idleFor, accepted>>

\* Mutant: the goroutine parks without looking at its channels again.
ArmAndPark ==
  /\ WatchStep("arming", "parked")
  /\ left' = Timeout
  /\ UNCHANGED <<embedded, ctxDone, resetCh, doneCh, validator, uiVars, idle, quitter,
                 idleFor, accepted>>

\* timer.Stop and timer.Reset (NewTimer at first), then the select again.
Arm ==
  /\ left' = Timeout
  /\ \/ WatchStep("arming", "parked") /\ ~resetCh /\ ~doneCh /\ ~ctxDone /\ UNCHANGED resetCh
     \/ WatchStep("arming", "arming")  /\ resetCh /\ resetCh' = FALSE
     \/ WatchStep("arming", "ended")   /\ doneCh  /\ UNCHANGED resetCh
     \/ WatchStep("arming", "leaving") /\ ctxDone /\ UNCHANGED resetCh
  /\ UNCHANGED <<embedded, ctxDone, doneCh, validator, uiVars, idle, quitter, idleFor, accepted>>

TimerFires ==
  /\ left = 0
  /\ WatchStep("parked", "leaving")
  /\ UNCHANGED <<embedded, ctxDone, left, resetCh, doneCh, validator, uiVars, idle, quitter,
                 idleFor, accepted>>

\* The second select: nothing to do for a prompt that is done.
Leave ==
  /\ \/ WatchStep("leaving", "ended")    /\ doneCh
     \/ WatchStep("leaving", "closing")  /\ ~doneCh /\ embedded
     \/ WatchStep("leaving", "quitting") /\ ~doneCh /\ ~embedded
  /\ UNCHANGED <<embedded, ctxDone, left, resetCh, doneCh, validator, uiVars, idle, quitter,
                 idleFor, accepted>>

WatchCloses ==
  /\ WatchStep("closing", "quitting")
  /\ doneCh' = TRUE
  /\ UNCHANGED <<embedded, ctxDone, left, resetCh, validator, uiVars, idle, quitter,
                 idleFor, accepted>>

\* Mutant: onCancel is not called.
WatchQuitsSilently ==
  /\ WatchStep("quitting", "ended")
  /\ UNCHANGED <<embedded, ctxDone, left, resetCh, doneCh, validator, uiVars, idle, quitter,
                 idleFor, accepted>>

WatchQuits ==
  /\ WatchStep("quitting", "ended")
  /\ IdleAddOnce("quit")
  /\ UNCHANGED <<embedded, ctxDone, left, resetCh, doneCh, validator, uiVars, quitter,
                 idleFor, accepted>>

\* showOmniboxGUI's own goroutine for the context.
QuitOnContext ==
  /\ embedded /\ ctxDone
  /\ quitter = "parked" /\ loop # "ended"
  /\ quitter' = "ended"
  /\ IdleAddOnce("quit")
  /\ UNCHANGED <<embedded, ctxDone, watchVars, validator, uiVars, idleFor, accepted>>

-----------------------------------------------------------------------------
\* The GTK thread.

Dispatched(callback) ==
  \/ /\ callback = "success" /\ embedded
     /\ omnibox' = TRUE
     /\ UNCHANGED <<sensitive, loop, success, validationErr>>
  \/ /\ callback = "success" /\ ~embedded
     /\ success' = TRUE /\ Quit
     /\ UNCHANGED <<sensitive, omnibox, validationErr>>
  \/ /\ callback = "fatal" /\ ~embedded
     /\ validationErr' = TRUE /\ Quit
     /\ UNCHANGED <<sensitive, omnibox, success>>
  \/ /\ callback = "quit" \/ (callback = "fatal" /\ embedded)
     /\ Quit
     /\ UNCHANGED <<sensitive, omnibox, success, validationErr>>
  \/ /\ callback = "retry"
     /\ sensitive' = TRUE
     /\ UNCHANGED <<loop, omnibox, success, validationErr>>

\* Callbacks queued with the one that quits may still be dispatched.
Dispatch ==
  /\ loop # "ended"
  /\ idle # <<>>
  /\ idle' = Tail(idle)
  /\ Dispatched(Head(idle))
  /\ UNCHANGED <<embedded, ctxDone, watchVars, validator, quitter, idleFor, accepted>>

\* app.Run returns; PromptGUI closes done, showOmniboxGUI its own.
RunReturns ==
  /\ loop = "quitting"
  /\ loop' = "ended"
  /\ IF embedded THEN UNCHANGED <<doneCh, watch>> ELSE CloseDone
  /\ UNCHANGED <<embedded, ctxDone, left, resetCh, validator, sensitive, omnibox, success,
                 validationErr, idle, quitter, idleFor, accepted>>

Tick ==
  /\ loop # "ended"
  /\ left > 0 \/ idleFor < Timeout
  /\ left' = IF left > 0 THEN left - 1 ELSE 0
  /\ idleFor' = IF idleFor < Timeout THEN idleFor + 1 ELSE Timeout
  /\ UNCHANGED <<embedded, ctxDone, watch, resetCh, doneCh, validator, uiVars, idle, quitter,
                 accepted>>

-----------------------------------------------------------------------------
Init ==
  /\ embedded \in BOOLEAN
  /\ ctxDone = FALSE
  /\ left = Timeout /\ watch = "arming" /\ resetCh = FALSE /\ doneCh = FALSE
  /\ validator = [v \in Validators |-> Off]
  /\ sensitive = TRUE
  /\ idle = <<>>
  /\ loop = "running"
  /\ omnibox = FALSE /\ success = FALSE /\ validationErr = FALSE
  /\ quitter = "parked"
  /\ idleFor = 0
  /\ accepted = "no"

Watch == Arm \/ TimerFires \/ Leave \/ WatchCloses \/ WatchQuits

Next ==
  \/ \E v \in Validators : Submit(v) \/ Validated(v) \/ ValidatorCloses(v) \/ ValidatorQueues(v)
  \/ Close \/ CancelContext
  \/ Watch \/ QuitOnContext
  \/ Dispatch \/ RunReturns
  \/ Tick

\* Goroutines and the GTK thread run on and time passes; the user, the context
\* and the server that validates owe nothing.
Spec ==
  /\ Init
  /\ [][Next]_vars
  /\ WF_vars(Watch) /\ WF_vars(Dispatch) /\ WF_vars(RunReturns) /\ WF_vars(Tick)
  /\ \A v \in Validators : WF_vars(ValidatorCloses(v) \/ ValidatorQueues(v))

-----------------------------------------------------------------------------
\* Properties.

\* PromptGUI returns nil, and the omnibox opens, only for a PIN that validate
\* accepted, and no fatal error is reported with it.
ResultFaithful ==
  success \/ omnibox => accepted # "no" /\ ~validationErr

\* The timer goroutine gives up only when the context is done or promptTimeout
\* has passed since the last submission, whatever resets crossed its firing.
TimeoutAfterInactivity ==
  [][watch # "leaving" /\ watch' = "leaving" /\ ~ctxDone' => idleFor = Timeout]_vars

\* A PIN accepted before the timer goroutine passed its check for doneCh is
\* safe from it: the goroutine does not close the omnibox that opens.
AcceptedIsKept ==
  embedded /\ accepted = "in_time" /\ (\A v \in Validators : validator[v].at # "closing")
    => watch \notin {"closing", "quitting"}

\* The prompt ends, or makes way for the omnibox, unless the user submits for
\* ever: also when the server never answers.
PromptEnds ==
  []<><<\E v \in Validators : Submit(v)>>_vars \/ <>(loop = "ended" \/ omnibox)
=============================================================================
