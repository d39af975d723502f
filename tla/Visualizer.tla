----------------------------- MODULE Visualizer -----------------------------
(***************************************************************************)
(* The two threads of the visualizer (src/visualizer): the simulation      *)
(* thread, SimulationThread.run with PyViz::SimulatorRunUntil, and the     *)
(* thread of the user interface, which shows the simulation and tells it   *)
(* how far to run.  They share a lock, the event go, target_time, quit and *)
(* pause_messages.                                                         *)
(*                                                                         *)
(* update_view_timeout, the callback of the update timer, runs the event   *)
(* loop inside itself while the simulation thread holds the lock, so that  *)
(* handlers run within it: the user may pause, change the speed, start     *)
(* another timer, or quit there.  stack holds the callbacks that are being *)
(* executed.  The loop takes sources by priority, update_model first, then *)
(* the user's events, then timers, and never a source it is executing.     *)
(***************************************************************************)
EXTENDS Integers, Sequences, FiniteSets

CONSTANTS TimerIds,     \* identifiers of timers (a timer is not reused while anything refers to it)
          Periods,      \* sample periods the user may choose
          MaxTime,      \* bound on simulation time
          MaxMessages,  \* bound on pause messages
          MaxEvents,    \* bound on user events
          MaxStops      \* bound on runs that the simulation script stops early

ASSUME VisualizerAssumption ==
    /\ IsFiniteSet(TimerIds) /\ TimerIds \subseteq Nat \ {0} /\ TimerIds # {}
    /\ Periods \subseteq Nat \ {0} /\ Periods # {}
    /\ {MaxTime, MaxMessages, MaxEvents, MaxStops} \subseteq Nat

None == 0

VARIABLES
    sim,            \* where the simulation thread is
    go, quit, lock, \* the event, the flag, and who holds the lock
    target_time,
    now,            \* Simulator::Now
    pause_messages, \* of the simulation thread
    gui,            \* what the user interface is doing
    stack,          \* executions of update_view_timeout, the innermost last
    idle,           \* update_model callbacks waiting to be dispatched
    live,           \* timers installed in the event loop
    timerId,        \* _update_timeout_id
    play,           \* the play button is pressed
    sample_period,
    mainQuit,       \* Gtk.main_quit was called
    produced, shown,    \* history: number of messages, those in dialogs
    events, stops       \* user events and early stops so far

simVars    == <<sim, now, produced, stops>>
sharedVars == <<go, quit, lock, target_time, pause_messages>>
timerVars  == <<live, timerId>>
guiVars    == <<gui, stack, timerVars, play, sample_period, mainQuit, shown, events>>
vars == <<simVars, sharedVars, guiVars, idle>>

\* create_gui starts a timer, by way of _speed_changed, before the threads run.
Init ==
    /\ sim = "test"
    /\ go = FALSE /\ quit = FALSE /\ lock = "free"
    /\ target_time = 0 /\ now = 0
    /\ pause_messages = <<>>
    /\ gui = "loop" /\ stack = <<>> /\ idle = 0
    /\ timerId = CHOOSE t \in TimerIds : TRUE
    /\ live = {timerId}
    /\ play = FALSE
    /\ sample_period \in Periods
    /\ mainQuit = FALSE
    /\ produced = 0 /\ shown = <<>>
    /\ events = 0 /\ stops = 0

-----------------------------------------------------------------------------
(* The simulation thread *)

SimGoes(from, to) == sim = from /\ sim' = to

\* while not self.quit
Test ==
    /\ SimGoes("test", IF quit THEN "ended" ELSE "wait")
    /\ UNCHANGED <<now, produced, stops, sharedVars, idle>>

Wait ==
    /\ SimGoes("wait", "clear")
    /\ go
    /\ UNCHANGED <<now, produced, stops, sharedVars, idle>>

Clear ==
    /\ SimGoes("clear", "decide")
    /\ go' = FALSE
    /\ UNCHANGED <<now, produced, stops, quit, lock, target_time, pause_messages, idle>>

\* if self.quit: break
Decide ==
    /\ SimGoes("decide", IF quit THEN "ended" ELSE "acquire")
    /\ UNCHANGED <<now, produced, stops, sharedVars, idle>>

Acquire ==
    /\ SimGoes("acquire", "run")
    /\ lock = "free"
    /\ lock' = "sim"
    /\ UNCHANGED <<now, produced, stops, go, quit, target_time, pause_messages, idle>>

\* Runs up to target_time, unless the script stops the simulator before.
RunUntilTarget == now' = target_time /\ UNCHANGED stops

StopEarly ==
    /\ stops < MaxStops
    /\ stops' = stops + 1
    /\ now' \in now .. target_time

\* The simulation may ask for a pause; that does not end the run.
AskPause ==
    /\ produced < MaxMessages
    /\ produced' = produced + 1
    /\ pause_messages' = Append(pause_messages, produced')

\* SimulatorRunUntil returns at once when the model is ahead of the view.  Then
\* the messages are passed on, update_model is queued and the lock released.
Run ==
    /\ SimGoes("run", "test")
    /\ \/ /\ now >= target_time
          /\ UNCHANGED <<now, produced, stops, pause_messages>>
       \/ /\ now < target_time
          /\ RunUntilTarget \/ StopEarly
          /\ AskPause \/ UNCHANGED <<produced, pause_messages>>
    /\ idle' = idle + 1
    /\ lock' = "free"
    /\ UNCHANGED <<go, quit, target_time>>

SimStep == (Test \/ Wait \/ Clear \/ Decide \/ Acquire \/ Run) /\ UNCHANGED guiVars

-----------------------------------------------------------------------------
(* The callback of the update timer *)

Top     == stack[Len(stack)]
Running == {stack[i].timer : i \in DOMAIN stack}
Phase(p) == gui = "loop" /\ stack # <<>> /\ Top.phase = p
SetTop(frame) == stack' = [stack EXCEPT ![Len(stack)] = frame]

\* The event loop is running: the outer one, or the one of a callback.
Looping == gui = "loop" /\ (stack = <<>> => ~ mainQuit) /\ (stack # <<>> => Top.phase = "nest")

Fire(t) ==
    /\ Looping
    /\ idle = 0
    /\ t \in live \ Running
    /\ stack' = Append(stack, [timer |-> t, phase |-> "try", messages |-> <<>>])
    /\ UNCHANGED <<simVars, sharedVars, gui, timerVars, play, sample_period, mainQuit, shown,
                   events, idle>>

\* The simulator is busy: the event loop is run.
TryFails ==
    /\ Phase("try")
    /\ lock # "free"
    /\ SetTop([Top EXCEPT !.phase = "nest"])
    /\ UNCHANGED <<simVars, sharedVars, gui, timerVars, play, sample_period, mainQuit, shown,
                   events, idle>>

\* No event is pending.
EndNest ==
    /\ Phase("nest")
    /\ idle = 0
    /\ SetTop([Top EXCEPT !.phase = "try"])
    /\ UNCHANGED <<simVars, sharedVars, gui, timerVars, play, sample_period, mainQuit, shown,
                   events, idle>>

Capped(t) == IF t > MaxTime THEN MaxTime ELSE t

\* Mutant of UpdateView: the list is emptied after the lock has been released,
\* once the dialog has been shown.
UpdateViewKeeps ==
    /\ SetTop([Top EXCEPT !.phase = "post", !.messages = pause_messages])
    /\ target_time' = Capped(now + sample_period)
    /\ UNCHANGED pause_messages

\* Under the lock: take the messages, draw, and let the model run one period on.
UpdateView ==
    /\ SetTop([Top EXCEPT !.phase = "post", !.messages = pause_messages])
    /\ pause_messages' = <<>>
    /\ target_time' = Capped(now + sample_period)

TrySucceeds ==
    /\ Phase("try")
    /\ lock = "free"
    /\ UpdateView
    /\ UNCHANGED <<simVars, go, quit, lock, gui, timerVars, play, sample_period, mainQuit, shown,
                   events, idle>>

\* _on_play_button_toggled, when the button is released.
Paused == play' = FALSE /\ live' = live \ {timerId}

\* Messages are shown in a dialog and the button is released.  A callback that
\* finds it released ends its timer.
PostPaused ==
    /\ Phase("post")
    /\ Top.messages # <<>> \/ ~ play
    /\ shown' = shown \o Top.messages
    /\ play' = FALSE
    /\ live' = live \ ({Top.timer} \cup (IF play THEN {timerId} ELSE {}))
    /\ timerId' = None
    /\ stack' = SubSeq(stack, 1, Len(stack) - 1)
    /\ UNCHANGED <<simVars, sharedVars, gui, sample_period, mainQuit, events, idle>>

\* Mutant of PostGo: the callback does not ask to be called again.
PostGoOnce ==
    /\ Phase("post")
    /\ Top.messages = <<>> /\ play
    /\ go' = TRUE
    /\ live' = live \ {Top.timer}
    /\ stack' = SubSeq(stack, 1, Len(stack) - 1)
    /\ UNCHANGED <<simVars, quit, lock, target_time, pause_messages, gui, timerId, play,
                   sample_period, mainQuit, shown, events, idle>>

PostGo ==
    /\ Phase("post")
    /\ Top.messages = <<>> /\ play
    /\ go' = TRUE
    /\ stack' = SubSeq(stack, 1, Len(stack) - 1)
    /\ UNCHANGED <<simVars, quit, lock, target_time, pause_messages, gui, timerVars, play,
                   sample_period, mainQuit, shown, events, idle>>

FrameStep == TryFails \/ EndNest \/ TrySucceeds \/ PostPaused \/ PostGo

-----------------------------------------------------------------------------
(* The other handlers *)

\* update_model waits for the lock, then draws what the last run did.
UpdateModel ==
    /\ Looping
    /\ idle > 0
    /\ idle' = idle - 1
    /\ gui' = "locked"
    /\ UNCHANGED <<simVars, sharedVars, stack, timerVars, play, sample_period, mainQuit, shown, events>>

UserEvent ==
    /\ Looping
    /\ idle = 0
    /\ ~ quit
    /\ events < MaxEvents
    /\ events' = events + 1

\* Tooltips, dragging, selecting a node, information windows, the shell.
LockedHandler ==
    /\ UserEvent
    /\ gui' = "locked"
    /\ UNCHANGED <<simVars, sharedVars, stack, timerVars, play, sample_period, mainQuit, shown, idle>>

\* A handler gets the lock, does its work and releases it.
EndLocked ==
    /\ gui = "locked"
    /\ lock = "free"
    /\ gui' = "loop"
    /\ UNCHANGED <<simVars, sharedVars, stack, timerVars, play, sample_period, mainQuit, shown, events,
                   idle>>

\* Identifiers that nothing refers to, and the one the event loop gives out.
Unused == TimerIds \ (live \cup Running \cup {timerId})
Fresh  == CHOOSE t \in Unused : TRUE

\* Mutant of StartUpdateTimer: no timer is started when one is known.
StartUpdateTimerOnce ==
    IF timerId # None THEN UNCHANGED timerVars
    ELSE Unused # {} /\ timerId' = Fresh /\ live' = live \cup {timerId'}

\* The timer that is known is removed, if it still exists, and a new one started.
StartUpdateTimer ==
    /\ Unused # {}
    /\ timerId' = Fresh
    /\ live' = (live \ {timerId}) \cup {Fresh}

SpeedChanged ==
    /\ UserEvent
    /\ sample_period' \in Periods
    /\ StartUpdateTimer
    /\ UNCHANGED <<simVars, sharedVars, gui, stack, play, mainQuit, shown, idle>>

Play ==
    /\ UserEvent
    /\ ~ play
    /\ play' = TRUE
    /\ StartUpdateTimer
    /\ UNCHANGED <<simVars, sharedVars, gui, stack, sample_period, mainQuit, shown, idle>>

\* The identifier of the removed timer is kept.
Pause ==
    /\ UserEvent
    /\ play
    /\ Paused
    /\ UNCHANGED <<simVars, sharedVars, gui, stack, timerId, sample_period, mainQuit, shown, idle>>

\* _quit, up to self.simulation.quit = True
Quit ==
    /\ UserEvent
    /\ live' = live \ {timerId}
    /\ timerId' = None
    /\ quit' = TRUE
    /\ gui' = "signal"
    /\ UNCHANGED <<simVars, go, lock, target_time, pause_messages, stack, play, sample_period,
                   mainQuit, shown, idle>>

\* Mutant of Signal: a thread that waits is not woken.
SignalMissing ==
    /\ gui = "signal"
    /\ gui' = "join"
    /\ UNCHANGED <<simVars, sharedVars, stack, timerVars, play, sample_period, mainQuit, shown,
                   events, idle>>

Signal ==
    /\ gui = "signal"
    /\ gui' = "join"
    /\ go' = TRUE
    /\ UNCHANGED <<simVars, quit, lock, target_time, pause_messages, stack, timerVars, play,
                   sample_period, mainQuit, shown, events, idle>>

\* The simulation thread has ended; Gtk.main_quit.
Joined ==
    /\ gui = "join"
    /\ sim = "ended"
    /\ gui' = "loop"
    /\ mainQuit' = TRUE
    /\ UNCHANGED <<simVars, sharedVars, stack, timerVars, play, sample_period, shown, events, idle>>

HandlerStep == UpdateModel \/ EndLocked \/ Signal \/ Joined

User == LockedHandler \/ SpeedChanged \/ Play \/ Pause \/ Quit

Next == SimStep \/ FrameStep \/ HandlerStep \/ User \/ \E t \in TimerIds : Fire(t)

\* Both threads are scheduled.  The event loop executes what is ready: a callback
\* is not kept in its inner loop for ever, as timers fire at most every 100 ms and
\* the loop ends as soon as nothing is pending, and a timer that stays installed
\* fires.  The user need not do anything.
Fairness ==
    /\ WF_vars(SimStep)
    /\ SF_vars(FrameStep)
    /\ SF_vars(HandlerStep)
    /\ \A t \in TimerIds : SF_vars(Fire(t))

Spec == Init /\ [][Next]_vars /\ Fairness

-----------------------------------------------------------------------------
(* Properties *)

Message == 1 .. MaxMessages

TypeOK ==
    /\ sim \in {"test", "wait", "clear", "decide", "acquire", "run", "ended"}
    /\ {go, quit, play, mainQuit} \subseteq BOOLEAN
    /\ lock = (IF sim = "run" THEN "sim" ELSE "free")
    /\ {now, target_time} \subseteq 0 .. MaxTime
    /\ pause_messages \in Seq(Message)
    /\ gui \in {"loop", "locked", "signal", "join"}
    /\ stack \in Seq([timer : TimerIds, phase : {"try", "nest", "post"}, messages : Seq(Message)])
    /\ idle \in Nat
    /\ live \subseteq TimerIds
    /\ timerId \in TimerIds \cup {None}
    /\ sample_period \in Periods
    /\ produced \in 0 .. MaxMessages
    /\ shown \in Seq(Message)

\* Every callback but the innermost is in its inner loop, each for another timer,
\* and only the innermost can hold messages.
StackOK ==
    /\ \A i \in 1 .. Len(stack) - 1 : stack[i].phase = "nest"
    /\ \A i, j \in DOMAIN stack : i # j => stack[i].timer # stack[j].timer
    /\ \A i \in DOMAIN stack : stack[i].messages # <<>> => stack[i].phase = "post"

InHand == IF stack = <<>> THEN <<>> ELSE Top.messages

\* A message by which the simulation asks for a pause is shown exactly once, and
\* the messages are shown in their order, whatever the threads do and however the
\* callbacks of several timers nest: a message is waiting with the simulation
\* thread, in the hand of a callback, or in a dialog.
PauseMessagesOnce ==
    shown \o InHand \o pause_messages = [i \in 1 .. produced |-> i]

\* While the play button is pressed there is a timer, and it is the one that
\* pausing would remove; the model is never ahead of the time the view allowed.
PlayKeepsTimer ==
    /\ TypeOK
    /\ StackOK
    /\ play /\ ~ quit => timerId \in live
    /\ now <= target_time

\* While the play button is pressed, the simulation goes on.
PlayAdvances == play ~> (~ play \/ quit \/ now = MaxTime)

\* Closing the window ends both threads, whenever it is done, also from within the
\* callback of the timer.
QuitEnds == quit ~> (sim = "ended" /\ mainQuit /\ stack = <<>>)
=============================================================================
