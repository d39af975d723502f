-------------------------- MODULE VisualizerProofs --------------------------
(***************************************************************************)
(* The two threads of the visualizer neither lose, repeat nor reorder a    *)
(* message by which the simulation asks for a pause, and the play button   *)
(* never stays pressed without a timer, for any number of timers, messages *)
(* and user events and however the callbacks of the timers nest.           *)
(*                                                                         *)
(* The two properties are inductive together: what carries them is that a  *)
(* callback within which another one runs is in its inner loop, where it   *)
(* holds no messages (StackOK), and that only one callback takes messages  *)
(* at a time.                                                              *)
(***************************************************************************)
EXTENDS Visualizer, SequenceTheorems, TLAPS

Frame == [timer : TimerIds, phase : {"try", "nest", "post"}, messages : Seq(Message)]

IInv == PlayKeepsTimer /\ PauseMessagesOnce

\* What a step does to the stack of callbacks: its type, its shape and the
\* messages in hand.
StackBecomes(messages) ==
    stack' \in Seq(Frame) /\ StackOK' /\ InHand' = messages

-----------------------------------------------------------------------------
(* The stack of callbacks *)

\* The innermost callback.
LEMMA TopFrame ==
    ASSUME IInv, stack # <<>>
    PROVE  /\ Len(stack) \in Nat \ {0} /\ DOMAIN stack = 1 .. Len(stack)
           /\ Top \in Frame /\ InHand = Top.messages
<1>1. stack \in Seq(Frame)
  BY DEF IInv, PlayKeepsTimer, TypeOK, Frame
<1>2. Len(stack) \in Nat \ {0} /\ DOMAIN stack = 1 .. Len(stack)
  BY <1>1, EmptySeq, LenProperties
<1>3. Len(stack) \in 1 .. Len(stack)
  BY <1>2
<1>4. Top \in Frame
  BY <1>1, <1>3, ElementOfSeq DEF Top
<1> QED
  BY <1>2, <1>4 DEF InHand

\* A timer fires in the outer loop or in the inner loop of the innermost callback.
LEMMA Push ==
    ASSUME IInv, NEW t \in TimerIds \ Running,
           stack # <<>> => Top.phase = "nest",
           stack' = Append(stack, [timer |-> t, phase |-> "try", messages |-> <<>>])
    PROVE  StackBecomes(<<>>) /\ InHand = <<>>
<1> DEFINE f == [timer |-> t, phase |-> "try", messages |-> <<>>]
           n == Len(stack)
<1>1. stack \in Seq(Frame) /\ StackOK
  BY DEF IInv, PlayKeepsTimer, TypeOK, Frame
<1>2. f \in Frame
  BY EmptySeq DEF Frame
<1>3. n \in Nat /\ DOMAIN stack = 1 .. n
  BY <1>1, LenProperties
<1>4. /\ stack' \in Seq(Frame) /\ Len(stack') = n + 1 /\ stack' # <<>>
      /\ \A i \in 1 .. n : stack'[i] = stack[i]
      /\ stack'[n + 1] = f
  BY <1>1, <1>2, AppendProperties
<1>5. DOMAIN stack' = 1 .. n + 1
  BY <1>4, LenProperties
<1>6. \A i \in 1 .. n : stack[i].phase = "nest"
  <2> SUFFICES ASSUME NEW i \in 1 .. n PROVE stack[i].phase = "nest"
    OBVIOUS
  <2>1. CASE i = n
    <3>1. stack # <<>>
      BY <1>3, EmptySeq
    <3> QED
      BY <2>1, <3>1 DEF Top
  <2>2. CASE i # n
    <3>1. i \in 1 .. n - 1
      <4>1. n \in Nat
        BY <1>3
      <4> HIDE DEF n
      <4> QED
        BY <4>1, <2>2
    <3> QED
      BY <1>1, <3>1 DEF StackOK
  <2> QED
    BY <2>1, <2>2
<1>7. \A i \in 1 .. n : stack[i].timer # t
  BY <1>3 DEF Running
<1>8. StackOK'
  BY <1>1, <1>3, <1>4, <1>5, <1>6, <1>7 DEF StackOK
<1>9. InHand' = <<>>
  BY <1>4 DEF InHand, Top
<1>10. InHand = <<>>
  BY <1>1, <1>3, <1>6, TopFrame DEF InHand, Top, StackOK
<1> QED
  BY <1>4, <1>8, <1>9, <1>10 DEF StackBecomes

\* The innermost callback goes on.
LEMMA Replace ==
    ASSUME IInv, stack # <<>>, NEW f \in Frame, f.timer = Top.timer,
           f.messages # <<>> => f.phase = "post", SetTop(f)
    PROVE  StackBecomes(f.messages)
<1> DEFINE n == Len(stack)
<1>1. stack \in Seq(Frame) /\ StackOK
  BY DEF IInv, PlayKeepsTimer, TypeOK, Frame
<1>2. n \in Nat \ {0} /\ DOMAIN stack = 1 .. n
  BY TopFrame
<1>3. stack \in [1 .. n -> Frame]
  BY <1>1, LenProperties
<1>4. stack' = [stack EXCEPT ![n] = f]
  BY DEF SetTop
<1>5. stack' \in [1 .. n -> Frame] /\ n \in Nat
  BY <1>2, <1>3, <1>4
<1>6. stack' \in Seq(Frame) /\ Len(stack') = n /\ DOMAIN stack' = 1 .. n
  BY <1>5
<1>7. stack'[n] = f /\ \A i \in 1 .. n : i # n => stack'[i] = stack[i]
  BY <1>2, <1>3, <1>4
<1>8. \A i \in 1 .. n : stack'[i].timer = stack[i].timer
  BY <1>7 DEF Top
<1>9. StackOK'
  <2>1. \A i \in 1 .. n - 1 : stack'[i].phase = "nest"
    <3> SUFFICES ASSUME NEW i \in 1 .. n - 1 PROVE stack'[i].phase = "nest"
      OBVIOUS
    <3>1. i \in 1 .. n /\ i # n
      <4>1. n \in Nat
        BY <1>2
      <4> HIDE DEF n
      <4> QED
        BY <4>1
    <3>2. stack'[i] = stack[i]
      BY <1>7, <3>1
    <3> QED
      BY <1>1, <3>2 DEF StackOK
  <2>2. \A i, j \in 1 .. n : i # j => stack'[i].timer # stack'[j].timer
    BY <1>1, <1>2, <1>8 DEF StackOK
  <2>3. \A i \in 1 .. n : stack'[i].messages # <<>> => stack'[i].phase = "post"
    <3> SUFFICES ASSUME NEW i \in 1 .. n, stack'[i].messages # <<>>
                 PROVE  stack'[i].phase = "post"
      OBVIOUS
    <3>1. CASE i = n
      BY <1>7, <3>1
    <3>2. CASE i # n
      <4>1. stack'[i] = stack[i]
        BY <1>7, <3>2
      <4> QED
        BY <1>1, <1>2, <4>1 DEF StackOK
    <3> QED
      BY <3>1, <3>2
  <2> QED
    BY <1>6, <2>1, <2>2, <2>3 DEF StackOK
<1>10. stack' # <<>>
  BY <1>2, <1>6, EmptySeq
<1>11. InHand' = f.messages
  BY <1>6, <1>7, <1>10 DEF InHand, Top
<1> QED
  BY <1>6, <1>9, <1>11 DEF StackBecomes

\* The innermost callback ends; the one within whose loop it ran holds nothing.
LEMMA Pop ==
    ASSUME IInv, stack # <<>>, stack' = SubSeq(stack, 1, Len(stack) - 1)
    PROVE  StackBecomes(<<>>)
<1> DEFINE n == Len(stack)
<1>1. stack \in Seq(Frame) /\ StackOK
  BY DEF IInv, PlayKeepsTimer, TypeOK, Frame
<1>2. n \in Nat \ {0} /\ DOMAIN stack = 1 .. n
  BY TopFrame
<1>3. \A i \in 1 .. n - 1 : stack[i] \in Frame
  BY <1>1, <1>2, ElementOfSeq
<1>4. /\ stack' \in Seq(Frame) /\ Len(stack') = n - 1
      /\ \A i \in 1 .. n - 1 : stack'[i] = stack[i]
  <2>1. 1 \in Int /\ n - 1 \in Int
    BY <1>2
  <2>2. /\ stack' \in Seq(Frame)
        /\ Len(stack') = IF 1 <= n - 1 THEN n - 1 - 1 + 1 ELSE 0
        /\ \A i \in 1 .. n - 1 - 1 + 1 : stack'[i] = stack[1 + i - 1]
    BY <1>3, <2>1, SubSeqProperties
  <2> QED
    BY <1>2, <2>2
<1>5. DOMAIN stack' = 1 .. n - 1
  BY <1>4, LenProperties
<1>6. StackOK'
  BY <1>1, <1>2, <1>4, <1>5 DEF StackOK
<1>7. InHand' = <<>>
  <2>1. CASE stack' = <<>>
    BY <2>1 DEF InHand
  <2>2. CASE stack' # <<>>
    <3>1. n - 1 \in 1 .. n - 1
      BY <1>2, <1>4, <2>2, EmptySeq
    <3>2. stack'[n - 1].phase = "nest" /\ (stack'[n - 1].messages # <<>> => stack'[n - 1].phase = "post")
      BY <1>1, <1>2, <1>4, <3>1 DEF StackOK
    <3> QED
      BY <1>4, <2>2, <3>2 DEF InHand, Top
  <2> QED
    BY <2>1, <2>2
<1> QED
  BY <1>4, <1>6, <1>7 DEF StackBecomes

-----------------------------------------------------------------------------
(* The messages *)

LEMMA HandTyped ==
    ASSUME IInv
    PROVE  /\ InHand \in Seq(Message) /\ shown \in Seq(Message)
           /\ pause_messages \in Seq(Message)
<1>1. CASE stack = <<>>
  BY <1>1, EmptySeq DEF InHand, IInv, PlayKeepsTimer, TypeOK
<1>2. CASE stack # <<>>
  BY <1>2, TopFrame DEF IInv, PlayKeepsTimer, TypeOK, Frame
<1> QED
  BY <1>1, <1>2

LEMMA NumbersExtended ==
    ASSUME NEW n \in Nat
    PROVE  [i \in 1 .. n |-> i] \o <<n + 1>> = [i \in 1 .. n + 1 |-> i]
<1> DEFINE numbers == [i \in 1 .. n |-> i]
           last    == <<n + 1>>
           more    == [i \in 1 .. n + 1 |-> i]
<1>1. numbers \in Seq(Nat) /\ Len(numbers) = n /\ \A i \in 1 .. n : numbers[i] = i
  <2>1. numbers \in [1 .. n -> Nat]
    OBVIOUS
  <2> QED
    BY <2>1
<1>2. last \in Seq(Nat) /\ Len(last) = 1 /\ last[1] = n + 1
  OBVIOUS
<1>3. more \in Seq(Nat) /\ Len(more) = n + 1 /\ \A i \in 1 .. n + 1 : more[i] = i
  <2>1. more \in [1 .. n + 1 -> Nat] /\ n + 1 \in Nat
    OBVIOUS
  <2> QED
    BY <2>1
<1> HIDE DEF numbers, last, more
<1>4. /\ numbers \o last \in Seq(Nat) /\ Len(numbers \o last) = n + 1
      /\ \A i \in 1 .. n + 1 :
            (numbers \o last)[i] = IF i <= n THEN numbers[i] ELSE last[i - n]
  <2>1. /\ numbers \o last \in Seq(Nat) /\ Len(numbers \o last) = Len(numbers) + Len(last)
        /\ \A i \in 1 .. Len(numbers) + Len(last) :
              (numbers \o last)[i] =
                  IF i <= Len(numbers) THEN numbers[i] ELSE last[i - Len(numbers)]
    BY <1>1, <1>2, ConcatProperties, Zenon
  <2> QED
    BY <1>1, <1>2, <2>1
<1>5. \A i \in 1 .. n + 1 : (numbers \o last)[i] = more[i]
  <2> SUFFICES ASSUME NEW i \in 1 .. n + 1 PROVE (numbers \o last)[i] = more[i]
    OBVIOUS
  <2>1. CASE i <= n
    BY <1>1, <1>3, <1>4, <2>1
  <2>2. CASE ~ i <= n
    <3>1. i - n = 1 /\ i = n + 1
      BY <2>2
    <3> QED
      BY <1>2, <1>3, <1>4, <2>2, <3>1
  <2> QED
    BY <2>1, <2>2
<1>6. numbers \o last = more
  BY <1>3, <1>4, <1>5, SeqEqual
<1> QED
  BY <1>6 DEF numbers, last, more

\* The simulation thread adds a message behind all others.
LEMMA MessageAdded ==
    ASSUME IInv, AskPause, UNCHANGED <<shown, stack>>
    PROVE  /\ PauseMessagesOnce'
           /\ produced' \in 0 .. MaxMessages /\ pause_messages' \in Seq(Message)
<1> DEFINE before == shown \o InHand
           numbers == [i \in 1 .. produced |-> i]
<1>1. produced \in Nat /\ MaxMessages \in Nat /\ produced' = produced + 1
      /\ produced' \in 1 .. MaxMessages
  BY VisualizerAssumption DEF IInv, PlayKeepsTimer, TypeOK, AskPause
<1>2. produced' \in Message /\ \A i \in 1 .. produced' : i \in Message
  BY <1>1 DEF Message
<1>3. pause_messages' = Append(pause_messages, produced')
  BY DEF AskPause
<1>4. pause_messages' \in Seq(Message) /\ pause_messages' = pause_messages \o <<produced'>>
  BY <1>2, <1>3, HandTyped, AppendProperties, AppendIsConcat
<1>5. before \in Seq(Message) /\ <<produced'>> \in Seq(Message)
  BY <1>2, HandTyped, ConcatProperties
<1>6. before' = before
  BY DEF InHand, Top
<1>7. before \o pause_messages = numbers
  BY DEF IInv, PauseMessagesOnce
<1>8. before \o pause_messages' = numbers \o <<produced'>>
  <2>1. (before \o pause_messages) \o <<produced'>> = before \o (pause_messages \o <<produced'>>)
    BY <1>5, HandTyped, ConcatAssociative
  <2> QED
    BY <2>1, <1>4, <1>7
<1>9. numbers \o <<produced'>> = [i \in 1 .. produced' |-> i]
  BY <1>1, NumbersExtended
<1>10. PauseMessagesOnce'
  BY <1>6, <1>8, <1>9 DEF PauseMessagesOnce
<1> QED
  BY <1>1, <1>4, <1>10

\* A callback takes all messages, or puts those it took into a dialog.
LEMMA MessagesPassedOn ==
    ASSUME IInv, produced' = produced,
           \/ /\ InHand = <<>> /\ InHand' = pause_messages
              /\ pause_messages' = <<>> /\ shown' = shown
           \/ /\ InHand' = <<>> /\ shown' = shown \o InHand
              /\ UNCHANGED pause_messages
           \/ InHand' = InHand /\ UNCHANGED <<shown, pause_messages>>
    PROVE  PauseMessagesOnce' /\ pause_messages' \in Seq(Message) /\ shown' \in Seq(Message)
<1>1. shown \o InHand \in Seq(Message)
  BY HandTyped, ConcatProperties
<1>2. CASE /\ InHand = <<>> /\ InHand' = pause_messages
           /\ pause_messages' = <<>> /\ shown' = shown
  <2>1. shown \o InHand = shown
    BY <1>2, HandTyped, ConcatEmptySeq
  <2>2. shown \o pause_messages \in Seq(Message)
    BY HandTyped, ConcatProperties
  <2>3. (shown \o pause_messages) \o <<>> = shown \o pause_messages
    BY <2>2, ConcatEmptySeq
  <2> QED
    BY <1>2, <2>1, <2>3, HandTyped, EmptySeq DEF IInv, PauseMessagesOnce
<1>3. CASE /\ InHand' = <<>> /\ shown' = shown \o InHand
           /\ UNCHANGED pause_messages
  <2>1. (shown \o InHand) \o <<>> = shown \o InHand
    BY <1>1, ConcatEmptySeq
  <2> QED
    BY <1>1, <1>3, <2>1, HandTyped DEF IInv, PauseMessagesOnce
<1>4. CASE InHand' = InHand /\ UNCHANGED <<shown, pause_messages>>
  BY <1>4, HandTyped DEF IInv, PauseMessagesOnce
<1> QED
  BY <1>2, <1>3, <1>4

-----------------------------------------------------------------------------
(* Every step preserves the invariant *)

LEMMA InitInv == Init => IInv
<1> SUFFICES ASSUME Init PROVE IInv
  OBVIOUS
<1>1. timerId \in TimerIds /\ live = {timerId}
  BY VisualizerAssumption DEF Init
<1>2. {go, quit, play, mainQuit} \subseteq BOOLEAN
  BY Zenon DEF Init
<1>3. /\ pause_messages = <<>> /\ stack = <<>> /\ shown = <<>> /\ produced = 0
      /\ pause_messages \in Seq(Message) /\ shown \in Seq(Message) /\ stack \in Seq(Frame)
  BY EmptySeq DEF Init
<1>4. TypeOK
  BY <1>1, <1>2, <1>3, VisualizerAssumption DEF Init, TypeOK, Frame
<1>5. StackOK /\ (play /\ ~ quit => timerId \in live) /\ now <= target_time
  BY <1>1, <1>3 DEF Init, StackOK
<1>6. PauseMessagesOnce
  <2>1. shown \o InHand \o pause_messages = <<>>
    BY <1>3, ConcatEmptySeq DEF InHand
  <2>2. [i \in 1 .. produced |-> i] = <<>>
    BY <1>3
  <2> QED
    BY <2>1, <2>2 DEF PauseMessagesOnce
<1> QED
  BY <1>4, <1>5, <1>6 DEF IInv, PlayKeepsTimer

\* The simulation thread never runs ahead of what the view allowed.
LEMMA SimStepInv ==
    ASSUME IInv, SimStep
    PROVE  IInv'
<1>1. UNCHANGED <<gui, stack, live, timerId, play, sample_period, mainQuit, shown, events>>
  BY DEF SimStep, guiVars, timerVars
<1>2. InHand' = InHand
  BY <1>1 DEF InHand, Top
<1>3. StackOK'
  BY <1>1 DEF IInv, PlayKeepsTimer, StackOK
<1>4. CASE Run
  <2>1. /\ sim = "run" /\ sim' = "test" /\ idle' = idle + 1 /\ lock' = "free"
        /\ UNCHANGED <<go, quit, target_time>>
    BY <1>4 DEF Run, SimGoes
  <2>2. now' \in 0 .. MaxTime /\ now' <= target_time
    BY <1>4, VisualizerAssumption
    DEF Run, RunUntilTarget, StopEarly, IInv, PlayKeepsTimer, TypeOK
  <2>3. /\ PauseMessagesOnce'
        /\ produced' \in 0 .. MaxMessages /\ pause_messages' \in Seq(Message)
    <3>1. CASE AskPause
      BY <3>1, <1>1, MessageAdded
    <3>2. CASE UNCHANGED <<produced, pause_messages>>
      BY <3>2, <1>1, <1>2, MessagesPassedOn DEF IInv, PlayKeepsTimer, TypeOK
    <3> QED
      BY <1>4, <3>1, <3>2 DEF Run
  <2>4. TypeOK'
    BY <1>1, <2>1, <2>2, <2>3 DEF IInv, PlayKeepsTimer, TypeOK
  <2> QED
    BY <1>1, <1>3, <2>1, <2>2, <2>3, <2>4 DEF IInv, PlayKeepsTimer
<1>5. CASE Test \/ Wait \/ Clear \/ Decide \/ Acquire
  <2>1. /\ UNCHANGED <<now, produced, target_time, pause_messages, quit, idle>>
        /\ go' = go \/ go' = FALSE
        /\ sim' \in {"test", "wait", "clear", "decide", "acquire", "run", "ended"}
        /\ lock' = IF sim' = "run" THEN "sim" ELSE "free"
    BY <1>5 DEF Test, Wait, Clear, Decide, Acquire, SimGoes, sharedVars, IInv, PlayKeepsTimer,
                TypeOK
  <2>2. {go', quit', play', mainQuit'} \subseteq BOOLEAN
    BY <1>1, <2>1, Zenon DEF IInv, PlayKeepsTimer, TypeOK
  <2>3. TypeOK'
    BY <1>1, <2>1, <2>2 DEF IInv, PlayKeepsTimer, TypeOK
  <2>4. PauseMessagesOnce'
    BY <1>1, <1>2, <2>1, MessagesPassedOn
  <2> QED
    BY <1>1, <1>3, <2>1, <2>3, <2>4 DEF IInv, PlayKeepsTimer
<1> QED
  BY <1>4, <1>5 DEF SimStep

\* A callback of a timer takes a step; the model may be allowed to go on.
LEMMA FrameInv ==
    ASSUME IInv, NEW messages, StackBecomes(messages), UNCHANGED <<simVars, quit, lock, gui>>,
           idle' = idle, UNCHANGED <<sample_period, mainQuit>>,
           go' \in BOOLEAN, play' \in BOOLEAN,
           target_time' \in 0 .. MaxTime, now <= target_time',
           live' \subseteq TimerIds, timerId' \in TimerIds \cup {None},
           play' /\ ~ quit => timerId' \in live',
           \/ /\ InHand = <<>> /\ messages = pause_messages
              /\ pause_messages' = <<>> /\ shown' = shown
           \/ /\ messages = <<>> /\ shown' = shown \o InHand
              /\ UNCHANGED pause_messages
           \/ messages = InHand /\ UNCHANGED <<shown, pause_messages>>
    PROVE  IInv'
<1>1. UNCHANGED <<sim, now, produced, stops>>
  BY DEF simVars
<1>2. InHand' = messages /\ stack' \in Seq(Frame) /\ StackOK'
  BY DEF StackBecomes
<1>3. PauseMessagesOnce' /\ pause_messages' \in Seq(Message) /\ shown' \in Seq(Message)
  BY <1>1, <1>2, MessagesPassedOn
<1>4. {go', quit', play', mainQuit'} \subseteq BOOLEAN
  BY Zenon DEF IInv, PlayKeepsTimer, TypeOK
<1>5. TypeOK'
  BY <1>1, <1>2, <1>3, <1>4 DEF IInv, PlayKeepsTimer, TypeOK, Frame
<1> QED
  BY <1>1, <1>2, <1>3, <1>5 DEF IInv, PlayKeepsTimer

\* What the invariant says of the variables that the callbacks leave alone.
LEMMA TypesKept ==
    ASSUME IInv
    PROVE  /\ go \in BOOLEAN /\ play \in BOOLEAN /\ target_time \in 0 .. MaxTime
           /\ now \in 0 .. MaxTime /\ now <= target_time
           /\ live \subseteq TimerIds /\ timerId \in TimerIds \cup {None}
           /\ (play /\ ~ quit => timerId \in live)
<1>1. go \in BOOLEAN /\ play \in BOOLEAN
  BY Zenon DEF IInv, PlayKeepsTimer, TypeOK
<1> QED
  BY <1>1 DEF IInv, PlayKeepsTimer, TypeOK

LEMMA FireInv ==
    ASSUME IInv, NEW t \in TimerIds, Fire(t)
    PROVE  IInv'
<1>1. /\ t \in live \ Running /\ (stack # <<>> => Top.phase = "nest")
      /\ stack' = Append(stack, [timer |-> t, phase |-> "try", messages |-> <<>>])
      /\ UNCHANGED <<simVars, sharedVars, gui, timerVars, play, sample_period, mainQuit,
                     shown, idle>>
  BY DEF Fire, Looping
<1>2. StackBecomes(<<>>) /\ InHand = <<>>
  BY <1>1, Push
<1> QED
  BY <1>1, <1>2, TypesKept, FrameInv DEF sharedVars, timerVars

LEMMA FrameStepInv ==
    ASSUME IInv, FrameStep
    PROVE  IInv'
<1>1. stack # <<>> /\ Top \in Frame /\ InHand = Top.messages
  BY TopFrame DEF FrameStep, TryFails, EndNest, TrySucceeds, PostPaused, PostGo, Phase
<1>2. Top.phase # "post" => Top.messages = <<>>
  BY <1>1, TopFrame DEF IInv, PlayKeepsTimer, StackOK, Top
<1>3. CASE TryFails \/ EndNest
  <2>1. PICK p \in {"try", "nest"} :
            /\ Top.phase # "post" /\ SetTop([Top EXCEPT !.phase = p])
            /\ UNCHANGED <<simVars, sharedVars, gui, timerVars, play, sample_period,
                           mainQuit, shown, idle>>
    BY <1>3 DEF TryFails, EndNest, Phase
  <2> DEFINE f == [Top EXCEPT !.phase = p]
  <2>2. f \in Frame /\ f.timer = Top.timer /\ f.messages = <<>>
    BY <1>1, <1>2, <2>1 DEF Frame
  <2>3. StackBecomes(<<>>)
    <3> HIDE DEF f
    <3>1. StackBecomes(f.messages)
      BY <1>1, <2>1, <2>2, Replace DEF f
    <3> QED
      BY <2>2, <3>1
  <2> QED
    BY <1>1, <1>2, <2>1, <2>3, TypesKept, FrameInv DEF sharedVars, timerVars
<1>4. CASE TrySucceeds
  <2> DEFINE f == [Top EXCEPT !.phase = "post", !.messages = pause_messages]
  <2>1. /\ Top.phase = "try" /\ SetTop(f) /\ pause_messages' = <<>>
        /\ target_time' = Capped(now + sample_period)
        /\ UNCHANGED <<simVars, go, quit, lock, gui, timerVars, play, sample_period,
                       mainQuit, shown, idle>>
    BY <1>4 DEF TrySucceeds, UpdateView, Phase
  <2>2. f \in Frame /\ f.timer = Top.timer /\ f.messages = pause_messages /\ f.phase = "post"
    BY <1>1, HandTyped DEF Frame
  <2>3. StackBecomes(pause_messages)
    <3> HIDE DEF f
    <3>1. StackBecomes(f.messages)
      BY <1>1, <2>1, <2>2, Replace
    <3> QED
      BY <2>2, <3>1
  <2>4. target_time' \in 0 .. MaxTime /\ now <= target_time'
    BY <2>1, VisualizerAssumption DEF Capped, IInv, PlayKeepsTimer, TypeOK
  <2> QED
    BY <1>1, <1>2, <2>1, <2>3, <2>4, TypesKept, FrameInv DEF timerVars
<1>5. CASE PostPaused
  <2>1. /\ shown' = shown \o InHand /\ play' = FALSE /\ timerId' = None
        /\ live' \subseteq live /\ stack' = SubSeq(stack, 1, Len(stack) - 1)
        /\ UNCHANGED <<simVars, sharedVars, gui, sample_period, mainQuit, idle>>
    BY <1>1, <1>5 DEF PostPaused
  <2>2. StackBecomes(<<>>)
    BY <1>1, <2>1, Pop
  <2>3. play' \in BOOLEAN /\ ~ play'
    BY <2>1, Zenon
  <2>4. live' \subseteq TimerIds
    BY <2>1, TypesKept
  <2> QED
    BY <2>1, <2>2, <2>3, <2>4, TypesKept, FrameInv DEF sharedVars
<1>6. CASE PostGo
  <2>1. /\ InHand = <<>> /\ go' = TRUE /\ stack' = SubSeq(stack, 1, Len(stack) - 1)
        /\ UNCHANGED <<simVars, quit, lock, target_time, pause_messages, gui, timerVars,
                       play, sample_period, mainQuit, shown, idle>>
    BY <1>1, <1>6 DEF PostGo
  <2>2. StackBecomes(<<>>)
    BY <1>1, <2>1, Pop
  <2>3. go' \in BOOLEAN
    BY <2>1, Zenon
  <2> QED
    BY <2>1, <2>2, <2>3, TypesKept, FrameInv DEF timerVars
<1> QED
  BY <1>3, <1>4, <1>5, <1>6 DEF FrameStep

\* A step of another handler, which leaves the callbacks and the messages alone.
LEMMA OtherInv ==
    ASSUME IInv,
           UNCHANGED <<simVars, lock, target_time, pause_messages, stack, shown>>,
           go' \in BOOLEAN, quit' \in BOOLEAN, play' \in BOOLEAN, mainQuit' \in BOOLEAN,
           gui' \in {"loop", "locked", "signal", "join"},
           idle' \in Nat, sample_period' \in Periods,
           live' \subseteq TimerIds, timerId' \in TimerIds \cup {None},
           play' /\ ~ quit' => timerId' \in live'
    PROVE  IInv'
<1>1. UNCHANGED <<sim, now, produced, stops>>
  BY DEF simVars
<1>2. InHand' = InHand
  BY DEF InHand, Top
<1>3. PauseMessagesOnce'
  BY <1>1, <1>2, MessagesPassedOn
<1>4. {go', quit', play', mainQuit'} \subseteq BOOLEAN
  BY Zenon
<1>5. TypeOK' /\ StackOK'
  BY <1>1, <1>4 DEF IInv, PlayKeepsTimer, TypeOK, StackOK
<1> QED
  BY <1>1, <1>3, <1>5 DEF IInv, PlayKeepsTimer

LEMMA HandlerInv ==
    ASSUME IInv, HandlerStep \/ User
    PROVE  IInv'
<1>1. /\ go \in BOOLEAN /\ quit \in BOOLEAN /\ play \in BOOLEAN /\ mainQuit \in BOOLEAN
  BY Zenon DEF IInv, PlayKeepsTimer, TypeOK
<1>2. /\ gui \in {"loop", "locked", "signal", "join"} /\ idle \in Nat
      /\ sample_period \in Periods /\ live \subseteq TimerIds
      /\ timerId \in TimerIds \cup {None} /\ (play /\ ~ quit => timerId \in live)
  BY DEF IInv, PlayKeepsTimer, TypeOK
<1>3. ASSUME StartUpdateTimer
      PROVE  live' \subseteq TimerIds /\ timerId' \in TimerIds /\ timerId' \in live'
  <2>1. Fresh \in TimerIds
    BY <1>3 DEF StartUpdateTimer, Fresh, Unused
  <2> QED
    BY <1>2, <1>3, <2>1 DEF StartUpdateTimer
<1>4. CASE UpdateModel \/ LockedHandler \/ EndLocked
  <2>1. /\ gui' \in {"loop", "locked"} /\ idle' \in Nat
        /\ UNCHANGED <<simVars, sharedVars, stack, timerVars, play, sample_period, mainQuit,
                       shown>>
    BY <1>2, <1>4 DEF UpdateModel, LockedHandler, EndLocked
  <2> QED
    BY <1>1, <1>2, <2>1, OtherInv DEF sharedVars, timerVars
<1>5. CASE Signal
  <2>1. go' \in BOOLEAN
    BY <1>5, Zenon DEF Signal
  <2> QED
    BY <1>1, <1>2, <1>5, <2>1, OtherInv DEF Signal, timerVars
<1>6. CASE Joined
  <2>1. mainQuit' \in BOOLEAN
    BY <1>6, Zenon DEF Joined
  <2> QED
    BY <1>1, <1>2, <1>6, <2>1, OtherInv DEF Joined, sharedVars, timerVars
<1>7. CASE SpeedChanged
  <2>1. /\ sample_period' \in Periods /\ StartUpdateTimer
        /\ UNCHANGED <<simVars, sharedVars, gui, stack, play, mainQuit, shown, idle>>
    BY <1>7 DEF SpeedChanged
  <2> QED
    BY <1>1, <1>2, <1>3, <2>1, OtherInv DEF sharedVars
<1>8. CASE Play
  <2>1. /\ StartUpdateTimer
        /\ UNCHANGED <<simVars, sharedVars, gui, stack, sample_period, mainQuit, shown, idle>>
    BY <1>8 DEF Play
  <2>2. play' \in BOOLEAN
    BY <1>8, Zenon DEF Play
  <2> QED
    BY <1>1, <1>2, <1>3, <2>1, <2>2, OtherInv DEF sharedVars
<1>9. CASE Pause
  <2>1. /\ live' \subseteq live
        /\ UNCHANGED <<simVars, sharedVars, gui, stack, timerId, sample_period, mainQuit,
                       shown, idle>>
    BY <1>9 DEF Pause, Paused
  <2>2. play' \in BOOLEAN /\ ~ play'
    BY <1>9, Zenon DEF Pause, Paused
  <2> QED
    BY <1>1, <1>2, <2>1, <2>2, OtherInv DEF sharedVars
<1>10. CASE Quit
  <2>1. /\ live' \subseteq live /\ timerId' = None /\ gui' = "signal"
        /\ UNCHANGED <<simVars, go, lock, target_time, pause_messages, stack, play,
                       sample_period, mainQuit, shown, idle>>
    BY <1>10 DEF Quit
  <2>2. quit' \in BOOLEAN /\ quit'
    BY <1>10, Zenon DEF Quit
  <2> QED
    BY <1>1, <1>2, <2>1, <2>2, OtherInv
<1> QED
  BY <1>4, <1>5, <1>6, <1>7, <1>8, <1>9, <1>10 DEF HandlerStep, User

LEMMA StepInv == IInv /\ [Next]_vars => IInv'
<1> SUFFICES ASSUME IInv, [Next]_vars PROVE IInv'
  OBVIOUS
<1>1. CASE UNCHANGED vars
  <2>1. UNCHANGED <<simVars, sharedVars, stack, shown, gui, idle, timerVars, play,
                    sample_period, mainQuit>>
    BY <1>1 DEF vars, guiVars
  <2>2. quit' \in BOOLEAN /\ mainQuit' \in BOOLEAN
    BY <2>1, Zenon DEF IInv, PlayKeepsTimer, TypeOK, sharedVars
  <2>3. /\ gui' \in {"loop", "locked", "signal", "join"} /\ idle' \in Nat
        /\ sample_period' \in Periods
    BY <2>1 DEF IInv, PlayKeepsTimer, TypeOK
  <2> QED
    BY <2>1, <2>2, <2>3, TypesKept, OtherInv DEF sharedVars, timerVars
<1> QED
  BY <1>1, SimStepInv, FrameStepInv, HandlerInv, FireInv DEF Next

LEMMA Invariant == Spec => []IInv
BY InitInv, StepInv, PTL DEF Spec

-----------------------------------------------------------------------------
(* The properties *)

\* No message of the simulation is lost, shown twice or shown out of order: what
\* the dialogs have shown, what a callback has taken and what waits with the
\* simulation thread are the messages produced so far, in their order.
THEOREM MessagesAreShownOnce == Spec => []PauseMessagesOnce
<1>1. IInv => PauseMessagesOnce
  BY DEF IInv
<1> QED
  BY <1>1, Invariant, PTL

\* As long as play is pressed and the window open, the timer that the user
\* interface knows is installed, and the simulation has not passed target_time.
THEOREM PlayHasATimer == Spec => []PlayKeepsTimer
<1>1. IInv => PlayKeepsTimer
  BY DEF IInv
<1> QED
  BY <1>1, Invariant, PTL

=============================================================================
