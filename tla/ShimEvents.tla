----------------------------- MODULE ShimEvents -----------------------------
(***************************************************************************)
(* What an App hears from the shim (apps/abpad/src/shim/shim_state.cpp,    *)
(* abpad_shim.cpp, and core/keyboard_mode.cpp): every call of SDL makes    *)
(* the shim compare the pads with what it saw last and queue the           *)
(* difference, and SDL_PollEvent hands the queue out one event at a time.  *)
(* The queue is bounded and loses its oldest; an SDL 1.2 App cannot be     *)
(* told of controller events; an App may switch events off.                *)
(* A pad is the set of elements it holds: buttons only, as an axis speaks  *)
(* again at its next motion.  A pad that is not there holds nothing.       *)
(***************************************************************************)
EXTENDS Integers, SequencesExt

CONSTANTS
    Players,       \* Profile::players, so many pads
    ElementOrder,  \* the elements of a pad, in Element's order
    Laid,          \* those the layout has a joystick button for
    KeyOf,         \* the key an element is bound to, by scancode
    NoKey,
    QueueMax,      \* 256 in the code
    MaxChanges     \* presses and releases in one behaviour

Elements == Range(ElementOrder)
Pads == 1..Players

ASSUME ShimAssumption ==
    /\ Players \in Nat \ {0}
    /\ ElementOrder \in Seq(Elements)
    /\ IsInjective(ElementOrder)
    /\ Laid \subseteq Elements
    /\ DOMAIN KeyOf = Elements
    /\ QueueMax \in Nat \ {0}
    /\ MaxChanges \in Nat

Keys == Range(KeyOf) \ {NoKey}

\* What can be down, in each of the three views an App may have of a pad.
Button(p, e)     == <<"joystick", p, e>>
Controller(p, e) == <<"controller", p, e>>
Key(k)           == <<"key", k>>
Things ==
    {Button(p, e) : p \in Pads, e \in Laid} \cup {Controller(p, e) : p \in Pads, e \in Elements}
        \cup {Key(k) : k \in Keys}

Said(t, down) == [kind |-> "change", thing |-> t, down |-> down]
Quit == [kind |-> "quit"]
Added == [kind |-> "added"]
Events == {Said(t, d) : t \in Things, d \in BOOLEAN} \cup {Quit, Added}

VARIABLES
    mode,     \* Profile::mode: "joystick", "keyboard" or "both"
    sdl,      \* the App's: "1.2" or "2"
    pads,     \* what the daemon's block says each pad holds
    shim,     \* ShimState: announcedPads_, controller_, KeyboardMode::held_, events_
    wants,    \* ShimState::eventsEnabled_
    quit,     \* a request to quit: "none", "due" (in the block), "queued", "told"
    appDown,  \* what the App takes to be down, by the events it was given
    missed,   \* history: a pad changed while events were off
    dropped,  \* history: an event was dropped
    repeated, \* history: the App was told a second time what it knew
    changes   \* presses and releases so far

vars == <<mode, sdl, pads, shim, wants, quit, appDown, missed, dropped, repeated, changes>>

TypeOK ==
    /\ mode \in {"joystick", "keyboard", "both"}
    /\ sdl \in {"1.2", "2"}
    /\ pads \in [Pads -> SUBSET Elements]
    /\ shim \in [announced : BOOLEAN, controller : [Pads -> SUBSET Elements],
                 held : [Pads -> SUBSET Elements], events : Seq(Events)]
    /\ Len(shim.events) <= QueueMax
    /\ wants \in BOOLEAN
    /\ quit \in {"none", "due", "queued", "told"}
    /\ appDown \subseteq Things
    /\ {missed, dropped, repeated} \subseteq BOOLEAN
    /\ changes \in 0..MaxChanges

Nothing == [p \in Pads |-> {}]

Init ==
    /\ mode \in {"joystick", "keyboard", "both"}
    /\ sdl \in {"1.2", "2"}
    /\ pads = Nothing
    /\ shim = [announced |-> FALSE, controller |-> Nothing, held |-> Nothing, events |-> <<>>]
    /\ wants = TRUE
    /\ quit = "none"
    /\ appDown = {}
    /\ missed = FALSE
    /\ dropped = FALSE
    /\ repeated = FALSE
    /\ changes = 0

wantsJoystick == mode \in {"joystick", "both"}
wantsKeyboard == mode \in {"keyboard", "both"}

-----------------------------------------------------------------------------
(* The difference between two states of a pad, as events.                  *)

\* An event for every element of C, in their order, in one view of pad p.
Tell(es, view, p, C, now) ==
    LET told[i \in 0..Len(ElementOrder)] ==
            IF i = 0 THEN es
            ELSE LET e == ElementOrder[i]
                 IN  IF e \in C THEN Append(told[i - 1], Said(<<view, p, e>>, e \in now)) ELSE told[i - 1]
    IN  told[Len(ElementOrder)]

\* diff, then diffController, behind the events es
diff(es, p, before, after) ==
    LET changed == (before \ after) \cup (after \ before)
    IN  Tell(Tell(es, "joystick", p, changed \cap Laid, after), "controller", p, changed, after)

\* A mutant: a key is let go of with the first of its holders on another pad.
heldElsewhere_OnPad(held, p, e) ==
    \E i \in held[p] : i # e /\ KeyOf[i] = KeyOf[e]

\* KeyboardMode::heldElsewhere
heldElsewhere(held, p, e) ==
    \E q \in Pads : \E i \in held[q] : <<q, i>> # <<p, e>> /\ KeyOf[i] = KeyOf[e]

\* KeyboardMode::update of element e, on s of ShimState...
press(s, p, e, now) ==
    IF KeyOf[e] = NoKey \/ (e \in s.held[p]) = (e \in now) THEN s
    ELSE [s EXCEPT !.held[p] = IF e \in now THEN @ \cup {e} ELSE @ \ {e},
                   !.events = IF heldElsewhere(s.held, p, e) THEN @
                              ELSE Append(@, Said(Key(KeyOf[e]), e \in now))]

\* ...and of all, in their order.
keyboard(s, p, now) ==
    LET step[i \in 0..Len(ElementOrder)] ==
            IF i = 0 THEN s ELSE press(step[i - 1], p, ElementOrder[i], now)
    IN  step[Len(ElementOrder)]

-----------------------------------------------------------------------------
(* ShimState::update                                                       *)

announce(s) ==
    IF s.announced \/ ~wants THEN s
    ELSE [s EXCEPT !.announced = TRUE, !.events = @ \o [p \in Pads |-> Added]]

\* A mutant: keyboard mode follows the pads while events are off.
lookAt_KeysToo(s, p) ==
    LET t == IF wants /\ wantsJoystick
             THEN [s EXCEPT !.events = diff(@, p, s.controller[p], pads[p])] ELSE s
        k == keyboard(t, p, pads[p])
        u == IF ~wantsKeyboard THEN t ELSE IF wants THEN k ELSE [k EXCEPT !.events = t.events]
    IN  [u EXCEPT !.controller[p] = pads[p]]

lookAt(s, p) ==
    LET t == IF wants /\ wantsJoystick
             THEN [s EXCEPT !.events = diff(@, p, s.controller[p], pads[p])] ELSE s
        u == IF wants /\ wantsKeyboard THEN keyboard(t, p, pads[p]) ELSE t
    IN  [u EXCEPT !.controller[p] = pads[p]]

\* A mutant: the queue grows for ever.
trim_Never(es) == es

\* A mutant: the newest is dropped.
trim_Newest(es) == SubSeq(es, 1, IF Len(es) > QueueMax THEN QueueMax ELSE Len(es))

trim(es) == IF Len(es) > QueueMax THEN SubSeq(es, Len(es) - QueueMax + 1, Len(es)) ELSE es

\* All that a call queues, before the oldest are dropped: the set of the one state that
\* the loop over the pads ends in.
Filled ==
    LET looked[p \in 0..Players] ==
            IF p = 0 THEN {announce(shim)} ELSE {lookAt(s, p) : s \in looked[p - 1]}
    IN  {IF quit = "due" THEN [s EXCEPT !.events = Append(@, Quit)] ELSE s : s \in looked[Players]}

trimmed(s) == [s EXCEPT !.events = trim(@)]

\* What a call that read the block and queued s has lost, and has not seen.
update(s) ==
    /\ dropped' = (dropped \/ Len(s.events) > QueueMax)
    /\ missed' = (missed \/ (~wants /\ pads # shim.controller))

\* readSnapshot gave nothing: no block yet, or a torn one.
keepLast == UNCHANGED <<dropped, missed>>

-----------------------------------------------------------------------------
(* The pads and the ways to quit.                                          *)

\* What the shim has not looked at yet adds up: one element at a time.
Change(p, e) ==
    /\ changes < MaxChanges
    /\ pads' = [pads EXCEPT ![p] = IF e \in @ THEN @ \ {e} ELSE @ \cup {e}]
    /\ changes' = changes + 1
    /\ UNCHANGED <<mode, sdl, shim, wants, quit, appDown, missed, dropped, repeated>>

\* The hotkey was held or Reset was pressed (ExitWatch): update will see it.
AskToQuit ==
    /\ quit = "none"
    /\ quit' = "due"
    /\ UNCHANGED <<mode, sdl, pads, shim, wants, appDown, missed, dropped, repeated, changes>>

-----------------------------------------------------------------------------
(* The App's calls.                                                        *)

Queued(q) == IF q = "due" THEN "queued" ELSE q

\* Any call that looks at a pad, and an SDL_PollEvent that finds an event of
\* the App's own SDL.
Look ==
    /\ \E s \in Filled : shim' = trimmed(s) /\ update(s)
    /\ quit' = Queued(quit)
    /\ UNCHANGED <<mode, sdl, pads, wants, appDown, repeated, changes>>

\* writeSdl1 and writeSdl2: can the App be told this?
Writable(ev) == sdl = "2" \/ ~(ev = Added \/ (ev.kind = "change" /\ ev.thing[1] = "controller"))

Hear(ev) ==
    IF ev.kind = "change" /\ Writable(ev)
    THEN /\ appDown' = IF ev.down THEN appDown \cup {ev.thing} ELSE appDown \ {ev.thing}
         /\ repeated' = (repeated
                \/ ((ev.thing \in appDown) = ev.down /\ (ev.thing[1] = "key" \/ ~missed)))
    ELSE UNCHANGED <<appDown, repeated>>

\* A mutant: an event that cannot be written stays.
Give_Peek(s, q) ==
    IF wants /\ s.events # <<>>
    THEN /\ shim' = IF Writable(Head(s.events)) THEN [s EXCEPT !.events = Tail(@)] ELSE s
         /\ Hear(Head(s.events))
         /\ quit' = IF Head(s.events) = Quit THEN "told" ELSE q
    ELSE /\ shim' = s
         /\ quit' = q
         /\ UNCHANGED <<appDown, repeated>>

\* The end of SDL_PollEvent: the next event of ours, if the App wants any.
Give(s, q) ==
    IF wants /\ s.events # <<>>
    THEN /\ shim' = [s EXCEPT !.events = Tail(@)]
         /\ Hear(Head(s.events))
         /\ quit' = IF Head(s.events) = Quit THEN "told" ELSE q
    ELSE /\ shim' = s
         /\ quit' = q
         /\ UNCHANGED <<appDown, repeated>>

PollEvent ==
    /\ \E s \in Filled : Give(trimmed(s), Queued(quit)) /\ update(s)
    /\ UNCHANGED <<mode, sdl, pads, wants, changes>>

PollEventBlind ==
    /\ Give(shim, quit)
    /\ keepLast
    /\ UNCHANGED <<mode, sdl, pads, wants, changes>>

\* SDL_JoystickEventState, SDL_GameControllerEventState
EventState(enabled) ==
    /\ wants' = enabled
    /\ UNCHANGED <<mode, sdl, pads, shim, quit, appDown, missed, dropped, repeated, changes>>

-----------------------------------------------------------------------------
Next ==
    \/ \E p \in Pads, e \in Elements : Change(p, e)
    \/ AskToQuit
    \/ Look
    \/ PollEvent
    \/ PollEventBlind
    \/ \E enabled \in BOOLEAN : EventState(enabled)

Spec == Init /\ [][Next]_vars

\* The App reads its events, and the block is not torn every time it does.
FairSpec == Spec /\ WF_vars(PollEvent)

-----------------------------------------------------------------------------
(* What the shim has accounted for, in the views the mode offers.          *)
Accounted ==
    (IF wantsJoystick
     THEN UNION {{Button(p, e) : e \in shim.controller[p] \cap Laid}
                    \cup {Controller(p, e) : e \in shim.controller[p]} : p \in Pads}
     ELSE {})
    \cup UNION {{Key(KeyOf[e]) : e \in shim.held[p]} : p \in Pads}

Mentions(t) == {i \in DOMAIN shim.events :
                   shim.events[i].kind = "change" /\ shim.events[i].thing = t}

\* The last an App will have heard of t once it has read the queue.
DownInTheEnd(t) ==
    IF Mentions(t) = {} THEN t \in appDown
    ELSE \E i \in Mentions(t) : shim.events[i].down /\ \A j \in Mentions(t) : j <= i

\* Is a change of t always followed up?  An SDL 1.2 App has no controllers,
\* and a button that changed while events were off is not made up for.
Followed(t) == t[1] = "key" \/ (~missed /\ (sdl = "2" \/ t[1] = "joystick"))

(* The App that reads the queue to its end has the pads as they are, if    *)
(* nothing was dropped; and if something was, of everything that the rest  *)
(* of the queue mentions (ShimState::update: the oldest go).  Keys also    *)
(* after events were off.                                                  *)
LastWordIsRight ==
    LET accounted == Accounted
    IN  \A t \in Things :
        Followed(t) /\ (~dropped \/ Mentions(t) # {}) => (DownInTheEnd(t) <=> t \in accounted)

(* "Down while any of them is held and goes up when the last one is let go" *)
(* (keyboard_mode.h): elements and players that share a key never give the *)
(* App a second press of it or a second release; and so for buttons, until *)
(* one has changed while events were off.                                  *)
NoRepeats == ~dropped => ~repeated

(* A key does not stay down in the App when nobody holds it any more, even *)
(* when it was let go of while events were off (KeyboardMode keeps its     *)
(* held_ for the time they are on again).                                  *)
LetGo(k) == \A p \in Pads : \A e \in pads[p] : KeyOf[e] # k

KeysComeUp ==
    \A k \in Keys : <>[](wants /\ LetGo(k) /\ ~dropped) => <>[](Key(k) \notin appDown)

(* An App that reads its events, and has not switched them off for good,   *)
(* hears that it is asked to quit, whatever is queued in front of it, also *)
(* what an SDL 1.2 App cannot be told (SDL_PollEvent).                     *)
QuitIsHeard == <>[]wants => (quit = "queued" ~> quit = "told" \/ dropped)
=============================================================================
