----------------------------- MODULE VeFrameLock -----------------------------
(* Who may run when on the master: the frame interlock of ve_core.c, and    *)
(* the threads of ve_main.c that meet on it.  The render thread draws under *)
(* the exclusive lock; the threads that deliver events (timer_thread and    *)
(* the device drivers) hold the shared lock while they run callbacks, one   *)
(* thread at a time (veLockCallbacks).                                      *)
(* fl_mutex and display_mutex are held from one wait to the next, so each   *)
(* action is what a thread does between taking such a mutex and giving it   *)
(* up.                                                                      *)
EXTENDS Integers, FiniteSets

CONSTANTS
    Handler,        \* the threads that deliver events
    Renderer,       \* the render thread, as a holder of the callback lock
    NoThread,       \* nobody holds the callback lock
    HasAnim,        \* the application has set an anim_proc,
    HasIdle         \* an idle_proc

ASSUME ThreadAssumption ==
    /\ IsFiniteSet(Handler)
    /\ HasAnim \in BOOLEAN /\ HasIdle \in BOOLEAN
    /\ Renderer \notin Handler /\ NoThread \notin Handler \cup {Renderer}

VARIABLES
    fl_locked,      \* -1: exclusive; n > 0: shared by n threads; 0: free
    fl_epending,    \* threads that wait for the exclusive lock
    cback,          \* the thread that holds cback_mutex
    redisplay_posted,
    at,             \* where a handler is: "idle", "ask" (calls veLockFrame),
                    \* asleep on "eclear" or "zero", "again" (woken from
                    \* zero), "in" (has the frame) or in a "callback"
    rend,           \* where the render thread is: "top" of its loop, "excl"
                    \* (calls veLockFrameExcl), asleep on "zero", "again",
                    \* "draw", "want" (wants the callback lock for anim_proc
                    \* or idle_proc), in a "callback", or "idle"
    early           \* history: the handlers that were waiting for the frame
                    \* when the renderer asked for it

lockVars == <<fl_locked, fl_epending>>
vars == <<lockVars, cback, redisplay_posted, at, rend, early>>

Init ==
    /\ fl_locked = 0 /\ fl_epending = 0
    /\ cback = NoThread
    /\ redisplay_posted = TRUE          \* veRun posts the first one
    /\ at = [h \in Handler |-> "idle"]
    /\ rend = "top"
    /\ early = {}

\* Those who have been in veLockFrame and had to wait.
Waiting == {h \in Handler : at[h] \in {"eclear", "zero", "again"}}

\* veThrCondBcast for the handlers asleep on a condition.
WakeHandlers(cond, to) == [h \in Handler |-> IF at[h] = cond THEN to ELSE at[h]]

-----------------------------------------------------------------------------
(* veLockFrame, veUnlockFrame and the callbacks in between.                 *)

Ask(h) ==
    /\ at[h] = "idle"
    /\ at' = [at EXCEPT ![h] = "ask"]
    /\ UNCHANGED <<lockVars, cback, redisplay_posted, rend, early>>

WaitPending(h) ==
    /\ at[h] = "ask" /\ fl_epending > 0
    /\ at' = [at EXCEPT ![h] = "eclear"]
    /\ UNCHANGED <<lockVars, cback, redisplay_posted, rend, early>>

\* As in VeMPRender, a definition named after the one below it is a fault to
\* try the properties with.
PastPending_Barging(h) == at[h] \in {"ask", "again"}

\* Past the first loop; a thread woken from zero does not look at fl_epending
\* again.
PastPending(h) == at[h] = "again" \/ (at[h] = "ask" /\ fl_epending = 0)

WaitExclusive(h) ==
    /\ PastPending(h) /\ fl_locked < 0
    /\ at' = [at EXCEPT ![h] = "zero"]
    /\ UNCHANGED <<lockVars, cback, redisplay_posted, rend, early>>

LockFrame_AnyTime(h) ==
    /\ PastPending(h)
    /\ fl_locked' = fl_locked + 1
    /\ at' = [at EXCEPT ![h] = "in"]
    /\ early' = early \ {h}
    /\ UNCHANGED <<fl_epending, cback, redisplay_posted, rend>>

LockFrame(h) ==
    /\ PastPending(h) /\ fl_locked >= 0
    /\ fl_locked' = fl_locked + 1
    /\ at' = [at EXCEPT ![h] = "in"]
    /\ early' = early \ {h}
    /\ UNCHANGED <<fl_epending, cback, redisplay_posted, rend>>

LockCallbacks(h) ==
    /\ at[h] = "in" /\ cback = NoThread
    /\ cback' = h
    /\ at' = [at EXCEPT ![h] = "callback"]
    /\ UNCHANGED <<lockVars, redisplay_posted, rend, early>>

\* A callback may ask for a new frame.
CallbackPosts(h) ==
    /\ at[h] = "callback"
    /\ redisplay_posted' = TRUE
    /\ UNCHANGED <<lockVars, cback, at, rend, early>>

UnlockCallbacks(h) ==
    /\ at[h] = "callback"
    /\ cback' = NoThread
    /\ at' = [at EXCEPT ![h] = "in"]
    /\ UNCHANGED <<lockVars, redisplay_posted, rend, early>>

\* The last one out wakes who sleeps on zero: handlers and renderer.
UnlockFrame(h) ==
    /\ at[h] = "in"
    /\ fl_locked' = fl_locked - 1
    /\ IF fl_locked = 1
       THEN /\ at' = [WakeHandlers("zero", "again") EXCEPT ![h] = "idle"]
            /\ rend' = IF rend = "zero" THEN "again" ELSE rend
       ELSE /\ at' = [at EXCEPT ![h] = "idle"]
            /\ UNCHANGED rend
    /\ UNCHANGED <<fl_epending, cback, redisplay_posted, early>>

-----------------------------------------------------------------------------
(* render_thread of ve_main.c, with veLockFrameExcl and veUnlockFrameExcl.  *)

TakeRedisplay ==
    /\ rend = "top" /\ redisplay_posted
    /\ redisplay_posted' = FALSE
    /\ rend' = "excl"
    /\ UNCHANGED <<lockVars, cback, at, early>>

\* The frame is free: take it, whoever waits for it.
TakeFree ==
    /\ rend = "excl" /\ fl_locked = 0
    /\ fl_locked' = -1
    /\ rend' = "draw"
    /\ early' = Waiting
    /\ UNCHANGED <<fl_epending, cback, redisplay_posted, at>>

WaitZero ==
    /\ rend = "excl" /\ fl_locked # 0
    /\ fl_epending' = fl_epending + 1
    /\ rend' = "zero"
    /\ early' = Waiting
    /\ UNCHANGED <<fl_locked, cback, redisplay_posted, at>>

WaitZeroAgain ==
    /\ rend = "again" /\ fl_locked # 0
    /\ rend' = "zero"
    /\ UNCHANGED <<lockVars, cback, redisplay_posted, at, early>>

TakePending ==
    /\ rend = "again" /\ fl_locked = 0
    /\ fl_epending' = fl_epending - 1
    /\ at' = IF fl_epending = 1 THEN WakeHandlers("eclear", "ask") ELSE at
    /\ fl_locked' = -1
    /\ rend' = "draw"
    /\ UNCHANGED <<cback, redisplay_posted, early>>

UnlockFrameExcl_Silent ==
    /\ rend = "draw"
    /\ fl_locked' = 0
    /\ rend' = IF HasAnim THEN "want" ELSE "idle"
    /\ early' = {}
    /\ UNCHANGED <<fl_epending, at, cback, redisplay_posted>>

UnlockFrameExcl_ForgetsPost ==
    /\ rend = "draw"
    /\ fl_locked' = 0
    /\ at' = WakeHandlers("zero", "again")
    /\ rend' = IF HasAnim THEN "want" ELSE "idle"
    /\ early' = {}
    /\ redisplay_posted' = FALSE
    /\ UNCHANGED <<fl_epending, cback>>

\* veMPRenderFrame is over; the animation callback runs once per frame.
UnlockFrameExcl ==
    /\ rend = "draw"
    /\ fl_locked' = 0
    /\ at' = WakeHandlers("zero", "again")
    /\ rend' = IF HasAnim THEN "want" ELSE "idle"
    /\ early' = {}
    /\ UNCHANGED <<fl_epending, cback, redisplay_posted>>

LockProc ==
    /\ rend = "want" /\ cback = NoThread
    /\ cback' = Renderer
    /\ rend' = "callback"
    /\ UNCHANGED <<lockVars, redisplay_posted, at, early>>

ProcPosts ==
    /\ rend = "callback"
    /\ redisplay_posted' = TRUE
    /\ UNCHANGED <<lockVars, cback, at, rend, early>>

UnlockProc ==
    /\ rend = "callback"
    /\ cback' = NoThread
    /\ rend' = "idle"
    /\ UNCHANGED <<lockVars, redisplay_posted, at, early>>

\* Nothing to draw: run the idle callback, again and again.
CallIdle ==
    /\ rend = "idle" /\ ~redisplay_posted /\ HasIdle
    /\ rend' = "want"
    /\ UNCHANGED <<lockVars, cback, redisplay_posted, at, early>>

\* Asleep on display_post until a redisplay is posted.
WakeUp ==
    /\ rend = "idle" /\ redisplay_posted
    /\ rend' = "top"
    /\ UNCHANGED <<lockVars, cback, redisplay_posted, at, early>>
-----------------------------------------------------------------------------

HandlerNext(h) ==
    \/ Ask(h) \/ WaitPending(h) \/ WaitExclusive(h) \/ LockFrame(h)
    \/ LockCallbacks(h) \/ CallbackPosts(h) \/ UnlockCallbacks(h)
    \/ UnlockFrame(h)

RendererNext ==
    \/ TakeRedisplay \/ TakeFree \/ WaitZero \/ WaitZeroAgain \/ TakePending
    \/ UnlockFrameExcl \/ LockProc \/ ProcPosts \/ UnlockProc \/ CallIdle
    \/ WakeUp

Next == RendererNext \/ \E h \in Handler : HandlerNext(h)

Spec == Init /\ [][Next]_vars

(* Fairness.  A runnable thread runs, and gets a mutex that is free again   *)
(* and again; a frame ends (FrameCompletes of VeMPRender), a callback       *)
(* returns, and a handler's batch of events runs out.  New events, posts    *)
(* and running a callback are never owed.                                   *)
RendererFairness ==
    /\ WF_vars(TakeRedisplay \/ TakeFree \/ WaitZero \/ WaitZeroAgain
                 \/ TakePending \/ UnlockFrameExcl \/ WakeUp)
    /\ SF_vars(LockProc)
    /\ WF_vars(UnlockProc)

HandlerFairness ==
    \A h \in Handler :
        /\ WF_vars(WaitPending(h) \/ WaitExclusive(h) \/ LockFrame(h))
        /\ WF_vars(UnlockCallbacks(h))
        /\ SF_vars(UnlockFrame(h))

FairSpec == Spec /\ RendererFairness /\ HandlerFairness

-----------------------------------------------------------------------------
(* Properties.                                                              *)

TypeOK ==
    /\ fl_locked \in -1 .. Cardinality(Handler)
    /\ fl_epending \in {0, 1}
    /\ cback \in Handler \cup {Renderer, NoThread}
    /\ redisplay_posted \in BOOLEAN
    /\ at \in [Handler -> {"idle", "ask", "eclear", "zero", "again", "in",
                           "callback"}]
    /\ rend \in {"top", "excl", "zero", "again", "draw", "want", "callback",
                 "idle"}
    /\ early \subseteq Handler

\* While the renderer draws a frame no event is being delivered: what the
\* slaves were sent for the frame stays what the master has.
NoCallbackWhileDrawing ==
    rend = "draw" => \A h \in Handler : at[h] \notin {"in", "callback"}

\* Nobody sleeps through a wake-up: each sleeper still has its reason to wait.
NoLostWakeup ==
    /\ \A h \in Handler : at[h] = "eclear" => fl_epending > 0
    /\ \A h \in Handler : at[h] = "zero" => fl_locked < 0
    /\ rend = "zero" => fl_locked # 0

\* "Once the renderer decides to render a frame, only callbacks that try to
\* lock the frame before it will get a chance to run before it renders"
\* (ve_core.h:428-430).
OnlyEarlyHandlersEnter ==
    [][\A h \in Handler :
          fl_epending > 0 /\ LockFrame(h) => h \in early]_vars

\* Handlers do not starve the renderer: a frame it wants to draw is drawn.
RendererDraws == (rend = "excl") ~> (rend = "draw")

\* A redisplay posted at any moment gets a frame that begins after it.
RedisplayDrawn == redisplay_posted ~> (rend = "excl")
=============================================================================
