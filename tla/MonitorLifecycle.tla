--------------------------- MODULE MonitorLifecycle ---------------------------
(***************************************************************************)
(* Starting and stopping the monitor: Start and Stop of                    *)
(* internal/service/monitor/monitor.go, the goroutine main.go starts, and  *)
(* the /monitor/start and /monitor/stop handlers.                          *)
(*                                                                         *)
(* Every call of Start that gets past the running flag is a loop with a    *)
(* context of its own, and an LLM goroutine on the same context.  The      *)
(* service keeps one flag and one cancel function for all of them.         *)
(***************************************************************************)
EXTENDS FiniteSets

CONSTANTS
  Main,           \* the call of Start in main.go, on the background context
  StartRequests,  \* requests to /monitor/start, each on its own context
  StopRequests,   \* requests to /monitor/stop
  NoLoop,         \* cancelFunc == nil
  Patient         \* do operators wait for loops to end and requests to settle?

Starters == {Main} \cup StartRequests

ASSUME LifecycleAssumption ==
  /\ Main \notin StartRequests
  /\ StartRequests \cap StopRequests = {}
  /\ Main \notin StopRequests
  /\ NoLoop \notin Starters
  /\ Patient \in BOOLEAN

VARIABLES
  running,  \* s.running
  cancel,   \* the loop s.cancelFunc cancels
  loop,     \* where each call of Start is
  ctxDone,  \* the calls whose context is done
  llm,      \* the calls whose LLM goroutine runs
  answer    \* what each request has been answered

vars == <<running, cancel, loop, ctxDone, llm, answer>>

LoopStates == {"none", "spawned", "select", "ticking", "ended"}
Answers == {"none", "monitor started", "monitor already running",
            "stopping", "monitor stopped", "monitor not running"}

Live(c) == loop[c] \in {"select", "ticking"}
Leaving(c) == Live(c) /\ c \in ctxDone

Init ==
  /\ running = FALSE
  /\ cancel = NoLoop
  /\ loop = [c \in Starters |-> IF c = Main THEN "spawned" ELSE "none"]
  /\ ctxDone = {}
  /\ llm = {}
  /\ answer = [r \in StartRequests \cup StopRequests |-> "none"]

-------------------------------------------------------------------------------
\* Patient operators may all press the same button at once, but ask for a start
\* when no stop is being served and no loop is on its way out, and for a stop
\* when no start is on its way in and no loop on its way out.
MayStart ==
  Patient =>
    /\ \A c \in Starters : ~Leaving(c)
    /\ \A r \in StopRequests : answer[r] # "stopping"

MayStop == Patient => \A c \in Starters : ~Leaving(c) /\ loop[c] # "spawned"

\* MonitorHandler.Start: the goroutine is started on the request's context.
HandleStart(r) ==
  /\ answer[r] = "none"
  /\ MayStart
  /\ IF running
     THEN /\ answer' = [answer EXCEPT ![r] = "monitor already running"]
          /\ UNCHANGED loop
     ELSE /\ answer' = [answer EXCEPT ![r] = "monitor started"]
          /\ loop' = [loop EXCEPT ![r] = "spawned"]
  /\ UNCHANGED <<running, cancel, ctxDone, llm>>

\* net/http cancels a request's context when its handler has returned.
RequestEnds(r) ==
  /\ answer[r] = "monitor started"
  /\ r \notin ctxDone
  /\ ctxDone' = ctxDone \cup {r}
  /\ UNCHANGED <<running, cancel, loop, llm, answer>>

\* MonitorHandler.Stop looks at the flag, and then calls Stop.
HandleStop(r) ==
  /\ answer[r] = "none"
  /\ MayStop
  /\ answer' = [answer EXCEPT ![r] = IF running THEN "stopping" ELSE "monitor not running"]
  /\ UNCHANGED <<running, cancel, loop, ctxDone, llm>>

\* Mutant: Stop clears the flag and forgets to cancel.
Bug_Stop(r) ==
  /\ answer[r] = "stopping"
  /\ cancel' = NoLoop
  /\ running' = FALSE
  /\ answer' = [answer EXCEPT ![r] = "monitor stopped"]
  /\ UNCHANGED <<loop, ctxDone, llm>>

\* Stop: under mu, cancel the loop of the latest Start and clear the flag.
Stop(r) ==
  /\ answer[r] = "stopping"
  /\ ctxDone' = ctxDone \cup ({cancel} \ {NoLoop})
  /\ cancel' = NoLoop
  /\ running' = FALSE
  /\ answer' = [answer EXCEPT ![r] = "monitor stopped"]
  /\ UNCHANGED <<loop, llm>>

-------------------------------------------------------------------------------
\* Mutant: the flag is not looked at again under mu.
Bug_StartRefused(c) == FALSE

StartRefused(c) == running

\* Start, under mu: a no-op if the flag is up.
StartReturns(c) ==
  /\ loop[c] = "spawned"
  /\ StartRefused(c)
  /\ loop' = [loop EXCEPT ![c] = "ended"]
  /\ UNCHANGED <<running, cancel, ctxDone, llm, answer>>

StartEnters(c) ==
  /\ loop[c] = "spawned"
  /\ ~StartRefused(c)
  /\ running' = TRUE
  /\ cancel' = c
  /\ loop' = [loop EXCEPT ![c] = "select"]
  /\ llm' = llm \cup {c}
  /\ UNCHANGED <<ctxDone, answer>>

\* A tick of the ticker: select may take it even when the context is done.
BeginTick(c) ==
  /\ loop[c] = "select"
  /\ loop' = [loop EXCEPT ![c] = "ticking"]
  /\ UNCHANGED <<running, cancel, ctxDone, llm, answer>>

EndTick(c) ==
  /\ loop[c] = "ticking"
  /\ loop' = [loop EXCEPT ![c] = "select"]
  /\ UNCHANGED <<running, cancel, ctxDone, llm, answer>>

\* Mutant: the loop leaves the flag up when its context is done.
Bug_LoopEnds(c) ==
  /\ loop[c] = "select"
  /\ c \in ctxDone
  /\ loop' = [loop EXCEPT ![c] = "ended"]
  /\ UNCHANGED <<running, cancel, ctxDone, llm, answer>>

\* case <-ctx.Done(): the flag goes down, whoever's flag it is.
LoopEnds(c) ==
  /\ loop[c] = "select"
  /\ c \in ctxDone
  /\ running' = FALSE
  /\ loop' = [loop EXCEPT ![c] = "ended"]
  /\ UNCHANGED <<cancel, ctxDone, llm, answer>>

\* The LLM goroutine returns on the same context.
LLMEnds(c) ==
  /\ c \in llm
  /\ c \in ctxDone
  /\ llm' = llm \ {c}
  /\ UNCHANGED <<running, cancel, loop, ctxDone, answer>>

Next ==
  \/ \E r \in StartRequests : HandleStart(r) \/ RequestEnds(r)
  \/ \E r \in StopRequests : HandleStop(r) \/ Stop(r)
  \/ \E c \in Starters :
       \/ StartReturns(c) \/ StartEnters(c)
       \/ BeginTick(c) \/ EndTick(c) \/ LoopEnds(c) \/ LLMEnds(c)

Spec == Init /\ [][Next]_vars

\* Goroutines run; a handler that has begun goes on; and a select that finds the
\* context done again and again takes that case at some time, as it picks among
\* the ready cases at random.
Fairness ==
  /\ \A r \in StartRequests : WF_vars(RequestEnds(r))
  /\ \A r \in StopRequests : WF_vars(Stop(r))
  /\ \A c \in Starters :
       /\ WF_vars(StartReturns(c) \/ StartEnters(c))
       /\ WF_vars(EndTick(c))
       /\ SF_vars(LoopEnds(c))
       /\ WF_vars(LLMEnds(c))

FairSpec == Spec /\ Fairness

-------------------------------------------------------------------------------
TypeOK ==
  /\ running \in BOOLEAN
  /\ cancel \in Starters \cup {NoLoop}
  /\ loop \in [Starters -> LoopStates]
  /\ ctxDone \subseteq Starters
  /\ llm \subseteq Starters
  /\ answer \in [StartRequests \cup StopRequests -> Answers]

\* With patient operators there is one loop at most, however many requests race
\* to start it: each checks the flag before it spawns, and again under mu.
OneLoop ==
  Patient => \A c, d \in Starters : Live(c) /\ Live(d) => c = d

\* With patient operators the flag tells the truth: up when a loop is not on its
\* way out, and down only when there is none.
FlagIsTrue ==
  Patient =>
    /\ running => \E c \in Starters : Live(c)
    /\ ~running => \A c \in Starters : Live(c) => c \in ctxDone

\* A loop that nothing has told to end can still be told: the service holds its
\* cancel function.  Otherwise it ticks until the process dies.
LoopsCanBeStopped ==
  Patient => \A c \in Starters : Live(c) /\ c \notin ctxDone => cancel = c

\* With patient operators, a stop that found the flag up ends the loop there is,
\* in the middle of a tick too, and its LLM goroutine with it.
StopStops ==
  Patient =>
    \A r \in StopRequests, c \in Starters :
      (answer[r] = "stopping" /\ cancel = c /\ Live(c)) ~>
        (loop[c] = "ended" /\ c \notin llm)

-------------------------------------------------------------------------------
(***************************************************************************)
(* What the handlers answer and the service does not keep.                 *)
(***************************************************************************)

\* /monitor/start answers "monitor started": as long as nobody asks for a stop,
\* there is then a loop, or one about to start.
StartedMeansRunning ==
  (\E r \in StartRequests : answer[r] = "monitor started")
    /\ (\A r \in StopRequests : answer[r] = "none")
  => \E c \in Starters : loop[c] = "spawned" \/ Live(c)
===============================================================================
