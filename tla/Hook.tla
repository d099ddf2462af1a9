-------------------------------- MODULE Hook --------------------------------
(***************************************************************************)
(* The hook library inside the target: hook/src/hook.c and the two         *)
(* functions of hook/src/platform/ it opens and closes the ring with.      *)
(*                                                                         *)
(* Every thread of the target calls the allocator through the wrappers of  *)
(* hook.c.  The first call to find the library uninitialised (or its       *)
(* constructor) takes the one-shot gate and initialises it, while the      *)
(* others go on; a wrapper can be entered again by its own thread, from    *)
(* dlsym or backtrace, and ho_tls_guard tells the inner call.  A call is a *)
(* frame on the stack of its thread, which moves from place to place; one  *)
(* action per access to what the threads share.                            *)
(*                                                                         *)
(* ho_ring_push is two actions here, the entry and the access to the       *)
(* shared memory; RingBuffer has the rest of it.  The ring has room.       *)
(***************************************************************************)
EXTENDS Integers, FiniteSets, SequencesExt

CONSTANTS
  Thread,         (* threads of the target                                 *)
  Starter,        (* the one that runs main                                *)
  Platform,       (* "linux" or "macos"                                    *)
  MainOnly,       (* HEAP_ORACLE_MAIN_ONLY=1, from --main-only             *)
  Ops,            (* the wrappers the target calls                         *)
  MaxCalls        (* bound on the calls begun                              *)

(* The wrappers, in the order in which ho_resolve_symbols finds the real   *)
(* functions.                                                              *)
Wrappers == <<"malloc", "calloc", "realloc", "free", "posix_memalign", "aligned_alloc">>

ASSUME HookAssumption ==
  /\ Starter \in Thread /\ IsFiniteSet(Thread)
  /\ Platform \in {"linux", "macos"}
  /\ MainOnly \in BOOLEAN
  /\ Ops \subseteq ToSet(Wrappers)
  /\ MaxCalls \in Nat

VARIABLES
  phase,              (* of the process: see Phases                        *)
  lib,                (* the globals: ho_initialized, ho_init_once, how    *)
                      (* many members of ho_hooks are set, the filter      *)
                      (* ho_filter_pre_main, ho_trace_enabled,             *)
                      (* ho_main_entered                                   *)
  ring,               (* ho_platform: "none", "bound", or "unmapped" when  *)
                      (* its pointers lead to memory that is gone          *)
  guard,              (* ho_tls_guard of each thread                       *)
  stack,              (* the calls each thread is in                       *)
  calls,              (* history: calls begun                              *)
  log,                (* history: of each event pushed, the call and its   *)
                      (* thread, the phase it began in and that of the push*)
  returned,           (* history: [id, owed, served] of the calls returned *)
  crashed             (* history: a push touched memory that was gone      *)

history == <<calls, log, returned, crashed>>
vars    == <<phase, lib, ring, guard, stack, history>>

Phases == {"load", "start", "main", "exit", "over"}

-----------------------------------------------------------------------------
(* Frames *)

Top(t) == stack[t][Len(stack[t])]

At(t, place) == stack[t] # << >> /\ Top(t).at = place

GoTo(t, place) == stack' = [stack EXCEPT ![t][Len(stack[t])].at = place]

(* A step that only moves on.                                              *)
Passes(t, from, to) ==
  /\ At(t, from)
  /\ GoTo(t, to)
  /\ UNCHANGED <<phase, lib, ring, guard, history>>

(* The call is over; the constructor and destructor are no calls.          *)
Leave(t, served) ==
  /\ stack' = [stack EXCEPT ![t] = Front(@)]
  /\ returned' = IF Top(t).op \in {"ctor", "dtor"} THEN returned
                 ELSE returned \cup {[id |-> Top(t).id, owed |-> Top(t).owed,
                                      served |-> served]}
  /\ UNCHANGED <<calls, log, crashed>>

(* Mutant: ho_tls_guard is not counted.                                    *)
GuardUntouched(t, n) == guard

Guard(t, n) == [guard EXCEPT ![t] = @ + n]

Resolved(op) == \E i \in 1 .. lib.resolved : Wrappers[i] = op

(* Whether the call reaches an allocator at all: on Linux the fallbacks    *)
(* know the names of glibc, elsewhere they wait for the real functions,    *)
(* and the two aligned calls have no fallback.                             *)
HasAllocator(op) ==
  Resolved(op) \/ (Platform = "linux" /\ op \notin {"posix_memalign", "aligned_alloc"})

-----------------------------------------------------------------------------
(* Calls *)

(* A call is owed an event when it is made in earnest and tracing is on.   *)
Owed(t) ==
  /\ stack[t] = << >> /\ lib.trace
  /\ phase = "main" \/ (~ MainOnly /\ phase # "over")

Begin(t, op) ==
  /\ calls < MaxCalls
  /\ calls' = calls + 1
  /\ stack' = [stack EXCEPT ![t] = Append(@, [id |-> calls + 1, op |-> op, at |-> "entry",
                                              owed |-> Owed(t), began |-> phase])]
  /\ UNCHANGED <<phase, lib, ring, guard, log, returned, crashed>>

BeginCall(t, op) == stack[t] = << >> /\ Begin(t, op)

(* dlsym and backtrace allocate.                                           *)
BeginNested(t, op) ==
  /\ Len(stack[t]) = 1 /\ Top(t).at \in {"resolve", "fill"}
  /\ op \in {"malloc", "calloc", "free"}
  /\ Begin(t, op)

Entry(t) == Passes(t, "entry", IF lib.initialized THEN "guard" ELSE "gate")

(* ho_tls_guard++ : an outer call; it is published after the real call,    *)
(* except for free, whose address would be free for others by then.        *)
GuardTaken(t) ==
  /\ At(t, "guard") /\ HasAllocator(Top(t).op) /\ guard[t] = 0
  /\ guard' = Guard(t, 1)
  /\ GoTo(t, IF Top(t).op = "free" THEN "publish" ELSE "real")
  /\ UNCHANGED <<phase, lib, ring, history>>

(* An inner call goes to the allocator and returns.                        *)
PassThrough(t) ==
  /\ At(t, "guard") /\ HasAllocator(Top(t).op) /\ guard[t] > 0
  /\ Leave(t, TRUE)
  /\ UNCHANGED <<phase, lib, ring, guard>>

(* ENOSYS or NULL before any other test in the aligned calls, or a         *)
(* fallback that has nothing to call.  A malloc that fails still publishes *)
(* its NULL, an event the oracle ignores: left out.                        *)
Refused(t) ==
  /\ At(t, "guard") /\ ~ HasAllocator(Top(t).op)
  /\ Leave(t, FALSE)
  /\ UNCHANGED <<phase, lib, ring, guard>>

RealCall(t) == Passes(t, "real", IF Top(t).op = "free" THEN "leave" ELSE "publish")

AfterPublish(t) == IF Top(t).op = "free" THEN "real" ELSE "leave"

LeaveCall(t) ==
  /\ At(t, "leave")
  /\ guard' = Guard(t, -1)
  /\ Leave(t, TRUE)
  /\ UNCHANGED <<phase, lib, ring>>

-----------------------------------------------------------------------------
(* ho_publish *)

(* Mutants: the filter is not applied; it does not end with main.          *)
Unfiltered == lib.trace
Suppressed == lib.trace /\ ~ lib.filter

Traced == lib.trace /\ (lib.filter => lib.main_entered)

Publish(t) == Passes(t, "publish", IF Traced THEN "fill" ELSE AfterPublish(t))

(* ho_fill_event, with its call stack.                                     *)
FillEvent(t) == Passes(t, "fill", "push")

(* The entry of ho_ring_push: !ring->hdr is -EINVAL.                       *)
PushBegin(t) == Passes(t, "push", IF ring = "none" THEN AfterPublish(t) ELSE "pushing")

PushEnd(t) ==
  /\ At(t, "pushing")
  /\ IF ring = "bound"
     THEN /\ log' = Append(log, [id |-> Top(t).id, thread |-> t,
                                 began |-> Top(t).began, phase |-> phase])
          /\ UNCHANGED crashed
     ELSE crashed' = TRUE /\ UNCHANGED log
  /\ GoTo(t, AfterPublish(t))
  /\ UNCHANGED <<phase, lib, ring, guard, calls, returned>>

-----------------------------------------------------------------------------
(* ho_try_enable_trace *)

(* Mutants: the trace is enabled before the ring is open; the hooks are    *)
(* resolved last.                                                          *)
InitOrderTraceFirst  == [gate |-> "resolve", resolve |-> "environment",
                         environment |-> "enable", enable |-> "open", open |-> "mark"]
InitOrderResolveLast == [gate |-> "environment", environment |-> "open", open |-> "enable",
                         enable |-> "resolve", resolve |-> "mark"]

(* The order of the initialisation. *)
InitOrder == [gate |-> "resolve", resolve |-> "environment", environment |-> "open",
              open |-> "enable", enable |-> "mark"]

(* Where a frame goes on after the initialisation, or without it.          *)
AfterInit(t) == IF Top(t).op = "ctor" THEN "ctor_end" ELSE "guard"

(* A step of the initialising thread that changes a global.                *)
Sets(t, from, to, globals) ==
  /\ At(t, from)
  /\ lib' = globals
  /\ GoTo(t, to)
  /\ UNCHANGED <<phase, ring, history>>

(* Mutants: the gate is looked at, not taken; the others wait at it.       *)
GateUnclaimed == lib
GateAwaited   == lib.initialized

GateTaken == [lib EXCEPT !.init_once = 1]

GateLost  == lib.init_once = 1

(* The compare-and-swap on ho_init_once succeeds.                          *)
TakeGate(t) ==
  /\ lib.init_once = 0
  /\ Sets(t, "gate", InitOrder.gate, GateTaken)
  /\ guard' = Guard(t, 1)

LoseGate(t) == GateLost /\ Passes(t, "gate", AfterInit(t))

ResolveSymbol(t) ==
  LET n == lib.resolved + 1
  IN  /\ Sets(t, "resolve", IF n = Len(Wrappers) THEN InitOrder.resolve ELSE "resolve",
              [lib EXCEPT !.resolved = n])
      /\ UNCHANGED guard

ReadEnvironment(t) ==
  /\ Sets(t, "environment", InitOrder.environment, [lib EXCEPT !.filter = MainOnly])
  /\ UNCHANGED guard

(* ho_platform_open_writer, which fails when the variable is not set, the  *)
(* ring does not exist or is not ours (SharedRing has its steps).          *)
OpenWriter(t) ==
  /\ At(t, "open")
  /\ \/ ring' = "bound" /\ GoTo(t, InitOrder.open)
     \/ GoTo(t, InitOrder.enable) /\ UNCHANGED ring
  /\ UNCHANGED <<phase, lib, guard, history>>

EnableTrace(t) ==
  /\ Sets(t, "enable", InitOrder.enable, [lib EXCEPT !.trace = TRUE])
  /\ UNCHANGED guard

MarkInitialized(t) ==
  /\ Sets(t, "mark", AfterInit(t), [lib EXCEPT !.initialized = TRUE])
  /\ guard' = Guard(t, -1)

-----------------------------------------------------------------------------
(* The process.  The constructor has run by the time __libc_start_main is  *)
(* entered (the hook has one of its own on Linux, none on macOS);          *)
(* constructors of others may allocate and start threads before it.        *)

Run(op, place) ==
  /\ stack[Starter] = << >>
  /\ stack' = [stack EXCEPT ![Starter] =
                 <<[id |-> 0, op |-> op, at |-> place, owed |-> FALSE, began |-> phase]>>]
  /\ UNCHANGED <<lib, ring, guard, history>>

Ctor == phase = "load" /\ Run("ctor", "gate") /\ UNCHANGED phase

CtorEnd(t) ==
  /\ At(t, "ctor_end")
  /\ Leave(t, TRUE)
  /\ phase' = "start"
  /\ lib' = [lib EXCEPT !.main_entered = (Platform = "linux" /\ ~ MainOnly)]
  /\ UNCHANGED <<ring, guard>>

(* ho_main_wrapper *)
EnterMain ==
  /\ phase = "start" /\ stack[Starter] = << >>
  /\ phase' = "main"
  /\ lib' = [lib EXCEPT !.main_entered = (Platform = "linux")]
  /\ UNCHANGED <<ring, guard, stack, history>>

(* exit: the other threads go on while ho_dtor runs, and the starter goes  *)
(* on to the handlers that come after it.                                  *)
Dtor == phase = "main" /\ Run("dtor", "close") /\ phase' = "exit"

(* ho_platform_close_writer: munmap, then memset of ho_platform.           *)
CloseWriter(t) ==
  /\ At(t, "close")
  /\ IF ring = "none"
     THEN Leave(t, TRUE) /\ phase' = "over" /\ UNCHANGED ring
     ELSE ring' = "unmapped" /\ GoTo(t, "reset") /\ UNCHANGED <<phase, history>>
  /\ UNCHANGED <<lib, guard>>

ResetWriter(t) ==
  /\ At(t, "reset")
  /\ ring' = "none"
  /\ phase' = "over"
  /\ Leave(t, TRUE)
  /\ UNCHANGED <<lib, guard>>

-----------------------------------------------------------------------------
Init ==
  /\ phase = "load"
  /\ lib = [initialized |-> FALSE, init_once |-> 0, resolved |-> 0, filter |-> FALSE,
            trace |-> FALSE, main_entered |-> FALSE]
  /\ ring = "none"
  /\ guard = [t \in Thread |-> 0] /\ stack = [t \in Thread |-> << >>]
  /\ calls = 0 /\ log = << >> /\ returned = {} /\ crashed = FALSE

InitStep(t) ==
  \/ TakeGate(t) \/ LoseGate(t) \/ ResolveSymbol(t) \/ ReadEnvironment(t)
  \/ OpenWriter(t) \/ EnableTrace(t) \/ MarkInitialized(t)

CallStep(t) ==
  \/ Entry(t) \/ GuardTaken(t) \/ PassThrough(t) \/ Refused(t) \/ RealCall(t)
  \/ Publish(t) \/ FillEvent(t) \/ PushBegin(t) \/ PushEnd(t) \/ LeaveCall(t)

ProcessStep(t) == CtorEnd(t) \/ CloseWriter(t) \/ ResetWriter(t)

Next ==
  \/ \E t \in Thread, op \in Ops : BeginCall(t, op) \/ BeginNested(t, op)
  \/ \E t \in Thread : InitStep(t) \/ CallStep(t) \/ ProcessStep(t)
  \/ Ctor \/ EnterMain \/ Dtor

(* The system schedules every thread that is in a call; nothing makes a    *)
(* thread begin one, or main start or end.                                 *)
Fairness == \A t \in Thread : WF_vars(InitStep(t) \/ CallStep(t) \/ ProcessStep(t))

Spec == Init /\ [][Next]_vars /\ Fairness

-----------------------------------------------------------------------------
(* Invariants *)

InitPlaces  == {"resolve", "environment", "open", "enable", "mark"}
EventPlaces == {"publish", "fill", "push", "pushing"}
BodyPlaces  == {"real", "leave"} \cup EventPlaces
Places      == {"entry", "gate", "guard", "ctor_end", "close", "reset"}
                 \cup InitPlaces \cup BodyPlaces

TypeOK ==
  /\ phase \in Phases
  /\ lib \in [initialized : BOOLEAN, init_once : {0, 1}, resolved : 0 .. Len(Wrappers),
              filter : BOOLEAN, trace : BOOLEAN, main_entered : BOOLEAN]
  /\ ring \in {"none", "bound", "unmapped"}
  /\ guard \in [Thread -> 0 .. 1]
  /\ \A t \in Thread :
       /\ Len(stack[t]) <= 2
       /\ ToSet(stack[t]) \subseteq [id : 0 .. MaxCalls, op : Ops \cup {"ctor", "dtor"},
                                     at : Places, owed : BOOLEAN, began : Phases]
  /\ calls \in 0 .. MaxCalls
  /\ ToSet(log) \subseteq [id : 1 .. MaxCalls, thread : Thread, began : Phases,
                            phase : Phases]
  /\ returned \subseteq [id : 1 .. MaxCalls, owed : BOOLEAN, served : BOOLEAN]
  /\ crashed \in BOOLEAN

FramesAt(t, places) == {i \in 1 .. Len(stack[t]) : stack[t][i].at \in places}

(* The guard counts exactly the frames that are inside it, through the     *)
(* initialisation and out of it, so a call made by the hook itself is      *)
(* never published: it would take push_lock or fill an event twice.        *)
InnerCallsSilent ==
  \A t \in Thread :
    /\ guard[t] = Cardinality(FramesAt(t, InitPlaces \cup BodyPlaces))
    /\ 2 \notin FramesAt(t, EventPlaces)

(* One thread at most initialises the library, it does so once, and no     *)
(* thread is past the test of ho_trace_enabled before it has bound the     *)
(* ring and read the environment; the ring goes when the process exits.    *)
OneInitialiser ==
  /\ Cardinality({t \in Thread : FramesAt(t, InitPlaces) # {}}) <= 1
  /\ lib.initialized => \A t \in Thread : FramesAt(t, InitPlaces) = {}
  /\ (\E t \in Thread : FramesAt(t, {"fill", "push", "pushing"}) # {})
       => /\ lib.trace /\ lib.filter = MainOnly
          /\ ring = "bound" \/ phase \in {"exit", "over"}

(* A call is published at most once, and a call that was owed an event has *)
(* it when it returns, unless the ring was closed meanwhile.               *)
OneEventPerCall ==
  /\ \A i, j \in DOMAIN log : log[i].id = log[j].id => i = j
  /\ \A c \in returned :
       c.owed /\ phase \notin {"exit", "over"} => \E i \in DOMAIN log : log[i].id = c.id

(* A call that begins once tracing is on reaches the allocator: a thread   *)
(* that passed the gate without initialising is back to normal by then,    *)
(* although it may see ho_trace_enabled before ho_initialized.             *)
OwedAreServed == \A c \in returned : c.owed => c.served

(* With --main-only nothing is published before main, and what the thread  *)
(* that runs main called before it is not published later either.  A call  *)
(* that another thread has under way when main begins may be: ho_publish   *)
(* looks at ho_main_entered after the real call.                           *)
MainOnlySilent ==
  MainOnly => \A i \in DOMAIN log :
    /\ log[i].phase \notin {"load", "start"}
    /\ log[i].began \in {"load", "start"} => log[i].thread # Starter

(* Every allocation call reaches the allocator, also while the library is  *)
(* being initialised: "the losing thread's hook call will simply be a      *)
(* no-op" (for the trace).                                                 *)
EveryCallServed == \A c \in returned : c.served

(* Only one thread at a time writes ho_platform: it is opened, closed, or  *)
(* its ring is pushed into (push_lock, which is part of it, orders the     *)
(* pushes among themselves); and no push finds the mapping gone.           *)
NoConcurrentPlatformWrites ==
  LET opening == {t \in Thread : FramesAt(t, {"open"}) # {}}
      closing == {t \in Thread : FramesAt(t, {"close", "reset"}) # {}}
      pushing == {t \in Thread : FramesAt(t, {"pushing"}) # {}}
  IN  /\ Cardinality(opening \cup closing) <= 1
      /\ opening \cup closing # {} => pushing = {}
      /\ ~ crashed

-----------------------------------------------------------------------------
(* Liveness *)

(* No call waits for the initialisation of another, which may be its own   *)
(* thread's: every call of the target returns.                             *)
CallsReturn == \A t \in Thread : stack[t] # << >> ~> stack[t] = << >>
=============================================================================
