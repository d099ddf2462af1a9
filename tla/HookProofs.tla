----------------------------- MODULE HookProofs -----------------------------
(***************************************************************************)
(* TLAPS proofs about Hook, for any number of threads and calls.           *)
(***************************************************************************)
EXTENDS Hook, FiniteSetTheorems, SequenceTheorems, TLAPS

Exiting == phase \in {"exit", "over"}

Library == [initialized : BOOLEAN, init_once : {0, 1}, resolved : 0 .. Len(Wrappers),
            filter : BOOLEAN, trace : BOOLEAN, main_entered : BOOLEAN]

Frame == [id : 0 .. MaxCalls, op : Ops \cup {"ctor", "dtor"}, at : Places, owed : BOOLEAN,
          began : Phases]

CallPlaces == {"entry", "gate", "guard"} \cup InitPlaces \cup BodyPlaces

(* The library as the initialisation leaves it, step by step.              *)
LibrarySet ==
  /\ phase \in Phases /\ lib \in Library /\ ring \in {"none", "bound", "unmapped"}
  /\ calls \in 0 .. MaxCalls /\ crashed \in BOOLEAN
  /\ lib.initialized \/ lib.resolved > 0 => lib.init_once = 1
  /\ lib.trace =>
       /\ lib.init_once = 1 /\ lib.resolved = Len(Wrappers) /\ lib.filter = MainOnly
       /\ ring = "bound" \/ Exiting
  /\ MainOnly /\ lib.main_entered => phase \notin {"load", "start"}
  /\ phase = "main" => (lib.main_entered <=> Platform = "linux")

(* What a frame is, and where it can be.                                   *)
Kinds(f) ==
  \/ f.op = "ctor" /\ f.at \in {"gate", "ctor_end"} \cup InitPlaces /\ phase = "load"
  \/ f.op = "dtor" /\ f.at \in {"close", "reset"} /\ Exiting
  \/ f.op \in Ops /\ f.at \in CallPlaces /\ f.id \in 1 .. calls

(* What the frame of the initialising thread knows of the library.         *)
Initialises(f) ==
  f.at \in InitPlaces =>
    /\ lib.init_once = 1 /\ ~ lib.initialized
    /\ f.at = "resolve" <=> lib.resolved < Len(Wrappers)
    /\ f.at \in {"open", "enable", "mark"} => lib.filter = MainOnly
    /\ lib.trace => f.at = "mark"
    /\ f.at = "enable" => ring = "bound" \/ Exiting

(* What a frame that is to be published knows of it.                       *)
Traces(f) ==
  /\ f.owed => lib.trace /\ f.op \in Ops
  /\ f.at \in {"fill", "push", "pushing"} => lib.trace /\ (MainOnly => lib.main_entered)

Fits(f) == Kinds(f) /\ Initialises(f) /\ Traces(f)

(* A thread is in one call at most, and one more from inside it, which     *)
(* gets no further than the test of the guard.                             *)
Stacked(t) ==
  /\ Len(stack[t]) <= 2
  /\ Len(stack[t]) = 2 =>
       /\ stack[t][1].at \in {"resolve", "fill"}
       /\ stack[t][2].at \in {"entry", "gate", "guard"} /\ stack[t][2].op \in Ops
       /\ ~ stack[t][2].owed
  /\ \A i \in 1 .. Len(stack[t]) : Fits(stack[t][i])
  /\ t # Starter => \A i \in 1 .. Len(stack[t]) : stack[t][i].op \in Ops

Guarded(t) ==
  guard[t] = IF Len(stack[t]) >= 1 /\ stack[t][1].at \in InitPlaces \cup BodyPlaces
             THEN 1 ELSE 0

Initialising(t) == Len(stack[t]) >= 1 /\ stack[t][1].at \in InitPlaces

Frames ==
  /\ stack \in [Thread -> Seq(Frame)] /\ guard \in [Thread -> 0 .. 1]
  /\ \A t \in Thread : Stacked(t) /\ Guarded(t)
  /\ \A t, u \in Thread : Initialising(t) /\ Initialising(u) => t = u

(* The events so far.                                                      *)
LoggedIn(events, id) == \E i \in DOMAIN events : events[i].id = id

(* The places in a call from where its event is behind it.                 *)
Behind(op, place) == place = "leave" \/ (op = "free" /\ place = "real")

Published(f) == Behind(f.op, f.at)

Event == [id : 1 .. MaxCalls, thread : Thread, began : Phases, phase : Phases]

EarlyPhases == {"load", "start"}

(* What --main-only may let through.                                       *)
Late(e) == e.phase \notin EarlyPhases /\ (e.began \in EarlyPhases => e.thread # Starter)

LogTyped ==
  /\ log \in Seq(Event) /\ \A i \in DOMAIN log : log[i].id <= calls
  /\ MainOnly => \A i \in DOMAIN log : Late(log[i])
  /\ returned \subseteq [id : 1 .. MaxCalls, owed : BOOLEAN, served : BOOLEAN]
  /\ OwedAreServed

(* Once main is entered its thread is in no call that began before: main   *)
(* begins when nothing else of that thread is under way.                   *)
StarterLate ==
  phase \notin EarlyPhases =>
    \A i \in 1 .. Len(stack[Starter]) : stack[Starter][i].began \notin EarlyPhases

(* A call has an identity of its own, and no event before its place.       *)
Numbered ==
  /\ \A t, u \in Thread : \A i \in 1 .. Len(stack[t]), j \in 1 .. Len(stack[u]) :
       stack[t][i].op \in Ops /\ stack[u][j].op \in Ops /\ stack[t][i].id = stack[u][j].id
         => t = u /\ i = j
  /\ \A i, j \in DOMAIN log : log[i].id = log[j].id => i = j
  /\ \A t \in Thread : \A i \in 1 .. Len(stack[t]) :
       stack[t][i].op \in Ops /\ LoggedIn(log, stack[t][i].id) => Published(stack[t][i])

(* On Linux, or without the filter, what is owed is published.             *)
Paid ==
  /\ \A t \in Thread : \A i \in 1 .. Len(stack[t]) : stack[t][i].owed =>
       /\ MainOnly => lib.main_entered
       /\ Published(stack[t][i]) => Exiting \/ LoggedIn(log, stack[t][i].id)
  /\ \A c \in returned : c.owed => Exiting \/ LoggedIn(log, c.id)

-----------------------------------------------------------------------------
(* Stacks                                                                  *)

(* A frame at its next place.                                              *)
MovedTo(f, place) ==
  [id |-> f.id, op |-> f.op, at |-> place, owed |-> f.owed, began |-> f.began]

LEMMA Moved ==
  ASSUME stack \in [Thread -> Seq(Frame)], NEW t \in Thread, NEW to \in Places,
         stack[t] # << >>, GoTo(t, to)
  PROVE  /\ stack' \in [Thread -> Seq(Frame)]
         /\ \A u \in Thread \ {t} : stack'[u] = stack[u]
         /\ Len(stack[t]) >= 1 /\ Len(stack'[t]) = Len(stack[t])
         /\ \A i \in 1 .. Len(stack[t]) - 1 : stack'[t][i] = stack[t][i]
         /\ stack'[t][Len(stack[t])] = MovedTo(Top(t), to)
<1> DEFINE s == stack[t]
           n == Len(s)
           f == [s[n] EXCEPT !.at = to]
<1>1. s \in Seq(Frame) /\ n \in Nat /\ n >= 1
  BY EmptySeq, LenProperties
<1>2. s[n] \in Frame
  BY <1>1, ElementOfSeq
<1>3. f \in Frame /\ f = MovedTo(s[n], to)
  BY <1>2 DEF Frame, MovedTo
<1>4. stack' = [stack EXCEPT ![t] = [s EXCEPT ![n] = f]]
  BY DEF GoTo
<1> HIDE DEF f
<1> DEFINE r == [s EXCEPT ![n] = f]
<1>5. /\ r \in Seq(Frame) /\ Len(r) = n
      /\ \A i \in 1 .. n : r[i] = IF i = n THEN f ELSE s[i]
  BY <1>1, <1>3, ExceptSeq
<1>6. r[n] = f /\ \A i \in 1 .. n - 1 : r[i] = s[i]
  BY <1>1, <1>5
<1> HIDE DEF r
<1>7. stack' = [stack EXCEPT ![t] = r]
  BY <1>4 DEF r
<1>8. /\ stack' \in [Thread -> Seq(Frame)] /\ stack'[t] = r
      /\ \A u \in Thread \ {t} : stack'[u] = stack[u]
  BY <1>5, <1>7
<1> QED BY <1>1, <1>3, <1>5, <1>6, <1>8 DEF Top

LEMMA Popped ==
  ASSUME stack \in [Thread -> Seq(Frame)], NEW t \in Thread, stack[t] # << >>,
         stack' = [stack EXCEPT ![t] = Front(@)]
  PROVE  /\ stack' \in [Thread -> Seq(Frame)]
         /\ \A u \in Thread \ {t} : stack'[u] = stack[u]
         /\ Len(stack[t]) >= 1 /\ Len(stack'[t]) = Len(stack[t]) - 1
         /\ \A i \in 1 .. Len(stack[t]) - 1 : stack'[t][i] = stack[t][i]
<1> DEFINE s == stack[t]
           n == Len(s)
           r == SubSeq(s, 1, n - 1)
<1>1. s \in Seq(Frame) /\ n \in Nat /\ n >= 1
  BY EmptySeq, LenProperties
<1>2. \A i \in 1 .. n - 1 : s[i] \in Frame
  BY <1>1, ElementOfSeq
<1>3. /\ r \in Seq(Frame) /\ Len(r) = n - 1
      /\ \A i \in 1 .. n - 1 : r[i] = s[i]
  <2>1. /\ r \in Seq(Frame)
        /\ Len(r) = IF 1 <= n - 1 THEN (n - 1) - 1 + 1 ELSE 0
        /\ \A i \in 1 .. (n - 1) - 1 + 1 : r[i] = s[1 + i - 1]
    BY <1>1, <1>2, SubSeqProperties
  <2> HIDE DEF r, n, s
  <2>2. n - 1 \in Nat /\ (n - 1) - 1 + 1 = n - 1
    BY <1>1
  <2>3. Len(r) = n - 1
    BY <2>1, <2>2
  <2>4. ASSUME NEW i \in 1 .. n - 1 PROVE r[i] = s[i]
    <3>1. r[i] = s[1 + i - 1] /\ 1 + i - 1 = i
      BY <2>1, <2>2
    <3> QED BY <3>1
  <2> QED BY <2>1, <2>3, <2>4
<1> HIDE DEF r
<1>4. stack' = [stack EXCEPT ![t] = r]
  BY DEF Front, r
<1>5. /\ stack' \in [Thread -> Seq(Frame)] /\ stack'[t] = r
      /\ \A u \in Thread \ {t} : stack'[u] = stack[u]
  BY <1>3, <1>4
<1> QED BY <1>1, <1>3, <1>5

LEMMA Pushed ==
  ASSUME stack \in [Thread -> Seq(Frame)], NEW t \in Thread, NEW f \in Frame,
         stack' = [stack EXCEPT ![t] = Append(@, f)]
  PROVE  /\ stack' \in [Thread -> Seq(Frame)]
         /\ \A u \in Thread \ {t} : stack'[u] = stack[u]
         /\ Len(stack[t]) \in Nat /\ Len(stack'[t]) = Len(stack[t]) + 1
         /\ \A i \in 1 .. Len(stack[t]) : stack'[t][i] = stack[t][i]
         /\ stack'[t][Len(stack[t]) + 1] = f
<1> DEFINE s == stack[t]
           r == Append(s, f)
<1>1. s \in Seq(Frame) /\ Len(s) \in Nat
  BY LenProperties
<1>2. /\ r \in Seq(Frame) /\ Len(r) = Len(s) + 1
      /\ \A i \in 1 .. Len(s) : r[i] = s[i]
      /\ r[Len(s) + 1] = f
  BY <1>1, AppendProperties
<1> HIDE DEF r
<1>3. stack' = [stack EXCEPT ![t] = r]
  BY DEF r
<1>4. /\ stack' \in [Thread -> Seq(Frame)] /\ stack'[t] = r
      /\ \A u \in Thread \ {t} : stack'[u] = stack[u]
  BY <1>2, <1>3
<1> QED BY <1>1, <1>2, <1>4

(* The top frame of a thread, and the one below it.                        *)
LEMMA TopFrame ==
  ASSUME Frames, NEW t \in Thread, stack[t] # << >>
  PROVE  /\ Len(stack[t]) \in {1, 2} /\ Top(t) \in Frame /\ Fits(Top(t))
         /\ Top(t).at \notin {"entry", "gate", "guard"} => Len(stack[t]) = 1
         /\ Len(stack[t]) = 1 => Top(t) = stack[t][1]
         /\ Len(stack[t]) = 2 => Top(t) = stack[t][2]
         /\ t # Starter => Top(t).op \in Ops
<1>1. stack[t] \in Seq(Frame) /\ Stacked(t)
  BY DEF Frames
<1>2. Len(stack[t]) \in {1, 2}
  <2> DEFINE n == Len(stack[t])
  <2>1. n \in Nat /\ n # 0
    BY <1>1, EmptySeq, LenProperties
  <2>2. n <= 2
    BY <1>1 DEF Stacked
  <2> HIDE DEF n
  <2>3. n = 1 \/ n = 2
    BY <2>1, <2>2
  <2> QED BY <2>3 DEF n
<1>3. Top(t) \in Frame
  BY <1>1, <1>2, ElementOfSeq DEF Top
<1> QED BY <1>1, <1>2, <1>3 DEF Stacked, Top

-----------------------------------------------------------------------------
(* The library                                                             *)

(* What a step never takes back.                                           *)
Grows ==
  /\ calls <= calls' /\ (lib.trace => lib'.trace)
  /\ MainOnly /\ lib.main_entered => lib'.main_entered
  /\ Exiting => Exiting'
  /\ ring = "bound" => ring' = "bound" \/ Exiting'

LEMMA InitStepLibrary ==
  ASSUME LibrarySet, Frames, NEW t \in Thread, InitStep(t)
  PROVE  LibrarySet' /\ Grows
<1> DEFINE f == Top(t)
<1>1. stack[t] # << >> /\ Fits(f)
  <2>1. stack[t] # << >>
    BY DEF InitStep, TakeGate, LoseGate, ResolveSymbol, ReadEnvironment, OpenWriter,
           EnableTrace, MarkInitialized, Sets, Passes, At
  <2> QED BY <2>1, TopFrame
<1>2. lib \in Library /\ calls \in Int /\ MainOnly \in BOOLEAN
  BY HookAssumption DEF LibrarySet
<1> USE <1>1, <1>2 DEF LibrarySet, Grows, Library, Exiting, Sets, history
<1>3. CASE TakeGate(t)
  BY <1>3 DEF TakeGate, GateTaken
<1>4. CASE LoseGate(t)
  BY <1>4 DEF LoseGate, Passes
<1>5. CASE ResolveSymbol(t)
  <2>1. f.at = "resolve" /\ lib.resolved < Len(Wrappers) /\ ~ lib.trace
    BY <1>5 DEF ResolveSymbol, At, Fits, Initialises, InitPlaces
  <2>2. Len(Wrappers) = 6 /\ lib.init_once = 1
    BY <2>1 DEF Wrappers, Fits, Initialises, InitPlaces
  <2>3. lib' = [lib EXCEPT !.resolved = @ + 1] /\ UNCHANGED <<phase, ring, calls, crashed>>
    BY <1>5 DEF ResolveSymbol
  <2>4. /\ lib' \in Library /\ lib'.trace = lib.trace /\ lib'.main_entered = lib.main_entered
        /\ lib'.initialized = lib.initialized /\ lib'.init_once = lib.init_once
    BY <2>1, <2>2, <2>3
  <2> QED BY <2>1, <2>2, <2>3, <2>4
<1>6. CASE ReadEnvironment(t)
  <2>1. f.at = "environment" /\ ~ lib.trace
    BY <1>6 DEF ReadEnvironment, At, Fits, Initialises, InitPlaces
  <2> QED BY <1>6, <2>1 DEF ReadEnvironment
<1>7. CASE OpenWriter(t)
  BY <1>7 DEF OpenWriter
<1>8. CASE EnableTrace(t)
  <2>1. /\ lib.init_once = 1 /\ lib.resolved = Len(Wrappers) /\ lib.filter = MainOnly
        /\ ring = "bound" \/ Exiting
    <3>1. f.at = "enable" /\ Len(Wrappers) = 6
      BY <1>8 DEF EnableTrace, At, Wrappers
    <3> QED BY <3>1 DEF Fits, Initialises, InitPlaces
  <2>2. lib' = [lib EXCEPT !.trace = TRUE] /\ UNCHANGED <<phase, ring, calls, crashed>>
    BY <1>8 DEF EnableTrace
  <2>3. /\ lib' \in Library /\ lib'.trace = TRUE /\ lib'.main_entered = lib.main_entered
        /\ lib'.initialized = lib.initialized /\ lib'.init_once = lib.init_once
        /\ lib'.resolved = lib.resolved /\ lib'.filter = lib.filter
    BY <2>2
  <2> QED BY <2>1, <2>2, <2>3
<1>9. CASE MarkInitialized(t)
  <2>1. lib.init_once = 1
    BY <1>9 DEF MarkInitialized, At, Fits, Initialises, InitPlaces
  <2>2. /\ lib' = [lib EXCEPT !.initialized = TRUE]
        /\ UNCHANGED <<phase, ring, calls, crashed>>
    BY <1>9 DEF MarkInitialized
  <2>3. /\ lib' \in Library /\ lib'.trace = lib.trace /\ lib'.main_entered = lib.main_entered
        /\ lib'.init_once = lib.init_once
        /\ lib'.resolved = lib.resolved /\ lib'.filter = lib.filter
    BY <2>2
  <2> QED BY <2>1, <2>2, <2>3
<1> QED BY <1>3, <1>4, <1>5, <1>6, <1>7, <1>8, <1>9 DEF InitStep

LEMMA OtherStepLibrary ==
  ASSUME LibrarySet, Frames,
         \/ \E t \in Thread, op \in Ops : BeginCall(t, op) \/ BeginNested(t, op)
         \/ \E t \in Thread : CallStep(t) \/ ProcessStep(t)
         \/ Ctor \/ EnterMain \/ Dtor
  PROVE  LibrarySet' /\ Grows
<1>1. lib \in Library /\ calls \in 0 .. MaxCalls /\ MainOnly \in BOOLEAN /\ MaxCalls \in Nat
  BY HookAssumption DEF LibrarySet
<1> USE <1>1 DEF LibrarySet, Grows, Exiting, history, Phases
<1>2. ASSUME NEW t \in Thread, NEW op \in Ops, BeginCall(t, op) \/ BeginNested(t, op)
      PROVE LibrarySet' /\ Grows
  BY <1>2 DEF BeginCall, BeginNested, Begin
<1>3. ASSUME NEW t \in Thread, CallStep(t) PROVE LibrarySet' /\ Grows
  <2>1. UNCHANGED <<phase, lib, ring, calls>> /\ crashed' \in BOOLEAN
    BY <1>3 DEF CallStep, Entry, GuardTaken, PassThrough, Refused, RealCall, Publish,
                FillEvent, PushBegin, PushEnd, LeaveCall, Passes, Leave
  <2> QED BY <2>1
<1>4. ASSUME NEW t \in Thread, CtorEnd(t) PROVE LibrarySet' /\ Grows
  <2>1. stack[t] # << >> /\ Top(t).at = "ctor_end"
    BY <1>4 DEF CtorEnd, At
  <2>2. phase = "load"
    BY <2>1, TopFrame DEF Fits, Kinds, CallPlaces, InitPlaces, BodyPlaces, EventPlaces
  <2> DEFINE entered == Platform = "linux" /\ ~ MainOnly
  <2>3. /\ lib' = [lib EXCEPT !.main_entered = entered] /\ phase' = "start"
        /\ UNCHANGED <<ring, calls, crashed>>
    BY <1>4 DEF CtorEnd, Leave
  <2>4. entered \in BOOLEAN /\ (MainOnly => ~ entered)
    OBVIOUS
  <2> HIDE DEF entered
  <2>5. /\ lib' \in Library /\ lib'.main_entered = entered
        /\ lib'.initialized = lib.initialized /\ lib'.init_once = lib.init_once
        /\ lib'.resolved = lib.resolved /\ lib'.filter = lib.filter /\ lib'.trace = lib.trace
    BY <2>3, <2>4 DEF Library
  <2> QED BY <2>2, <2>3, <2>4, <2>5
<1>5. ASSUME EnterMain PROVE LibrarySet' /\ Grows
  <2> DEFINE entered == Platform = "linux"
  <2>1. /\ lib' = [lib EXCEPT !.main_entered = entered]
        /\ phase = "start" /\ phase' = "main" /\ UNCHANGED <<ring, calls, crashed>>
    BY <1>5 DEF EnterMain
  <2>2. entered \in BOOLEAN
    OBVIOUS
  <2>3. entered <=> Platform = "linux"
    OBVIOUS
  <2> HIDE DEF entered
  <2>4. /\ lib' \in Library /\ lib'.main_entered = entered
        /\ lib'.initialized = lib.initialized /\ lib'.init_once = lib.init_once
        /\ lib'.resolved = lib.resolved /\ lib'.filter = lib.filter /\ lib'.trace = lib.trace
    BY <2>1, <2>2 DEF Library
  <2> QED BY <2>1, <2>3, <2>4
<1>6. CASE Ctor \/ Dtor
  BY <1>6 DEF Ctor, Dtor, Run
<1>7. ASSUME NEW t \in Thread, CloseWriter(t) \/ ResetWriter(t) PROVE LibrarySet' /\ Grows
  <2>1. stack[t] # << >> /\ Top(t).at \in {"close", "reset"}
    BY <1>7 DEF CloseWriter, ResetWriter, At
  <2>2. Exiting
    BY <2>1, TopFrame DEF Fits, Kinds, CallPlaces, InitPlaces, BodyPlaces, EventPlaces
  <2>3. /\ UNCHANGED <<lib, calls, crashed>> /\ ring' \in {"none", "bound", "unmapped"}
        /\ phase' \in {phase, "over"}
    BY <1>7 DEF CloseWriter, ResetWriter, Leave
  <2> QED BY <2>2, <2>3
<1> QED BY <1>2, <1>3, <1>4, <1>5, <1>6, <1>7 DEF ProcessStep

(* A frame goes on fitting, unless the step is one of the initialisation   *)
(* it is in itself.                                                        *)
InitKept ==
  /\ lib'.init_once = lib.init_once /\ lib'.initialized = lib.initialized
  /\ lib'.resolved = lib.resolved /\ lib'.filter = lib.filter /\ lib'.trace = lib.trace

LEMMA StillFits ==
  ASSUME NEW f, Fits(f), LibrarySet, LibrarySet', Grows,
         f.op = "ctor" => phase' = phase, f.at \in InitPlaces => InitKept
  PROVE  Fits(f)'
<1>1. calls \in Int /\ calls' \in Int
  BY HookAssumption DEF LibrarySet
<1>2. Kinds(f)'
  BY <1>1 DEF Fits, Kinds, Grows
<1>3. Initialises(f)'
  BY DEF Fits, Initialises, Grows, InitKept
<1>4. Traces(f)'
  BY DEF Fits, Traces, Grows
<1> QED BY <1>2, <1>3, <1>4 DEF Fits

-----------------------------------------------------------------------------
(* Frames                                                                  *)

LEMMA OpNames ==
  /\ Len(Wrappers) = 6
  /\ ToSet(Wrappers) =
       {"malloc", "calloc", "realloc", "free", "posix_memalign", "aligned_alloc"}
  /\ "ctor" \notin Ops /\ "dtor" \notin Ops
<1>1. Len(Wrappers) = 6
  BY DEF Wrappers
<1>2. /\ Wrappers[1] = "malloc" /\ Wrappers[2] = "calloc" /\ Wrappers[3] = "realloc"
      /\ Wrappers[4] = "free" /\ Wrappers[5] = "posix_memalign"
      /\ Wrappers[6] = "aligned_alloc"
  BY DEF Wrappers
<1>3. DOMAIN Wrappers = {1, 2, 3, 4, 5, 6}
  BY DEF Wrappers
<1> HIDE DEF Wrappers
<1>4. ToSet(Wrappers) =
        {"malloc", "calloc", "realloc", "free", "posix_memalign", "aligned_alloc"}
  BY <1>2, <1>3 DEF ToSet
<1> QED BY <1>1, <1>4, HookAssumption

LEMMA InitialisingFrame ==
  ASSUME Frames, NEW t \in Thread, NEW i \in 1 .. Len(stack[t]), stack[t][i].at \in InitPlaces
  PROVE  i = 1 /\ Initialising(t) /\ lib.init_once = 1
<1>1. Stacked(t) /\ Len(stack[t]) \in Nat
  BY LenProperties DEF Frames
<1> DEFINE n == Len(stack[t])
<1>2. n \in Nat /\ n <= 2 /\ i \in 1 .. n /\ (n = 2 => stack[t][2].at \notin InitPlaces)
  BY <1>1 DEF Stacked, InitPlaces
<1> HIDE DEF n
<1>3. i = 1 /\ n >= 1
  BY <1>2
<1>4. Fits(stack[t][1])
  BY <1>1, <1>3 DEF Stacked, n
<1> QED BY <1>3, <1>4 DEF Fits, Initialises, Initialising, n

(* The other threads, when one takes a step.                               *)
OthersStay(t) ==
  \A u \in Thread \ {t} : stack'[u] = stack[u] /\ guard'[u] = guard[u]

LEMMA FramesOfOthers ==
  ASSUME LibrarySet, LibrarySet', Frames, Grows, NEW t \in Thread, OthersStay(t),
         phase' = phase \/ t = Starter,
         InitKept \/ Initialising(t) \/ lib.init_once = 0,
         Initialising(t)' => Initialising(t) \/ lib.init_once = 0,
         stack' \in [Thread -> Seq(Frame)], guard' \in [Thread -> 0 .. 1],
         Stacked(t)', Guarded(t)'
  PROVE  Frames'
<1>1. \A u \in Thread : Initialising(u) => lib.init_once = 1
  <2> SUFFICES ASSUME NEW u \in Thread, Initialising(u) PROVE lib.init_once = 1
    OBVIOUS
  <2>1. Len(stack[u]) \in Nat /\ Len(stack[u]) >= 1
    BY LenProperties DEF Frames, Initialising
  <2>2. 1 \in 1 .. Len(stack[u])
    BY <2>1
  <2> QED BY <2>2, InitialisingFrame DEF Initialising
<1>2. ASSUME NEW u \in Thread \ {t} PROVE Stacked(u)' /\ Guarded(u)'
  <2>1. Stacked(u) /\ Guarded(u) /\ stack'[u] = stack[u] /\ guard'[u] = guard[u]
    BY DEF Frames, OthersStay
  <2>2. ASSUME NEW i \in 1 .. Len(stack[u]) PROVE Fits(stack[u][i])'
    <3>1. Fits(stack[u][i])
      BY <2>1 DEF Stacked
    <3>2. stack[u][i].op = "ctor" => phase' = phase
      <4>1. "ctor" \notin Ops
        BY OpNames
      <4> QED BY <4>1, <2>1 DEF Stacked
    <3>3. stack[u][i].at \in InitPlaces => InitKept
      BY <1>1, InitialisingFrame DEF Frames
    <3> QED
      <4> DEFINE f == stack[u][i]
      <4>1. Fits(f) /\ (f.op = "ctor" => phase' = phase) /\ (f.at \in InitPlaces => InitKept)
        BY <3>1, <3>2, <3>3
      <4>2. \A g : Fits(g) /\ (g.op = "ctor" => phase' = phase)
                           /\ (g.at \in InitPlaces => InitKept)
                     => (/\ Kinds(g)' /\ Initialises(g)' /\ Traces(g)')
        BY StillFits DEF Fits
      <4> QED BY <4>1, <4>2, <2>1 DEF Fits
  <2> QED BY <2>1, <2>2 DEF Stacked, Guarded
<1>3. ASSUME NEW u \in Thread, NEW v \in Thread, Initialising(u)', Initialising(v)'
      PROVE  u = v
  <2>1. \A w \in Thread \ {t} : Initialising(w)' <=> Initialising(w)
    BY DEF OthersStay, Initialising
  <2>2. \A w \in Thread : Initialising(w)' => Initialising(w) \/ (w = t /\ lib.init_once = 0)
    BY <2>1
  <2>3. \A v1, v2 \in Thread : Initialising(v1) /\ Initialising(v2) => v1 = v2
    BY DEF Frames
  <2> HIDE DEF Initialising
  <2>4. lib.init_once = 0 => \A w \in Thread : ~ Initialising(w)
    BY <1>1
  <2>5. Initialising(u) \/ (u = t /\ lib.init_once = 0)
    BY <1>3, <2>2
  <2>6. Initialising(v) \/ (v = t /\ lib.init_once = 0)
    BY <1>3, <2>2
  <2> QED BY <2>3, <2>4, <2>5, <2>6
<1> QED BY <1>2, <1>3 DEF Frames

(* A step that takes the top frame of its thread elsewhere.                *)
LEMMA MoveFrames ==
  ASSUME LibrarySet, LibrarySet', Frames, Grows, NEW t \in Thread, NEW to \in Places,
         stack[t] # << >>, GoTo(t, to), phase' = phase,
         NEW g \in 0 .. 1, guard' = [guard EXCEPT ![t] = g],
         Len(stack[t]) = 1 => (g = IF to \in InitPlaces \cup BodyPlaces THEN 1 ELSE 0),
         Len(stack[t]) = 2 => to \in {"gate", "guard"} /\ g = guard[t] /\ InitKept,
         InitKept \/ Top(t).at \in InitPlaces \/ lib.init_once = 0,
         to \in InitPlaces => Top(t).at \in InitPlaces \/ lib.init_once = 0,
         NEW f, f = MovedTo(Top(t), to), Fits(f)'
  PROVE  Frames'
<1> DEFINE n == Len(stack[t])
<1>1. /\ n \in {1, 2} /\ Top(t) \in Frame /\ Fits(Top(t))
      /\ n = 1 => Top(t) = stack[t][1]
      /\ n = 2 => Top(t) = stack[t][2]
      /\ Top(t).at \notin {"entry", "gate", "guard"} => n = 1
  BY TopFrame
<1>2. /\ stack' \in [Thread -> Seq(Frame)]
      /\ \A u \in Thread \ {t} : stack'[u] = stack[u]
      /\ Len(stack'[t]) = n /\ stack'[t][n] = f
      /\ n = 2 => stack'[t][1] = stack[t][1]
  <2>1. stack \in [Thread -> Seq(Frame)]
    BY DEF Frames
  <2>2. \A i \in 1 .. n - 1 : stack'[t][i] = stack[t][i]
    BY <2>1, Moved
  <2>3. n = 2 => 1 \in 1 .. n - 1
    BY <1>1
  <2> QED BY <2>1, <2>2, <2>3, Moved
<1>3. guard' \in [Thread -> 0 .. 1] /\ guard'[t] = g /\ \A u \in Thread \ {t} : guard'[u] = guard[u]
  BY DEF Frames
<1>4. Stacked(t) /\ Guarded(t)
  BY DEF Frames
<1>5. f.op = Top(t).op /\ f.owed = Top(t).owed /\ f.at = to /\ f.id = Top(t).id
  BY DEF MovedTo
<1>6. t # Starter => \A i \in 1 .. n : stack'[t][i].op \in Ops
  BY <1>1, <1>2, <1>4, <1>5 DEF Stacked
<1>7. ASSUME NEW e, n = 2, e = stack[t][1] PROVE Fits(e)'
  <2>1. Fits(e) /\ phase' = phase /\ InitKept
    BY <1>4, <1>7 DEF Stacked
  <2> QED BY <2>1, StillFits
<1> DEFINE s == stack'[t]
<1> HIDE DEF n, s
<1>9. \A i \in 1 .. n : i = n \/ (n = 2 /\ i = 1)
  BY <1>1
<1>10. ASSUME NEW i \in 1 .. n, NEW e, e = s[i] PROVE Fits(e)'
  <2>1. CASE i = n
    <3>1. e = f
      BY <2>1, <1>2, <1>10 DEF s
    <3> QED BY <3>1
  <2>2. CASE n = 2 /\ i = 1
    <3>1. e = stack[t][1]
      BY <2>2, <1>2, <1>10 DEF s
    <3> QED BY <3>1, <2>2, <1>7
  <2> QED BY <2>1, <2>2, <1>9
<1>11. Stacked(t)'
  <2>1. Len(stack'[t]) <= 2
    BY <1>1, <1>2
  <2>2. Len(stack'[t]) = 2 =>
          /\ stack'[t][1].at \in {"resolve", "fill"}
          /\ stack'[t][2].at \in {"entry", "gate", "guard"} /\ stack'[t][2].op \in Ops
          /\ ~ stack'[t][2].owed
    BY <1>2, <1>4, <1>5, <1>1 DEF Stacked, n
  <2>3. ASSUME NEW i \in 1 .. Len(stack'[t]) PROVE Fits(stack[t][i])'
    BY <1>2, <1>10 DEF s
  <2> QED BY <2>1, <2>2, <2>3, <1>6, <1>2 DEF Stacked
<1>12. Guarded(t)'
  BY <1>1, <1>2, <1>3, <1>4, <1>5 DEF Guarded, n
<1>13. InitKept \/ Initialising(t) \/ lib.init_once = 0
  BY <1>1 DEF Initialising, n
<1>14. Initialising(t)' => Initialising(t) \/ lib.init_once = 0
  <2>1. CASE n = 1
    BY <2>1, <1>1, <1>2, <1>5 DEF Initialising, n
  <2>2. CASE n = 2
    BY <2>2, <1>2 DEF Initialising, n
  <2> QED BY <2>1, <2>2, <1>1
<1> QED BY <1>2, <1>3, <1>11, <1>12, <1>13, <1>14, FramesOfOthers DEF OthersStay

(* A step that takes the top frame off.                                    *)
LEMMA PopFrames ==
  ASSUME LibrarySet, LibrarySet', Frames, Grows, NEW t \in Thread,
         stack[t] # << >>, stack' = [stack EXCEPT ![t] = Front(@)],
         NEW g \in 0 .. 1, guard' = [guard EXCEPT ![t] = g],
         Len(stack[t]) = 1 => g = 0 /\ (phase' = phase \/ t = Starter),
         Len(stack[t]) = 2 => g = guard[t] /\ phase' = phase,
         InitKept
  PROVE  Frames'
<1> DEFINE n == Len(stack[t])
<1>1. n \in {1, 2}
  BY TopFrame
<1>2. /\ stack' \in [Thread -> Seq(Frame)]
      /\ \A u \in Thread \ {t} : stack'[u] = stack[u]
      /\ Len(stack'[t]) = n - 1
      /\ n = 2 => stack'[t][1] = stack[t][1]
  <2>1. stack \in [Thread -> Seq(Frame)]
    BY DEF Frames
  <2>2. \A i \in 1 .. n - 1 : stack'[t][i] = stack[t][i]
    BY <2>1, Popped
  <2>3. n = 2 => 1 \in 1 .. n - 1
    BY <1>1
  <2> QED BY <2>1, <2>2, <2>3, Popped
<1>3. guard' \in [Thread -> 0 .. 1] /\ guard'[t] = g /\ \A u \in Thread \ {t} : guard'[u] = guard[u]
  BY DEF Frames
<1>4. Stacked(t) /\ Guarded(t)
  BY DEF Frames
<1>5. ASSUME NEW e, n = 2, e = stack[t][1] PROVE Fits(e)'
  <2>1. Fits(e) /\ phase' = phase
    BY <1>4, <1>5 DEF Stacked
  <2> QED BY <2>1, StillFits
<1> HIDE DEF n
<1>6. CASE n = 1
  <2>1. Len(stack'[t]) = 0
    BY <1>2, <1>6
  <2>2. Stacked(t)' /\ Guarded(t)' /\ ~ Initialising(t)'
    BY <2>1, <1>3, <1>6 DEF Stacked, Guarded, Initialising, n
  <2> QED BY <2>2, <1>2, <1>3, <1>6, FramesOfOthers DEF OthersStay, n
<1>7. CASE n = 2
  <2>1. Len(stack'[t]) = 1 /\ stack'[t][1] = stack[t][1]
    BY <1>2, <1>7
  <2>2. Stacked(t)'
    <3>1. ASSUME NEW i \in 1 .. Len(stack'[t]) PROVE Fits(stack[t][i])'
      <4>1. i \in 1 .. 1
        BY <2>1
      <4>2. i = 1
        BY <4>1
      <4> QED BY <4>2, <2>1, <1>5, <1>7
    <3>2. t # Starter => stack'[t][1].op \in Ops
      BY <2>1, <1>4, <1>7 DEF Stacked, n
    <3> QED BY <3>1, <3>2, <2>1 DEF Stacked
  <2>3. Guarded(t)' /\ (Initialising(t)' => Initialising(t))
    BY <2>1, <1>3, <1>4, <1>7 DEF Guarded, Initialising, n
  <2> QED BY <2>2, <2>3, <1>2, <1>3, <1>7, FramesOfOthers DEF OthersStay, n
<1> QED BY <1>1, <1>6, <1>7

(* A step that begins a call, or the constructor or destructor.            *)
LEMMA PushFrames ==
  ASSUME LibrarySet, LibrarySet', Frames, Grows, NEW t \in Thread, NEW f \in Frame,
         stack' = [stack EXCEPT ![t] = Append(@, f)], UNCHANGED guard, InitKept,
         Fits(f)', f.at \notin InitPlaces \cup BodyPlaces,
         t = Starter \/ (f.op \in Ops /\ phase' = phase),
         \/ stack[t] = << >>
         \/ /\ Len(stack[t]) = 1 /\ Top(t).at \in {"resolve", "fill"}
            /\ f.at = "entry" /\ f.op \in Ops /\ ~ f.owed /\ phase' = phase
  PROVE  Frames'
<1> DEFINE n == Len(stack[t])
<1>1. n \in {0, 1}
  BY EmptySeq
<1>2. /\ stack' \in [Thread -> Seq(Frame)]
      /\ \A u \in Thread \ {t} : stack'[u] = stack[u]
      /\ Len(stack'[t]) = n + 1 /\ stack'[t][n + 1] = f
      /\ n = 1 => stack'[t][1] = stack[t][1]
  <2>1. stack \in [Thread -> Seq(Frame)]
    BY DEF Frames
  <2>2. \A i \in 1 .. n : stack'[t][i] = stack[t][i]
    BY <2>1, Pushed
  <2>3. n = 1 => 1 \in 1 .. n
    BY <1>1
  <2> QED BY <2>1, <2>2, <2>3, Pushed
<1>3. guard' \in [Thread -> 0 .. 1] /\ \A u \in Thread : guard'[u] = guard[u]
  BY DEF Frames
<1>4. Stacked(t) /\ Guarded(t)
  BY DEF Frames
<1>5. n = 1 => /\ stack[t][1].at \in {"resolve", "fill"} /\ f.at = "entry" /\ f.op \in Ops
               /\ ~ f.owed /\ phase' = phase
  BY EmptySeq DEF Top
<1>6. ASSUME NEW e, n = 1, e = stack[t][1] PROVE Fits(e)'
  <2>1. Fits(e)
    BY <1>4, <1>6 DEF Stacked
  <2> QED BY <2>1, <1>5, <1>6, StillFits
<1> HIDE DEF n
<1>7. CASE n = 0
  <2>1. Len(stack'[t]) = 1 /\ stack'[t][1] = f
    BY <1>2, <1>7
  <2>2. ASSUME NEW i \in 1 .. Len(stack'[t]) PROVE Fits(stack[t][i])'
    <3>1. i \in 1 .. 1
      BY <2>1
    <3>2. i = 1
      BY <3>1
    <3> QED BY <3>2, <2>1
  <2>3. Stacked(t)' /\ Guarded(t)' /\ ~ Initialising(t)'
    BY <2>1, <2>2, <1>3, <1>4, <1>7 DEF Stacked, Guarded, Initialising, n
  <2> QED BY <2>3, <1>2, <1>3, FramesOfOthers DEF OthersStay
<1>8. CASE n = 1
  <2>1. Len(stack'[t]) = 2 /\ stack'[t][1] = stack[t][1] /\ stack'[t][2] = f
    BY <1>2, <1>8
  <2>2. ASSUME NEW i \in 1 .. Len(stack'[t]) PROVE Fits(stack[t][i])'
    <3>1. i = 1 \/ i = 2
      BY <2>1
    <3> QED BY <3>1, <2>1, <1>6, <1>8
  <2>3. t # Starter => \A i \in 1 .. Len(stack'[t]) : stack'[t][i].op \in Ops
    <3>1. t # Starter => stack[t][1].op \in Ops
      BY <1>4, <1>8 DEF Stacked, n
    <3> QED BY <3>1, <2>1, <1>5, <1>8
  <2>4. Stacked(t)'
    BY <2>1, <2>2, <2>3, <1>5, <1>8 DEF Stacked
  <2>5. Guarded(t)' /\ (Initialising(t)' => Initialising(t))
    BY <2>1, <1>3, <1>4, <1>8 DEF Guarded, Initialising, n
  <2> QED BY <2>4, <2>5, <1>2, <1>3, <1>5, <1>8, FramesOfOthers DEF OthersStay
<1> QED BY <1>1, <1>7, <1>8

(* A call that goes on, outside the initialisation.                        *)
LEMMA CallMoves ==
  ASSUME LibrarySet, LibrarySet', Frames, Grows, NEW t \in Thread, stack[t] # << >>,
         NEW to \in CallPlaces \ InitPlaces, GoTo(t, to), Top(t).op \in Ops,
         phase' = phase, InitKept, NEW g \in 0 .. 1, guard' = [guard EXCEPT ![t] = g],
         Len(stack[t]) = 1 => (g = IF to \in BodyPlaces THEN 1 ELSE 0),
         Len(stack[t]) = 2 => to \in {"gate", "guard"} /\ g = guard[t],
         to \in {"fill", "push", "pushing"} =>
           lib.trace /\ (MainOnly => lib.main_entered)
  PROVE  Frames'
<1>1. to \in Places
  BY DEF CallPlaces, Places
<1>2. Top(t) \in Frame /\ Fits(Top(t))
  BY TopFrame
<1>3. PICK f : f = MovedTo(Top(t), to)
  OBVIOUS
<1>4. f.op = Top(t).op /\ f.id = Top(t).id /\ f.at = to /\ f.owed = Top(t).owed
  BY <1>3 DEF MovedTo
<1>5. f.op \in Ops /\ f.id \in 1 .. calls
  BY <1>2, <1>4, OpNames DEF Fits, Kinds
<1>6. Fits(f)'
  <2>1. Kinds(f)'
    <3>1. calls \in Int /\ calls' \in Int /\ calls <= calls'
      BY HookAssumption DEF LibrarySet, Grows
    <3> QED BY <3>1, <1>4, <1>5 DEF Kinds
  <2>2. Initialises(f)'
    BY <1>4 DEF Initialises
  <2>3. Traces(f)'
    BY <1>2, <1>4, <1>5 DEF Traces, Fits, Grows
  <2> QED BY <2>1, <2>2, <2>3 DEF Fits
<1> QED BY <1>1, <1>3, <1>6, MoveFrames

LEMMA CallStepFrames ==
  ASSUME LibrarySet, LibrarySet', Frames, Grows, NEW t \in Thread, CallStep(t)
  PROVE  Frames'
<1> DEFINE f == Top(t)
           n == Len(stack[t])
<1>1. stack[t] # << >>
  BY DEF CallStep, Entry, GuardTaken, PassThrough, Refused, RealCall, Publish, FillEvent,
         PushBegin, PushEnd, LeaveCall, Passes, At
<1>2. /\ f.at \in CallPlaces \ InitPlaces
      /\ UNCHANGED <<phase, lib>>
  BY DEF CallStep, Entry, GuardTaken, PassThrough, Refused, RealCall, Publish, FillEvent,
         PushBegin, PushEnd, LeaveCall, Passes, At, CallPlaces, InitPlaces, BodyPlaces,
         EventPlaces
<1>3. f.at \notin {"gate", "ctor_end", "close", "reset"}
  BY DEF CallStep, Entry, GuardTaken, PassThrough, Refused, RealCall, Publish, FillEvent,
         PushBegin, PushEnd, LeaveCall, Passes, At
<1>4. /\ n \in {1, 2} /\ Fits(f)
      /\ f.at \notin {"entry", "gate", "guard"} => n = 1
      /\ n = 1 => f = stack[t][1]
  BY <1>1, TopFrame
<1>5. f.op \in Ops
  BY <1>2, <1>3, <1>4 DEF Fits, Kinds
<1>6. guard \in [Thread -> 0 .. 1] /\ Guarded(t) /\ Stacked(t)
  BY DEF Frames
<1>7. /\ guard[t] \in 0 .. 1 /\ guard = [guard EXCEPT ![t] = guard[t]]
      /\ n = 1 => (guard[t] = IF f.at \in InitPlaces \cup BodyPlaces THEN 1 ELSE 0)
      /\ n = 2 => guard[t] = 1
  BY <1>4, <1>6 DEF Guarded, Stacked, InitPlaces, BodyPlaces, EventPlaces
<1>8. InitKept
  BY <1>2 DEF InitKept
<1> HIDE DEF n
<1>9. CASE Entry(t)
  <2>1. /\ f.at = "entry" /\ UNCHANGED guard
        /\ GoTo(t, IF lib.initialized THEN "guard" ELSE "gate")
    BY <1>9 DEF Entry, Passes, At, history
  <2>2. "guard" \in CallPlaces \ (InitPlaces \cup BodyPlaces) /\ "gate" \in CallPlaces \ (InitPlaces \cup BodyPlaces)
    BY DEF CallPlaces, InitPlaces, BodyPlaces, EventPlaces
  <2>3. PICK to \in {"guard", "gate"} : GoTo(t, to)
    BY <2>1
  <2>4. n = 1 => guard[t] = 0
    BY <1>7, <2>1 DEF InitPlaces, BodyPlaces, EventPlaces
  <2> QED BY <1>1, <1>2, <1>5, <1>7, <1>8, <2>1, <2>2, <2>3, <2>4, CallMoves DEF n
<1>10. CASE GuardTaken(t)
  <2>1. /\ guard[t] = 0 /\ guard' = [guard EXCEPT ![t] = 1]
        /\ GoTo(t, IF f.op = "free" THEN "publish" ELSE "real")
    BY <1>6, <1>10 DEF GuardTaken, Guard
  <2>2. n = 1
    BY <2>1, <1>4, <1>7
  <2>3. PICK to \in {"publish", "real"} : GoTo(t, to)
    BY <2>1
  <2>4. to \in BodyPlaces /\ to \in CallPlaces \ InitPlaces
    BY DEF CallPlaces, InitPlaces, BodyPlaces, EventPlaces
  <2>5. /\ Len(stack[t]) = 1 /\ Len(stack[t]) # 2 /\ phase' = phase
        /\ to \notin {"fill", "push", "pushing"}
    BY <1>2, <2>2 DEF n
  <2>6. PICK g \in 0 .. 1 : g = 1
    OBVIOUS
  <2>7. guard' = [guard EXCEPT ![t] = g]
    BY <2>1, <2>6
  <2> QED BY <1>1, <1>5, <1>8, <2>3, <2>4, <2>5, <2>6, <2>7, CallMoves
<1>11. CASE PassThrough(t) \/ Refused(t)
  <2>1. stack' = [stack EXCEPT ![t] = Front(@)] /\ UNCHANGED guard /\ f.at = "guard"
    BY <1>11 DEF PassThrough, Refused, Leave, At
  <2>2. n = 1 => guard[t] = 0
    BY <1>7, <2>1 DEF InitPlaces, BodyPlaces, EventPlaces
  <2> QED BY <1>1, <1>2, <1>7, <1>8, <2>1, <2>2, PopFrames DEF n
<1>12. CASE LeaveCall(t)
  <2>1. /\ stack' = [stack EXCEPT ![t] = Front(@)] /\ f.at = "leave"
        /\ guard' = [guard EXCEPT ![t] = @ + (-1)]
    BY <1>12 DEF LeaveCall, Leave, At, Guard
  <2>2. n = 1 /\ guard[t] = 1
    BY <1>4, <1>7, <2>1 DEF InitPlaces, BodyPlaces, EventPlaces
  <2>3. guard' = [guard EXCEPT ![t] = 0]
    BY <2>1, <2>2
  <2>4. Len(stack[t]) = 1 /\ Len(stack[t]) # 2 /\ phase' = phase
    BY <1>2, <2>2 DEF n
  <2>5. PICK g \in 0 .. 1 : g = 0
    OBVIOUS
  <2>6. guard' = [guard EXCEPT ![t] = g]
    BY <2>3, <2>5
  <2> QED BY <1>1, <1>8, <2>1, <2>4, <2>5, <2>6, PopFrames
<1>13. CASE RealCall(t) \/ Publish(t) \/ FillEvent(t) \/ PushBegin(t) \/ PushEnd(t)
  <2>1. f.at \in BodyPlaces /\ UNCHANGED guard
    BY <1>13 DEF RealCall, Publish, FillEvent, PushBegin, PushEnd, Passes, At, BodyPlaces,
                 EventPlaces
  <2>2. n = 1 /\ guard[t] = 1
    BY <1>4, <1>7, <2>1 DEF InitPlaces, BodyPlaces, EventPlaces
  <2>3. PICK to \in BodyPlaces :
          /\ GoTo(t, to)
          /\ to \in {"fill", "push", "pushing"} => lib.trace /\ (MainOnly => lib.main_entered)
    <3>1. f.at \in {"fill", "push", "pushing"} => lib.trace /\ (MainOnly => lib.main_entered)
      BY <1>4 DEF Fits, Traces
    <3>2. Traced => lib.trace /\ (MainOnly => lib.main_entered)
      BY DEF Traced, LibrarySet
    <3>3. CASE RealCall(t)
      BY <3>3 DEF RealCall, Passes, BodyPlaces, EventPlaces
    <3>4. CASE Publish(t)
      BY <3>2, <3>4 DEF Publish, Passes, AfterPublish, BodyPlaces, EventPlaces
    <3>5. CASE FillEvent(t)
      BY <3>1, <3>5 DEF FillEvent, Passes, At, BodyPlaces, EventPlaces
    <3>6. CASE PushBegin(t)
      BY <3>1, <3>6 DEF PushBegin, Passes, At, AfterPublish, BodyPlaces, EventPlaces
    <3>7. CASE PushEnd(t)
      BY <3>7 DEF PushEnd, AfterPublish, BodyPlaces, EventPlaces
    <3> QED BY <1>13, <3>3, <3>4, <3>5, <3>6, <3>7
  <2>4. to \in CallPlaces \ InitPlaces
    BY DEF CallPlaces, InitPlaces, BodyPlaces, EventPlaces
  <2>5. Len(stack[t]) = 1 /\ Len(stack[t]) # 2 /\ phase' = phase
    BY <1>2, <2>2 DEF n
  <2>6. guard' = [guard EXCEPT ![t] = guard[t]]
    BY <1>7, <2>1
  <2> QED BY <1>1, <1>5, <1>7, <1>8, <2>2, <2>3, <2>4, <2>5, <2>6, CallMoves
<1> QED BY <1>9, <1>10, <1>11, <1>12, <1>13 DEF CallStep

(* A step of the initialisation, or past it, of a thread in one call.      *)
LEMMA InitMoves ==
  ASSUME LibrarySet, LibrarySet', Frames, Grows, NEW t \in Thread,
         stack[t] # << >>, Len(stack[t]) = 1, Len(stack[t]) # 2,
         NEW to \in InitPlaces \cup {"guard", "ctor_end"}, GoTo(t, to),
         Top(t).at \in InitPlaces \cup {"gate"}, phase' = phase,
         to = "guard" => Top(t).op # "ctor", to = "ctor_end" => Top(t).op = "ctor",
         NEW g \in 0 .. 1, guard' = [guard EXCEPT ![t] = g],
         g = IF to \in InitPlaces THEN 1 ELSE 0,
         InitKept \/ Top(t).at \in InitPlaces \/ lib.init_once = 0,
         to \in InitPlaces =>
           /\ Top(t).at \in InitPlaces \/ lib.init_once = 0
           /\ lib'.init_once = 1 /\ ~ lib'.initialized
           /\ to = "resolve" <=> lib'.resolved < Len(Wrappers)
           /\ to \in {"open", "enable", "mark"} => lib'.filter = MainOnly
           /\ lib'.trace => to = "mark"
           /\ to = "enable" => ring' = "bound" \/ Exiting'
  PROVE  Frames'
<1>1. /\ to \in Places /\ (to \in InitPlaces \cup {"guard"} => to \in CallPlaces)
      /\ to \notin BodyPlaces /\ to \notin {"fill", "push", "pushing"}
  BY DEF CallPlaces, Places, InitPlaces, BodyPlaces, EventPlaces
<1>2. Top(t) \in Frame /\ Fits(Top(t))
  BY TopFrame
<1>3. PICK f : f = MovedTo(Top(t), to)
  OBVIOUS
<1>4. f.op = Top(t).op /\ f.id = Top(t).id /\ f.at = to /\ f.owed = Top(t).owed
  BY <1>3 DEF MovedTo
<1>5. \/ f.op = "ctor" /\ phase = "load"
      \/ f.op \in Ops /\ f.op # "ctor" /\ f.id \in 1 .. calls
  BY <1>2, <1>4, OpNames DEF Fits, Kinds, InitPlaces
<1>6. Fits(f)'
  <2>1. Kinds(f)'
    <3>1. calls \in Int /\ calls' \in Int /\ calls <= calls'
      BY HookAssumption DEF LibrarySet, Grows
    <3>2. CASE f.op = "ctor"
      BY <3>2, <1>1, <1>4, <1>5, OpNames DEF Kinds
    <3>3. CASE f.op # "ctor"
      BY <3>1, <3>3, <1>1, <1>4, <1>5 DEF Kinds
    <3> QED BY <3>2, <3>3
  <2>2. Initialises(f)'
    BY <1>4 DEF Initialises
  <2>3. Traces(f)'
    BY <1>1, <1>2, <1>4 DEF Traces, Fits, Grows
  <2> QED BY <2>1, <2>2, <2>3 DEF Fits
<1>7. g = IF to \in InitPlaces \cup BodyPlaces THEN 1 ELSE 0
  BY <1>1
<1> QED BY <1>1, <1>3, <1>6, <1>7, MoveFrames

LEMMA InitStepFrames ==
  ASSUME LibrarySet, LibrarySet', Frames, Grows, NEW t \in Thread, InitStep(t)
  PROVE  Frames'
<1> DEFINE f == Top(t)
           n == Len(stack[t])
<1>1. stack[t] # << >> /\ phase' = phase /\ f.at \in InitPlaces \cup {"gate"}
  BY DEF InitStep, TakeGate, LoseGate, ResolveSymbol, ReadEnvironment, OpenWriter,
         EnableTrace, MarkInitialized, Sets, Passes, At, InitPlaces
<1>2. /\ n \in {1, 2} /\ Fits(f)
      /\ f.at \notin {"entry", "gate", "guard"} => n = 1
      /\ n = 1 => f = stack[t][1]
      /\ n = 2 => f = stack[t][2]
  BY <1>1, TopFrame
<1>3. guard \in [Thread -> 0 .. 1] /\ Guarded(t) /\ Stacked(t)
  BY DEF Frames
<1>4. /\ guard[t] \in 0 .. 1 /\ guard = [guard EXCEPT ![t] = guard[t]]
      /\ n = 1 => (guard[t] = IF f.at \in InitPlaces \cup BodyPlaces THEN 1 ELSE 0)
      /\ n = 2 => guard[t] = 1 /\ f.op \in Ops /\ lib.init_once = 1
  <2>1. n = 2 => Fits(stack[t][1])
    BY <1>3 DEF Stacked
  <2> QED BY <1>2, <1>3, <2>1 DEF Guarded, Stacked, InitPlaces, BodyPlaces, EventPlaces, Fits,
                                  Initialises, Traces, LibrarySet
<1>5. f.at \in InitPlaces =>
        /\ n = 1 /\ n # 2 /\ guard[t] = 1 /\ Initialises(f)
  BY <1>2, <1>4 DEF Fits, InitPlaces
<1>6. f.op = "ctor" \/ (f.op \in Ops /\ f.op # "ctor" /\ f.id \in 1 .. calls)
  BY <1>1, <1>2, OpNames DEF Fits, Kinds, InitPlaces
<1>7. lib \in Library /\ Len(Wrappers) = 6
  BY OpNames DEF LibrarySet
<1> HIDE DEF n
<1>8. ASSUME NEW to \in InitPlaces, GoTo(t, to), f.at \in InitPlaces, UNCHANGED guard,
             /\ lib'.init_once = 1 /\ ~ lib'.initialized
             /\ to = "resolve" <=> lib'.resolved < Len(Wrappers)
             /\ to \in {"open", "enable", "mark"} => lib'.filter = MainOnly
             /\ lib'.trace => to = "mark"
             /\ to = "enable" => ring' = "bound" \/ Exiting'
      PROVE  Frames'
  <2>1. guard' = [guard EXCEPT ![t] = guard[t]] /\ guard[t] = 1
    BY <1>4, <1>5, <1>8
  <2>2. to \notin {"guard", "ctor_end"}
    BY DEF InitPlaces
  <2> QED BY <1>1, <1>4, <1>5, <1>8, <2>1, <2>2, InitMoves DEF n
<1>9. CASE TakeGate(t)
  <2>1. /\ lib.init_once = 0 /\ GoTo(t, "resolve") /\ f.at = "gate"
        /\ lib' = [lib EXCEPT !.init_once = 1]
        /\ guard' = [guard EXCEPT ![t] = @ + 1]
    BY <1>9 DEF TakeGate, Sets, At, InitOrder, GateTaken, Guard
  <2>2. n = 1 /\ n # 2 /\ guard[t] = 0
    BY <1>2, <1>4, <2>1 DEF InitPlaces, BodyPlaces, EventPlaces
  <2>3. PICK g \in 0 .. 1 : g = 1
    OBVIOUS
  <2>4. guard' = [guard EXCEPT ![t] = g]
    BY <2>1, <2>2, <2>3, <1>3
  <2>5. PICK to \in InitPlaces : to = "resolve"
    BY DEF InitPlaces
  <2>6. /\ lib'.init_once = 1 /\ ~ lib'.initialized /\ lib'.resolved < Len(Wrappers)
        /\ ~ lib'.trace
    BY <1>7, <2>1 DEF LibrarySet, Library
  <2>7. /\ to \notin {"guard", "ctor_end", "open", "enable", "mark"} /\ GoTo(t, to)
        /\ g = IF to \in InitPlaces THEN 1 ELSE 0
    BY <2>1, <2>3, <2>5
  <2>8. Len(stack[t]) = 1 /\ Len(stack[t]) # 2
    BY <2>2 DEF n
  <2>9. to \in InitPlaces =>
           /\ f.at \in InitPlaces \/ lib.init_once = 0
           /\ lib'.init_once = 1 /\ ~ lib'.initialized
           /\ to = "resolve" <=> lib'.resolved < Len(Wrappers)
           /\ to \in {"open", "enable", "mark"} => lib'.filter = MainOnly
           /\ lib'.trace => to = "mark"
           /\ to = "enable" => ring' = "bound" \/ Exiting'
    BY <2>1, <2>5, <2>6, <2>7
  <2> QED BY <1>1, <2>1, <2>4, <2>7, <2>8, <2>9, InitMoves
<1>10. CASE LoseGate(t)
  <2>1. /\ f.at = "gate" /\ UNCHANGED <<lib, ring, guard>> /\ GoTo(t, AfterInit(t))
    BY <1>10 DEF LoseGate, Passes, At
  <2>2. InitKept
    BY <2>1 DEF InitKept
  <2>3. n = 1 => guard[t] = 0
    BY <1>4, <2>1 DEF InitPlaces, BodyPlaces, EventPlaces
  <2>4. PICK to \in {"guard", "ctor_end"} : GoTo(t, to) /\ (to = "ctor_end" <=> f.op = "ctor")
    BY <2>1 DEF AfterInit
  <2>5. to \notin InitPlaces
    BY DEF InitPlaces
  <2>6. guard' = [guard EXCEPT ![t] = guard[t]]
    BY <1>4, <2>1
  <2>7. CASE n = 1
    <3>1. n # 2
      BY <2>7
    <3> QED BY <1>1, <1>4, <2>2, <2>3, <2>4, <2>5, <2>6, <2>7, <3>1, InitMoves DEF n
  <2>8. CASE n = 2
    <3>1. to = "guard" /\ f.op \in Ops /\ n # 1
      BY <1>4, <2>4, <2>8, OpNames
    <3>2. "guard" \in CallPlaces \ InitPlaces
      BY DEF CallPlaces, InitPlaces
    <3> QED BY <1>1, <1>4, <2>2, <2>4, <2>6, <2>8, <3>1, <3>2, CallMoves DEF n
  <2> QED BY <1>2, <2>7, <2>8
<1>11. CASE ResolveSymbol(t)
  <2> DEFINE m == lib.resolved + 1
             to == IF m = Len(Wrappers) THEN "environment" ELSE "resolve"
  <2>1. /\ f.at = "resolve" /\ GoTo(t, to) /\ lib' = [lib EXCEPT !.resolved = m]
        /\ UNCHANGED <<guard, ring>>
    BY <1>11 DEF ResolveSymbol, Sets, At, InitOrder
  <2>2. f.at \in InitPlaces /\ to \in InitPlaces
    BY <2>1 DEF InitPlaces
  <2>3. lib.init_once = 1 /\ ~ lib.initialized /\ lib.resolved < 6 /\ ~ lib.trace
    BY <1>5, <1>7, <2>1, <2>2 DEF Initialises
  <2>4. /\ lib'.init_once = 1 /\ ~ lib'.initialized /\ lib'.resolved = m /\ ~ lib'.trace
    BY <1>7, <2>1, <2>3 DEF Library
  <2>5. to = "resolve" <=> m < 6
    BY <1>7, <2>3 DEF Library
  <2>6. to \notin {"open", "enable", "mark"}
    OBVIOUS
  <2> HIDE DEF to, m
  <2> QED BY <1>7, <2>1, <2>2, <2>4, <2>5, <2>6, <1>8
<1>12. CASE ReadEnvironment(t)
  <2>1. /\ f.at = "environment" /\ GoTo(t, "open") /\ lib' = [lib EXCEPT !.filter = MainOnly]
        /\ UNCHANGED <<guard, ring>>
    BY <1>12 DEF ReadEnvironment, Sets, At, InitOrder
  <2>2. f.at \in InitPlaces /\ "open" \in InitPlaces
    BY <2>1 DEF InitPlaces
  <2>3. lib.init_once = 1 /\ ~ lib.initialized /\ ~ (lib.resolved < 6) /\ ~ lib.trace
    BY <1>5, <1>7, <2>1, <2>2 DEF Initialises
  <2>4. /\ lib'.init_once = 1 /\ ~ lib'.initialized /\ lib'.resolved = lib.resolved
        /\ ~ lib'.trace /\ lib'.filter = MainOnly
    BY <1>7, <2>1, <2>3 DEF Library
  <2> QED BY <1>7, <2>1, <2>2, <2>3, <2>4, <1>8
<1>13. CASE OpenWriter(t)
  <2>1. /\ f.at = "open" /\ UNCHANGED <<guard, lib>>
        /\ (ring' = "bound" /\ GoTo(t, "enable")) \/ (GoTo(t, "mark") /\ UNCHANGED ring)
    BY <1>13 DEF OpenWriter, At, InitOrder
  <2>2. f.at \in InitPlaces /\ "enable" \in InitPlaces /\ "mark" \in InitPlaces
    BY <2>1 DEF InitPlaces
  <2>3. /\ lib.init_once = 1 /\ ~ lib.initialized /\ ~ (lib.resolved < 6) /\ ~ lib.trace
        /\ lib.filter = MainOnly
    BY <1>5, <1>7, <2>1, <2>2 DEF Initialises
  <2>4. CASE ring' = "bound" /\ GoTo(t, "enable")
    BY <1>7, <2>1, <2>2, <2>3, <2>4, <1>8
  <2>5. CASE GoTo(t, "mark") /\ UNCHANGED ring
    BY <1>7, <2>1, <2>2, <2>3, <2>5, <1>8
  <2> QED BY <2>1, <2>4, <2>5
<1>14. CASE EnableTrace(t)
  <2>1. /\ f.at = "enable" /\ GoTo(t, "mark") /\ lib' = [lib EXCEPT !.trace = TRUE]
        /\ UNCHANGED <<guard, ring>>
    BY <1>14 DEF EnableTrace, Sets, At, InitOrder
  <2>2. f.at \in InitPlaces /\ "mark" \in InitPlaces
    BY <2>1 DEF InitPlaces
  <2>3. /\ lib.init_once = 1 /\ ~ lib.initialized /\ ~ (lib.resolved < 6)
        /\ lib.filter = MainOnly
    BY <1>5, <1>7, <2>1, <2>2 DEF Initialises
  <2>4. /\ lib'.init_once = 1 /\ ~ lib'.initialized /\ lib'.resolved = lib.resolved
        /\ lib'.filter = MainOnly
    BY <1>7, <2>1, <2>3 DEF Library
  <2> QED BY <1>7, <2>1, <2>2, <2>3, <2>4, <1>8
<1>15. CASE MarkInitialized(t)
  <2>1. /\ f.at = "mark" /\ GoTo(t, AfterInit(t))
        /\ guard' = [guard EXCEPT ![t] = @ + (-1)]
    BY <1>15 DEF MarkInitialized, Sets, At, Guard
  <2>2. f.at \in InitPlaces
    BY <2>1 DEF InitPlaces
  <2>3. PICK to \in {"guard", "ctor_end"} : GoTo(t, to) /\ (to = "ctor_end" <=> f.op = "ctor")
    BY <2>1 DEF AfterInit
  <2>4. to \notin InitPlaces
    BY DEF InitPlaces
  <2>5. PICK g \in 0 .. 1 : g = 0
    OBVIOUS
  <2>6. guard' = [guard EXCEPT ![t] = g]
    BY <1>3, <1>5, <2>1, <2>2, <2>5
  <2> QED BY <1>1, <1>5, <2>2, <2>3, <2>4, <2>5, <2>6, InitMoves DEF n
<1> QED BY <1>9, <1>10, <1>11, <1>12, <1>13, <1>14, <1>15 DEF InitStep

LEMMA BeginFrames ==
  ASSUME LibrarySet, LibrarySet', Frames, Grows, NEW t \in Thread, NEW op \in Ops,
         BeginCall(t, op) \/ BeginNested(t, op)
  PROVE  Frames'
<1>1. PICK f : f = [id |-> calls + 1, op |-> op, at |-> "entry", owed |-> Owed(t),
                    began |-> phase]
  OBVIOUS
<1>2. /\ stack' = [stack EXCEPT ![t] = Append(@, f)] /\ calls < MaxCalls /\ calls' = calls + 1
      /\ UNCHANGED <<phase, lib, ring, guard>>
  BY <1>1 DEF BeginCall, BeginNested, Begin
<1>3. Owed(t) \in BOOLEAN /\ (Owed(t) => lib.trace /\ stack[t] = << >>)
  BY DEF Owed
<1>4. f.id = calls + 1 /\ f.op = op /\ f.at = "entry" /\ f.owed = Owed(t)
  BY <1>1
<1>5. calls \in Nat /\ MaxCalls \in Nat
  BY HookAssumption DEF LibrarySet
<1> DEFINE o == Owed(t)
<1>6. f \in Frame
  <2>1. "entry" \in Places
    BY DEF Places
  <2>2. f = [id |-> calls + 1, op |-> op, at |-> "entry", owed |-> o, began |-> phase]
        /\ phase \in Phases
    BY <1>1 DEF LibrarySet
  <2>3. o \in BOOLEAN
    BY <1>3
  <2> HIDE DEF o
  <2> QED BY <1>2, <1>5, <2>1, <2>2, <2>3 DEF Frame
<1>7. f.at \in CallPlaces /\ f.at \notin InitPlaces \cup BodyPlaces
  BY <1>4 DEF CallPlaces, InitPlaces, BodyPlaces, EventPlaces
<1>8. f.owed => lib.trace /\ stack[t] = << >>
  BY <1>3, <1>4
<1>9. Fits(f)'
  <2>1. Kinds(f)'
    BY <1>2, <1>4, <1>5, <1>7 DEF Kinds
  <2>2. Initialises(f)' /\ Traces(f)'
    BY <1>2, <1>4, <1>7, <1>8 DEF Initialises, Traces
  <2> QED BY <2>1, <2>2 DEF Fits
<1>10. InitKept
  BY <1>2 DEF InitKept
<1>11. CASE BeginCall(t, op)
  <2>1. stack[t] = << >>
    BY <1>11 DEF BeginCall
  <2> QED BY <1>2, <1>4, <1>6, <1>7, <1>9, <1>10, <2>1, PushFrames
<1>12. CASE BeginNested(t, op)
  <2>1. Len(stack[t]) = 1 /\ Top(t).at \in {"resolve", "fill"}
    BY <1>12 DEF BeginNested
  <2>2. ~ f.owed
    BY <1>8, <2>1, EmptySeq
  <2> QED BY <1>2, <1>4, <1>6, <1>7, <1>9, <1>10, <2>1, <2>2, PushFrames
<1> QED BY <1>11, <1>12

LEMMA ProcessFrames ==
  ASSUME LibrarySet, LibrarySet', Frames, Grows,
         (\E t \in Thread : ProcessStep(t)) \/ Ctor \/ EnterMain \/ Dtor
  PROVE  Frames'
<1> USE HookAssumption
<1>1. stack \in [Thread -> Seq(Frame)] /\ guard \in [Thread -> 0 .. 1]
  BY DEF Frames
<1>2. CASE Ctor \/ Dtor
  <2>1. PICK op \in {"ctor", "dtor"}, place \in {"gate", "close"} :
          /\ Run(op, place)
          /\ \/ op = "ctor" /\ place = "gate" /\ phase' = "load"
             \/ op = "dtor" /\ place = "close" /\ phase' = "exit"
    BY <1>2 DEF Ctor, Dtor
  <2>2. PICK f : f = [id |-> 0, op |-> op, at |-> place, owed |-> FALSE, began |-> phase]
    OBVIOUS
  <2>3. /\ stack[Starter] = << >> /\ stack' = [stack EXCEPT ![Starter] = <<f>>]
        /\ UNCHANGED <<lib, ring, guard>>
    BY <2>1, <2>2 DEF Run
  <2>4. f.op = op /\ f.at = place /\ ~ f.owed
    BY <2>2
  <2>5. f \in Frame
    BY <2>2 DEF Frame, Places, LibrarySet
  <2>6. f.at \notin InitPlaces \cup BodyPlaces /\ f.at \notin {"fill", "push", "pushing"}
    BY <2>4 DEF InitPlaces, BodyPlaces, EventPlaces
  <2>7. Fits(f)'
    <3>1. Kinds(f)'
      BY <2>1, <2>4 DEF Kinds, Exiting
    <3>2. Initialises(f)' /\ Traces(f)'
      BY <2>4, <2>6 DEF Initialises, Traces
    <3> QED BY <3>1, <3>2 DEF Fits
  <2>8. stack' = [stack EXCEPT ![Starter] = Append(@, f)]
    <3>1. Append(<< >>, f) = <<f>>
      OBVIOUS
    <3> QED BY <2>3, <3>1
  <2>9. InitKept
    BY <2>3 DEF InitKept
  <2> QED BY <2>3, <2>5, <2>6, <2>7, <2>8, <2>9, PushFrames
<1>3. CASE EnterMain
  <2>1. stack[Starter] = << >> /\ UNCHANGED <<stack, guard>>
    BY <1>3 DEF EnterMain, history
  <2>2. Len(stack[Starter]) = 0
    BY <2>1, EmptySeq
  <2>3. InitKept
    BY <1>3 DEF EnterMain, InitKept, LibrarySet, Library
  <2>4. Stacked(Starter)' /\ Guarded(Starter)' /\ ~ Initialising(Starter)'
    BY <2>1, <2>2 DEF Frames, Stacked, Guarded, Initialising
  <2> QED BY <1>1, <2>1, <2>3, <2>4, FramesOfOthers DEF OthersStay
<1>4. ASSUME NEW t \in Thread, ProcessStep(t) PROVE Frames'
  <2>1. /\ stack[t] # << >> /\ Top(t).at \in {"ctor_end", "close", "reset"}
        /\ UNCHANGED guard
    BY <1>4 DEF ProcessStep, CtorEnd, CloseWriter, ResetWriter, At
  <2>2. /\ Len(stack[t]) = 1 /\ Len(stack[t]) # 2 /\ Top(t) = stack[t][1] /\ Fits(Top(t))
        /\ t # Starter => Top(t).op \in Ops
    BY <2>1, TopFrame
  <2>3. \/ Top(t).op = "ctor" /\ Top(t).at = "ctor_end"
        \/ Top(t).op = "dtor" /\ Top(t).at \in {"close", "reset"} /\ Exiting
    BY <2>1, <2>2 DEF Fits, Kinds, CallPlaces, InitPlaces, BodyPlaces, EventPlaces
  <2>4. t = Starter
    BY <2>2, <2>3, OpNames
  <2>5. guard[t] = 0
    BY <2>1, <2>2 DEF Frames, Guarded, InitPlaces, BodyPlaces, EventPlaces
  <2>6. guard' = [guard EXCEPT ![t] = guard[t]] /\ guard[t] \in 0 .. 1
    BY <1>1, <2>1
  <2>7. InitKept
    BY <1>4 DEF ProcessStep, CtorEnd, CloseWriter, ResetWriter, InitKept, LibrarySet, Library
  <2>8. CASE stack' = [stack EXCEPT ![t] = Front(@)]
    BY <2>1, <2>2, <2>4, <2>5, <2>6, <2>7, <2>8, PopFrames
  <2>9. CASE CloseWriter(t) /\ GoTo(t, "reset") /\ phase' = phase
    <3>1. PICK f : f = MovedTo(Top(t), "reset")
      OBVIOUS
    <3>2. f.op = Top(t).op /\ f.at = "reset" /\ f.owed = Top(t).owed
      BY <3>1 DEF MovedTo
    <3>3. Top(t).op = "dtor" /\ Exiting
      BY <2>3, <2>9 DEF CloseWriter, At
    <3>4. "reset" \in Places /\ "reset" \notin InitPlaces \cup BodyPlaces
      BY DEF Places, InitPlaces, BodyPlaces, EventPlaces
    <3>5. Kinds(f)' /\ Initialises(f)' /\ Traces(f)'
      BY <2>2, <2>9, <3>2, <3>3, <3>4 DEF Kinds, Initialises, Traces, Fits, Grows, Exiting
    <3>6. Fits(f)'
      BY <3>5 DEF Fits
    <3>7. PICK to \in Places : to = "reset"
      BY <3>4
    <3>8. f = MovedTo(Top(t), to) /\ GoTo(t, to) /\ to \notin InitPlaces \cup BodyPlaces
      BY <2>9, <3>1, <3>4, <3>7
    <3> QED BY <2>1, <2>2, <2>5, <2>6, <2>7, <2>9, <3>6, <3>8, MoveFrames
  <2>10. \/ stack' = [stack EXCEPT ![t] = Front(@)]
         \/ CloseWriter(t) /\ GoTo(t, "reset") /\ phase' = phase
    BY <1>4 DEF ProcessStep, CtorEnd, CloseWriter, ResetWriter, Leave
  <2> QED BY <2>8, <2>9, <2>10
<1> QED BY <1>2, <1>3, <1>4

-----------------------------------------------------------------------------
Core == LibrarySet /\ Frames

LEMMA InitCore == Init => Core
<1> SUFFICES ASSUME Init PROVE Core
  OBVIOUS
<1>1. LibrarySet
  <2>1. lib \in Library /\ ~ lib.initialized /\ lib.resolved = 0 /\ ~ lib.trace
        /\ ~ lib.main_entered
    BY OpNames DEF Init, Library
  <2>2. phase = "load" /\ ring = "none" /\ calls = 0 /\ crashed \in BOOLEAN
    BY DEF Init
  <2>3. calls \in 0 .. MaxCalls
    BY <2>2, HookAssumption
  <2> QED BY <2>1, <2>2, <2>3 DEF LibrarySet, Phases
<1>2. \A t \in Thread : Len(stack[t]) = 0 /\ guard[t] = 0
  BY EmptySeq DEF Init
<1>3. stack \in [Thread -> Seq(Frame)] /\ guard \in [Thread -> 0 .. 1]
  BY EmptySeq DEF Init
<1>4. Frames
  BY <1>2, <1>3 DEF Frames, Stacked, Guarded, Initialising
<1> QED BY <1>1, <1>4 DEF Core

LEMMA NextCore ==
  ASSUME Core, Next
  PROVE  Core' /\ Grows
<1>1. LibrarySet' /\ Grows
  BY InitStepLibrary, OtherStepLibrary DEF Core, Next
<1>2. Frames'
  BY <1>1, InitStepFrames, CallStepFrames, BeginFrames, ProcessFrames DEF Core, Next
<1> QED BY <1>1, <1>2 DEF Core

LEMMA StutterCore == Core /\ UNCHANGED vars => Core'
BY DEF Core, vars, history, LibrarySet, Frames, Stacked, Guarded, Initialising, Fits, Kinds,
       Initialises, Traces, Exiting

LEMMA CoreAlways == Spec => []Core
<1>1. Core /\ [Next]_vars => Core'
  BY NextCore, StutterCore
<1>2. Spec => Init /\ [][Next]_vars
  BY DEF Spec
<1> QED BY <1>1, <1>2, InitCore, PTL

-----------------------------------------------------------------------------
(* What a step does to the calls and to the events                         *)

(* Each frame there is after a step was there before, and is no further    *)
(* than before or has got its event if it can have one; or it is new.      *)
FrameTold(t, i) ==
  LET f == stack[t][i]
      g == stack'[t][i]
  IN  \/ /\ i \in 1 .. Len(stack[t])
         /\ g.id = f.id /\ g.op = f.op /\ g.owed = f.owed /\ g.began = f.began
         /\ Published(f) => Published(g)
         /\ Published(g) => Published(f) \/ LoggedIn(log', f.id) \/ Exiting \/ ~ Traced
      \/ /\ i = Len(stack[t]) + 1 /\ g.at = "entry" /\ g.id = calls + 1 /\ calls' = calls + 1
         /\ g.owed => lib.trace /\ (phase = "main" \/ ~ MainOnly)
         /\ g.began = phase
         /\ \A u \in Thread \ {t} : stack'[u] = stack[u]
         /\ Len(stack'[t]) = i
      \/ g.op \notin Ops /\ ~ g.owed /\ g.began = phase

Told == \A t \in Thread : \A i \in 1 .. Len(stack'[t]) : FrameTold(t, i)

LEMMA SameTold ==
  ASSUME Core, NEW t \in Thread, NEW i \in 1 .. Len(stack[t]), stack'[t][i] = stack[t][i]
  PROVE  FrameTold(t, i)
BY DEF FrameTold

LEMMA MoveTold ==
  ASSUME Core, NEW t \in Thread, NEW to \in Places, stack[t] # << >>, GoTo(t, to),
         Published(Top(t)) => Behind(Top(t).op, to),
         Behind(Top(t).op, to) =>
           Published(Top(t)) \/ LoggedIn(log', Top(t).id) \/ Exiting \/ ~ Traced
  PROVE  Told
<1> DEFINE n == Len(stack[t])
<1>1. stack \in [Thread -> Seq(Frame)]
  BY DEF Core, Frames
<1>2. /\ \A u \in Thread \ {t} : stack'[u] = stack[u]
      /\ Len(stack'[t]) = n /\ stack'[t][n] = MovedTo(Top(t), to)
      /\ \A i \in 1 .. n - 1 : stack'[t][i] = stack[t][i]
  BY <1>1, Moved
<1>3. n \in Nat /\ stack[t][n] = Top(t)
  BY <1>1, LenProperties DEF Top
<1> HIDE DEF n
<1>4. ASSUME NEW i \in 1 .. n PROVE FrameTold(t, i)
  <2>1. CASE i = n
    <3>1. stack[t][i] = Top(t) /\ stack'[t][i] = MovedTo(Top(t), to) /\ i \in 1 .. Len(stack[t])
      BY <2>1, <1>2, <1>3 DEF n
    <3>2. PICK g : g = MovedTo(Top(t), to)
      OBVIOUS
    <3>3. /\ g.id = Top(t).id /\ g.op = Top(t).op /\ g.owed = Top(t).owed /\ g.at = to
          /\ g.began = Top(t).began
      BY <3>2 DEF MovedTo
    <3> QED BY <3>1, <3>2, <3>3 DEF FrameTold, Published
  <2>2. CASE i # n
    <3>1. i \in 1 .. n - 1 /\ i \in 1 .. Len(stack[t])
      BY <2>2, <1>3 DEF n
    <3> QED BY <3>1, <1>2, SameTold
  <2> QED BY <2>1, <2>2
<1>5. ASSUME NEW u \in Thread \ {t}, NEW i \in 1 .. Len(stack'[u]) PROVE FrameTold(u, i)
  BY <1>2, SameTold
<1> QED BY <1>2, <1>4, <1>5 DEF Told

LEMMA PopTold ==
  ASSUME Core, NEW t \in Thread, stack[t] # << >>, stack' = [stack EXCEPT ![t] = Front(@)]
  PROVE  Told
<1> DEFINE n == Len(stack[t])
<1>1. stack \in [Thread -> Seq(Frame)]
  BY DEF Core, Frames
<1>2. /\ \A u \in Thread \ {t} : stack'[u] = stack[u]
      /\ Len(stack'[t]) = n - 1
      /\ \A i \in 1 .. n - 1 : stack'[t][i] = stack[t][i]
  BY <1>1, Popped
<1>3. n \in Nat
  BY <1>1, LenProperties
<1> HIDE DEF n
<1>4. ASSUME NEW i \in 1 .. n - 1 PROVE FrameTold(t, i)
  <2>1. i \in 1 .. Len(stack[t])
    BY <1>3 DEF n
  <2> QED BY <2>1, <1>2, SameTold
<1>5. ASSUME NEW u \in Thread \ {t}, NEW i \in 1 .. Len(stack'[u]) PROVE FrameTold(u, i)
  BY <1>2, SameTold
<1> QED BY <1>2, <1>4, <1>5 DEF Told

LEMMA PushTold ==
  ASSUME Core, NEW t \in Thread, NEW f \in Frame, stack' = [stack EXCEPT ![t] = Append(@, f)],
         \/ /\ f.at = "entry" /\ f.id = calls + 1 /\ calls' = calls + 1
            /\ f.owed => lib.trace /\ (phase = "main" \/ ~ MainOnly)
         \/ f.op \notin Ops /\ ~ f.owed,
         f.began = phase
  PROVE  Told
<1> DEFINE n == Len(stack[t])
<1>1. stack \in [Thread -> Seq(Frame)]
  BY DEF Core, Frames
<1>2. /\ \A u \in Thread \ {t} : stack'[u] = stack[u]
      /\ Len(stack'[t]) = n + 1 /\ stack'[t][n + 1] = f
      /\ \A i \in 1 .. n : stack'[t][i] = stack[t][i]
  BY <1>1, Pushed
<1>3. n \in Nat
  BY <1>1, LenProperties
<1> HIDE DEF n
<1>4. ASSUME NEW i \in 1 .. n + 1 PROVE FrameTold(t, i)
  <2>1. CASE i = n + 1
    <3>1. i = Len(stack[t]) + 1 /\ stack'[t][i] = f /\ Len(stack'[t]) = i
      BY <2>1, <1>2 DEF n
    <3> QED BY <3>1, <1>2 DEF FrameTold
  <2>2. CASE i # n + 1
    <3>1. i \in 1 .. n
      BY <2>2, <1>3
    <3>2. i \in 1 .. Len(stack[t])
      BY <3>1 DEF n
    <3> QED BY <3>1, <3>2, <1>2, SameTold
  <2> QED BY <2>1, <2>2
<1>5. ASSUME NEW u \in Thread \ {t}, NEW i \in 1 .. Len(stack'[u]) PROVE FrameTold(u, i)
  BY <1>2, SameTold
<1> QED BY <1>2, <1>4, <1>5 DEF Told

EventOf(t) == [id |-> Top(t).id, thread |-> t, began |-> Top(t).began, phase |-> phase]

(* Only a step from "pushing" adds an event, and only the end of a call    *)
(* counts it as returned.                                                  *)
Publishes(t) ==
  /\ Len(stack[t]) = 1 /\ Top(t).op \in Ops /\ Top(t).id \in 1 .. calls
  /\ ~ Published(Top(t)) /\ lib.trace /\ (MainOnly => lib.main_entered)
  /\ log' = Append(log, EventOf(t)) /\ UNCHANGED returned
  /\ Len(stack'[t]) = 1 /\ Published(stack'[t][1])

Returns(t) ==
  /\ stack[t] # << >> /\ Top(t).op \in Ops /\ Top(t).id \in 1 .. calls /\ UNCHANGED log
  /\ Top(t).owed => Published(Top(t))
  /\ \E served \in BOOLEAN :
       /\ Top(t).owed => served
       /\ returned' = returned \cup {[id |-> Top(t).id, owed |-> Top(t).owed, served |-> served]}

HistoryTold ==
  \/ UNCHANGED <<log, returned>>
  \/ \E t \in Thread : Publishes(t)
  \/ \E t \in Thread : Returns(t)

LEMMA CallStepTold ==
  ASSUME Core, LogTyped, NEW t \in Thread, CallStep(t)
  PROVE  Told /\ HistoryTold
<1> DEFINE f == Top(t)
           n == Len(stack[t])
<1>1. /\ stack[t] # << >> /\ f.at \in CallPlaces \ InitPlaces
      /\ f.at \notin {"gate", "ctor_end", "close", "reset"} /\ UNCHANGED lib
  BY DEF CallStep, Entry, GuardTaken, PassThrough, Refused, RealCall, Publish, FillEvent,
         PushBegin, PushEnd, LeaveCall, Passes, At, CallPlaces, InitPlaces, BodyPlaces,
         EventPlaces
<1>2. /\ n \in {1, 2} /\ Fits(f) /\ f \in Frame
      /\ f.at \notin {"entry", "gate", "guard"} => n = 1
      /\ n = 1 => f = stack[t][1]
      /\ n = 2 => f = stack[t][2]
  BY <1>1, TopFrame DEF Core
<1>3. f.op \in Ops /\ f.id \in 1 .. calls
  BY <1>1, <1>2 DEF Fits, Kinds
<1>4. /\ Guarded(t) /\ Stacked(t) /\ LibrarySet
  BY DEF Core, Frames
<1> HIDE DEF n
<1>5. CASE Entry(t)
  <2>1. PICK to \in {"guard", "gate"} : GoTo(t, to)
    BY <1>5 DEF Entry, Passes
  <2>2. f.at = "entry" /\ UNCHANGED <<log, returned>> /\ to \in Places
    BY <1>5 DEF Entry, Passes, At, history, Places
  <2>3. ~ Published(f) /\ ~ Behind(f.op, to)
    BY <2>2 DEF Published, Behind
  <2> QED BY <1>1, <2>1, <2>2, <2>3, MoveTold DEF HistoryTold
<1>6. CASE GuardTaken(t)
  <2>1. PICK to \in {"publish", "real"} : GoTo(t, to) /\ (to = "real" => f.op # "free")
    BY <1>6 DEF GuardTaken
  <2>2. f.at = "guard" /\ UNCHANGED <<log, returned>> /\ to \in Places
    BY <1>6 DEF GuardTaken, At, history, Places, BodyPlaces, EventPlaces
  <2>3. ~ Published(f) /\ ~ Behind(f.op, to)
    BY <2>1, <2>2 DEF Published, Behind
  <2> QED BY <1>1, <2>1, <2>2, <2>3, MoveTold DEF HistoryTold
<1>7. CASE PassThrough(t)
  <2>1. /\ stack' = [stack EXCEPT ![t] = Front(@)] /\ UNCHANGED log
        /\ f.at = "guard" /\ guard[t] > 0
        /\ returned' = returned \cup {[id |-> f.id, owed |-> f.owed, served |-> TRUE]}
    BY <1>7, <1>3, OpNames DEF PassThrough, Leave, At
  <2>2. n = 2
    BY <1>2, <1>4, <2>1 DEF Guarded, InitPlaces, BodyPlaces, EventPlaces, n
  <2>3. ~ f.owed
    BY <1>2, <1>4, <2>2 DEF Stacked, n
  <2>4. Returns(t)
    BY <1>1, <1>3, <2>1, <2>3 DEF Returns
  <2> QED BY <1>1, <2>1, <2>4, PopTold DEF HistoryTold
<1>8. CASE Refused(t)
  <2>1. /\ stack' = [stack EXCEPT ![t] = Front(@)] /\ UNCHANGED log
        /\ ~ HasAllocator(f.op)
        /\ returned' = returned \cup {[id |-> f.id, owed |-> f.owed, served |-> FALSE]}
    BY <1>8, <1>3, OpNames DEF Refused, Leave
  <2>2. ~ f.owed
    <3>1. f.owed => lib.resolved = 6
      BY <1>2, <1>4, OpNames DEF Fits, Traces, LibrarySet
    <3>2. lib.resolved = 6 => Resolved(f.op)
      <4>1. f.op \in ToSet(Wrappers)
        BY <1>3, HookAssumption
      <4>2. DOMAIN Wrappers = 1 .. 6
        BY DEF Wrappers
      <4> QED BY <4>1, <4>2 DEF ToSet, Resolved
    <3> QED BY <2>1, <3>1, <3>2 DEF HasAllocator
  <2>3. Returns(t)
    BY <1>1, <1>3, <2>1, <2>2 DEF Returns
  <2> QED BY <1>1, <2>1, <2>3, PopTold DEF HistoryTold
<1>9. CASE LeaveCall(t)
  <2>1. /\ stack' = [stack EXCEPT ![t] = Front(@)] /\ UNCHANGED log /\ f.at = "leave"
        /\ returned' = returned \cup {[id |-> f.id, owed |-> f.owed, served |-> TRUE]}
    BY <1>9, <1>3, OpNames DEF LeaveCall, Leave, At
  <2>2. Returns(t)
    BY <1>1, <1>3, <2>1 DEF Returns, Published, Behind
  <2> QED BY <1>1, <2>1, <2>2, PopTold DEF HistoryTold
<1>10. CASE RealCall(t)
  <2>1. PICK to \in {"publish", "leave"} : GoTo(t, to) /\ (to = "leave" <=> f.op = "free")
    BY <1>10 DEF RealCall, Passes
  <2>2. f.at = "real" /\ UNCHANGED <<log, returned>> /\ to \in Places
    BY <1>10 DEF RealCall, Passes, At, history, Places, BodyPlaces, EventPlaces
  <2>3. Published(f) <=> Behind(f.op, to)
    BY <2>1, <2>2 DEF Published, Behind
  <2> QED BY <1>1, <2>1, <2>2, <2>3, MoveTold DEF HistoryTold
<1>11. CASE Publish(t) \/ FillEvent(t) \/ PushBegin(t)
  <2>1. PICK to \in BodyPlaces :
          GoTo(t, to) /\ (Behind(f.op, to) => ~ Traced \/ ring = "none")
    <3>1. "fill" \in BodyPlaces /\ "push" \in BodyPlaces /\ "pushing" \in BodyPlaces
          /\ "real" \in BodyPlaces /\ "leave" \in BodyPlaces
      BY DEF BodyPlaces, EventPlaces
    <3>2. CASE Publish(t)
      BY <3>1, <3>2 DEF Publish, Passes, AfterPublish, Behind
    <3>3. CASE FillEvent(t)
      BY <3>1, <3>3 DEF FillEvent, Passes, Behind
    <3>4. CASE PushBegin(t)
      BY <3>1, <3>4 DEF PushBegin, Passes, AfterPublish, Behind
    <3> QED BY <1>11, <3>2, <3>3, <3>4
  <2>2. f.at \in EventPlaces /\ UNCHANGED <<log, returned>> /\ to \in Places
    BY <1>11 DEF Publish, FillEvent, PushBegin, Passes, At, history, Places, BodyPlaces,
                 EventPlaces
  <2>3. ~ Published(f)
    BY <2>2 DEF Published, Behind, EventPlaces
  <2>4. ring = "none" => Exiting \/ ~ Traced
    BY <1>4 DEF LibrarySet, Traced
  <2> QED BY <1>1, <2>1, <2>2, <2>3, <2>4, MoveTold DEF HistoryTold
<1>12. CASE PushEnd(t)
  <2>1. PICK to \in {"real", "leave"} : GoTo(t, to) /\ (to = "real" <=> f.op = "free")
    BY <1>12 DEF PushEnd, AfterPublish
  <2>2. f.at = "pushing" /\ UNCHANGED returned /\ to \in Places
        /\ (log' = Append(log, EventOf(t)) \/ (ring # "bound" /\ UNCHANGED log))
    BY <1>12 DEF PushEnd, EventOf, At, Places, BodyPlaces, EventPlaces
  <2>3. ~ Published(f) /\ Behind(f.op, to)
    BY <2>1, <2>2 DEF Published, Behind
  <2>4. lib.trace /\ (MainOnly => lib.main_entered)
    BY <1>2, <2>2 DEF Fits, Traces
  <2>5. CASE ring # "bound" /\ UNCHANGED log
    <3>1. Exiting
      BY <1>4, <2>4, <2>5 DEF LibrarySet
    <3> QED BY <1>1, <2>1, <2>2, <2>3, <2>5, <3>1, MoveTold DEF HistoryTold
  <2>6. CASE log' = Append(log, EventOf(t))
    <3>1. PICK e : e = EventOf(t)
      OBVIOUS
    <3>2. e \in Event /\ e.id = f.id
      <4>1. f.id \in 1 .. MaxCalls /\ f.began \in Phases /\ phase \in Phases
        BY <1>2, <1>3, <1>4, HookAssumption DEF Frame, LibrarySet
      <4>2. e = [id |-> f.id, thread |-> t, began |-> f.began, phase |-> phase]
        BY <3>1 DEF EventOf
      <4> HIDE DEF f
      <4> QED BY <4>1, <4>2 DEF Event
    <3>3. LoggedIn(log', f.id)
      <4>1. log \in Seq(Event)
        BY DEF LogTyped
      <4>2. Len(log') \in Nat /\ Len(log') >= 1 /\ log'[Len(log')] = e /\ DOMAIN log' = 1 .. Len(log')
        BY <2>6, <3>1, <3>2, <4>1, AppendProperties, LenProperties
      <4>3. Len(log') \in DOMAIN log'
        BY <4>2
      <4> QED BY <3>2, <4>2, <4>3 DEF LoggedIn
    <3>4. n = 1 /\ Len(stack'[t]) = 1 /\ stack'[t][1] = MovedTo(f, to)
      <4>1. n = 1 /\ Len(stack[t]) = 1
        BY <1>2, <2>2 DEF n
      <4>2. stack \in [Thread -> Seq(Frame)]
        BY DEF Core, Frames
      <4>3. Len(stack'[t]) = Len(stack[t]) /\ stack'[t][Len(stack[t])] = MovedTo(f, to)
        BY <1>1, <2>1, <2>2, <4>2, Moved
      <4> QED BY <4>1, <4>3
    <3>5. Published(stack'[t][1])
      BY <2>3, <3>4 DEF Published, MovedTo
    <3>6. Publishes(t)
      BY <1>3, <2>2, <2>3, <2>4, <2>6, <3>4, <3>5 DEF Publishes, n
    <3> QED BY <1>1, <2>1, <2>2, <2>3, <3>3, <3>6, MoveTold DEF HistoryTold
  <2> QED BY <2>2, <2>5, <2>6
<1> QED BY <1>5, <1>6, <1>7, <1>8, <1>9, <1>10, <1>11, <1>12 DEF CallStep

LEMMA NextTold ==
  ASSUME Core, LogTyped, Next
  PROVE  Told /\ HistoryTold
<1>1. LibrarySet /\ Frames
  BY DEF Core
<1>2. ASSUME NEW t \in Thread, InitStep(t) PROVE Told /\ HistoryTold
  <2>1. /\ stack[t] # << >> /\ Top(t).at \in InitPlaces \cup {"gate"}
        /\ UNCHANGED <<log, returned>>
    BY <1>2 DEF InitStep, TakeGate, LoseGate, ResolveSymbol, ReadEnvironment, OpenWriter,
                EnableTrace, MarkInitialized, Sets, Passes, At, InitPlaces, history
  <2>2. PICK to \in InitPlaces \cup {"guard", "ctor_end"} : GoTo(t, to)
    <3>1. InitPlaces = {"resolve", "environment", "open", "enable", "mark"}
      BY DEF InitPlaces
    <3>2. AfterInit(t) \in {"guard", "ctor_end"}
      BY DEF AfterInit
    <3>3. /\ InitOrder.gate = "resolve" /\ InitOrder.resolve = "environment"
          /\ InitOrder.environment = "open" /\ InitOrder.open = "enable"
          /\ InitOrder.enable = "mark"
      BY DEF InitOrder
    <3>4. CASE TakeGate(t)
      BY <3>1, <3>3, <3>4 DEF TakeGate, Sets
    <3>5. CASE LoseGate(t)
      BY <3>2, <3>5 DEF LoseGate, Passes
    <3>6. CASE ResolveSymbol(t)
      BY <3>1, <3>3, <3>6 DEF ResolveSymbol, Sets
    <3>7. CASE ReadEnvironment(t)
      BY <3>1, <3>3, <3>7 DEF ReadEnvironment, Sets
    <3>8. CASE OpenWriter(t)
      BY <3>1, <3>3, <3>8 DEF OpenWriter
    <3>9. CASE EnableTrace(t)
      BY <3>1, <3>3, <3>9 DEF EnableTrace, Sets
    <3>10. CASE MarkInitialized(t)
      BY <3>2, <3>10 DEF MarkInitialized, Sets
    <3> QED BY <1>2, <3>4, <3>5, <3>6, <3>7, <3>8, <3>9, <3>10 DEF InitStep
  <2>3. to \in Places /\ ~ Published(Top(t)) /\ ~ Behind(Top(t).op, to)
    BY <2>1 DEF Places, Published, Behind, InitPlaces
  <2> QED BY <2>1, <2>2, <2>3, MoveTold DEF HistoryTold
<1>3. ASSUME NEW t \in Thread, NEW op \in Ops, BeginCall(t, op) \/ BeginNested(t, op)
      PROVE  Told /\ HistoryTold
  <2>1. PICK f : f = [id |-> calls + 1, op |-> op, at |-> "entry", owed |-> Owed(t),
                      began |-> phase]
    OBVIOUS
  <2>2. /\ stack' = [stack EXCEPT ![t] = Append(@, f)] /\ calls < MaxCalls
        /\ calls' = calls + 1 /\ UNCHANGED <<log, returned>>
    BY <1>3, <2>1 DEF BeginCall, BeginNested, Begin
  <2> DEFINE o == Owed(t)
  <2>3. o \in BOOLEAN /\ (o => lib.trace /\ (phase = "main" \/ ~ MainOnly))
    BY DEF Owed
  <2>4. f = [id |-> calls + 1, op |-> op, at |-> "entry", owed |-> o, began |-> phase]
    BY <2>1
  <2> HIDE DEF o
  <2>5. f \in Frame
    <3>1. "entry" \in Places /\ calls + 1 \in 0 .. MaxCalls /\ phase \in Phases
      BY <1>1, <2>2, HookAssumption DEF Places, LibrarySet
    <3> QED BY <2>3, <2>4, <3>1 DEF Frame
  <2>6. f.at = "entry" /\ f.id = calls + 1 /\ f.owed = o /\ f.began = phase
    BY <2>4
  <2> QED BY <2>2, <2>3, <2>5, <2>6, PushTold DEF HistoryTold
<1>4. CASE Ctor \/ Dtor
  <2>1. PICK op \in {"ctor", "dtor"}, place \in {"gate", "close"} : Run(op, place)
    BY <1>4 DEF Ctor, Dtor
  <2>2. PICK f : f = [id |-> 0, op |-> op, at |-> place, owed |-> FALSE, began |-> phase]
    OBVIOUS
  <2>3. /\ stack[Starter] = << >> /\ stack' = [stack EXCEPT ![Starter] = <<f>>]
        /\ UNCHANGED <<log, returned>>
    BY <2>1, <2>2 DEF Run, history
  <2>4. stack' = [stack EXCEPT ![Starter] = Append(@, f)]
    <3>1. Append(<< >>, f) = <<f>>
      OBVIOUS
    <3> QED BY <2>3, <3>1
  <2>5. f \in Frame /\ f.op \notin Ops /\ ~ f.owed /\ f.began = phase
    BY <1>1, <2>2, HookAssumption, OpNames DEF Frame, Places, LibrarySet
  <2> QED BY <2>3, <2>4, <2>5, HookAssumption, PushTold DEF HistoryTold
<1>5. CASE EnterMain
  <2>1. UNCHANGED <<stack, log, returned>>
    BY <1>5 DEF EnterMain, history
  <2> QED BY <2>1, SameTold DEF Told, HistoryTold
<1>6. ASSUME NEW t \in Thread, ProcessStep(t) PROVE Told /\ HistoryTold
  <2>1. stack[t] # << >> /\ Top(t).at \in {"ctor_end", "close", "reset"}
    BY <1>6 DEF ProcessStep, CtorEnd, CloseWriter, ResetWriter, At
  <2>2. Top(t).op \in {"ctor", "dtor"}
    BY <1>1, <2>1, TopFrame DEF Fits, Kinds, CallPlaces, InitPlaces, BodyPlaces, EventPlaces
  <2>3. UNCHANGED <<log, returned>>
    BY <1>6, <2>2 DEF ProcessStep, CtorEnd, CloseWriter, ResetWriter, Leave, history
  <2>4. CASE stack' = [stack EXCEPT ![t] = Front(@)]
    BY <2>1, <2>3, <2>4, PopTold DEF HistoryTold
  <2>5. CASE GoTo(t, "reset")
    <3>1. PICK to \in Places : to = "reset"
      BY DEF Places
    <3>2. GoTo(t, to) /\ ~ Published(Top(t)) /\ ~ Behind(Top(t).op, to)
      BY <2>1, <2>5, <3>1 DEF Published, Behind
    <3> QED BY <2>1, <2>3, <3>2, MoveTold DEF HistoryTold
  <2> QED BY <1>6, <2>4, <2>5 DEF ProcessStep, CtorEnd, CloseWriter, ResetWriter, Leave
<1> QED BY <1>2, <1>3, <1>4, <1>5, <1>6, CallStepTold DEF Next

-----------------------------------------------------------------------------
(* The events and the calls                                                *)

LEMMA EventsTyped ==
  ASSUME LogTyped
  PROVE  /\ Len(log) \in Nat /\ DOMAIN log = 1 .. Len(log)
         /\ \A i \in DOMAIN log : log[i] \in Event /\ log[i].id \in Int /\ log[i].id <= calls
<1>1. log \in Seq(Event) /\ Len(log) \in Nat /\ DOMAIN log = 1 .. Len(log)
  BY LenProperties DEF LogTyped
<1>2. \A i \in 1 .. Len(log) : log[i] \in Event
  BY <1>1, ElementOfSeq
<1>3. \A e \in Event : e.id \in Int
  BY HookAssumption DEF Event
<1> QED BY <1>1, <1>2, <1>3 DEF LogTyped

LEMMA AppendedEvent ==
  ASSUME LogTyped, NEW e \in Event, log' = Append(log, e)
  PROVE  /\ log' \in Seq(Event) /\ Len(log) \in Nat /\ DOMAIN log = 1 .. Len(log)
         /\ DOMAIN log' = DOMAIN log \cup {Len(log) + 1} /\ Len(log) + 1 \notin DOMAIN log
         /\ log'[Len(log) + 1] = e
         /\ \A i \in DOMAIN log : log'[i] = log[i]
<1>1. log \in Seq(Event) /\ Len(log) \in Nat /\ DOMAIN log = 1 .. Len(log)
  BY LenProperties DEF LogTyped
<1>2. /\ log' \in Seq(Event) /\ Len(log') = Len(log) + 1
      /\ \A i \in 1 .. Len(log) : log'[i] = log[i]
      /\ log'[Len(log) + 1] = e
  BY <1>1, AppendProperties
<1>3. DOMAIN log' = 1 .. Len(log')
  BY <1>2, LenProperties
<1> DEFINE n == Len(log)
<1>4. n \in Nat /\ DOMAIN log' = 1 .. n + 1
  BY <1>1, <1>2, <1>3
<1> HIDE DEF n
<1>5. 1 .. n + 1 = (1 .. n) \cup {n + 1} /\ n + 1 \notin 1 .. n
  BY <1>4
<1> QED BY <1>1, <1>2, <1>4, <1>5 DEF n

LEMMA PublishedEvent ==
  ASSUME Core, NEW t \in Thread, Publishes(t)
  PROVE  EventOf(t) \in Event /\ EventOf(t).id = Top(t).id
<1>1. stack[t] # << >>
  BY EmptySeq DEF Publishes
<1>2. Top(t).began \in Phases /\ phase \in Phases /\ Top(t).id \in 1 .. MaxCalls
  BY <1>1, TopFrame, HookAssumption DEF Publishes, Core, LibrarySet, Frame
<1> QED BY <1>2 DEF EventOf, Event

LEMMA LogNext ==
  ASSUME Core, Core', LogTyped, StarterLate, Next
  PROVE  LogTyped'
<1>1. Told /\ HistoryTold /\ Grows
  BY NextTold, NextCore
<1>2. calls \in Int /\ calls' \in Int /\ calls <= calls' /\ calls' <= MaxCalls /\ MaxCalls \in Nat
  BY <1>1, HookAssumption DEF Core, LibrarySet, Grows
<1>3. CASE UNCHANGED <<log, returned>>
  <2>1. \A i \in DOMAIN log : log[i].id \in Int
    BY EventsTyped
  <2> QED BY <1>2, <1>3, <2>1 DEF LogTyped, OwedAreServed
<1>4. ASSUME NEW t \in Thread, Publishes(t) PROVE LogTyped'
  <2>1. PICK e : e = EventOf(t)
    OBVIOUS
  <2>2. e.id \in 1 .. calls /\ e.phase = phase /\ e.thread = t /\ e.began = Top(t).began
    BY <1>4, <2>1 DEF Publishes, EventOf
  <2>3. e \in Event
    BY <1>4, <2>1, PublishedEvent
  <2>4. log' = Append(log, e)
    BY <1>4, <2>1 DEF Publishes
  <2>5. MainOnly => Late(e)
    <3>1. MainOnly => phase \notin EarlyPhases
      BY <1>4 DEF Publishes, Core, LibrarySet, EarlyPhases
    <3>2. Top(t) = stack[t][1] /\ 1 \in 1 .. Len(stack[t])
      BY <1>4 DEF Publishes, Top
    <3> QED BY <2>2, <3>1, <3>2 DEF Late, StarterLate
  <2>6. ASSUME NEW i \in DOMAIN log'
        PROVE  log'[i].id <= calls' /\ (MainOnly => Late(log'[i]))
    <3>1. CASE i \in DOMAIN log
      <4>1. log'[i] = log[i] /\ log[i] \in Event
        BY <2>3, <2>4, <3>1, AppendedEvent, ElementOfSeq DEF LogTyped
      <4>2. log[i].id \in Int /\ log[i].id <= calls
        BY <3>1, <4>1 DEF LogTyped, Event
      <4> QED BY <1>2, <3>1, <4>1, <4>2 DEF LogTyped
    <3>2. CASE i = Len(log) + 1
      <4>1. log'[i] = e
        BY <2>3, <2>4, <3>2, AppendedEvent
      <4> QED BY <1>2, <2>2, <2>5, <4>1
    <3> QED BY <2>3, <2>4, <3>1, <3>2, AppendedEvent
  <2>7. log' \in Seq(Event) /\ UNCHANGED returned
    BY <1>4, <2>3, <2>4, AppendedEvent DEF Publishes
  <2> QED BY <2>6, <2>7 DEF LogTyped, OwedAreServed
<1>5. ASSUME NEW t \in Thread, Returns(t) PROVE LogTyped'
  <2>1. PICK served \in BOOLEAN :
          /\ Top(t).owed => served
          /\ returned' = returned \cup {[id |-> Top(t).id, owed |-> Top(t).owed, served |-> served]}
    BY <1>5 DEF Returns
  <2>2. PICK c : c = [id |-> Top(t).id, owed |-> Top(t).owed, served |-> served]
    OBVIOUS
  <2>3. Top(t).owed \in BOOLEAN /\ Top(t).id \in 1 .. MaxCalls
    BY <1>2, <1>5, TopFrame DEF Core, Returns, Frame
  <2>4. c \in [id : 1 .. MaxCalls, owed : BOOLEAN, served : BOOLEAN] /\ (c.owed => c.served)
    BY <2>1, <2>2, <2>3
  <2>5. returned' = returned \cup {c} /\ UNCHANGED log
    BY <1>5, <2>1, <2>2 DEF Returns
  <2>6. \A i \in DOMAIN log : log[i].id \in Int
    BY EventsTyped
  <2> QED BY <1>2, <2>4, <2>5, <2>6 DEF LogTyped, OwedAreServed
<1> QED BY <1>1, <1>3, <1>4, <1>5 DEF HistoryTold

LEMMA StarterLateNext ==
  ASSUME Core, LogTyped, StarterLate, Next
  PROVE  StarterLate'
<1>1. SUFFICES ASSUME phase' \notin EarlyPhases, NEW i \in 1 .. Len(stack'[Starter])
               PROVE  stack'[Starter][i].began \notin EarlyPhases
  BY DEF StarterLate
<1>2. Told
  BY NextTold
<1>3. CASE EnterMain
  <2>1. Len(stack'[Starter]) = 0
    BY <1>3, EmptySeq DEF EnterMain
  <2> QED BY <1>1, <2>1
<1>4. CASE ~ EnterMain
  <2>1. phase \notin EarlyPhases
    <3>1. ASSUME NEW t \in Thread, ProcessStep(t), phase' # phase PROVE Exiting
      <4>1. stack[t] # << >> /\ Top(t).at \in {"close", "reset"}
        BY <1>1, <3>1 DEF ProcessStep, CtorEnd, CloseWriter, ResetWriter, At, EarlyPhases
      <4> QED BY <4>1, TopFrame DEF Core, Fits, Kinds, CallPlaces, InitPlaces, BodyPlaces,
                                   EventPlaces
    <3>2. ASSUME NEW t \in Thread, InitStep(t) PROVE phase' = phase
      BY <3>2 DEF InitStep, TakeGate, LoseGate, ResolveSymbol, ReadEnvironment, OpenWriter,
                  EnableTrace, MarkInitialized, Sets, Passes
    <3>3. ASSUME NEW t \in Thread, CallStep(t) PROVE phase' = phase
      BY <3>3 DEF CallStep, Entry, GuardTaken, PassThrough, Refused, RealCall, Publish,
                  FillEvent, PushBegin, PushEnd, LeaveCall, Passes
    <3>4. ASSUME NEW t \in Thread, NEW op \in Ops, BeginCall(t, op) \/ BeginNested(t, op)
          PROVE  phase' = phase
      BY <3>4 DEF BeginCall, BeginNested, Begin
    <3>5. CASE Ctor \/ Dtor
      BY <1>1, <3>5 DEF Ctor, Dtor, EarlyPhases
    <3>6. phase' = phase => phase \notin EarlyPhases
      BY <1>1
    <3>7. Exiting => phase \notin EarlyPhases
      BY DEF Exiting, EarlyPhases
    <3> QED BY <1>4, <3>1, <3>2, <3>3, <3>4, <3>5, <3>6, <3>7 DEF Next
  <2>2. FrameTold(Starter, i)
    BY <1>1, <1>2, HookAssumption DEF Told
  <2> QED BY <2>1, <2>2 DEF FrameTold, StarterLate
<1> QED BY <1>3, <1>4

(* The frames of calls, told from one state to the next.                   *)
LEMMA CallIds ==
  ASSUME Core, NEW t \in Thread, NEW i \in 1 .. Len(stack[t]), stack[t][i].op \in Ops
  PROVE  stack[t][i].id \in 1 .. calls
BY OpNames DEF Core, Frames, Stacked, Fits, Kinds

LEMMA CallTold ==
  ASSUME Core, Told, NEW t \in Thread, NEW i \in 1 .. Len(stack'[t]), stack'[t][i].op \in Ops
  PROVE  \/ /\ i \in 1 .. Len(stack[t]) /\ stack[t][i].op \in Ops
            /\ stack'[t][i].id = stack[t][i].id /\ stack[t][i].id \in 1 .. calls
            /\ Published(stack[t][i]) => Published(stack'[t][i])
         \/ /\ stack'[t][i].id = calls + 1 /\ i = Len(stack[t]) + 1
            /\ \A u \in Thread \ {t} : stack'[u] = stack[u]
<1>1. FrameTold(t, i)
  BY DEF Told
<1> QED BY <1>1, CallIds DEF FrameTold

LEMMA NumberedNext ==
  ASSUME Core, LogTyped, Numbered, Next
  PROVE  Numbered'
<1>1. Told /\ HistoryTold
  BY NextTold
<1>2. calls \in Int /\ \A t \in Thread : Len(stack[t]) \in Nat /\ Len(stack[t])' = Len(stack'[t])
  BY LenProperties DEF Core, LibrarySet, Frames
<1>3. ASSUME NEW t \in Thread, NEW u \in Thread,
             NEW i \in 1 .. Len(stack'[t]), NEW j \in 1 .. Len(stack'[u]),
             stack'[t][i].op \in Ops, stack'[u][j].op \in Ops,
             stack'[t][i].id = stack'[u][j].id
      PROVE  t = u /\ i = j
  <2> DEFINE OldFrame(v, k) ==
               /\ k \in 1 .. Len(stack[v]) /\ stack[v][k].op \in Ops
               /\ stack'[v][k].id = stack[v][k].id /\ stack[v][k].id \in 1 .. calls
             NewFrame(v, k) ==
               /\ stack'[v][k].id = calls + 1 /\ k = Len(stack[v]) + 1
               /\ \A w \in Thread \ {v} : stack'[w] = stack[w]
  <2>1. (OldFrame(t, i) \/ NewFrame(t, i)) /\ (OldFrame(u, j) \/ NewFrame(u, j))
    BY <1>1, <1>3, CallTold
  <2>2. CASE OldFrame(t, i) /\ OldFrame(u, j)
    <3>1. /\ i \in 1 .. Len(stack[t]) /\ j \in 1 .. Len(stack[u])
          /\ stack[t][i].op \in Ops /\ stack[u][j].op \in Ops
          /\ stack[t][i].id = stack[u][j].id
      BY <1>3, <2>2
    <3> QED BY <3>1 DEF Numbered
  <2>3. CASE NewFrame(t, i) /\ NewFrame(u, j)
    <3>1. CASE t = u
      BY <2>3, <3>1
    <3>2. CASE t # u
      <4>1. stack'[u] = stack[u]
        BY <2>3, <3>2
      <4>2. j \in 1 .. Len(stack[u]) /\ j = Len(stack[u]) + 1 /\ Len(stack[u]) \in Nat
        BY <1>2, <2>3, <4>1
      <4> QED BY <4>2
    <3> QED BY <3>1, <3>2
  <2>4. ~ (OldFrame(t, i) /\ NewFrame(u, j)) /\ ~ (NewFrame(t, i) /\ OldFrame(u, j))
    BY <1>2, <1>3
  <2> QED BY <2>1, <2>2, <2>3, <2>4
<1>4. ASSUME NEW t \in Thread, NEW i \in 1 .. Len(stack'[t]), stack'[t][i].op \in Ops,
             LoggedIn(log, stack'[t][i].id)
      PROVE  Published(stack'[t][i])
  <2>1. \A k \in DOMAIN log : log[k].id \in Int /\ log[k].id <= calls
    BY EventsTyped
  <2>2. stack'[t][i].id # calls + 1
    BY <1>2, <1>4, <2>1 DEF LoggedIn
  <2>3. /\ i \in 1 .. Len(stack[t]) /\ stack[t][i].op \in Ops
        /\ stack'[t][i].id = stack[t][i].id
        /\ Published(stack[t][i]) => Published(stack'[t][i])
    BY <1>1, <1>4, <2>2, CallTold
  <2> QED BY <1>4, <2>3 DEF Numbered
<1>5. CASE UNCHANGED log
  BY <1>3, <1>4, <1>5 DEF Numbered
<1>6. ASSUME NEW u \in Thread, Publishes(u) PROVE Numbered'
  <2>1. PICK e : e = EventOf(u)
    OBVIOUS
  <2>2. /\ e.id = Top(u).id /\ e.id \in 1 .. calls /\ log' = Append(log, e)
        /\ Len(stack[u]) = 1 /\ Top(u) = stack[u][1] /\ Top(u).op \in Ops
        /\ ~ Published(Top(u)) /\ Len(stack'[u]) = 1 /\ Published(stack'[u][1])
    <3>1. e.id = Top(u).id
      BY <2>1, <1>6, PublishedEvent
    <3> QED BY <1>6, <2>1, <3>1 DEF Publishes, Top
  <2>3. e \in Event
    BY <1>6, <2>1, PublishedEvent
  <2> DEFINE n == Len(log) + 1
  <2>4. /\ DOMAIN log' = DOMAIN log \cup {n} /\ n \notin DOMAIN log /\ log'[n] = e
        /\ \A k \in DOMAIN log : log'[k] = log[k]
    BY <2>2, <2>3, AppendedEvent
  <2> HIDE DEF n
  <2>5. 1 \in 1 .. Len(stack[u])
    BY <2>2
  <2>6. \A k \in DOMAIN log : log[k].id # e.id
    BY <2>2, <2>5 DEF Numbered, LoggedIn
  <2>7. ASSUME NEW k \in DOMAIN log', NEW m \in DOMAIN log', log'[k].id = log'[m].id
        PROVE  k = m
    BY <2>4, <2>6, <2>7 DEF Numbered
  <2>8. ASSUME NEW t \in Thread, NEW i \in 1 .. Len(stack'[t]), stack'[t][i].op \in Ops,
               LoggedIn(log', stack'[t][i].id)
        PROVE  Published(stack'[t][i])
    <3>1. CASE LoggedIn(log, stack'[t][i].id)
      BY <1>4, <2>8, <3>1
    <3>2. CASE stack'[t][i].id = e.id
      <4>1. e.id # calls + 1
        BY <1>2, <2>2
      <4>2. /\ i \in 1 .. Len(stack[t]) /\ stack[t][i].op \in Ops
            /\ stack[t][i].id = stack[u][1].id
        BY <1>1, <2>2, <2>8, <3>2, <4>1, CallTold
      <4>3. t = u /\ i = 1
        BY <2>2, <2>5, <4>2 DEF Numbered
      <4> QED BY <2>2, <4>3
    <3> QED BY <2>4, <2>8, <3>1, <3>2 DEF LoggedIn
  <2> QED BY <1>3, <2>7, <2>8 DEF Numbered
<1> QED BY <1>1, <1>5, <1>6 DEF HistoryTold, Returns

LEMMA LogGrows ==
  ASSUME Core, LogTyped, HistoryTold, NEW id, LoggedIn(log, id)
  PROVE  LoggedIn(log', id)
<1>1. CASE UNCHANGED log
  BY <1>1
<1>2. ASSUME NEW t \in Thread, Publishes(t) PROVE LoggedIn(log', id)
  <2>1. PICK e : e = EventOf(t)
    OBVIOUS
  <2>2. log' = Append(log, e)
    BY <1>2, <2>1 DEF Publishes
  <2>3. e \in Event
    BY <1>2, <2>1, PublishedEvent
  <2> QED BY <2>2, <2>3, AppendedEvent DEF LoggedIn
<1> QED BY <1>1, <1>2 DEF HistoryTold, Returns

(* --main-only needs the wrapper of main, which is there on Linux only.    *)
MainIsSeen == MainOnly => Platform = "linux"

LEMMA PaidNext ==
  ASSUME MainIsSeen, Core, LogTyped, Paid, Next
  PROVE  Paid'
<1>1. Told /\ HistoryTold /\ Grows
  BY NextTold, NextCore
<1>2. \A id : LoggedIn(log, id) => LoggedIn(log', id)
  BY <1>1, LogGrows
<1>3. (Exiting => Exiting') /\ (MainOnly /\ lib.main_entered => lib'.main_entered)
  BY <1>1 DEF Grows
<1>4. ASSUME NEW t \in Thread, NEW i \in 1 .. Len(stack'[t]), stack'[t][i].owed
      PROVE  /\ MainOnly => lib'.main_entered
             /\ Published(stack'[t][i]) => Exiting' \/ LoggedIn(log', stack'[t][i].id)
  <2> DEFINE f == stack[t][i]
             g == stack'[t][i]
  <2>1. FrameTold(t, i)
    BY <1>1 DEF Told
  <2>2. CASE /\ i \in 1 .. Len(stack[t]) /\ g.id = f.id /\ g.owed = f.owed
             /\ Published(g) => Published(f) \/ LoggedIn(log', f.id) \/ Exiting \/ ~ Traced
    <3>1. /\ MainOnly => lib.main_entered
          /\ Published(f) => Exiting \/ LoggedIn(log, f.id)
      BY <1>4, <2>2 DEF Paid
    <3>2. lib.trace /\ lib.filter = MainOnly
      BY <1>4, <2>2 DEF Core, Frames, Stacked, Fits, Traces, LibrarySet
    <3>3. Traced
      BY <3>1, <3>2 DEF Traced
    <3> QED BY <1>2, <1>3, <2>2, <3>1, <3>3
  <2>3. CASE g.at = "entry" /\ (g.owed => lib.trace /\ (phase = "main" \/ ~ MainOnly))
    <3>1. MainOnly => lib.main_entered
      BY <1>4, <2>3 DEF MainIsSeen, Core, LibrarySet
    <3>2. ~ Published(g)
      BY <2>3 DEF Published, Behind
    <3> QED BY <1>3, <3>1, <3>2
  <2> QED BY <1>4, <2>1, <2>2, <2>3 DEF FrameTold
<1>5. ASSUME NEW c \in returned', c.owed PROVE Exiting' \/ LoggedIn(log', c.id)
  <2>1. CASE c \in returned
    BY <1>2, <1>3, <1>5, <2>1 DEF Paid
  <2>2. CASE c \notin returned
    <3>1. PICK t \in Thread : Returns(t)
      BY <1>1, <1>5, <2>2 DEF HistoryTold, Publishes
    <3>2. PICK served \in BOOLEAN :
            c = [id |-> Top(t).id, owed |-> Top(t).owed, served |-> served]
      BY <1>5, <2>2, <3>1 DEF Returns
    <3>3. c.id = Top(t).id /\ Top(t).owed /\ Published(Top(t))
      BY <1>5, <3>1, <3>2 DEF Returns
    <3>4. Len(stack[t]) \in 1 .. Len(stack[t]) /\ Top(t) = stack[t][Len(stack[t])]
      <4>1. Len(stack[t]) \in {1, 2}
        BY <3>1, TopFrame DEF Core, Returns
      <4> QED BY <4>1 DEF Top
    <3>5. Exiting \/ LoggedIn(log, Top(t).id)
      BY <3>3, <3>4 DEF Paid
    <3> QED BY <1>2, <1>3, <3>3, <3>5
  <2> QED BY <2>1, <2>2
<1> QED BY <1>4, <1>5 DEF Paid

-----------------------------------------------------------------------------
History == Core /\ LogTyped /\ StarterLate /\ Numbered

LEMMA InitHistory == Init => History /\ Paid
<1> SUFFICES ASSUME Init PROVE History /\ Paid
  OBVIOUS
<1>1. log = << >> /\ returned = {} /\ log \in Seq(Event)
  BY EmptySeq DEF Init
<1>2. \A t \in Thread : Len(stack[t]) = 0
  BY EmptySeq DEF Init
<1>3. DOMAIN log = {}
  BY <1>1
<1> HIDE DEF Init
<1>4. LogTyped /\ StarterLate /\ Numbered /\ Paid
  BY <1>1, <1>2, <1>3, HookAssumption
     DEF LogTyped, StarterLate, Numbered, Paid, OwedAreServed
<1> QED BY <1>4, InitCore DEF History

LEMMA NextHistory == History /\ [Next]_vars => History'
<1>1. ASSUME History, Next PROVE History'
  <2>1. Core'
    BY <1>1, NextCore DEF History
  <2> QED BY <1>1, <2>1, LogNext, StarterLateNext, NumberedNext DEF History
<1>2. ASSUME History, UNCHANGED vars PROVE History'
  <2>1. Core'
    BY <1>2, StutterCore DEF History
  <2> QED BY <1>2, <2>1 DEF History, vars, history, LogTyped, StarterLate, Numbered,
                            OwedAreServed
<1> QED BY <1>1, <1>2

LEMMA HistoryAlways == Spec => []History
<1>1. Spec => Init /\ [][Next]_vars
  BY DEF Spec
<1> QED BY <1>1, InitHistory, NextHistory, PTL

(* An inner call is nowhere but before the guard.                          *)
LEMMA FramesAtOuter ==
  ASSUME Core, NEW t \in Thread, NEW places, places \cap {"entry", "gate", "guard"} = {}
  PROVE  FramesAt(t, places) =
           IF Len(stack[t]) >= 1 /\ stack[t][1].at \in places THEN {1} ELSE {}
<1> DEFINE n == Len(stack[t])
<1>1. n \in Nat /\ Stacked(t)
  BY LenProperties DEF Core, Frames
<1>2. n <= 2 /\ (n = 2 => stack[t][2].at \notin places)
  BY <1>1 DEF Stacked
<1> HIDE DEF n
<1>3. ASSUME NEW i \in 1 .. n, stack[t][i].at \in places PROVE i = 1
  <2>1. i = 1 \/ (i = 2 /\ n = 2)
    BY <1>1, <1>2
  <2> QED BY <1>2, <1>3, <2>1
<1>4. FramesAt(t, places) = {i \in 1 .. n : stack[t][i].at \in places}
  BY DEF FramesAt, n
<1>5. n >= 1 => 1 \in 1 .. n
  BY <1>1
<1>6. CASE n >= 1 /\ stack[t][1].at \in places
  BY <1>3, <1>4, <1>5, <1>6 DEF n
<1>7. CASE ~ (n >= 1 /\ stack[t][1].at \in places)
  <2>1. \A i \in 1 .. n : n >= 1
    BY <1>1
  <2> QED BY <1>3, <1>4, <1>7, <2>1 DEF n
<1> QED BY <1>6, <1>7

(* Every reachable state is well typed: no thread is more than two calls   *)
(* deep, and no guard counts beyond one.                                   *)
THEOREM HookTypes == Spec => []TypeOK
<1>1. ASSUME History PROVE TypeOK
  <2>1. /\ phase \in Phases /\ lib \in Library /\ ring \in {"none", "bound", "unmapped"}
        /\ calls \in 0 .. MaxCalls /\ crashed \in BOOLEAN /\ guard \in [Thread -> 0 .. 1]
    BY <1>1 DEF History, Core, LibrarySet, Frames
  <2>2. ASSUME NEW t \in Thread PROVE Len(stack[t]) <= 2 /\ ToSet(stack[t]) \subseteq Frame
    <3>1. stack[t] \in Seq(Frame) /\ Stacked(t)
      BY <1>1 DEF History, Core, Frames
    <3>2. DOMAIN stack[t] = 1 .. Len(stack[t])
      BY <3>1, LenProperties
    <3>3. \A i \in DOMAIN stack[t] : stack[t][i] \in Frame
      BY <3>1, <3>2, ElementOfSeq
    <3> QED BY <3>1, <3>3 DEF Stacked, ToSet
  <2>3. ToSet(log) \subseteq Event
    BY <1>1, EventsTyped DEF History, ToSet
  <2>4. returned \subseteq [id : 1 .. MaxCalls, owed : BOOLEAN, served : BOOLEAN]
    BY <1>1 DEF History, LogTyped
  <2> QED BY <2>1, <2>2, <2>3, <2>4 DEF TypeOK, Library, Frame, Event
<1> QED BY <1>1, HistoryAlways, PTL

(* The guard of a thread counts its frames inside it, and a call that the  *)
(* hook makes itself is never at the places where events are made.         *)
THEOREM InnerCallsAreSilent == Spec => []InnerCallsSilent
<1>1. ASSUME Core PROVE InnerCallsSilent
  <2> SUFFICES ASSUME NEW t \in Thread
               PROVE  /\ guard[t] = Cardinality(FramesAt(t, InitPlaces \cup BodyPlaces))
                      /\ 2 \notin FramesAt(t, EventPlaces)
    BY DEF InnerCallsSilent
  <2> DEFINE inside == InitPlaces \cup BodyPlaces
  <2>1. inside \cap {"entry", "gate", "guard"} = {} /\ EventPlaces \cap {"entry", "gate", "guard"} = {}
    BY DEF InitPlaces, BodyPlaces, EventPlaces
  <2>2. Guarded(t)
    BY <1>1 DEF Core, Frames
  <2>3. FramesAt(t, inside) = IF Len(stack[t]) >= 1 /\ stack[t][1].at \in inside THEN {1} ELSE {}
    BY <1>1, <2>1, FramesAtOuter
  <2>4. 2 \notin FramesAt(t, EventPlaces)
    BY <1>1, <2>1, FramesAtOuter
  <2>5. Cardinality({}) = 0 /\ Cardinality({1}) = 1
    BY FS_EmptySet, FS_Singleton
  <2> QED BY <2>2, <2>3, <2>4, <2>5 DEF Guarded
<1> QED BY <1>1, CoreAlways, PTL

(* At most one thread is inside the initialisation, none after it, and     *)
(* nobody makes an event before the environment was read and the ring      *)
(* bound.                                                                  *)
THEOREM OneThreadInitialises == Spec => []OneInitialiser
<1>1. ASSUME Core PROVE OneInitialiser
  <2>1. InitPlaces \cap {"entry", "gate", "guard"} = {}
        /\ {"fill", "push", "pushing"} \cap {"entry", "gate", "guard"} = {}
    BY DEF InitPlaces
  <2>2. \A t \in Thread : FramesAt(t, InitPlaces) # {} <=> Initialising(t)
    BY <1>1, <2>1, FramesAtOuter DEF Initialising
  <2>3. ASSUME NEW t \in Thread, Initialising(t) PROVE ~ lib.initialized
    <3>1. 1 \in 1 .. Len(stack[t])
      BY <1>1, <2>3, LenProperties DEF Core, Frames, Initialising
    <3> QED BY <1>1, <2>3, <3>1 DEF Core, Frames, Stacked, Fits, Initialises, Initialising
  <2>4. ASSUME NEW t \in Thread, FramesAt(t, {"fill", "push", "pushing"}) # {}
        PROVE  lib.trace /\ lib.filter = MainOnly /\ (ring = "bound" \/ Exiting)
    <3>1. PICK i \in 1 .. Len(stack[t]) : stack[t][i].at \in {"fill", "push", "pushing"}
      BY <2>4 DEF FramesAt
    <3> QED BY <1>1, <3>1 DEF Core, LibrarySet, Frames, Stacked, Fits, Traces
  <2> DEFINE S == {t \in Thread : FramesAt(t, InitPlaces) # {}}
  <2>5. \A t, u \in S : t = u
    BY <1>1, <2>2 DEF Core, Frames
  <2>6. Cardinality(S) <= 1
    <3> HIDE DEF S
    <3>1. CASE S = {}
      BY <3>1, FS_EmptySet
    <3>2. ASSUME NEW t \in S PROVE Cardinality(S) <= 1
      <4>1. S = {t}
        BY <2>5
      <4>2. Cardinality({t}) = 1
        BY FS_Singleton
      <4> QED BY <4>1, <4>2
    <3> QED BY <3>1, <3>2
  <2> QED BY <2>2, <2>3, <2>4, <2>6 DEF OneInitialiser, Exiting
<1> QED BY <1>1, CoreAlways, PTL

(* A call that began with tracing on reaches the allocator.                *)
THEOREM OwedCallsAreServed == Spec => []OwedAreServed
<1>1. History => OwedAreServed
  BY DEF History, LogTyped
<1> QED BY <1>1, HistoryAlways, PTL

(* With --main-only no event is published before main, and none later that *)
(* is of a call the thread of main made before it.                         *)
THEOREM MainOnlyIsSilent == Spec => []MainOnlySilent
<1>1. History => MainOnlySilent
  BY DEF History, LogTyped, MainOnlySilent, Late, EarlyPhases
<1> QED BY <1>1, HistoryAlways, PTL

(* No call has two events, and one that was owed an event has it when it   *)
(* returns, until the process exits; with --main-only this is so on Linux. *)
THEOREM EventsMatchCalls ==
  ASSUME MainIsSeen
  PROVE  Spec => []OneEventPerCall
<1>1. History /\ Paid /\ [Next]_vars => Paid'
  <2>1. ASSUME History, Paid, Next PROVE Paid'
    BY <2>1, PaidNext DEF History
  <2>2. ASSUME Paid, UNCHANGED vars PROVE Paid'
    BY <2>2 DEF vars, history, Paid, Exiting
  <2> QED BY <2>1, <2>2
<1>2. History /\ Paid => OneEventPerCall
  BY DEF History, Numbered, Paid, OneEventPerCall, Exiting, LoggedIn
<1>3. Spec => Init /\ [][Next]_vars
  BY DEF Spec
<1> QED BY <1>1, <1>2, <1>3, InitHistory, HistoryAlways, PTL
=============================================================================
