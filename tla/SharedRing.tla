------------------------------ MODULE SharedRing ------------------------------
(***************************************************************************)
(* The life of the named shared memory object between a monitor and its    *)
(* target: SharedRing::map, validate and drop of src/ipc.rs, the part of   *)
(* src/main.rs that names it and launches the target, and on the side of   *)
(* the target ho_platform_open_writer and ho_ring_bind.                    *)
(*                                                                         *)
(* Several monitors are started, with command lines of their own, one      *)
(* after the other or at the same time.  shm_open without O_EXCL gives two *)
(* of them the same object when they use the same name, and a monitor that *)
(* is killed leaves name and object behind.  Each monitor has one target:  *)
(* it launches it (run), or the user does, at any time (monitor).          *)
(*                                                                         *)
(* The ring itself is reduced: it is never full and its counters never     *)
(* wrap (RingBuffer has both), and the reader takes one event at a time.   *)
(* One action per system call, and per access to the header while it is    *)
(* being written or checked.                                               *)
(***************************************************************************)
EXTENDS CommandLine, FiniteSets, Functions

CONSTANTS
  Session,          (* the monitors started                                *)
  CommandLines,     (* the arguments they may be started with              *)
  MaxEvents,        (* bound on the events of each target                  *)
  MaxTaken          (* bound on the events each monitor takes: one whose   *)
                    (* tail has overtaken its head would go on for ever    *)

(* What is given as a name is one, and is no generated name of another     *)
(* monitor.                                                                *)
ASSUME SharedRingAssumption ==
  /\ MaxEvents \in Nat /\ MaxTaken \in Nat
  /\ \A args \in CommandLines :
       LET given == Parse(args).options.shm_name
       IN  given # << >> => /\ given[1] = Name(given[1].slash, given[1].rest)
                            /\ given[1].slash \in BOOLEAN /\ given[1].rest \notin Session

VARIABLES
  objects,          (* shared memory objects, in order of creation         *)
  linked,           (* names in the file system, to indices of objects     *)
  session,          (* the monitors                                        *)
  target,           (* their targets                                       *)
  disturbed         (* history: monitors whose name or object was used by  *)
                    (* others while they had it, or too early: see         *)
                    (* Disturbed                                           *)

vars == <<objects, linked, session, target, disturbed>>

-----------------------------------------------------------------------------
(* Objects *)

(* "ident" is magic, version and event_size, with the counters.            *)
Fields == {"ident", "capacity"}

Zero    == [of |-> "nobody", n |-> 0]
Cleared == [full |-> TRUE, fields |-> {}, head |-> 0, tail |-> 0, slot |-> << >>]

(* The memory beyond what was written is zero.                             *)
SlotAt(o, i) == IF i <= Len(o.slot) THEN o.slot[i] ELSE Zero

WithSlot(o, i, e) ==
  [o EXCEPT !.slot = [j \in 1 .. (IF i > Len(@) THEN i ELSE Len(@)) |->
                        IF j = i THEN e ELSE SlotAt(o, j)]]

(* Mutant: the monitor does not own its ring.                              *)
UnlinkedNever(name) == linked

Unlinked(name) == Restrict(linked, DOMAIN linked \ {name})

-----------------------------------------------------------------------------
(* Monitors *)

At(s, stage) == session[s].stage = stage

Setup == {"opened", "sized", "cleared"}
Live(s) == session[s].stage \in Setup \cup {"serving"}

Ring(s) == objects[session[s].obj]

Becomes(s, stage) == session' = [session EXCEPT ![s].stage = stage]

(* Its mapping is gone, and what its reader saw last is forgotten unless    *)
(* it ends by that.                                                        *)
Ends(s, stage) ==
  session' = [session EXCEPT ![s] =
    [@ EXCEPT !.stage = stage, !.obj = 0, !.written = {},
              !.look = IF stage = "done" THEN session[s].look ELSE "none"]]

TargetEnded(s) == target[s].at \in {"over", "crashed"}

(* Mutants: one name for all; a name without its slash.                    *)
GeneratedNameFixed(s) == Name(TRUE, "heap-oracle")
GeneratedNameBare(s)  == Name(FALSE, s)

(* generate_shm_name: process id and time make it unique.                  *)
GeneratedName(s) == Name(TRUE, s)

NameOf(s) == IF session[s].options.shm_name = << >> THEN GeneratedName(s)
             ELSE session[s].options.shm_name[1]

(* The name under which the monitor makes its object.                      *)
Key(s) == Normalized(NameOf(s))

Attached(s) == target[s].at \in {"mapped", "sized", "checked", "traced", "pushing"}

(* The name of s is also used by another monitor, which may have another   *)
(* object by now and will take the name back; or the object of s is used   *)
(* by a target of another monitor, or by its own before it is ready.       *)
Disturbed(s) ==
  /\ Live(s)
  /\ \/ \E r \in Session \ {s} : Live(r) /\ Key(r) = Key(s)
     \/ \E r \in Session : /\ Attached(r) /\ target[r].obj = session[s].obj
                           /\ r = s => ~ At(s, "serving")

Observe == disturbed' = disturbed \cup {s \in Session : Disturbed(s)'}

Start(s) ==
  /\ At(s, "new")
  /\ \E args \in CommandLines :
       LET p == Parse(args)
       IN  session' = [session EXCEPT ![s] =
                         [@ EXCEPT !.stage = p.is, !.mode = p.mode, !.options = p.options]]
  /\ UNCHANGED <<objects, linked, target, disturbed>>

(* shm_open(name, O_CREAT | O_RDWR)                                        *)
Open(s) ==
  LET name == Key(s)
      new  == name \notin DOMAIN linked
      obj  == IF new THEN Len(objects) + 1 ELSE linked[name]
  IN  /\ At(s, "session")
      /\ objects' = IF new THEN Append(objects, [Cleared EXCEPT !.full = FALSE]) ELSE objects
      /\ linked' = [n \in DOMAIN linked \cup {name} |-> IF n = name THEN obj ELSE linked[n]]
      /\ session' = [session EXCEPT ![s] = [@ EXCEPT !.stage = "opened", !.obj = obj]]
      /\ UNCHANGED target
      /\ Observe

Truncate(s) ==
  /\ At(s, "opened")
  /\ objects' = [objects EXCEPT ![session[s].obj].full = TRUE]
  /\ Becomes(s, "sized")
  /\ UNCHANGED <<linked, target, disturbed>>

(* ftruncate or mmap fails: the name is taken back, whoever uses it.       *)
CreateFails(s) ==
  /\ session[s].stage \in {"opened", "sized"}
  /\ linked' = Unlinked(Key(s))
  /\ Ends(s, "failed")
  /\ UNCHANGED <<objects, target, disturbed>>

(* mmap, and write_bytes over the mapping *)
Clear(s) ==
  /\ At(s, "sized")
  /\ objects' = [objects EXCEPT ![session[s].obj] = Cleared]
  /\ Becomes(s, "cleared")
  /\ UNCHANGED <<linked, target, disturbed>>

(* ptr::write of the RingHeader, whose fields reach memory in any order.   *)
Written(o, field) ==
  IF field = "ident" THEN [o EXCEPT !.fields = @ \cup {field}, !.head = 0, !.tail = 0]
                     ELSE [o EXCEPT !.fields = @ \cup {field}]

WriteField(s, field) ==
  /\ At(s, "cleared") /\ field \in Fields \ session[s].written
  /\ objects' = [objects EXCEPT ![session[s].obj] = Written(Ring(s), field)]
  /\ session' = [session EXCEPT ![s].written = @ \cup {field}]
  /\ UNCHANGED <<linked, target, disturbed>>

(* validate; an object that fails it is dropped.                           *)
Validate(s) ==
  /\ At(s, "cleared") /\ session[s].written = Fields
  /\ IF Ring(s).fields = Fields
     THEN Becomes(s, "serving") /\ UNCHANGED linked
     ELSE Ends(s, "failed") /\ linked' = Unlinked(Key(s))
  /\ UNCHANGED <<objects, target, disturbed>>

(* The reader thread takes events, and takes note when there are none.     *)
Take(s) ==
  /\ At(s, "serving") /\ Ring(s).tail # Ring(s).head /\ Len(session[s].got) < MaxTaken
  /\ session' = [session EXCEPT ![s] =
       [@ EXCEPT !.got = Append(session[s].got, SlotAt(Ring(s), Ring(s).tail + 1)),
                 !.look = "none"]]
  /\ objects' = [objects EXCEPT ![session[s].obj].tail = @ + 1]
  /\ UNCHANGED <<linked, target, disturbed>>

(* Mutant: an event that is left does not count.                           *)
SeesEmptyOffByOne(o) == o.head <= o.tail + 1

SeesEmpty(o) == o.tail = o.head

Look(s) ==
  /\ At(s, "serving") /\ SeesEmpty(Ring(s))
  /\ session' = [session EXCEPT ![s].look = IF TargetEnded(s) THEN "after" ELSE "before"]
  /\ UNCHANGED <<objects, linked, target, disturbed>>

(* println! of an event panics when nobody reads the output; the ring is   *)
(* dropped, and the main thread goes on.                                   *)
ReaderPanics(s) ==
  /\ At(s, "serving") /\ session[s].got # << >> /\ session[s].look = "none"
  /\ "--no-ui" \in session[s].options.on
  /\ linked' = Unlinked(Key(s))
  /\ Ends(s, "panicked")
  /\ UNCHANGED <<objects, target, disturbed>>

(* The main thread, which has not waited for the reader.                   *)
Launching(s) ==
  /\ session[s].stage \in {"serving", "panicked"}
  /\ session[s].mode = "run" /\ target[s].at = "none"

(* spawn_target: the target gets the name as it was given, and inherits it *)
(* to ho_platform_open_writer.                                             *)
Spawn(s) ==
  /\ Launching(s)
  /\ HookLibrary(session[s].options) \in Library
  /\ target' = [target EXCEPT ![s].at = "launched", ![s].name = NameOf(s)]
  /\ UNCHANGED <<objects, linked, session, disturbed>>

(* The library or the program is not there: exit, without destructors.     *)
SpawnFails(s) ==
  /\ Launching(s)
  /\ Ends(s, "exited")
  /\ UNCHANGED <<objects, linked, target, disturbed>>

(* With `monitor` the user launches the target, once the name is printed   *)
(* or earlier when they chose it.                                          *)
UserSpawns(s) ==
  /\ Live(s) /\ session[s].mode = "monitor" /\ target[s].at = "none"
  /\ session[s].options.shm_name = << >> => At(s, "serving")
  /\ target' = [target EXCEPT ![s].at = "launched", ![s].name = Key(s)]
  /\ UNCHANGED <<objects, linked, session, disturbed>>

(* The end of the target, or of the window, raises `stop`; a reader that   *)
(* has seen the ring empty, by now or some time ago, and finds it raised   *)
(* ends and drops the ring.  Without a window `monitor` goes on until it   *)
(* is killed.                                                              *)
Drop(s) ==
  /\ At(s, "serving") /\ session[s].look # "none"
  /\ session[s].mode = "run" => target[s].at # "none"
  /\ "--no-ui" \in session[s].options.on => session[s].mode = "run" /\ TargetEnded(s)
  /\ linked' = Unlinked(Key(s))
  /\ Ends(s, "done")
  /\ UNCHANGED <<objects, target, disturbed>>

Kill(s) ==
  /\ Live(s)
  /\ Ends(s, "killed")
  /\ UNCHANGED <<objects, linked, target, disturbed>>

-----------------------------------------------------------------------------
(* Targets *)

NoTarget == [at |-> "none", name |-> Name(FALSE, ""), obj |-> 0, room |-> FALSE,
             head |-> 0, sent |-> << >>]

Mapped(s) == objects[target[s].obj]

Goes(s, place) == target' = [target EXCEPT ![s].at = place]

(* ho_platform_open_writer up to its mmap                                  *)
OpenWriter(s) ==
  /\ target[s].at = "launched"
  /\ IF target[s].name.slash /\ target[s].name \in DOMAIN linked
     THEN target' = [target EXCEPT ![s].at = "mapped", ![s].obj = linked[target[s].name]]
     ELSE Goes(s, "untraced")
  /\ UNCHANGED <<objects, linked, session>>
  /\ Observe

(* ho_ring_bind: the capacity is read for the length (it is 0 or fits),    *)
(* the other fields are checked, and the capacity is read again.  Memory   *)
(* of an object without size raises SIGBUS.                                *)
BindLength(s) ==
  /\ target[s].at = "mapped"
  /\ Goes(s, IF Mapped(s).full THEN "sized" ELSE "crashed")
  /\ UNCHANGED <<objects, linked, session, disturbed>>

BindCheck(s) ==
  /\ target[s].at = "sized"
  /\ Goes(s, IF "ident" \in Mapped(s).fields THEN "checked" ELSE "untraced")
  /\ UNCHANGED <<objects, linked, session, disturbed>>

BindCapacity(s) ==
  /\ target[s].at = "checked"
  /\ target' = [target EXCEPT ![s].at = "traced",
                              ![s].room = "capacity" \in Mapped(s).fields]
  /\ UNCHANGED <<objects, linked, session, disturbed>>

(* ho_ring_push: head is loaded and the slot written, then head is stored. *)
NextEvent(s) == [of |-> s, n |-> Len(target[s].sent) + 1]

PushSlot(s) ==
  LET h == Mapped(s).head
  IN  /\ target[s].at = "traced" /\ target[s].room /\ Len(target[s].sent) < MaxEvents
      /\ objects' = [objects EXCEPT ![target[s].obj] = WithSlot(@, h + 1, NextEvent(s))]
      /\ target' = [target EXCEPT ![s].at = "pushing", ![s].head = h]
      /\ UNCHANGED <<linked, session, disturbed>>

PushHead(s) ==
  /\ target[s].at = "pushing"
  /\ objects' = [objects EXCEPT ![target[s].obj].head = target[s].head + 1]
  /\ target' = [target EXCEPT ![s].at = "traced", ![s].sent = Append(@, NextEvent(s))]
  /\ UNCHANGED <<linked, session, disturbed>>

TargetEnds(s) ==
  /\ target[s].at \notin {"none", "over", "crashed"}
  /\ target' = [target EXCEPT ![s] = [NoTarget EXCEPT !.at = "over", !.sent = target[s].sent]]
  /\ UNCHANGED <<objects, linked, session, disturbed>>

-----------------------------------------------------------------------------
Init ==
  /\ objects = << >> /\ linked = << >>
  /\ session = [s \in Session |-> [stage |-> "new", mode |-> "none", options |-> NoOptions,
                                   obj |-> 0, written |-> {}, got |-> << >>, look |-> "none"]]
  /\ target = [s \in Session |-> NoTarget]
  /\ disturbed = {}

Create(s) ==
  \/ Open(s) \/ Truncate(s) \/ Clear(s)
  \/ (\E field \in Fields : WriteField(s, field)) \/ Validate(s)

Serve(s) == Take(s) \/ Look(s) \/ Spawn(s) \/ UserSpawns(s) \/ Drop(s)

Fault(s) == CreateFails(s) \/ ReaderPanics(s) \/ SpawnFails(s) \/ Kill(s)

Trace(s) ==
  \/ OpenWriter(s) \/ BindLength(s) \/ BindCheck(s) \/ BindCapacity(s)
  \/ PushSlot(s) \/ PushHead(s) \/ TargetEnds(s)

Next == \E s \in Session : Start(s) \/ Create(s) \/ Serve(s) \/ Fault(s) \/ Trace(s)

Spec == Init /\ [][Next]_vars
-----------------------------------------------------------------------------
(* Invariants *)

TypeOK ==
  /\ \A i \in DOMAIN objects :
       /\ objects[i].full \in BOOLEAN /\ objects[i].fields \subseteq Fields
       /\ objects[i].head \in Nat /\ objects[i].tail \in Nat
  /\ \A name \in DOMAIN linked : name.slash /\ linked[name] \in DOMAIN objects
  /\ \A s \in Session :
       /\ session[s].stage \in Setup \cup {"new", "help", "error", "session", "serving",
                                          "failed", "done", "exited", "killed", "panicked"}
       /\ session[s].look \in {"none", "before", "after"}
       /\ Live(s) => session[s].obj \in DOMAIN objects /\ (Ring(s).full \/ At(s, "opened"))
       /\ target[s].at \in {"none", "launched", "mapped", "sized", "checked", "traced",
                           "pushing", "untraced", "crashed", "over"}
       /\ Attached(s) => target[s].obj \in DOMAIN objects

(* The monitor shows the events of its own target, from the first on,      *)
(* whole and in order: none of a monitor that was killed before and left   *)
(* its object with the name, and none of one that runs beside.  Without    *)
(* --shm-name that is so whatever other monitors do; a name that is given  *)
(* must not be in use.  A monitor that looked at the ring once more after  *)
(* the end of its target, found it empty and ended has shown all of them;  *)
(* one that looked before and found `stop` raised after may miss the last. *)
OwnEvents ==
  \A s \in Session :
    (session[s].options.shm_name = << >> \/ s \notin disturbed) =>
      /\ IsPrefix(session[s].got, target[s].sent)
      /\ At(s, "done") /\ session[s].look = "after" => session[s].got = target[s].sent

(* While its monitor serves it, a target that `run` launched finds the     *)
(* ring, with a complete header, provided that a name that is given has a  *)
(* slash and nobody else uses it.                                          *)
RunFindsRing ==
  \A s \in Session :
    (/\ At(s, "serving") /\ session[s].mode = "run" /\ s \notin disturbed
     /\ session[s].options.shm_name # << >> => NameOf(s).slash) =>
      /\ target[s].at \notin {"untraced", "crashed"}
      /\ target[s].at \in {"traced", "pushing"} => target[s].room

(* Only a monitor that is there, was killed, or exited because it could    *)
(* not launch its target, has a name in the file system: the other ways to *)
(* end, and to fail half-way, take it back.                                *)
NoLeftover ==
  \A name \in DOMAIN linked :
    \E s \in Session : /\ Live(s) \/ session[s].stage \in {"killed", "exited"}
                       /\ name = Key(s)

(* usage_text, src/main.rs:692: "--shm-name N   Override shared-memory     *)
(* name", any name.                                                        *)
AnyNameFindsRing ==
  \A s \in Session :
    (At(s, "serving") /\ session[s].mode = "run" /\ s \notin disturbed)
      => target[s].at # "untraced"
=============================================================================
