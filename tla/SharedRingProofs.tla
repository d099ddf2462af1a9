-------------------------- MODULE SharedRingProofs --------------------------
(***************************************************************************)
(* TLAPS proofs about SharedRing, for any number of monitors, started with *)
(* any command lines.                                                      *)
(***************************************************************************)
EXTENDS SharedRing, SequenceTheorems, TLAPS

-----------------------------------------------------------------------------
(* Types *)

(* What Parse makes of the command lines.                                  *)
Options == {NoOptions} \cup {Parse(args).options : args \in CommandLines}
Modes   == {"none"} \cup {Parse(args).mode : args \in CommandLines}

GivenIn(options) == options.shm_name # << >>

(* Names in use: generated, given, and the one of no target.               *)
NameType ==
  [slash : BOOLEAN,
   rest : Session \cup {""} \cup {o.shm_name[1].rest : o \in {p \in Options : GivenIn(p)}}]

Before == {"new", "help", "error", "session"}
Looks  == {"none", "before", "after"}
Stages == Setup \cup Before \cup {"serving", "failed", "done", "exited", "killed", "panicked"}

Places == {"none", "launched", "mapped", "sized", "checked", "traced", "pushing",
           "untraced", "crashed", "over"}

EventType   == [of : Session \cup {"nobody"}, n : Nat]
ObjectType  == [full : BOOLEAN, fields : SUBSET Fields, head : Nat, tail : Nat,
                slot : Seq(EventType)]
SessionType == [stage : Stages, mode : Modes, options : Options, obj : Nat,
                written : SUBSET Fields, got : Seq(EventType), look : Looks]
TargetType  == [at : Places, name : NameType, obj : Nat, room : BOOLEAN, head : Nat,
                sent : Seq(EventType)]

LinkedType == linked \in [DOMAIN linked -> 1 .. Len(objects)]

Typed ==
  /\ objects \in Seq(ObjectType)
  /\ LinkedType /\ \A name \in DOMAIN linked : name.slash
  /\ session \in [Session -> SessionType]
  /\ target \in [Session -> TargetType]

(* A monitor that has a mapping maps an object, which has its size once it *)
(* was truncated; so does a target.                                        *)
Held ==
  \A s \in Session :
    /\ Live(s) => session[s].obj \in 1 .. Len(objects) /\ (Ring(s).full \/ At(s, "opened"))
    /\ Attached(s) => target[s].obj \in 1 .. Len(objects)

-----------------------------------------------------------------------------
(* Names *)

LEMMA GivenNames ==
  ASSUME NEW o \in Options, GivenIn(o)
  PROVE  /\ o.shm_name[1] \in NameType /\ o.shm_name[1].rest \notin Session
         /\ o.shm_name[1] = Name(o.shm_name[1].slash, o.shm_name[1].rest)
<1>1. o # NoOptions
  BY DEF GivenIn, NoOptions
<1>2. PICK args \in CommandLines : o = Parse(args).options
  BY <1>1 DEF Options
<1>3. /\ o.shm_name[1] = Name(o.shm_name[1].slash, o.shm_name[1].rest)
      /\ o.shm_name[1].slash \in BOOLEAN /\ o.shm_name[1].rest \notin Session
  BY <1>2, SharedRingAssumption DEF GivenIn
<1>4. o.shm_name[1].rest \in {p.shm_name[1].rest : p \in {q \in Options : GivenIn(q)}}
  OBVIOUS
<1>5. Name(o.shm_name[1].slash, o.shm_name[1].rest) \in NameType
  BY <1>3, <1>4 DEF Name, NameType
<1> QED BY <1>3, <1>5

LEMMA NormalName ==
  ASSUME NEW n \in NameType
  PROVE  /\ Normalized(n) \in NameType /\ Normalized(n) = Name(TRUE, n.rest)
         /\ Normalized(n).slash /\ Normalized(n).rest = n.rest
         /\ n.slash => Normalized(n) = n
<1>1. n = Name(n.slash, n.rest) /\ n.slash \in BOOLEAN
  BY DEF NameType, Name
<1>2. Normalized(n) = Name(TRUE, n.rest)
  <2> DEFINE m == [n EXCEPT !.slash = TRUE]
  <2>1. m \in NameType /\ m.slash = TRUE /\ m.rest = n.rest
    BY DEF NameType
  <2>2. Normalized(n) = m
    BY DEF Normalized
  <2> HIDE DEF m
  <2>3. m = Name(m.slash, m.rest)
    BY <2>1 DEF NameType, Name
  <2> QED BY <2>1, <2>2, <2>3
<1>3. Name(TRUE, n.rest) \in NameType
  BY DEF NameType, Name
<1>4. Normalized(n).slash /\ Normalized(n).rest = n.rest
  BY <1>2 DEF Name
<1>5. n.slash => Normalized(n) = n
  BY <1>1, <1>2
<1> QED BY <1>2, <1>3, <1>4, <1>5

LEMMA SessionNames ==
  ASSUME Typed, NEW s \in Session
  PROVE  /\ NameOf(s) \in NameType /\ Key(s) \in NameType /\ Key(s).slash
         /\ NameOf(s).slash => Key(s) = NameOf(s)
         /\ ~ GivenIn(session[s].options) =>
              NameOf(s) = Key(s) /\ Key(s) = Name(TRUE, s) /\ Key(s).rest = s
         /\ GivenIn(session[s].options) => Key(s).rest \notin Session
<1>1. session[s].options \in Options
  BY DEF Typed, SessionType
<1>2. Name(TRUE, s) \in NameType /\ Name(TRUE, s).slash /\ Name(TRUE, s).rest = s
  BY DEF NameType, Name
<1>3. CASE GivenIn(session[s].options)
  <2>1. NameOf(s) \in NameType /\ NameOf(s).rest \notin Session
    BY <1>1, <1>3, GivenNames DEF NameOf, GivenIn
  <2> QED BY <1>3, <2>1, NormalName DEF Key
<1>4. CASE ~ GivenIn(session[s].options)
  <2>1. NameOf(s) = Name(TRUE, s)
    BY <1>4 DEF NameOf, GivenIn, GeneratedName
  <2> QED BY <1>2, <1>4, <2>1, NormalName DEF Key
<1> QED BY <1>3, <1>4

-----------------------------------------------------------------------------
(* Changing a record *)

LEMMA SessionUpdate ==
  ASSUME Typed, NEW s \in Session, NEW g \in SessionType,
         session' = [session EXCEPT ![s] = g]
  PROVE  /\ session' \in [Session -> SessionType] /\ session'[s] = g
         /\ \A r \in Session \ {s} : session'[r] = session[r]
BY DEF Typed

LEMMA TargetUpdate ==
  ASSUME Typed, NEW s \in Session, NEW g \in TargetType,
         target' = [target EXCEPT ![s] = g]
  PROVE  /\ target' \in [Session -> TargetType] /\ target'[s] = g
         /\ \A r \in Session \ {s} : target'[r] = target[r]
BY DEF Typed

LEMMA ObjectUpdate ==
  ASSUME Typed, NEW i \in 1 .. Len(objects), NEW o \in ObjectType,
         objects' = [objects EXCEPT ![i] = o]
  PROVE  /\ objects' \in Seq(ObjectType) /\ Len(objects') = Len(objects)
         /\ objects'[i] = o
         /\ \A j \in 1 .. Len(objects) : j # i => objects'[j] = objects[j]
BY DEF Typed

(* What a step makes of a monitor and of a target.                         *)
SessionGoes(s, stage, obj, written, got, look) ==
  /\ session' \in [Session -> SessionType]
  /\ session'[s].stage = stage /\ session'[s].obj = obj
  /\ session'[s].written = written /\ session'[s].got = got /\ session'[s].look = look
  /\ session'[s].mode = session[s].mode /\ session'[s].options = session[s].options
  /\ \A r \in Session \ {s} : session'[r] = session[r]

TargetGoes(s, at, name, obj, room, head, sent) ==
  /\ target' \in [Session -> TargetType]
  /\ target'[s].at = at /\ target'[s].name = name /\ target'[s].obj = obj
  /\ target'[s].room = room /\ target'[s].head = head /\ target'[s].sent = sent
  /\ \A r \in Session \ {s} : target'[r] = target[r]

LEMMA StageGoes ==
  ASSUME Typed, NEW s \in Session, NEW stage \in Stages, Becomes(s, stage)
  PROVE  SessionGoes(s, stage, session[s].obj, session[s].written, session[s].got,
                     session[s].look)
<1> DEFINE g == [session[s] EXCEPT !.stage = stage]
<1>1. session' = [session EXCEPT ![s] = g]
  BY DEF Becomes
<1>2. /\ g \in SessionType /\ g.stage = stage /\ g.obj = session[s].obj
      /\ g.written = session[s].written /\ g.got = session[s].got
      /\ g.mode = session[s].mode /\ g.options = session[s].options /\ g.look = session[s].look
  BY DEF Typed, SessionType
<1> HIDE DEF g
<1> QED BY <1>1, <1>2, SessionUpdate DEF SessionGoes

LEMMA EndGoes ==
  ASSUME Typed, NEW s \in Session, NEW stage \in Stages, Ends(s, stage)
  PROVE  SessionGoes(s, stage, 0, {}, session[s].got,
                     IF stage = "done" THEN session[s].look ELSE "none")
<1> DEFINE look == IF stage = "done" THEN session[s].look ELSE "none"
           g == [session[s] EXCEPT !.stage = stage]
           h == [g EXCEPT !.obj = 0]
           k == [h EXCEPT !.written = {}]
           m == [k EXCEPT !.look = look]
<1>1. session' = [session EXCEPT ![s] = m]
  BY DEF Ends
<1>2. /\ g \in SessionType /\ g.stage = stage /\ g.got = session[s].got
      /\ g.mode = session[s].mode /\ g.options = session[s].options
      /\ look \in Looks
  BY DEF Typed, SessionType, Looks
<1> HIDE DEF g, look
<1>3. /\ h \in SessionType /\ h.stage = stage /\ h.got = session[s].got /\ h.obj = 0
      /\ h.mode = session[s].mode /\ h.options = session[s].options
  BY <1>2 DEF SessionType
<1> HIDE DEF h
<1>4. /\ k \in SessionType /\ k.stage = stage /\ k.got = session[s].got /\ k.obj = 0
      /\ k.mode = session[s].mode /\ k.options = session[s].options /\ k.written = {}
  BY <1>3 DEF SessionType
<1> HIDE DEF k
<1>5. /\ m \in SessionType /\ m.stage = stage /\ m.got = session[s].got /\ m.obj = 0
      /\ m.mode = session[s].mode /\ m.options = session[s].options /\ m.written = {}
      /\ m.look = look
  BY <1>2, <1>4 DEF SessionType
<1> HIDE DEF m
<1>6. SessionGoes(s, stage, 0, {}, session[s].got, look)
  BY <1>1, <1>5, SessionUpdate DEF SessionGoes
<1> QED BY <1>6 DEF look

LEMMA PlaceGoes ==
  ASSUME Typed, NEW s \in Session, NEW at \in Places, Goes(s, at)
  PROVE  TargetGoes(s, at, target[s].name, target[s].obj, target[s].room, target[s].head,
                    target[s].sent)
<1> DEFINE g == [target[s] EXCEPT !.at = at]
<1>1. target' = [target EXCEPT ![s] = g]
  BY DEF Goes
<1>2. /\ g \in TargetType /\ g.at = at /\ g.name = target[s].name /\ g.obj = target[s].obj
      /\ g.room = target[s].room /\ g.head = target[s].head /\ g.sent = target[s].sent
  BY DEF Typed, TargetType
<1> HIDE DEF g
<1> QED BY <1>1, <1>2, TargetUpdate DEF TargetGoes

-----------------------------------------------------------------------------
(* What each step changes *)

LEMMA ParseOutcome ==
  ASSUME NEW args \in CommandLines
  PROVE  /\ Parse(args).is \in {"help", "error", "session"}
         /\ Parse(args).mode \in Modes /\ Parse(args).options \in Options
<1>1. Parse(args).is \in {"help", "error", "session"}
  BY DEF Parse, Outcome
<1> QED BY <1>1 DEF Modes, Options

LEMMA ClearedType == Cleared \in ObjectType
<1>1. << >> \in Seq(EventType)
  OBVIOUS
<1> QED BY <1>1 DEF Cleared, ObjectType

LEMMA StartTold ==
  ASSUME Typed, NEW s \in Session, Start(s)
  PROVE  /\ session' \in [Session -> SessionType]
         /\ session'[s].stage \in {"help", "error", "session"}
         /\ session'[s].obj = session[s].obj /\ session'[s].written = session[s].written
         /\ session'[s].got = session[s].got /\ session'[s].look = session[s].look
         /\ \A r \in Session \ {s} : session'[r] = session[r]
<1>1. PICK args \in CommandLines :
        session' = [session EXCEPT ![s] = [@ EXCEPT !.stage = Parse(args).is,
                      !.mode = Parse(args).mode, !.options = Parse(args).options]]
  BY DEF Start
<1> DEFINE g == [session[s] EXCEPT !.stage = Parse(args).is]
           h == [g EXCEPT !.mode = Parse(args).mode]
           k == [h EXCEPT !.options = Parse(args).options]
<1>2. session' = [session EXCEPT ![s] = k]
  BY <1>1
<1>3. Parse(args).is \in Stages
  BY ParseOutcome DEF Stages, Before
<1>4. /\ g \in SessionType /\ g.stage = Parse(args).is /\ g.obj = session[s].obj
      /\ g.written = session[s].written /\ g.got = session[s].got
      /\ g.look = session[s].look
  BY <1>3 DEF Typed, SessionType
<1> HIDE DEF g
<1>5. /\ h \in SessionType /\ h.stage = Parse(args).is /\ h.obj = session[s].obj
      /\ h.written = session[s].written /\ h.got = session[s].got
      /\ h.look = session[s].look
  BY <1>4, ParseOutcome DEF SessionType
<1> HIDE DEF h
<1>6. /\ k \in SessionType /\ k.stage = Parse(args).is /\ k.obj = session[s].obj
      /\ k.written = session[s].written /\ k.got = session[s].got
      /\ k.look = session[s].look
  BY <1>5, ParseOutcome DEF SessionType
<1> HIDE DEF k
<1> QED BY <1>2, <1>6, SessionUpdate, ParseOutcome

(* The name was free and a new object gets it, or it leads to one.         *)
LEMMA OpenTold ==
  ASSUME Typed, NEW s \in Session, Open(s)
  PROVE  /\ SessionGoes(s, "opened", linked'[Key(s)], session[s].written, session[s].got,
                        session[s].look)
         /\ DOMAIN linked' = DOMAIN linked \cup {Key(s)}
         /\ \A n \in DOMAIN linked : linked'[n] = linked[n]
         /\ objects' \in Seq(ObjectType) /\ LinkedType'
         /\ \A i \in 1 .. Len(objects) : objects'[i] = objects[i]
         /\ IF Key(s) \in DOMAIN linked THEN objects' = objects
            ELSE Len(objects') = Len(objects) + 1 /\ linked'[Key(s)] = Len(objects) + 1
<1> DEFINE obj == IF Key(s) \notin DOMAIN linked THEN Len(objects) + 1 ELSE linked[Key(s)]
           new == [Cleared EXCEPT !.full = FALSE]
           g   == [session[s] EXCEPT !.stage = "opened"]
           h   == [g EXCEPT !.obj = obj]
<1>1. /\ linked' = [n \in DOMAIN linked \cup {Key(s)} |->
                      IF n = Key(s) THEN obj ELSE linked[n]]
      /\ objects' = IF Key(s) \notin DOMAIN linked THEN Append(objects, new) ELSE objects
      /\ session' = [session EXCEPT ![s] = h]
  BY DEF Open
<1>2. objects \in Seq(ObjectType) /\ Len(objects) \in Nat
  BY DEF Typed
<1>3. new \in ObjectType
  BY ClearedType DEF ObjectType
<1>4. obj \in Nat /\ (Key(s) \in DOMAIN linked => obj \in 1 .. Len(objects))
  BY <1>2 DEF Typed, LinkedType
<1>5. DOMAIN linked' = DOMAIN linked \cup {Key(s)} /\ linked'[Key(s)] = obj
  BY <1>1
<1>6. \A n \in DOMAIN linked : linked'[n] = linked[n]
  BY <1>1, <1>4
<1> HIDE DEF new
<1>7. /\ objects' \in Seq(ObjectType)
      /\ \A i \in 1 .. Len(objects) : objects'[i] = objects[i]
      /\ Key(s) \notin DOMAIN linked => Len(objects') = Len(objects) + 1
      /\ Key(s) \in DOMAIN linked => objects' = objects
  BY <1>1, <1>2, <1>3
<1>8. LinkedType'
  <2>1. linked' = [n \in DOMAIN linked' |-> linked'[n]]
    BY <1>1
  <2>2. \A n \in DOMAIN linked' : linked'[n] \in 1 .. Len(objects')
    BY <1>2, <1>4, <1>5, <1>6, <1>7 DEF Typed, LinkedType
  <2> QED BY <2>1, <2>2 DEF LinkedType
<1>9. SessionGoes(s, "opened", obj, session[s].written, session[s].got, session[s].look)
  <2>1. /\ g \in SessionType /\ g.stage = "opened" /\ g.got = session[s].got
        /\ g.mode = session[s].mode /\ g.options = session[s].options
        /\ g.written = session[s].written /\ g.look = session[s].look
    BY DEF Typed, SessionType, Stages, Setup
  <2> HIDE DEF g
  <2>2. /\ h \in SessionType /\ h.stage = "opened" /\ h.got = session[s].got /\ h.obj = obj
        /\ h.mode = session[s].mode /\ h.options = session[s].options
        /\ h.written = session[s].written /\ h.look = session[s].look
    BY <1>4, <2>1 DEF SessionType
  <2> HIDE DEF h
  <2> QED BY <1>1, <2>2, SessionUpdate DEF SessionGoes
<1> QED BY <1>5, <1>6, <1>7, <1>8, <1>9

(* Taking back a name.                                                     *)
LEMMA UnlinkTold ==
  ASSUME Typed, NEW name, linked' = Unlinked(name), objects' = objects
  PROVE  /\ DOMAIN linked' = DOMAIN linked \ {name} /\ LinkedType'
         /\ \A n \in DOMAIN linked' : linked'[n] = linked[n]
<1>1. linked' = [n \in DOMAIN linked \ {name} |-> linked[n]]
  BY DEF Unlinked, Restrict
<1> QED BY <1>1 DEF Typed, LinkedType

(* What a step makes of one object.                                        *)
ObjectGoes(i, full, fields, head, tail, slot) ==
  /\ objects' \in Seq(ObjectType) /\ Len(objects') = Len(objects)
  /\ objects'[i].full = full /\ objects'[i].fields = fields
  /\ objects'[i].head = head /\ objects'[i].tail = tail /\ objects'[i].slot = slot
  /\ \A j \in 1 .. Len(objects) : j # i => objects'[j] = objects[j]

LEMMA ObjectTyped ==
  ASSUME Typed, NEW i \in 1 .. Len(objects)
  PROVE  objects[i] \in ObjectType
BY DEF Typed

LEMMA TruncateTold ==
  ASSUME Typed, Held, NEW s \in Session, Truncate(s)
  PROVE  /\ SessionGoes(s, "sized", session[s].obj, session[s].written, session[s].got,
                        session[s].look)
         /\ ObjectGoes(session[s].obj, TRUE, Ring(s).fields, Ring(s).head, Ring(s).tail,
                       Ring(s).slot)
<1> DEFINE i == session[s].obj
           o == [objects[i] EXCEPT !.full = TRUE]
<1>1. i \in 1 .. Len(objects) /\ objects[i] \in ObjectType
  BY ObjectTyped DEF Truncate, Held, Live, At, Setup
<1>2. /\ o \in ObjectType /\ o.full = TRUE /\ o.fields = Ring(s).fields
      /\ o.head = Ring(s).head /\ o.tail = Ring(s).tail /\ o.slot = Ring(s).slot
  BY <1>1 DEF ObjectType, Ring
<1>3. objects' = [objects EXCEPT ![i] = o]
  BY DEF Truncate
<1> HIDE DEF o
<1>4. ObjectGoes(i, TRUE, Ring(s).fields, Ring(s).head, Ring(s).tail, Ring(s).slot)
  BY <1>1, <1>2, <1>3, ObjectUpdate DEF ObjectGoes
<1>5. "sized" \in Stages
  BY DEF Stages, Setup
<1> QED BY <1>4, <1>5, StageGoes DEF Truncate

LEMMA ClearTold ==
  ASSUME Typed, Held, NEW s \in Session, Clear(s)
  PROVE  /\ SessionGoes(s, "cleared", session[s].obj, session[s].written, session[s].got,
                        session[s].look)
         /\ ObjectGoes(session[s].obj, TRUE, {}, 0, 0, << >>)
<1>1. session[s].obj \in 1 .. Len(objects)
  BY DEF Clear, Held, Live, At, Setup
<1>2. objects' = [objects EXCEPT ![session[s].obj] = Cleared]
  BY DEF Clear
<1>3. /\ Cleared.full = TRUE /\ Cleared.fields = {} /\ Cleared.head = 0 /\ Cleared.tail = 0
      /\ Cleared.slot = << >>
  BY DEF Cleared
<1>4. ObjectGoes(session[s].obj, TRUE, {}, 0, 0, << >>)
  BY <1>1, <1>2, <1>3, ClearedType, ObjectUpdate DEF ObjectGoes
<1>5. "cleared" \in Stages
  BY DEF Stages, Setup
<1> QED BY <1>4, <1>5, StageGoes DEF Clear

LEMMA WriteFieldTold ==
  ASSUME Typed, Held, NEW s \in Session, NEW field \in Fields, WriteField(s, field)
  PROVE  LET start == field = "ident"
         IN  /\ SessionGoes(s, "cleared", session[s].obj, session[s].written \cup {field},
                            session[s].got, session[s].look)
             /\ ObjectGoes(session[s].obj, Ring(s).full, Ring(s).fields \cup {field},
                           IF start THEN 0 ELSE Ring(s).head,
                           IF start THEN 0 ELSE Ring(s).tail, Ring(s).slot)
<1> DEFINE i == session[s].obj
           f == [objects[i] EXCEPT !.fields = objects[i].fields \cup {field}]
           h == [f EXCEPT !.head = 0]
           z == [h EXCEPT !.tail = 0]
           o == IF field = "ident" THEN z ELSE f
           g == [session[s] EXCEPT !.written = session[s].written \cup {field}]
<1>1. i \in 1 .. Len(objects) /\ objects[i] \in ObjectType
  BY ObjectTyped DEF WriteField, Held, Live, At, Setup
<1>2. objects' = [objects EXCEPT ![i] = o]
  <2>1. objects' = [objects EXCEPT ![i] = Written(objects[i], field)]
    BY DEF WriteField, Ring
  <2>2. Written(objects[i], field) = o
    BY DEF Written
  <2> QED BY <2>1, <2>2
<1>a. session' = [session EXCEPT ![s] = g]
  BY DEF WriteField
<1>3. /\ f \in ObjectType /\ f.full = Ring(s).full /\ f.fields = Ring(s).fields \cup {field}
      /\ f.head = Ring(s).head /\ f.tail = Ring(s).tail /\ f.slot = Ring(s).slot
  BY <1>1 DEF ObjectType, Ring
<1> HIDE DEF f
<1>4. /\ h \in ObjectType /\ h.full = Ring(s).full /\ h.fields = Ring(s).fields \cup {field}
      /\ h.head = 0 /\ h.tail = Ring(s).tail /\ h.slot = Ring(s).slot
  BY <1>3 DEF ObjectType
<1> HIDE DEF h
<1>5. /\ z \in ObjectType /\ z.full = Ring(s).full /\ z.fields = Ring(s).fields \cup {field}
      /\ z.head = 0 /\ z.tail = 0 /\ z.slot = Ring(s).slot
  BY <1>4 DEF ObjectType
<1> HIDE DEF z
<1>6. /\ o \in ObjectType /\ o.full = Ring(s).full /\ o.fields = Ring(s).fields \cup {field}
      /\ o.head = (IF field = "ident" THEN 0 ELSE Ring(s).head)
      /\ o.tail = (IF field = "ident" THEN 0 ELSE Ring(s).tail)
      /\ o.slot = Ring(s).slot
  BY <1>3, <1>5
<1> HIDE DEF o
<1>7. ObjectGoes(i, Ring(s).full, Ring(s).fields \cup {field},
                 IF field = "ident" THEN 0 ELSE Ring(s).head,
                 IF field = "ident" THEN 0 ELSE Ring(s).tail, Ring(s).slot)
  BY <1>1, <1>2, <1>6, ObjectUpdate DEF ObjectGoes
<1>8. /\ g \in SessionType /\ g.stage = "cleared" /\ g.obj = session[s].obj
      /\ g.written = session[s].written \cup {field} /\ g.got = session[s].got
      /\ g.look = session[s].look
      /\ g.mode = session[s].mode /\ g.options = session[s].options
  BY DEF Typed, SessionType, WriteField, At
<1> HIDE DEF g
<1>9. SessionGoes(s, "cleared", session[s].obj, session[s].written \cup {field},
                  session[s].got, session[s].look)
  BY <1>a, <1>8, SessionUpdate DEF SessionGoes
<1> QED BY <1>7, <1>9

LEMMA ValidateTold ==
  ASSUME Typed, NEW s \in Session, Validate(s)
  PROVE  IF Ring(s).fields = Fields
         THEN /\ SessionGoes(s, "serving", session[s].obj, session[s].written, session[s].got,
                             session[s].look)
              /\ linked' = linked
         ELSE /\ SessionGoes(s, "failed", 0, {}, session[s].got, "none")
              /\ linked' = Unlinked(Key(s))
<1>1. "serving" \in Stages /\ "failed" \in Stages
  BY DEF Stages
<1> QED BY <1>1, StageGoes, EndGoes DEF Validate

LEMMA SlotTyped ==
  ASSUME NEW o \in ObjectType, NEW i \in Nat \ {0}
  PROVE  SlotAt(o, i) \in EventType
<1>1. o.slot \in Seq(EventType)
  BY DEF ObjectType
<1>2. Zero \in EventType
  BY DEF Zero, EventType
<1> QED BY <1>1, <1>2 DEF SlotAt

LEMMA TakeTold ==
  ASSUME Typed, Held, NEW s \in Session, Take(s)
  PROVE  /\ SessionGoes(s, "serving", session[s].obj, session[s].written,
                        Append(session[s].got, SlotAt(Ring(s), Ring(s).tail + 1)), "none")
         /\ ObjectGoes(session[s].obj, Ring(s).full, Ring(s).fields, Ring(s).head,
                       Ring(s).tail + 1, Ring(s).slot)
<1> DEFINE i == session[s].obj
           o == [objects[i] EXCEPT !.tail = objects[i].tail + 1]
           e == SlotAt(Ring(s), Ring(s).tail + 1)
           f == [session[s] EXCEPT !.got = Append(session[s].got, e)]
           g == [f EXCEPT !.look = "none"]
<1>1. i \in 1 .. Len(objects) /\ objects[i] \in ObjectType
  BY ObjectTyped DEF Take, Held, Live, At, Setup
<1>2. objects' = [objects EXCEPT ![i] = o] /\ session' = [session EXCEPT ![s] = g]
  <2>1. objects' = [objects EXCEPT ![i] = o]
    BY DEF Take
  <2>2. session' = [session EXCEPT ![s] = g]
    BY DEF Take
  <2> QED BY <2>1, <2>2
<1>a. Ring(s) = objects[i] /\ objects[i].tail \in Nat /\ objects[i].tail + 1 \in Nat \ {0}
  <2>1. objects[i].tail \in Nat
    BY <1>1 DEF ObjectType
  <2> QED BY <2>1 DEF Ring
<1>3. e \in EventType
  <2>1. Ring(s) \in ObjectType /\ Ring(s).tail + 1 \in Nat \ {0}
    BY <1>1, <1>a
  <2> QED BY <2>1, SlotTyped
<1>b. session[s] \in SessionType /\ session[s].stage = "serving"
  BY DEF Typed, Take, At
<1>4. /\ o \in ObjectType /\ o.full = Ring(s).full /\ o.fields = Ring(s).fields
      /\ o.head = Ring(s).head /\ o.tail = Ring(s).tail + 1 /\ o.slot = Ring(s).slot
  BY <1>1, <1>a DEF ObjectType
<1> HIDE DEF o, e
<1>c. /\ f \in SessionType /\ f.stage = "serving" /\ f.obj = session[s].obj
      /\ f.written = session[s].written /\ f.got = Append(session[s].got, e)
      /\ f.mode = session[s].mode /\ f.options = session[s].options
  <2>1. Append(session[s].got, e) \in Seq(EventType)
    BY <1>3, <1>b DEF SessionType
  <2> QED BY <1>b, <2>1 DEF SessionType
<1> HIDE DEF f
<1>5. /\ g \in SessionType /\ g.stage = "serving" /\ g.obj = session[s].obj
      /\ g.written = session[s].written /\ g.got = Append(session[s].got, e)
      /\ g.mode = session[s].mode /\ g.options = session[s].options /\ g.look = "none"
  BY <1>c DEF SessionType, Looks
<1> HIDE DEF g
<1>6. ObjectGoes(i, Ring(s).full, Ring(s).fields, Ring(s).head, Ring(s).tail + 1,
                 Ring(s).slot)
  BY <1>1, <1>2, <1>4, ObjectUpdate DEF ObjectGoes
<1>7. SessionGoes(s, "serving", session[s].obj, session[s].written,
                  Append(session[s].got, e), "none")
  BY <1>2, <1>5, SessionUpdate DEF SessionGoes
<1> QED BY <1>6, <1>7 DEF e

LEMMA LookTold ==
  ASSUME Typed, NEW s \in Session, Look(s)
  PROVE  SessionGoes(s, "serving", session[s].obj, session[s].written, session[s].got,
                     IF TargetEnded(s) THEN "after" ELSE "before")
<1> DEFINE look == IF TargetEnded(s) THEN "after" ELSE "before"
           g == [session[s] EXCEPT !.look = look]
<1>1. session' = [session EXCEPT ![s] = g]
  BY DEF Look
<1>2. look \in Looks
  BY DEF Looks
<1> HIDE DEF look
<1>3. /\ g \in SessionType /\ g.stage = "serving" /\ g.obj = session[s].obj
      /\ g.written = session[s].written /\ g.got = session[s].got
      /\ g.mode = session[s].mode /\ g.options = session[s].options /\ g.look = look
  BY <1>2 DEF Typed, SessionType, Look, At
<1> HIDE DEF g
<1>4. SessionGoes(s, "serving", session[s].obj, session[s].written, session[s].got, look)
  BY <1>1, <1>3, SessionUpdate DEF SessionGoes
<1> QED BY <1>4 DEF look

LEMMA SpawnTold ==
  ASSUME Typed, NEW s \in Session, Spawn(s) \/ UserSpawns(s)
  PROVE  TargetGoes(s, "launched", IF Spawn(s) THEN NameOf(s) ELSE Key(s), target[s].obj,
                    target[s].room, target[s].head, target[s].sent)
<1> DEFINE name == IF Spawn(s) THEN NameOf(s) ELSE Key(s)
           g == [target[s] EXCEPT !.at = "launched"]
           h == [g EXCEPT !.name = name]
<1>1. target' = [target EXCEPT ![s] = h]
  BY DEF Spawn, UserSpawns
<1>2. name \in NameType
  BY SessionNames
<1> HIDE DEF name
<1>3. /\ g \in TargetType /\ g.at = "launched" /\ g.obj = target[s].obj
      /\ g.room = target[s].room /\ g.head = target[s].head /\ g.sent = target[s].sent
  BY DEF Typed, TargetType, Places
<1> HIDE DEF g
<1>4. /\ h \in TargetType /\ h.at = "launched" /\ h.obj = target[s].obj /\ h.name = name
      /\ h.room = target[s].room /\ h.head = target[s].head /\ h.sent = target[s].sent
  BY <1>2, <1>3 DEF TargetType
<1> HIDE DEF h
<1> QED BY <1>1, <1>4, TargetUpdate DEF TargetGoes, name

LEMMA OpenWriterTold ==
  ASSUME Typed, NEW s \in Session, OpenWriter(s)
  PROVE  IF target[s].name.slash /\ target[s].name \in DOMAIN linked
         THEN TargetGoes(s, "mapped", target[s].name, linked[target[s].name], target[s].room,
                         target[s].head, target[s].sent)
         ELSE TargetGoes(s, "untraced", target[s].name, target[s].obj, target[s].room,
                         target[s].head, target[s].sent)
<1>1. CASE target[s].name.slash /\ target[s].name \in DOMAIN linked
  <2> DEFINE obj == linked[target[s].name]
             g == [target[s] EXCEPT !.at = "mapped"]
             h == [g EXCEPT !.obj = obj]
  <2>1. target' = [target EXCEPT ![s] = h]
    BY <1>1 DEF OpenWriter
  <2>2. obj \in Nat
    BY <1>1 DEF Typed, LinkedType
  <2> HIDE DEF obj
  <2>3. /\ g \in TargetType /\ g.at = "mapped" /\ g.name = target[s].name
        /\ g.room = target[s].room /\ g.head = target[s].head /\ g.sent = target[s].sent
    BY DEF Typed, TargetType, Places
  <2> HIDE DEF g
  <2>4. /\ h \in TargetType /\ h.at = "mapped" /\ h.obj = obj /\ h.name = target[s].name
        /\ h.room = target[s].room /\ h.head = target[s].head /\ h.sent = target[s].sent
    BY <2>2, <2>3 DEF TargetType
  <2> HIDE DEF h
  <2> QED BY <1>1, <2>1, <2>4, TargetUpdate DEF TargetGoes, obj
<1>2. CASE ~ (target[s].name.slash /\ target[s].name \in DOMAIN linked)
  <2>1. "untraced" \in Places
    BY DEF Places
  <2> QED BY <1>2, <2>1, PlaceGoes DEF OpenWriter
<1> QED BY <1>1, <1>2

LEMMA BindLengthTold ==
  ASSUME Typed, NEW s \in Session, BindLength(s)
  PROVE  TargetGoes(s, IF Mapped(s).full THEN "sized" ELSE "crashed", target[s].name,
                    target[s].obj, target[s].room, target[s].head, target[s].sent)
<1>1. "sized" \in Places /\ "crashed" \in Places
  BY DEF Places
<1> QED BY <1>1, PlaceGoes DEF BindLength

LEMMA BindCheckTold ==
  ASSUME Typed, NEW s \in Session, BindCheck(s)
  PROVE  TargetGoes(s, IF "ident" \in Mapped(s).fields THEN "checked" ELSE "untraced",
                    target[s].name, target[s].obj, target[s].room, target[s].head,
                    target[s].sent)
<1>1. "checked" \in Places /\ "untraced" \in Places
  BY DEF Places
<1> QED BY <1>1, PlaceGoes DEF BindCheck

LEMMA BindCapacityTold ==
  ASSUME Typed, NEW s \in Session, BindCapacity(s)
  PROVE  \E room \in BOOLEAN :
           /\ TargetGoes(s, "traced", target[s].name, target[s].obj, room, target[s].head,
                         target[s].sent)
           /\ room <=> "capacity" \in Mapped(s).fields
<1> DEFINE b == "capacity" \in Mapped(s).fields
           g == [target[s] EXCEPT !.at = "traced"]
           h(room) == [g EXCEPT !.room = room]
<1>1. target' = [target EXCEPT ![s] = h(b)]
  BY DEF BindCapacity
<1>2. PICK room \in BOOLEAN : room = b
  <2>1. CASE b
    BY <2>1, Zenon
  <2>2. CASE ~ b
    <3>1. FALSE = b
      BY <2>2
    <3> QED BY <3>1, Zenon
  <2> QED BY <2>1, <2>2
<1>3. target' = [target EXCEPT ![s] = h(room)]
  BY <1>1, <1>2
<1>4. /\ g \in TargetType /\ g.at = "traced" /\ g.name = target[s].name /\ g.obj = target[s].obj
      /\ g.head = target[s].head /\ g.sent = target[s].sent
  BY DEF Typed, TargetType, Places
<1> HIDE DEF g
<1>5. /\ h(room) \in TargetType /\ h(room).at = "traced" /\ h(room).name = target[s].name
      /\ h(room).obj = target[s].obj /\ h(room).head = target[s].head
      /\ h(room).sent = target[s].sent /\ h(room).room = room
  BY <1>4 DEF TargetType
<1> HIDE DEF h
<1>6. TargetGoes(s, "traced", target[s].name, target[s].obj, room, target[s].head,
                 target[s].sent)
  BY <1>3, <1>5, TargetUpdate DEF TargetGoes
<1> QED BY <1>2, <1>6

LEMMA TargetEndsTold ==
  ASSUME Typed, NEW s \in Session, TargetEnds(s)
  PROVE  TargetGoes(s, "over", Name(FALSE, ""), 0, FALSE, 0, target[s].sent)
<1> DEFINE g == [NoTarget EXCEPT !.at = "over"]
           h == [g EXCEPT !.sent = target[s].sent]
<1>1. target' = [target EXCEPT ![s] = h]
  BY DEF TargetEnds
<1>2. Name(FALSE, "") \in NameType
  BY DEF Name, NameType
<1>3. << >> \in Seq(EventType)
  OBVIOUS
<1>4. /\ NoTarget \in TargetType /\ NoTarget.name = Name(FALSE, "") /\ NoTarget.obj = 0
      /\ NoTarget.room = FALSE /\ NoTarget.head = 0
  BY <1>2, <1>3 DEF NoTarget, TargetType, Places
<1>5. /\ g \in TargetType /\ g.at = "over" /\ g.name = Name(FALSE, "") /\ g.obj = 0
      /\ g.room = FALSE /\ g.head = 0
  BY <1>4 DEF TargetType, Places
<1> HIDE DEF g
<1>6. target[s].sent \in Seq(EventType)
  BY DEF Typed, TargetType
<1>7. /\ h \in TargetType /\ h.at = "over" /\ h.name = Name(FALSE, "") /\ h.obj = 0
      /\ h.room = FALSE /\ h.head = 0 /\ h.sent = target[s].sent
  BY <1>5, <1>6 DEF TargetType
<1> HIDE DEF h
<1> QED BY <1>1, <1>7, TargetUpdate DEF TargetGoes

LEMMA SlotWritten ==
  ASSUME NEW o \in ObjectType, NEW i \in Nat \ {0}, NEW e \in EventType
  PROVE  LET w == WithSlot(o, i, e)
         IN  /\ w \in ObjectType /\ w.full = o.full /\ w.fields = o.fields
             /\ w.head = o.head /\ w.tail = o.tail
             /\ \A j \in Nat \ {0} : SlotAt(w, j) = IF j = i THEN e ELSE SlotAt(o, j)
<1> DEFINE n == IF i > Len(o.slot) THEN i ELSE Len(o.slot)
           q == [j \in 1 .. n |-> IF j = i THEN e ELSE SlotAt(o, j)]
           w == [o EXCEPT !.slot = q]
<1>1. o.slot \in Seq(EventType) /\ Len(o.slot) \in Nat /\ n \in Nat
  BY DEF ObjectType
<1>2. \A j \in 1 .. n : (IF j = i THEN e ELSE SlotAt(o, j)) \in EventType
  BY SlotTyped
<1>3. WithSlot(o, i, e) = w
  BY DEF WithSlot
<1>4. q \in Seq(EventType) /\ Len(q) = n /\ \A j \in 1 .. n : q[j] = IF j = i THEN e ELSE SlotAt(o, j)
  <2> HIDE DEF n
  <2>1. q \in [1 .. n -> EventType]
    BY <1>2
  <2> QED BY <1>1, <2>1
<1> HIDE DEF q
<1>5. /\ w \in ObjectType /\ w.full = o.full /\ w.fields = o.fields /\ w.head = o.head
      /\ w.tail = o.tail /\ w.slot = q
  BY <1>4 DEF ObjectType
<1> HIDE DEF w
<1>6. ASSUME NEW j \in Nat \ {0}
      PROVE  SlotAt(w, j) = IF j = i THEN e ELSE SlotAt(o, j)
  <2>1. CASE j <= n
    <3>1. j \in 1 .. Len(w.slot) /\ w.slot[j] = IF j = i THEN e ELSE SlotAt(o, j)
      BY <1>1, <1>4, <1>5, <2>1
    <3> QED BY <1>1, <1>4, <1>5, <2>1, <3>1 DEF SlotAt
  <2>2. CASE j > n
    BY <1>1, <1>4, <1>5, <2>2 DEF SlotAt
  <2> QED BY <1>1, <2>1, <2>2
<1> QED BY <1>3, <1>5, <1>6

(* The slots of an object are the same but for one.                        *)
PushesSlot(i, h, e) ==
  /\ objects' \in Seq(ObjectType) /\ Len(objects') = Len(objects)
  /\ objects'[i].full = objects[i].full /\ objects'[i].fields = objects[i].fields
  /\ objects'[i].head = objects[i].head /\ objects'[i].tail = objects[i].tail
  /\ \A j \in Nat \ {0} :
       SlotAt(objects'[i], j) = IF j = h + 1 THEN e ELSE SlotAt(objects[i], j)
  /\ \A j \in 1 .. Len(objects) : j # i => objects'[j] = objects[j]

LEMMA EventTyped ==
  ASSUME Typed, NEW s \in Session
  PROVE  NextEvent(s) \in EventType /\ target[s].sent \in Seq(EventType)
<1>1. target[s].sent \in Seq(EventType)
  BY DEF Typed, TargetType
<1>2. Len(target[s].sent) + 1 \in Nat
  BY <1>1
<1> QED BY <1>1, <1>2 DEF NextEvent, EventType

LEMMA PushSlotTold ==
  ASSUME Typed, Held, NEW s \in Session, PushSlot(s)
  PROVE  /\ TargetGoes(s, "pushing", target[s].name, target[s].obj, target[s].room,
                       Mapped(s).head, target[s].sent)
         /\ PushesSlot(target[s].obj, Mapped(s).head, NextEvent(s))
<1> DEFINE i == target[s].obj
           o == WithSlot(objects[i], objects[i].head + 1, NextEvent(s))
           g == [target[s] EXCEPT !.at = "pushing"]
           h == [g EXCEPT !.head = objects[i].head]
<1>1. i \in 1 .. Len(objects) /\ objects[i] \in ObjectType /\ Mapped(s) = objects[i]
  BY ObjectTyped DEF PushSlot, Held, Attached, Mapped
<1>2. objects' = [objects EXCEPT ![i] = o] /\ target' = [target EXCEPT ![s] = h]
  BY DEF PushSlot, Mapped
<1>3. objects[i].head \in Nat /\ objects[i].head + 1 \in Nat \ {0}
  <2>1. objects[i].head \in Nat
    BY <1>1 DEF ObjectType
  <2> QED BY <2>1
<1>4. /\ o \in ObjectType /\ o.full = objects[i].full /\ o.fields = objects[i].fields
      /\ o.head = objects[i].head /\ o.tail = objects[i].tail
      /\ \A j \in Nat \ {0} :
           SlotAt(o, j) = IF j = objects[i].head + 1 THEN NextEvent(s) ELSE SlotAt(objects[i], j)
  <2>1. NextEvent(s) \in EventType
    BY EventTyped
  <2> QED BY <1>1, <1>3, <2>1, SlotWritten
<1>5. /\ g \in TargetType /\ g.at = "pushing" /\ g.name = target[s].name /\ g.obj = target[s].obj
      /\ g.room = target[s].room /\ g.sent = target[s].sent
  BY DEF Typed, TargetType, Places
<1> HIDE DEF g, o
<1>6. /\ h \in TargetType /\ h.at = "pushing" /\ h.name = target[s].name
      /\ h.obj = target[s].obj /\ h.room = target[s].room /\ h.sent = target[s].sent
      /\ h.head = objects[i].head
  BY <1>3, <1>5 DEF TargetType
<1> HIDE DEF h
<1>7. TargetGoes(s, "pushing", target[s].name, target[s].obj, target[s].room,
                 objects[i].head, target[s].sent)
  BY <1>2, <1>6, TargetUpdate DEF TargetGoes
<1>8. PushesSlot(i, objects[i].head, NextEvent(s))
  BY <1>1, <1>2, <1>4, ObjectUpdate DEF PushesSlot
<1> QED BY <1>1, <1>7, <1>8

LEMMA PushHeadTold ==
  ASSUME Typed, Held, NEW s \in Session, PushHead(s)
  PROVE  /\ TargetGoes(s, "traced", target[s].name, target[s].obj, target[s].room,
                       target[s].head, Append(target[s].sent, NextEvent(s)))
         /\ ObjectGoes(target[s].obj, Mapped(s).full, Mapped(s).fields, target[s].head + 1,
                       Mapped(s).tail, Mapped(s).slot)
<1> DEFINE i == target[s].obj
           o == [objects[i] EXCEPT !.head = target[s].head + 1]
           g == [target[s] EXCEPT !.at = "traced"]
           sent == Append(target[s].sent, NextEvent(s))
           h == [g EXCEPT !.sent = sent]
<1>1. i \in 1 .. Len(objects) /\ objects[i] \in ObjectType /\ Mapped(s) = objects[i]
  BY ObjectTyped DEF PushHead, Held, Attached, Mapped
<1>2. objects' = [objects EXCEPT ![i] = o] /\ target' = [target EXCEPT ![s] = h]
  BY DEF PushHead
<1>3. target[s].head + 1 \in Nat
  BY DEF Typed, TargetType
<1>4. /\ o \in ObjectType /\ o.full = objects[i].full /\ o.fields = objects[i].fields
      /\ o.head = target[s].head + 1 /\ o.tail = objects[i].tail /\ o.slot = objects[i].slot
  BY <1>1, <1>3 DEF ObjectType
<1>5. /\ g \in TargetType /\ g.at = "traced" /\ g.name = target[s].name /\ g.obj = target[s].obj
      /\ g.room = target[s].room /\ g.head = target[s].head
  BY DEF Typed, TargetType, Places
<1>6. sent \in Seq(EventType)
  BY EventTyped
<1> HIDE DEF g, o, sent
<1>7. /\ h \in TargetType /\ h.at = "traced" /\ h.name = target[s].name
      /\ h.obj = target[s].obj /\ h.room = target[s].room /\ h.sent = sent
      /\ h.head = target[s].head
  BY <1>5, <1>6 DEF TargetType
<1> HIDE DEF h
<1>8. TargetGoes(s, "traced", target[s].name, target[s].obj, target[s].room,
                 target[s].head, sent)
  BY <1>2, <1>7, TargetUpdate DEF TargetGoes
<1>9. ObjectGoes(i, Mapped(s).full, Mapped(s).fields, target[s].head + 1, Mapped(s).tail,
                 Mapped(s).slot)
  BY <1>1, <1>2, <1>4, ObjectUpdate DEF ObjectGoes
<1> QED BY <1>8, <1>9 DEF sent

-----------------------------------------------------------------------------
(* What a step of monitor s or of its target may do, as far as names,      *)
(* objects and places go.                                                  *)

StageTold(s) ==
  /\ \A r \in Session \ {s} : session'[r] = session[r] /\ target'[r] = target[r]
  /\ At(s, "new") \/ (/\ session'[s].options = session[s].options
                      /\ session'[s].mode = session[s].mode)
  /\ \/ session'[s].stage = session[s].stage /\ session'[s].obj = session[s].obj
     \/ /\ At(s, "new") /\ session'[s].stage \in {"help", "error", "session"}
     \/ /\ At(s, "session") /\ session'[s].stage = "opened"
        /\ Key(s) \in DOMAIN linked' /\ session'[s].obj = linked'[Key(s)]
     \/ /\ session[s].stage \in Setup /\ session'[s].stage \in Setup \cup {"serving"}
        /\ session'[s].obj = session[s].obj
        /\ session'[s].stage # "opened"
     \/ /\ Live(s)
        /\ session'[s].stage \in {"failed", "done", "exited", "killed", "panicked"}
        /\ session'[s].stage \in {"failed", "done", "panicked"} => Key(s) \notin DOMAIN linked'
     \/ At(s, "panicked") /\ session'[s].stage = "exited"

(* Only the name of s is made or taken back, and by its end.               *)
LinkedTold(s) ==
  /\ \A n \in DOMAIN linked : n # Key(s) => n \in DOMAIN linked'
  /\ \A n \in DOMAIN linked' : n # Key(s) => n \in DOMAIN linked
  /\ \A n \in DOMAIN linked \cap DOMAIN linked' : linked'[n] = linked[n]
  /\ Key(s) \in DOMAIN linked \ DOMAIN linked' =>
       Live(s) /\ session'[s].stage \in {"failed", "done", "panicked"}
  /\ Key(s) \in DOMAIN linked' \ DOMAIN linked =>
       /\ At(s, "session") /\ session'[s].stage = "opened"
       /\ linked'[Key(s)] = Len(objects) + 1

TargetTold(s) ==
  \/ /\ target'[s].at = target[s].at /\ target'[s].obj = target[s].obj
     /\ target'[s].name = target[s].name
  \/ /\ target[s].at = "none" /\ target'[s].at = "launched" /\ session' = session
     /\ Live(s) \/ At(s, "panicked")
     /\ ~ GivenIn(session[s].options) \/ session[s].mode = "run" =>
          session[s].stage \in {"serving", "panicked"}
     /\ target'[s].name = IF session[s].mode = "run" THEN NameOf(s) ELSE Key(s)
  \/ /\ target[s].at = "launched" /\ target'[s].at \in {"mapped", "untraced"}
     /\ target'[s].name = target[s].name
     /\ target'[s].at = "mapped" =>
          /\ target[s].name.slash /\ target[s].name \in DOMAIN linked
          /\ target'[s].obj = linked[target[s].name]
  \/ /\ Attached(s) /\ target'[s].name = target[s].name /\ target'[s].obj = target[s].obj
     /\ target'[s].at \in {"sized", "checked", "traced", "pushing", "untraced", "crashed"}
  \/ target[s].at # "none" /\ target'[s].at = "over"

(* A step changes the object of its monitor or of its target, if any.      *)
ObjectsTold(s) ==
  /\ Len(objects) <= Len(objects')
  /\ \A i \in 1 .. Len(objects) :
       /\ objects[i].full => objects'[i].full
       /\ \/ objects'[i] = objects[i]
          \/ Live(s) /\ i = session[s].obj
          \/ Attached(s) /\ i = target[s].obj
  /\ (At(s, "opened") /\ session'[s].stage # "opened" /\ session'[s].obj = session[s].obj) =>
       \A i \in 1 .. Len(objects) : i = session[s].obj => objects'[i].full

WatchTold(s) ==
  \/ Observe
  \/ /\ disturbed' = disturbed
     /\ At(s, "session") => session'[s].stage # "opened"
     /\ target[s].at = "launched" => target'[s].at # "mapped"

Told(s) ==
  StageTold(s) /\ LinkedTold(s) /\ TargetTold(s) /\ ObjectsTold(s) /\ WatchTold(s)

LEMMA SameLinked ==
  ASSUME Typed, linked' = linked, Len(objects') = Len(objects), NEW s \in Session
  PROVE  LinkedType' /\ LinkedTold(s) /\ \A n \in DOMAIN linked' : n.slash
<1>1. DOMAIN linked' = DOMAIN linked /\ \A n \in DOMAIN linked' : linked'[n] = linked[n]
  OBVIOUS
<1>2. LinkedType' /\ \A n \in DOMAIN linked' : n.slash
  BY DEF Typed, LinkedType
<1> QED BY <1>1, <1>2 DEF LinkedTold

LEMMA KeyUnlinked ==
  ASSUME Typed, objects' = objects, NEW s \in Session, linked' = Unlinked(Key(s)),
         Live(s), session'[s].stage \in {"failed", "done", "panicked"}
  PROVE  /\ LinkedType' /\ LinkedTold(s) /\ Key(s) \notin DOMAIN linked'
         /\ \A n \in DOMAIN linked' : n.slash
<1>1. /\ DOMAIN linked' = DOMAIN linked \ {Key(s)} /\ LinkedType'
      /\ \A n \in DOMAIN linked' : linked'[n] = linked[n]
  BY UnlinkTold
<1>2. \A n \in DOMAIN linked' : n.slash
  BY <1>1 DEF Typed
<1> QED BY <1>1, <1>2 DEF LinkedTold

LEMMA SameObjects ==
  ASSUME Typed, Held, objects' = objects, NEW s \in Session,
         At(s, "opened") => session'[s].stage = "opened" \/ session'[s].obj # session[s].obj
  PROVE  objects' \in Seq(ObjectType) /\ ObjectsTold(s)
<1>1. Len(objects) \in Nat /\ objects' \in Seq(ObjectType)
  BY DEF Typed
<1> QED BY <1>1 DEF ObjectsTold, At

LEMMA OneObject ==
  ASSUME Typed, NEW s \in Session, NEW i \in 1 .. Len(objects),
         (Live(s) /\ i = session[s].obj) \/ (Attached(s) /\ i = target[s].obj),
         objects' \in Seq(ObjectType), Len(objects') = Len(objects),
         \A j \in 1 .. Len(objects) : j # i => objects'[j] = objects[j],
         objects[i].full => objects'[i].full,
         At(s, "opened") => session'[s].stage = "opened" \/ session'[s].obj # session[s].obj
                            \/ (i = session[s].obj /\ objects'[i].full)
  PROVE  ObjectsTold(s)
<1>1. Len(objects) \in Nat
  BY DEF Typed
<1> QED BY <1>1 DEF ObjectsTold, At

LEMMA StartStep ==
  ASSUME Typed, Held, NEW s \in Session, Start(s)
  PROVE  Typed' /\ Told(s)
<1>1. /\ objects' = objects /\ linked' = linked /\ target' = target /\ disturbed' = disturbed
      /\ At(s, "new")
  BY DEF Start
<1>2. /\ session' \in [Session -> SessionType]
      /\ session'[s].stage \in {"help", "error", "session"}
      /\ \A r \in Session \ {s} : session'[r] = session[r]
  BY StartTold
<1>3. Typed' /\ LinkedTold(s)
  BY <1>1, <1>2, SameLinked DEF Typed
<1>4. StageTold(s) /\ TargetTold(s) /\ WatchTold(s)
  BY <1>1, <1>2 DEF StageTold, TargetTold, WatchTold, At
<1>5. ObjectsTold(s)
  BY <1>1, SameObjects DEF At
<1> QED BY <1>3, <1>4, <1>5 DEF Told

LEMMA OpenStep ==
  ASSUME Typed, Held, NEW s \in Session, Open(s)
  PROVE  Typed' /\ Told(s)
<1>1. At(s, "session") /\ target' = target /\ Observe
  BY DEF Open
<1>2. /\ SessionGoes(s, "opened", linked'[Key(s)], session[s].written, session[s].got,
                     session[s].look)
      /\ DOMAIN linked' = DOMAIN linked \cup {Key(s)}
      /\ \A n \in DOMAIN linked : linked'[n] = linked[n]
      /\ objects' \in Seq(ObjectType) /\ LinkedType'
      /\ \A i \in 1 .. Len(objects) : objects'[i] = objects[i]
      /\ IF Key(s) \in DOMAIN linked THEN objects' = objects
         ELSE Len(objects') = Len(objects) + 1 /\ linked'[Key(s)] = Len(objects) + 1
  BY OpenTold
<1>3. Key(s).slash /\ Len(objects) \in Nat
  <2>1. Key(s).slash
    BY SessionNames
  <2> QED BY <2>1 DEF Typed
<1>4. Typed'
  BY <1>1, <1>2, <1>3 DEF Typed, SessionGoes
<1>5. StageTold(s) /\ TargetTold(s) /\ WatchTold(s)
  BY <1>1, <1>2 DEF StageTold, TargetTold, WatchTold, SessionGoes
<1>6. LinkedTold(s)
  BY <1>1, <1>2 DEF LinkedTold, SessionGoes
<1>7. Len(objects) <= Len(objects')
  BY <1>2, <1>3
<1>8. ObjectsTold(s)
  BY <1>1, <1>2, <1>7 DEF ObjectsTold, At
<1> QED BY <1>4, <1>5, <1>6, <1>8 DEF Told

LEMMA SetupStep ==
  ASSUME Typed, Held, NEW s \in Session,
         Truncate(s) \/ Clear(s) \/ \E field \in Fields : WriteField(s, field)
  PROVE  Typed' /\ Told(s)
<1> DEFINE i == session[s].obj
<1>1. /\ SessionGoes(s, session'[s].stage, i, session'[s].written, session[s].got,
                     session[s].look)
      /\ session'[s].stage \in {"sized", "cleared"}
      /\ ObjectGoes(i, objects'[i].full, objects'[i].fields, objects'[i].head,
                    objects'[i].tail, objects'[i].slot)
      /\ (Ring(s).full \/ At(s, "opened")) => objects'[i].full
  <2>1. CASE Truncate(s)
    BY <2>1, TruncateTold DEF SessionGoes, ObjectGoes
  <2>2. CASE Clear(s)
    BY <2>2, ClearTold DEF SessionGoes, ObjectGoes
  <2>3. CASE \E field \in Fields : WriteField(s, field)
    <3>1. PICK field \in Fields : WriteField(s, field)
      BY <2>3
    <3>2. ~ At(s, "opened")
      BY <3>1 DEF WriteField, At
    <3> QED BY <3>1, <3>2, WriteFieldTold DEF SessionGoes, ObjectGoes
  <2> QED BY <2>1, <2>2, <2>3
<1>2. /\ linked' = linked /\ target' = target /\ disturbed' = disturbed
      /\ session[s].stage \in Setup
  BY DEF Truncate, Clear, WriteField, At, Setup
<1>3. Live(s) /\ i \in 1 .. Len(objects) /\ (Ring(s).full \/ At(s, "opened"))
  BY <1>2 DEF Held, Live
<1>4. Typed' /\ LinkedTold(s)
  BY <1>1, <1>2, SameLinked DEF Typed, SessionGoes, ObjectGoes
<1>5. StageTold(s) /\ TargetTold(s) /\ WatchTold(s)
  BY <1>1, <1>2 DEF StageTold, TargetTold, WatchTold, SessionGoes, Setup, At
<1>6. objects'[i].full
  BY <1>1, <1>3 DEF ObjectGoes
<1>7. /\ objects' \in Seq(ObjectType) /\ Len(objects') = Len(objects)
      /\ \A j \in 1 .. Len(objects) : j # i => objects'[j] = objects[j]
  BY <1>1 DEF ObjectGoes
<1>8. ObjectsTold(s)
  BY <1>3, <1>6, <1>7, OneObject
<1> QED BY <1>4, <1>5, <1>8 DEF Told

LEMMA EndStep ==
  ASSUME Typed, Held, NEW s \in Session, Live(s),
         NEW stage \in {"failed", "done", "exited", "killed", "panicked"},
         Ends(s, stage), objects' = objects, target' = target, disturbed' = disturbed,
         IF stage \in {"failed", "done", "panicked"} THEN linked' = Unlinked(Key(s))
                                                  ELSE linked' = linked
  PROVE  Typed' /\ Told(s)
<1>1. PICK look : SessionGoes(s, stage, 0, {}, session[s].got, look)
  BY EndGoes DEF Stages
<1>2. LinkedType' /\ LinkedTold(s) /\ (\A n \in DOMAIN linked' : n.slash)
      /\ (stage \in {"failed", "done", "panicked"} => Key(s) \notin DOMAIN linked')
  BY <1>1, SameLinked, KeyUnlinked DEF SessionGoes
<1>3. Typed'
  BY <1>1, <1>2 DEF Typed, SessionGoes
<1>4. StageTold(s) /\ TargetTold(s)
  BY <1>1, <1>2 DEF StageTold, TargetTold, SessionGoes
<1>5. WatchTold(s)
  BY <1>1 DEF WatchTold, SessionGoes
<1>6. session[s].obj # 0
  BY DEF Held
<1>7. ObjectsTold(s)
  BY <1>1, <1>6, SameObjects DEF SessionGoes
<1> QED BY <1>2, <1>3, <1>4, <1>5, <1>7 DEF Told

(* The reader has panicked, and the target cannot be launched.             *)
LEMMA GiveUpStep ==
  ASSUME Typed, Held, NEW s \in Session, At(s, "panicked"), SpawnFails(s)
  PROVE  Typed' /\ Told(s)
<1>1. PICK look : SessionGoes(s, "exited", 0, {}, session[s].got, look)
  BY EndGoes DEF SpawnFails, Stages
<1>2. /\ objects' = objects /\ linked' = linked /\ target' = target
      /\ disturbed' = disturbed
  BY DEF SpawnFails
<1>3. Typed' /\ LinkedTold(s)
  BY <1>1, <1>2, SameLinked DEF Typed, SessionGoes
<1>4. StageTold(s) /\ TargetTold(s) /\ WatchTold(s)
  BY <1>1, <1>2 DEF StageTold, TargetTold, WatchTold, SessionGoes, At
<1>5. ObjectsTold(s)
  BY <1>2, SameObjects DEF At
<1> QED BY <1>3, <1>4, <1>5 DEF Told

LEMMA FaultStep ==
  ASSUME Typed, Held, NEW s \in Session, Fault(s) \/ Drop(s)
  PROVE  Typed' /\ Told(s)
<1>1. CASE CreateFails(s)
  BY <1>1, EndStep DEF CreateFails, Live, Setup
<1>2. CASE SpawnFails(s)
  <2>1. CASE At(s, "serving")
    BY <1>2, <2>1, EndStep DEF SpawnFails, Live, At
  <2>2. CASE ~ At(s, "serving")
    <3>1. At(s, "panicked")
      BY <1>2, <2>2 DEF SpawnFails, Launching, At
    <3> QED BY <1>2, <3>1, GiveUpStep
  <2> QED BY <2>1, <2>2
<1>5. CASE ReaderPanics(s)
  BY <1>5, EndStep DEF ReaderPanics, Live, At
<1>3. CASE Kill(s)
  BY <1>3, EndStep DEF Kill
<1>4. CASE Drop(s)
  BY <1>4, EndStep DEF Drop, Live, At
<1> QED BY <1>1, <1>2, <1>3, <1>4, <1>5 DEF Fault

LEMMA ValidateStep ==
  ASSUME Typed, Held, NEW s \in Session, Validate(s)
  PROVE  Typed' /\ Told(s)
<1>1. At(s, "cleared") /\ Live(s) /\ session[s].stage \in Setup
      /\ objects' = objects /\ target' = target /\ disturbed' = disturbed
  BY DEF Validate, At, Live, Setup
<1>2. CASE Ring(s).fields # Fields
  BY <1>1, <1>2, EndStep DEF Validate
<1>3. CASE Ring(s).fields = Fields
  <2>1. /\ SessionGoes(s, "serving", session[s].obj, session[s].written, session[s].got,
                       session[s].look)
        /\ linked' = linked
    BY <1>3, ValidateTold
  <2>2. Typed' /\ LinkedTold(s)
    BY <1>1, <2>1, SameLinked DEF Typed, SessionGoes
  <2>3. StageTold(s) /\ TargetTold(s) /\ WatchTold(s)
    BY <1>1, <2>1 DEF StageTold, TargetTold, WatchTold, SessionGoes, At
  <2>4. ObjectsTold(s)
    BY <1>1, SameObjects DEF At
  <2> QED BY <2>2, <2>3, <2>4 DEF Told
<1> QED BY <1>2, <1>3

LEMMA TakeStep ==
  ASSUME Typed, Held, NEW s \in Session, Take(s)
  PROVE  Typed' /\ Told(s)
<1>1. At(s, "serving") /\ Live(s) /\ linked' = linked /\ target' = target
      /\ disturbed' = disturbed
  BY DEF Take, At, Live
<1>2. PICK got, tail :
        /\ SessionGoes(s, "serving", session[s].obj, session[s].written, got, "none")
        /\ ObjectGoes(session[s].obj, Ring(s).full, Ring(s).fields, Ring(s).head, tail,
                      Ring(s).slot)
  BY TakeTold
<1>3. session[s].obj \in 1 .. Len(objects) /\ Ring(s).full
  BY <1>1 DEF Held, At
<1>4. Typed' /\ LinkedTold(s)
  BY <1>1, <1>2, SameLinked DEF Typed, SessionGoes, ObjectGoes
<1>5. StageTold(s) /\ TargetTold(s) /\ WatchTold(s)
  BY <1>1, <1>2 DEF StageTold, TargetTold, WatchTold, SessionGoes, At
<1>6. ObjectsTold(s)
  <2>1. /\ objects' \in Seq(ObjectType) /\ Len(objects') = Len(objects)
        /\ \A j \in 1 .. Len(objects) : j # session[s].obj => objects'[j] = objects[j]
        /\ objects'[session[s].obj].full
    BY <1>2, <1>3 DEF ObjectGoes
  <2>2. ~ At(s, "opened")
    BY <1>1 DEF At
  <2> QED BY <1>1, <1>3, <2>1, <2>2, OneObject
<1> QED BY <1>4, <1>5, <1>6 DEF Told

LEMMA LookStep ==
  ASSUME Typed, Held, NEW s \in Session, Look(s)
  PROVE  Typed' /\ Told(s)
<1>1. /\ At(s, "serving") /\ linked' = linked /\ target' = target /\ objects' = objects
      /\ disturbed' = disturbed
  BY DEF Look
<1>2. PICK look :
        SessionGoes(s, "serving", session[s].obj, session[s].written, session[s].got, look)
  BY LookTold
<1>3. Typed' /\ LinkedTold(s)
  BY <1>1, <1>2, SameLinked DEF Typed, SessionGoes
<1>4. StageTold(s) /\ TargetTold(s) /\ WatchTold(s)
  BY <1>1, <1>2 DEF StageTold, TargetTold, WatchTold, SessionGoes, At
<1>5. ObjectsTold(s)
  BY <1>1, SameObjects DEF At
<1> QED BY <1>3, <1>4, <1>5 DEF Told

(* Steps of the target leave the monitor where it is.                      *)
LEMMA TargetStep ==
  ASSUME Typed, Held, NEW s \in Session, session' = session, linked' = linked,
         objects' = objects, WatchTold(s), TargetTold(s),
         target' \in [Session -> TargetType],
         \A r \in Session \ {s} : target'[r] = target[r]
  PROVE  Typed' /\ Told(s)
<1>1. Typed' /\ LinkedTold(s)
  BY SameLinked DEF Typed
<1>2. StageTold(s)
  BY DEF StageTold
<1>3. ObjectsTold(s)
  BY SameObjects DEF At
<1> QED BY <1>1, <1>2, <1>3 DEF Told

LEMMA SpawnStep ==
  ASSUME Typed, Held, NEW s \in Session, Spawn(s) \/ UserSpawns(s)
  PROVE  Typed' /\ Told(s)
<1>1. TargetGoes(s, "launched", IF Spawn(s) THEN NameOf(s) ELSE Key(s), target[s].obj,
                 target[s].room, target[s].head, target[s].sent)
  BY SpawnTold
<1>2. /\ session' = session /\ linked' = linked /\ objects' = objects
      /\ disturbed' = disturbed /\ target[s].at = "none"
      /\ Live(s) \/ At(s, "panicked")
      /\ Spawn(s) => session[s].mode = "run"
      /\ ~ Spawn(s) => session[s].mode = "monitor"
      /\ ~ GivenIn(session[s].options) \/ session[s].mode = "run" =>
           session[s].stage \in {"serving", "panicked"}
  BY DEF Spawn, Launching, UserSpawns, Live, At, GivenIn
<1>3. (IF Spawn(s) THEN NameOf(s) ELSE Key(s))
        = IF session[s].mode = "run" THEN NameOf(s) ELSE Key(s)
  BY <1>2
<1>4. TargetTold(s)
  BY <1>1, <1>2, <1>3 DEF TargetTold, TargetGoes
<1>5. WatchTold(s)
  BY <1>2 DEF WatchTold, At
<1> QED BY <1>1, <1>2, <1>4, <1>5, TargetStep DEF TargetGoes

LEMMA OpenWriterStep ==
  ASSUME Typed, Held, NEW s \in Session, OpenWriter(s)
  PROVE  Typed' /\ Told(s)
<1>1. /\ target[s].at = "launched" /\ session' = session /\ linked' = linked
      /\ objects' = objects /\ Observe
  BY DEF OpenWriter
<1>2. TargetTold(s) /\ target' \in [Session -> TargetType]
      /\ \A r \in Session \ {s} : target'[r] = target[r]
  BY <1>1, OpenWriterTold DEF TargetTold, TargetGoes
<1> QED BY <1>1, <1>2, TargetStep DEF WatchTold

LEMMA BindStep ==
  ASSUME Typed, Held, NEW s \in Session,
         BindLength(s) \/ BindCheck(s) \/ BindCapacity(s) \/ TargetEnds(s)
  PROVE  Typed' /\ Told(s)
<1>1. /\ session' = session /\ linked' = linked /\ objects' = objects
      /\ disturbed' = disturbed
  BY DEF BindLength, BindCheck, BindCapacity, TargetEnds
<1>2. CASE BindLength(s)
  <2>1. TargetTold(s) /\ WatchTold(s)
    BY <1>1, <1>2, BindLengthTold DEF TargetTold, TargetGoes, BindLength, Attached, WatchTold, At
  <2> QED BY <1>1, <1>2, <2>1, BindLengthTold, TargetStep DEF TargetGoes
<1>3. CASE BindCheck(s)
  <2>1. TargetTold(s) /\ WatchTold(s)
    BY <1>1, <1>3, BindCheckTold DEF TargetTold, TargetGoes, BindCheck, Attached, WatchTold, At
  <2> QED BY <1>1, <1>3, <2>1, BindCheckTold, TargetStep DEF TargetGoes
<1>4. CASE BindCapacity(s)
  <2>1. TargetTold(s) /\ WatchTold(s)
    BY <1>1, <1>4, BindCapacityTold
    DEF TargetTold, TargetGoes, BindCapacity, Attached, WatchTold, At
  <2> QED BY <1>1, <1>4, <2>1, BindCapacityTold, TargetStep DEF TargetGoes
<1>5. CASE TargetEnds(s)
  <2>1. TargetTold(s) /\ WatchTold(s)
    BY <1>1, <1>5, TargetEndsTold DEF TargetTold, TargetGoes, TargetEnds, WatchTold, At
  <2> QED BY <1>1, <1>5, <2>1, TargetEndsTold, TargetStep DEF TargetGoes
<1> QED BY <1>2, <1>3, <1>4, <1>5

LEMMA PushStep ==
  ASSUME Typed, Held, NEW s \in Session, PushSlot(s) \/ PushHead(s)
  PROVE  Typed' /\ Told(s)
<1> DEFINE i == target[s].obj
<1>1. /\ session' = session /\ linked' = linked /\ disturbed' = disturbed
      /\ Attached(s) /\ i \in 1 .. Len(objects) /\ Mapped(s) = objects[i]
      /\ target[s].at # "launched"
  BY DEF PushSlot, PushHead, Attached, Held, Mapped
<1>2. PICK at, head, sent :
        /\ at \in {"pushing", "traced"}
        /\ TargetGoes(s, at, target[s].name, i, target[s].room, head, sent)
  BY PushSlotTold, PushHeadTold
<1>3. /\ objects' \in Seq(ObjectType) /\ Len(objects') = Len(objects)
      /\ objects'[i].full = objects[i].full
      /\ \A j \in 1 .. Len(objects) : j # i => objects'[j] = objects[j]
  <2>1. CASE PushSlot(s)
    BY <2>1, PushSlotTold DEF PushesSlot
  <2>2. CASE PushHead(s)
    BY <1>1, <2>2, PushHeadTold DEF ObjectGoes
  <2> QED BY <2>1, <2>2
<1>4. Typed' /\ LinkedTold(s)
  BY <1>1, <1>2, <1>3, SameLinked DEF Typed, TargetGoes
<1>5. StageTold(s) /\ TargetTold(s) /\ WatchTold(s)
  BY <1>1, <1>2 DEF StageTold, TargetTold, WatchTold, TargetGoes, At
<1>6. ObjectsTold(s)
  BY <1>1, <1>3, OneObject DEF At
<1> QED BY <1>4, <1>5, <1>6 DEF Told

LEMMA NextTold ==
  ASSUME Typed, Held, Next
  PROVE  Typed' /\ \E s \in Session : Told(s)
<1>1. PICK s \in Session : Start(s) \/ Create(s) \/ Serve(s) \/ Fault(s) \/ Trace(s)
  BY DEF Next
<1> QED BY <1>1, StartStep, OpenStep, SetupStep, ValidateStep, TakeStep, LookStep, SpawnStep, FaultStep,
           OpenWriterStep, BindStep, PushStep
        DEF Create, Serve, Trace

(* The others are where they were.                                         *)
LEMMA OthersStay ==
  ASSUME NEW s \in Session, Told(s), NEW r \in Session \ {s}
  PROVE  /\ session'[r] = session[r] /\ target'[r] = target[r]
         /\ Live(r)' <=> Live(r)
         /\ Attached(r)' <=> Attached(r)
         /\ Key(r)' = Key(r) /\ NameOf(r)' = NameOf(r)
BY DEF Told, StageTold, Live, Attached, Key, NameOf, GeneratedName

LEMMA ActorStays ==
  ASSUME NEW s \in Session, Told(s)
  PROVE  /\ ~ At(s, "new") =>
              /\ Key(s)' = Key(s) /\ NameOf(s)' = NameOf(s)
              /\ session'[s].options = session[s].options
         /\ Live(s)' =>
              /\ ~ At(s, "new")
              /\ \/ Live(s) /\ session'[s].obj = session[s].obj
                 \/ /\ At(s, "session") /\ session'[s].stage = "opened"
                    /\ Key(s) \in DOMAIN linked' /\ session'[s].obj = linked'[Key(s)]
         /\ Attached(s)' =>
              \/ Attached(s) /\ target'[s].obj = target[s].obj
              \/ /\ target[s].at = "launched" /\ target'[s].at = "mapped"
                 /\ target[s].name.slash /\ target[s].name \in DOMAIN linked
                 /\ target'[s].obj = linked[target[s].name]
<1>1. ~ At(s, "new") => session'[s].options = session[s].options
  BY DEF Told, StageTold
<1>2. ~ At(s, "new") => Key(s)' = Key(s) /\ NameOf(s)' = NameOf(s)
  BY <1>1 DEF Key, NameOf, GeneratedName
<1>3. ASSUME Live(s)'
      PROVE  /\ ~ At(s, "new")
             /\ \/ Live(s) /\ session'[s].obj = session[s].obj
                \/ /\ At(s, "session") /\ session'[s].stage = "opened"
                   /\ Key(s) \in DOMAIN linked' /\ session'[s].obj = linked'[Key(s)]
  <2>1. session'[s].stage \in Setup \cup {"serving"}
    BY <1>3 DEF Live
  <2> QED BY <2>1 DEF Told, StageTold, Live, Setup, At
<1>4. ASSUME Attached(s)'
      PROVE  \/ Attached(s) /\ target'[s].obj = target[s].obj
             \/ /\ target[s].at = "launched" /\ target'[s].at = "mapped"
                /\ target[s].name.slash /\ target[s].name \in DOMAIN linked
                /\ target'[s].obj = linked[target[s].name]
  <2>1. target'[s].at \in {"mapped", "sized", "checked", "traced", "pushing"}
    BY <1>4 DEF Attached
  <2> QED BY <2>1 DEF Told, TargetTold, Attached
<1> QED BY <1>1, <1>2, <1>3, <1>4

LEMMA HeldNext ==
  ASSUME Typed, Held, Typed', NEW s \in Session, Told(s)
  PROVE  Held'
<1> SUFFICES ASSUME NEW r \in Session
             PROVE  /\ Live(r)' => /\ session'[r].obj \in 1 .. Len(objects')
                                   /\ Ring(r).full' \/ At(r, "opened")'
                    /\ Attached(r)' => target'[r].obj \in 1 .. Len(objects')
  BY DEF Held
<1>1. /\ Len(objects) \in Nat /\ Len(objects') \in Nat /\ Len(objects) <= Len(objects')
      /\ \A i \in 1 .. Len(objects) : objects[i].full => objects'[i].full
  BY DEF Typed, Told, ObjectsTold
<1>2. /\ \A n \in DOMAIN linked : linked[n] \in 1 .. Len(objects)
      /\ \A n \in DOMAIN linked' : linked'[n] \in 1 .. Len(objects')
  BY DEF Typed, LinkedType
<1>3. CASE r # s
  BY <1>1, <1>3, OthersStay DEF Held, Ring, At
<1>4. CASE r = s
  <2>1. ASSUME Live(s)', ~ (Live(s) /\ session'[s].obj = session[s].obj)
        PROVE  session'[s].obj \in 1 .. Len(objects') /\ At(s, "opened")'
    BY <1>2, <2>1, ActorStays DEF At
  <2>2. ASSUME Live(s), session'[s].obj = session[s].obj, Live(s)'
        PROVE  /\ session'[s].obj \in 1 .. Len(objects')
               /\ objects'[session'[s].obj].full \/ At(s, "opened")'
    <3>1. session[s].obj \in 1 .. Len(objects) /\ (objects[session[s].obj].full \/ At(s, "opened"))
      BY <2>2 DEF Held, Ring
    <3> QED BY <1>1, <2>2, <3>1 DEF Told, ObjectsTold, At
  <2>3. Attached(s)' => target'[s].obj \in 1 .. Len(objects')
    BY <1>1, <1>2, ActorStays DEF Held
  <2> QED BY <1>4, <2>1, <2>2, <2>3 DEF Ring
<1> QED BY <1>3, <1>4

LEMMA NoLeftoverNext ==
  ASSUME Typed, NoLeftover, NEW s \in Session, Told(s)
  PROVE  NoLeftover'
<1> SUFFICES ASSUME NEW n \in DOMAIN linked'
             PROVE  \E r \in Session : /\ Live(r)' \/ session'[r].stage \in {"killed", "exited"}
                                       /\ n = Key(r)'
  BY DEF NoLeftover
<1>1. CASE n \notin DOMAIN linked
  <2>1. n = Key(s) /\ At(s, "session") /\ session'[s].stage = "opened"
    BY <1>1 DEF Told, LinkedTold
  <2>2. Live(s)' /\ Key(s)' = Key(s)
    BY <2>1, ActorStays DEF Live, Setup, At
  <2> QED BY <2>1, <2>2
<1>2. CASE n \in DOMAIN linked
  <2>1. PICK r \in Session : /\ Live(r) \/ session[r].stage \in {"killed", "exited"}
                             /\ n = Key(r)
    BY <1>2 DEF NoLeftover
  <2>2. CASE r # s
    BY <2>1, <2>2, OthersStay
  <2>3. CASE r = s
    <3>1. ~ At(s, "new") /\ ~ At(s, "session")
      BY <2>1, <2>3 DEF At, Live, Setup
    <3>2. Live(s)' \/ session'[s].stage \in {"killed", "exited"}
      BY <2>1, <2>3, <3>1 DEF Told, StageTold, At, Live, Setup
    <3> QED BY <2>1, <2>3, <3>1, <3>2, ActorStays
  <2> QED BY <2>2, <2>3
<1> QED BY <1>1, <1>2

-----------------------------------------------------------------------------
(* Who knows an object knows it by the same name: it is in the file        *)
(* system, a monitor has made it or taken it over, or a target has opened  *)
(* it.                                                                     *)
Uses ==
  {<<linked[n], n>> : n \in DOMAIN linked}
    \cup {<<session[s].obj, Key(s)>> : s \in {r \in Session : Live(r)}}
    \cup {<<target[s].obj, Key(s)>> : s \in {r \in Session : Attached(r)}}

OneName == \A u, v \in Uses : u[1] = v[1] => u[2] = v[2]

(* A target goes by the name of its monitor, which has come to be there    *)
(* before it.                                                              *)
TargetNamed ==
  \A s \in Session :
    /\ target[s].at \notin {"none", "over"} =>
         target[s].name = IF session[s].mode = "run" THEN NameOf(s) ELSE Key(s)
    /\ target[s].at # "none" =>
         /\ session[s].stage \notin Before
         /\ ~ GivenIn(session[s].options) \/ session[s].mode = "run" =>
              session[s].stage \notin Setup

LEMMA TargetNamedNext ==
  ASSUME Typed, TargetNamed, NEW s \in Session, Told(s)
  PROVE  TargetNamed'
<1> SUFFICES ASSUME NEW r \in Session
             PROVE  /\ target'[r].at \notin {"none", "over"} =>
                         target'[r].name = IF session'[r].mode = "run" THEN NameOf(r)' ELSE Key(r)'
                    /\ target'[r].at # "none" =>
                         /\ session'[r].stage \notin Before
                         /\ ~ GivenIn(session'[r].options) \/ session'[r].mode = "run" =>
                              session'[r].stage \notin Setup
  BY DEF TargetNamed
<1>1. CASE r # s
  BY <1>1, OthersStay DEF TargetNamed
<1>2. CASE r = s
  <2>1. CASE target[s].at = "none" /\ target'[s].at # "none"
    <3>1. /\ session' = session /\ target'[s].at = "launched"
          /\ Live(s) \/ At(s, "panicked")
          /\ ~ GivenIn(session[s].options) \/ session[s].mode = "run" =>
               session[s].stage \in {"serving", "panicked"}
          /\ target'[s].name = IF session[s].mode = "run" THEN NameOf(s) ELSE Key(s)
      BY <2>1 DEF Told, TargetTold, Attached
    <3>2. NameOf(s)' = NameOf(s) /\ Key(s)' = Key(s)
      BY <3>1 DEF NameOf, Key, GeneratedName
    <3> QED BY <1>2, <3>1, <3>2 DEF At, Live, Setup, Before
  <2>2. CASE target[s].at # "none"
    <3>1. /\ session[s].stage \notin Before
          /\ ~ GivenIn(session[s].options) \/ session[s].mode = "run" =>
               session[s].stage \notin Setup
      BY <2>2 DEF TargetNamed
    <3>2. /\ Key(s)' = Key(s) /\ NameOf(s)' = NameOf(s)
          /\ session'[s].options = session[s].options /\ session'[s].mode = session[s].mode
      BY <3>1, ActorStays DEF Before, At, Told, StageTold
    <3>3. session'[s].stage = session[s].stage \/ session'[s].stage \notin Before
      BY <3>1 DEF Told, StageTold, Before, Setup, At
    <3>4. session[s].stage \notin Setup => session'[s].stage \notin Setup
      BY <3>1 DEF Told, StageTold, Before, Setup, At
    <3>5. ASSUME target'[s].at \notin {"none", "over"}
          PROVE  target'[s].name = IF session[s].mode = "run" THEN NameOf(s) ELSE Key(s)
      BY <2>2, <3>5 DEF TargetNamed, Told, TargetTold, Attached
    <3> QED BY <1>2, <3>1, <3>2, <3>3, <3>4, <3>5
  <2>3. CASE target[s].at = "none" /\ target'[s].at = "none"
    BY <1>2, <2>3
  <2> QED BY <2>1, <2>2, <2>3
<1> QED BY <1>1, <1>2

LEMMA OpenedName ==
  ASSUME Typed, TargetNamed, NEW s \in Session, target[s].at = "launched", target[s].name.slash
  PROVE  target[s].name = Key(s)
BY SessionNames DEF TargetNamed

LEMMA UsesNow ==
  /\ \A n \in DOMAIN linked : <<linked[n], n>> \in Uses
  /\ \A s \in Session : Live(s) => <<session[s].obj, Key(s)>> \in Uses
  /\ \A s \in Session : Attached(s) => <<target[s].obj, Key(s)>> \in Uses
BY DEF Uses

(* Names are only handed on, but for the one of a new object.              *)
LEMMA UsesNext ==
  ASSUME Typed, TargetNamed, NEW s \in Session, Told(s), NEW u \in Uses'
  PROVE  u \in Uses \/ u = <<Len(objects) + 1, Key(s)>>
<1> DEFINE new == <<Len(objects) + 1, Key(s)>>
<1>1. ASSUME NEW n \in DOMAIN linked'
      PROVE  <<linked'[n], n>> \in Uses \/ <<linked'[n], n>> = new
  <2>1. CASE n \in DOMAIN linked
    BY <2>1, UsesNow DEF Told, LinkedTold
  <2>2. CASE n \notin DOMAIN linked
    BY <2>2 DEF Told, LinkedTold
  <2> QED BY <2>1, <2>2
<1>2. ASSUME NEW r \in Session, Live(r)'
      PROVE  <<session'[r].obj, Key(r)'>> \in Uses \/ <<session'[r].obj, Key(r)'>> = new
  <2>1. CASE r # s
    BY <1>2, <2>1, OthersStay, UsesNow
  <2>2. CASE r = s /\ Live(s) /\ session'[s].obj = session[s].obj
    BY <1>2, <2>2, ActorStays, UsesNow
  <2>3. CASE r = s /\ Key(s) \in DOMAIN linked' /\ session'[s].obj = linked'[Key(s)]
    BY <1>1, <1>2, <2>3, ActorStays
  <2> QED BY <1>2, <2>1, <2>2, <2>3, ActorStays
<1>3. ASSUME NEW r \in Session, Attached(r)'
      PROVE  <<target'[r].obj, Key(r)'>> \in Uses
  <2>1. CASE r # s
    BY <1>3, <2>1, OthersStay, UsesNow
  <2>2. CASE r = s
    <3>1. target[s].at # "none" /\ Key(s)' = Key(s)
      <4>1. target[s].at # "none"
        BY <1>3, <2>2, ActorStays DEF Attached
      <4> QED BY <4>1, ActorStays DEF TargetNamed, Before, At
    <3>2. CASE Attached(s) /\ target'[s].obj = target[s].obj
      BY <2>2, <3>1, <3>2, UsesNow
    <3>3. CASE /\ target[s].at = "launched" /\ target[s].name.slash
               /\ target[s].name \in DOMAIN linked
               /\ target'[s].obj = linked[target[s].name]
      BY <2>2, <3>1, <3>3, OpenedName, UsesNow
    <3> QED BY <1>3, <2>2, <3>2, <3>3, ActorStays
  <2> QED BY <2>1, <2>2
<1>4. Uses' = {<<linked'[n], n>> : n \in DOMAIN linked'}
                \cup {<<session'[r].obj, Key(r)'>> : r \in {q \in Session : Live(q)'}}
                \cup {<<target'[r].obj, Key(r)'>> : r \in {q \in Session : Attached(q)'}}
  BY DEF Uses
<1> HIDE DEF new
<1>5. CASE \E n \in DOMAIN linked' : u = <<linked'[n], n>>
  BY <1>1, <1>5 DEF new
<1>6. CASE \E r \in Session : Live(r)' /\ u = <<session'[r].obj, Key(r)'>>
  BY <1>2, <1>6 DEF new
<1>7. CASE \E r \in Session : Attached(r)' /\ u = <<target'[r].obj, Key(r)'>>
  BY <1>3, <1>7
<1> QED BY <1>4, <1>5, <1>6, <1>7

LEMMA UsesTyped ==
  ASSUME Typed, Held, NEW u \in Uses
  PROVE  u[1] \in 1 .. Len(objects)
<1>1. \A n \in DOMAIN linked : linked[n] \in 1 .. Len(objects)
  BY DEF Typed, LinkedType
<1>2. CASE \E n \in DOMAIN linked : u = <<linked[n], n>>
  BY <1>1, <1>2
<1>3. CASE \E r \in Session : Live(r) /\ u = <<session[r].obj, Key(r)>>
  BY <1>3 DEF Held
<1>4. CASE \E r \in Session : Attached(r) /\ u = <<target[r].obj, Key(r)>>
  BY <1>4 DEF Held
<1> QED BY <1>2, <1>3, <1>4 DEF Uses

LEMMA OneNameNext ==
  ASSUME Typed, Held, TargetNamed, OneName, NEW s \in Session, Told(s)
  PROVE  OneName'
<1> SUFFICES ASSUME NEW u \in Uses', NEW v \in Uses', u[1] = v[1] PROVE u[2] = v[2]
  BY DEF OneName
<1>1. Len(objects) \in Nat
  BY DEF Typed
<1>2. /\ u \in Uses \/ u = <<Len(objects) + 1, Key(s)>>
      /\ v \in Uses \/ v = <<Len(objects) + 1, Key(s)>>
  BY UsesNext
<1>3. /\ u \in Uses => u[1] # Len(objects) + 1
      /\ v \in Uses => v[1] # Len(objects) + 1
  BY <1>1, UsesTyped
<1> QED BY <1>2, <1>3 DEF OneName

(* What OneName says of two who use an object.                             *)
LEMMA SameName ==
  ASSUME OneName, NEW s \in Session, NEW r \in Session, Live(s)
  PROVE  /\ Live(r) /\ session[r].obj = session[s].obj => Key(r) = Key(s)
         /\ Attached(r) /\ target[r].obj = session[s].obj => Key(r) = Key(s)
<1>1. <<session[s].obj, Key(s)>> \in Uses
  BY UsesNow
<1>2. ASSUME Live(r), session[r].obj = session[s].obj PROVE Key(r) = Key(s)
  <2>1. <<session[r].obj, Key(r)>> \in Uses
    BY <1>2, UsesNow
  <2> QED BY <1>1, <1>2, <2>1 DEF OneName
<1>3. ASSUME Attached(r), target[r].obj = session[s].obj PROVE Key(r) = Key(s)
  <2>1. <<target[r].obj, Key(r)>> \in Uses
    BY <1>3, UsesNow
  <2> QED BY <1>1, <1>3, <2>1 DEF OneName
<1> QED BY <1>2, <1>3

-----------------------------------------------------------------------------
(* What is known of a monitor that was not disturbed.                      *)

Seen == \A s \in Session : Disturbed(s) => s \in disturbed

(* Nobody else comes by a generated name.                                  *)
GeneratedUndisturbed ==
  \A s \in Session :
    At(s, "new") \/ ~ GivenIn(session[s].options) => s \notin disturbed

(* Its name leads to its object, also for its target.                      *)
Alone ==
  \A s \in Session \ disturbed :
    Live(s) => /\ Key(s) \in DOMAIN linked /\ linked[Key(s)] = session[s].obj
               /\ Attached(s) => target[s].obj = session[s].obj

LEMMA UsersKeepNames ==
  ASSUME TargetNamed, NEW s \in Session, Told(s), NEW r \in Session, Live(r)' \/ Attached(r)'
  PROVE  Key(r)' = Key(r) /\ session'[r].options = session[r].options /\ ~ At(r, "new")
                          /\ ~ At(r, "new")'
<1>1. CASE Live(r)'
  <2>1. ~ At(r, "new")'
    BY <1>1 DEF Live, Setup, At
  <2> QED BY <1>1, <2>1, OthersStay, ActorStays DEF At
<1>2. CASE Attached(r)'
  <2>1. target[r].at # "none"
    BY <1>2, OthersStay, ActorStays DEF Attached
  <2>2. session[r].stage \notin Before
    BY <2>1 DEF TargetNamed
  <2>3. ~ At(r, "new") /\ ~ At(r, "new")'
    BY <2>2, OthersStay DEF At, Before, Told, StageTold, Setup
  <2> QED BY <2>3, OthersStay, ActorStays
<1> QED BY <1>1, <1>2

LEMMA SeenNext ==
  ASSUME Seen, TargetNamed, NEW s \in Session, Told(s)
  PROVE  Seen' /\ disturbed \subseteq disturbed'
<1>1. CASE Observe
  BY <1>1 DEF Observe, Seen
<1>2. CASE ~ Observe
  <2>1. /\ disturbed' = disturbed
        /\ At(s, "session") => session'[s].stage # "opened"
        /\ target[s].at = "launched" => target'[s].at # "mapped"
    BY <1>2 DEF Told, WatchTold
  <2>2. ASSUME NEW r \in Session, Live(r)'
        PROVE  Live(r) /\ session'[r].obj = session[r].obj /\ (At(r, "serving") => At(r, "serving")')
    <3>1. CASE r # s
      BY <2>2, <3>1, OthersStay DEF At
    <3>2. CASE r = s
      <4>1. Live(s) /\ session'[s].obj = session[s].obj
        BY <2>1, <2>2, <3>2, ActorStays
      <4>2. At(s, "serving") => At(s, "serving")'
        BY <2>2, <3>2 DEF Told, StageTold, Live, Setup, At
      <4> QED BY <3>2, <4>1, <4>2
    <3> QED BY <3>1, <3>2
  <2>3. ASSUME NEW r \in Session, Attached(r)'
        PROVE  Attached(r) /\ target'[r].obj = target[r].obj
    BY <2>1, <2>3, OthersStay, ActorStays
  <2>4. ASSUME NEW r \in Session, Disturbed(r)' PROVE Disturbed(r)
    <3>1. Live(r)' /\ Live(r) /\ session'[r].obj = session[r].obj /\ Key(r)' = Key(r)
      BY <2>2, <2>4, UsersKeepNames DEF Disturbed
    <3>2. ASSUME NEW q \in Session \ {r}, Live(q)', Key(q)' = Key(r)'
          PROVE  Live(q) /\ Key(q) = Key(r)
      BY <2>2, <3>1, <3>2, UsersKeepNames
    <3>3. ASSUME NEW q \in Session, Attached(q)', target'[q].obj = session'[r].obj,
                 q = r => ~ At(r, "serving")'
          PROVE  Attached(q) /\ target[q].obj = session[r].obj /\ (q = r => ~ At(r, "serving"))
      BY <2>2, <2>3, <3>1, <3>3
    <3> QED BY <2>4, <3>1, <3>2, <3>3 DEF Disturbed
  <2> QED BY <2>1, <2>4 DEF Seen
<1> QED BY <1>1, <1>2

LEMMA GeneratedNext ==
  ASSUME Typed, TargetNamed, TargetNamed', OneName', GeneratedUndisturbed, NEW s \in Session,
         Told(s)
  PROVE  GeneratedUndisturbed'
<1> SUFFICES ASSUME NEW r \in Session, r \in disturbed'
             PROVE  ~ At(r, "new")' /\ GivenIn(session'[r].options)
  BY DEF GeneratedUndisturbed
<1>1. CASE r \in disturbed
  <2>1. ~ At(r, "new") /\ GivenIn(session[r].options)
    BY <1>1 DEF GeneratedUndisturbed
  <2>2. session'[r].options = session[r].options /\ ~ At(r, "new")'
    BY <2>1, OthersStay, ActorStays DEF Told, StageTold, At, Setup
  <2> QED BY <2>1, <2>2
<1>2. CASE r \notin disturbed
  <2>1. Disturbed(r)'
    BY <1>2 DEF Told, WatchTold, Observe
  <2>2. Live(r)'
    BY <2>1 DEF Disturbed
  <2>3. /\ Key(r)' = Key(r) /\ session'[r].options = session[r].options
        /\ ~ At(r, "new")'
    BY <2>2, UsersKeepNames
  <2>4. ASSUME ~ GivenIn(session[r].options) PROVE FALSE
    <3>1. ASSUME NEW q \in Session, Key(q) = Key(r) PROVE q = r
      BY <2>4, <3>1, SessionNames
    <3>2. CASE \E q \in Session \ {r} : Live(q)' /\ Key(q)' = Key(r)'
      BY <2>3, <3>1, <3>2, UsersKeepNames
    <3>3. CASE \E q \in Session : /\ Attached(q)' /\ target'[q].obj = session'[r].obj
                                  /\ q = r => ~ At(r, "serving")'
      <4>1. PICK q \in Session : /\ Attached(q)' /\ target'[q].obj = session'[r].obj
                                 /\ q = r => ~ At(r, "serving")'
        BY <3>3
      <4>2. <<target'[q].obj, Key(q)'>> \in Uses' /\ <<session'[r].obj, Key(r)'>> \in Uses'
        BY <2>2, <4>1 DEF Uses
      <4>3. Key(q)' = Key(r)'
        BY <4>1, <4>2 DEF OneName
      <4>4. q = r
        BY <2>3, <3>1, <4>1, <4>3, UsersKeepNames
      <4>5. target'[r].at # "none"
        BY <4>1, <4>4 DEF Attached
      <4> QED BY <2>2, <2>3, <2>4, <4>1, <4>4, <4>5 DEF TargetNamed, Live, At
    <3> QED BY <2>1, <3>2, <3>3 DEF Disturbed
  <2> QED BY <2>3, <2>4
<1> QED BY <1>1, <1>2

LEMMA AloneNext ==
  ASSUME Typed, TargetNamed, Seen, Alone, NEW s \in Session, Told(s)
  PROVE  Alone'
<1> SUFFICES ASSUME NEW r \in Session, r \notin disturbed', Live(r)'
             PROVE  /\ Key(r)' \in DOMAIN linked' /\ linked'[Key(r)'] = session'[r].obj
                    /\ Attached(r)' => target'[r].obj = session'[r].obj
  BY DEF Alone
<1>1. r \notin disturbed /\ Key(r)' = Key(r)
  BY SeenNext, UsersKeepNames
<1>2. CASE r # s
  <2>1. /\ Live(r) /\ session'[r] = session[r] /\ target'[r] = target[r]
        /\ Attached(r)' <=> Attached(r)
    BY <1>2, OthersStay
  <2>2. /\ Key(r) \in DOMAIN linked /\ linked[Key(r)] = session[r].obj
        /\ Attached(r) => target[r].obj = session[r].obj
    BY <1>1, <2>1 DEF Alone
  <2>3. Key(r) \in DOMAIN linked'
    <3>1. CASE Key(r) # Key(s)
      BY <2>2, <3>1 DEF Told, LinkedTold
    <3>2. CASE Key(r) = Key(s) /\ Live(s)
      BY <1>1, <1>2, <2>1, <3>2 DEF Seen, Disturbed
    <3>3. CASE Key(r) = Key(s) /\ ~ Live(s)
      BY <2>2, <3>3 DEF Told, LinkedTold
    <3> QED BY <3>1, <3>2, <3>3
  <2> QED BY <1>1, <2>1, <2>2, <2>3 DEF Told, LinkedTold
<1>3. CASE r = s /\ Live(s) /\ session'[s].obj = session[s].obj
  <2>1. /\ Key(s) \in DOMAIN linked /\ linked[Key(s)] = session[s].obj
        /\ Attached(s) => target[s].obj = session[s].obj
    BY <1>1, <1>3 DEF Alone
  <2>2. Key(s) \in DOMAIN linked'
    <3>1. session'[s].stage \notin {"failed", "done", "panicked"}
      BY <1>3 DEF Live, Setup
    <3> QED BY <2>1, <3>1 DEF Told, LinkedTold
  <2>3. Attached(s)' => target'[s].obj = session[s].obj
    BY <2>1, ActorStays, OpenedName
  <2> QED BY <1>1, <1>3, <2>1, <2>2, <2>3 DEF Told, LinkedTold
<1>4. CASE /\ r = s /\ At(s, "session")
           /\ Key(s) \in DOMAIN linked' /\ session'[s].obj = linked'[Key(s)]
  <2>1. target[s].at = "none"
    BY <1>4 DEF TargetNamed, At, Before
  <2>2. ~ Attached(s)'
    BY <2>1, ActorStays DEF Attached
  <2> QED BY <1>1, <1>4, <2>2
<1> QED BY <1>2, <1>3, <1>4, ActorStays

-----------------------------------------------------------------------------
(* The events                                                              *)

EventNo(s, n) == [of |-> s, n |-> n]

(* What a target has sent, and when it has not, and its monitor has not    *)
(* begun, nor looked.                                                      *)
Numbered ==
  \A s \in Session :
    /\ \A i \in 1 .. Len(target[s].sent) : target[s].sent[i] = EventNo(s, i)
    /\ target[s].at = "none" => target[s].sent = << >>
    /\ session[s].stage \in Before \cup Setup =>
         session[s].got = << >> /\ session[s].look = "none"

(* The monitor shows the first of the events that its target has sent.     *)
Taken(s) ==
  /\ Len(session[s].got) <= Len(target[s].sent)
  /\ \A i \in 1 .. Len(session[s].got) : session[s].got[i] = EventNo(s, i)

(* Its ring is empty when it is cleared, and stays so until it serves.     *)
Fresh(s) ==
  /\ session[s].stage \in Setup => target[s].sent = << >>
  /\ At(s, "cleared") => Ring(s).head = 0 /\ Ring(s).tail = 0

(* It has a complete header then, and what was sent and not taken.         *)
Serves(s) ==
  At(s, "serving") =>
    /\ Ring(s).fields = Fields
    /\ Ring(s).head = Len(target[s].sent) /\ Ring(s).tail = Len(session[s].got)
    /\ \A i \in 1 .. Ring(s).head : SlotAt(Ring(s), i) = EventNo(s, i)
    /\ target[s].at = "pushing" =>
         /\ target[s].head = Ring(s).head
         /\ SlotAt(Ring(s), Ring(s).head + 1) = EventNo(s, Ring(s).head + 1)

(* Found empty after the end of the target, it stays so.                   *)
AllShown(s) ==
  (session[s].stage \in {"serving", "done"} /\ session[s].look = "after") =>
    /\ TargetEnded(s)
    /\ Len(session[s].got) = Len(target[s].sent)

Finds(s) ==
  (/\ At(s, "serving") /\ session[s].mode = "run"
   /\ GivenIn(session[s].options) => NameOf(s).slash) =>
    /\ target[s].at \notin {"untraced", "crashed"}
    /\ target[s].at \in {"traced", "pushing"} => target[s].room

Faithful(s) == Taken(s) /\ Fresh(s) /\ Serves(s) /\ AllShown(s) /\ Finds(s)

Undisturbed == \A s \in Session \ disturbed : Faithful(s)

(* A monitor that is not serving, nor on the way to, has only to have      *)
(* taken the right events.                                                 *)
LEMMA EndFaithful ==
  ASSUME Typed, NEW s \in Session, Faithful(s), target' = target, session'[s].got = session[s].got,
         session'[s].stage \notin Setup \cup {"serving", "done"}
  PROVE  Faithful(s)'
<1>1. Taken(s)'
  BY DEF Faithful, Taken
<1>2. Fresh(s)' /\ Serves(s)' /\ AllShown(s)' /\ Finds(s)'
  BY DEF Fresh, Serves, AllShown, Finds, At, Setup
<1> QED BY <1>1, <1>2 DEF Faithful

LEMMA OthersFaithful ==
  ASSUME Typed, Held, TargetNamed, OneName, Seen, Alone, Undisturbed, NEW s \in Session, Told(s),
         NEW r \in Session \ {s}, r \notin disturbed'
  PROVE  Faithful(r)'
<1>1. r \notin disturbed /\ Faithful(r)
  BY SeenNext DEF Undisturbed
<1>2. /\ session'[r] = session[r] /\ target'[r] = target[r] /\ NameOf(r)' = NameOf(r)
  BY OthersStay
<1>3. Live(r) => Ring(r)' = Ring(r)
  <2> SUFFICES ASSUME Live(r) PROVE objects'[session[r].obj] = objects[session[r].obj]
    BY <1>2 DEF Ring
  <2>1. session[r].obj \in 1 .. Len(objects) /\ ~ Disturbed(r)
    BY <1>1 DEF Held, Seen
  <2>2. ~ (Live(s) /\ session[r].obj = session[s].obj)
    BY <2>1, SameName DEF Disturbed
  <2>3. ~ (Attached(s) /\ session[r].obj = target[s].obj)
    BY <2>1 DEF Disturbed
  <2> QED BY <2>1, <2>2, <2>3 DEF Told, ObjectsTold
<1>4. Taken(r)' /\ AllShown(r)' /\ Finds(r)'
  BY <1>1, <1>2 DEF Faithful, Taken, AllShown, TargetEnded, Finds, At
<1>5. Fresh(r)'
  BY <1>1, <1>2, <1>3 DEF Faithful, Fresh, At, Live, Setup
<1>6. Serves(r)'
  <2>1. CASE At(r, "serving")
    <3>1. Ring(r)' = Ring(r)
      BY <1>3, <2>1 DEF Live, At
    <3> QED BY <1>1, <1>2, <2>1, <3>1 DEF Faithful, Serves, At
  <2>2. CASE ~ At(r, "serving")
    BY <1>2, <2>2 DEF Serves, At
  <2> QED BY <2>1, <2>2
<1> QED BY <1>4, <1>5, <1>6 DEF Faithful

LEMMA NumberedNext ==
  ASSUME Typed, Held, Numbered, TargetNamed, Next
  PROVE  Numbered'
<1>1. PICK s \in Session : Start(s) \/ Create(s) \/ Serve(s) \/ Fault(s) \/ Trace(s)
  BY DEF Next
<1>2. Told(s)
  BY <1>1, StartStep, OpenStep, SetupStep, ValidateStep, TakeStep, LookStep, SpawnStep, FaultStep,
     OpenWriterStep, BindStep, PushStep
     DEF Create, Serve, Trace
<1> SUFFICES ASSUME NEW r \in Session
             PROVE  /\ \A i \in 1 .. Len(target'[r].sent) : target'[r].sent[i] = EventNo(r, i)
                    /\ target'[r].at = "none" => target'[r].sent = << >>
                    /\ session'[r].stage \in Before \cup Setup =>
                         session'[r].got = << >> /\ session'[r].look = "none"
  BY DEF Numbered, EventNo
<1>3. CASE r # s
  BY <1>2, <1>3, OthersStay DEF Numbered
<1>4. CASE r = s
  <2>1. ASSUME session'[s].stage \in Before \cup Setup
        PROVE  /\ session[s].stage \in Before \cup Setup
               /\ session'[s].got = session[s].got /\ session'[s].look = session[s].look
    <3>1. session[s].stage \in Before \cup Setup /\ session'[s].stage \notin {"serving", "failed"}
      BY <1>2, <2>1 DEF Told, StageTold, Before, Setup, At
    <3>2. CASE Start(s)
      BY <3>1, <3>2, StartTold
    <3>3. CASE Open(s)
      BY <3>1, <3>3, OpenTold DEF SessionGoes
    <3>4. CASE Truncate(s) \/ Clear(s) \/ \E field \in Fields : WriteField(s, field)
      BY <3>1, <3>4, TruncateTold, ClearTold, WriteFieldTold DEF SessionGoes
    <3>5. CASE Validate(s)
      BY <3>1, <3>5, ValidateTold DEF SessionGoes
    <3>6. CASE Take(s) \/ Look(s) \/ Drop(s) \/ SpawnFails(s) \/ ReaderPanics(s)
      BY <3>1, <3>6
         DEF Take, Look, Drop, SpawnFails, Launching, ReaderPanics, At, Before, Setup
    <3>7. CASE Spawn(s) \/ UserSpawns(s) \/ Trace(s)
      <4>1. session' = session
        BY <3>7 DEF Spawn, UserSpawns, Trace, OpenWriter, BindLength, BindCheck, BindCapacity,
                    PushSlot, PushHead, TargetEnds
      <4> QED BY <3>1, <4>1
    <3>8. CASE CreateFails(s) \/ Kill(s)
      <4>1. \E stage \in {"failed", "killed"} : Ends(s, stage)
        BY <3>8 DEF CreateFails, Kill
      <4>2. session'[s].stage \in {"failed", "killed"}
        BY <4>1, EndGoes DEF SessionGoes, Stages
      <4> QED BY <2>1, <4>2 DEF Before, Setup
    <3> QED BY <1>1, <3>2, <3>3, <3>4, <3>5, <3>6, <3>7, <3>8 DEF Create, Serve, Fault
  <2>2. /\ \A i \in 1 .. Len(target'[s].sent) : target'[s].sent[i] = EventNo(s, i)
        /\ target'[s].at = "none" => target'[s].sent = << >>
    <3>1. /\ \A i \in 1 .. Len(target[s].sent) : target[s].sent[i] = EventNo(s, i)
          /\ target[s].at = "none" => target[s].sent = << >>
      BY DEF Numbered
    <3>2. CASE target' = target
      BY <3>1, <3>2
    <3>3. CASE Spawn(s) \/ UserSpawns(s)
      BY <3>1, <3>3, SpawnTold DEF TargetGoes
    <3>4. CASE OpenWriter(s)
      BY <3>1, <3>4, OpenWriterTold DEF TargetGoes
    <3>5. CASE BindLength(s)
      BY <3>1, <3>5, BindLengthTold DEF TargetGoes
    <3>6. CASE BindCheck(s)
      BY <3>1, <3>6, BindCheckTold DEF TargetGoes
    <3>7. CASE BindCapacity(s)
      BY <3>1, <3>7, BindCapacityTold DEF TargetGoes
    <3>8. CASE PushSlot(s)
      BY <3>1, <3>8, PushSlotTold DEF TargetGoes
    <3>9. CASE PushHead(s)
      <4>1. /\ target'[s].sent = Append(target[s].sent, NextEvent(s))
            /\ target'[s].at = "traced"
        BY <3>9, PushHeadTold DEF TargetGoes
      <4>2. target[s].sent \in Seq(EventType)
        BY EventTyped
      <4>3. NextEvent(s) = EventNo(s, Len(target[s].sent) + 1)
        BY DEF NextEvent, EventNo
      <4> QED BY <3>1, <4>1, <4>2, <4>3
    <3>a. CASE TargetEnds(s)
      BY <3>1, <3>a, TargetEndsTold DEF TargetGoes
    <3>b. CASE Start(s) \/ Create(s) \/ Take(s) \/ Look(s) \/ Drop(s) \/ Fault(s)
      <4>1. target' = target
        BY <3>b DEF Start, Create, Open, Truncate, Clear, WriteField, Validate, Take, Look,
                    Drop, Fault, CreateFails, ReaderPanics, SpawnFails, Kill
      <4> QED BY <3>2, <4>1
    <3> QED BY <1>1, <3>3, <3>4, <3>5, <3>6, <3>7, <3>8, <3>9, <3>a, <3>b DEF Serve, Trace
  <2> QED BY <1>4, <2>1, <2>2 DEF Numbered
<1> QED BY <1>3, <1>4

(* Until it serves, an undisturbed monitor has its object to itself.       *)
LEMMA NoTargetYet ==
  ASSUME Seen, Alone, NEW s \in Session \ disturbed, session[s].stage \in Setup
  PROVE  ~ Attached(s)
<1>1. Live(s) /\ ~ At(s, "serving") /\ ~ Disturbed(s)
  BY DEF Live, At, Setup, Seen
<1> QED BY <1>1 DEF Alone, Disturbed

LEMMA StartFaithful ==
  ASSUME Typed, NEW s \in Session, Faithful(s), Start(s)
  PROVE  Faithful(s)'
<1>1. /\ session'[s].stage \notin Setup \cup {"serving", "done"} /\ target' = target
      /\ session'[s].got = session[s].got
  BY StartTold DEF Setup, Start
<1> QED BY <1>1, EndFaithful

LEMMA OpenFaithful ==
  ASSUME Typed, Held, Numbered, TargetNamed, NEW s \in Session, Faithful(s), Open(s)
  PROVE  Faithful(s)'
<1>1. /\ session'[s].stage = "opened" /\ session'[s].got = session[s].got /\ target' = target
      /\ At(s, "session")
  BY OpenTold DEF SessionGoes, Open
<1>2. target[s].sent = << >>
  BY <1>1 DEF Numbered, TargetNamed, At, Before
<1>3. Taken(s)' /\ Fresh(s)'
  BY <1>1, <1>2 DEF Faithful, Taken, Fresh, At
<1>4. Serves(s)' /\ AllShown(s)' /\ Finds(s)'
  BY <1>1 DEF Serves, AllShown, Finds, At
<1> QED BY <1>3, <1>4 DEF Faithful

LEMMA SetupFaithful ==
  ASSUME Typed, Held, NEW s \in Session, Faithful(s),
         Truncate(s) \/ Clear(s) \/ \E field \in Fields : WriteField(s, field)
  PROVE  Faithful(s)'
<1>1. /\ target' = target /\ session[s].stage \in Setup
  BY DEF Truncate, Clear, WriteField, At, Setup
<1>2. /\ session'[s].stage \in {"sized", "cleared"} /\ session'[s].got = session[s].got
      /\ session'[s].stage = "cleared" =>
           objects'[session'[s].obj].head = 0 /\ objects'[session'[s].obj].tail = 0
  <2>1. CASE Truncate(s)
    BY <2>1, TruncateTold DEF SessionGoes
  <2>2. CASE Clear(s)
    BY <2>2, ClearTold DEF SessionGoes, ObjectGoes
  <2>3. CASE \E field \in Fields : WriteField(s, field)
    <3>1. PICK field \in Fields : WriteField(s, field)
      BY <2>3
    <3>2. Ring(s).head = 0 /\ Ring(s).tail = 0
      BY <3>1 DEF WriteField, Faithful, Fresh
    <3> QED BY <3>1, <3>2, WriteFieldTold DEF SessionGoes, ObjectGoes
  <2> QED BY <2>1, <2>2, <2>3
<1>3. Taken(s)' /\ Fresh(s)'
  BY <1>1, <1>2 DEF Faithful, Taken, Fresh, At, Setup, Ring
<1>4. Serves(s)' /\ AllShown(s)' /\ Finds(s)'
  BY <1>2 DEF Serves, AllShown, Finds, At
<1> QED BY <1>3, <1>4 DEF Faithful

LEMMA ValidateFaithful ==
  ASSUME Typed, Held, Numbered, TargetNamed, Seen, Alone, NEW s \in Session \ disturbed,
         Faithful(s), Validate(s)
  PROVE  Faithful(s)'
<1>1. /\ target' = target /\ objects' = objects /\ At(s, "cleared")
      /\ session[s].stage \in Setup
  BY DEF Validate, At, Setup
<1>2. CASE Ring(s).fields # Fields
  <2>1. session'[s].stage = "failed" /\ session'[s].got = session[s].got
    BY <1>2, ValidateTold DEF SessionGoes
  <2> QED BY <1>1, <2>1, EndFaithful DEF Setup
<1>3. CASE Ring(s).fields = Fields
  <2>1. /\ session'[s].stage = "serving" /\ session'[s].got = session[s].got
        /\ session'[s].obj = session[s].obj /\ session'[s].mode = session[s].mode
        /\ session'[s].look = session[s].look
    BY <1>3, ValidateTold DEF SessionGoes
  <2>2. Ring(s)' = Ring(s)
    BY <1>1, <2>1 DEF Ring
  <2>3. /\ target[s].sent = << >> /\ session[s].got = << >> /\ session[s].look = "none"
        /\ Ring(s).head = 0 /\ Ring(s).tail = 0 /\ ~ Attached(s)
    BY <1>1, NoTargetYet DEF Faithful, Fresh, Numbered
  <2>4. Taken(s)' /\ Fresh(s)' /\ AllShown(s)'
    BY <1>1, <2>1, <2>3 DEF Faithful, Taken, Fresh, AllShown, At, Setup
  <2>5. Serves(s)'
    <3>1. target'[s].at # "pushing"
      BY <1>1, <2>3 DEF Attached
    <3>2. Ring(s).head = Len(target[s].sent) /\ Ring(s).tail = Len(session[s].got)
      BY <2>3
    <3> QED BY <1>1, <1>3, <2>1, <2>2, <2>3, <3>1, <3>2 DEF Serves
  <2>6. Finds(s)'
    <3>1. session[s].mode = "run" => target[s].at = "none"
      BY <1>1 DEF TargetNamed
    <3> QED BY <1>1, <2>1, <3>1 DEF Finds
  <2> QED BY <2>4, <2>5, <2>6 DEF Faithful
<1> QED BY <1>2, <1>3

LEMMA TakeFaithful ==
  ASSUME Typed, Held, Typed', NEW s \in Session, Faithful(s), Take(s)
  PROVE  Faithful(s)'
<1>1. /\ At(s, "serving") /\ Live(s) /\ target' = target /\ Ring(s).tail # Ring(s).head
  BY DEF Take, Live, At
<1>2. /\ session'[s].stage = "serving" /\ session'[s].obj = session[s].obj
      /\ session'[s].mode = session[s].mode /\ session'[s].options = session[s].options
      /\ session'[s].got = Append(session[s].got, SlotAt(Ring(s), Ring(s).tail + 1))
      /\ session'[s].look = "none"
      /\ Ring(s)'.fields = Ring(s).fields /\ Ring(s)'.head = Ring(s).head
      /\ Ring(s)'.tail = Ring(s).tail + 1 /\ Ring(s)'.slot = Ring(s).slot
  BY TakeTold DEF SessionGoes, ObjectGoes, Ring
<1>3. /\ Ring(s).fields = Fields
      /\ Ring(s).head = Len(target[s].sent) /\ Ring(s).tail = Len(session[s].got)
      /\ \A i \in 1 .. Ring(s).head : SlotAt(Ring(s), i) = EventNo(s, i)
      /\ Len(session[s].got) <= Len(target[s].sent)
      /\ \A i \in 1 .. Len(session[s].got) : session[s].got[i] = EventNo(s, i)
  BY <1>1 DEF Faithful, Serves, Taken
<1>4. /\ session[s].got \in Seq(EventType) /\ target[s].sent \in Seq(EventType)
      /\ Len(session[s].got) \in Nat /\ Len(target[s].sent) \in Nat
  BY DEF Typed, SessionType, TargetType
<1>5. Ring(s).tail + 1 \in 1 .. Ring(s).head
  BY <1>1, <1>3, <1>4
<1>6. session'[s].got = Append(session[s].got, EventNo(s, Len(session[s].got) + 1))
  BY <1>2, <1>3, <1>5
<1>7. /\ Len(session'[s].got) = Len(session[s].got) + 1
      /\ \A i \in 1 .. Len(session'[s].got) : session'[s].got[i] = EventNo(s, i)
  BY <1>3, <1>4, <1>6
<1>8. Taken(s)'
  BY <1>1, <1>3, <1>4, <1>5, <1>7 DEF Taken, EventNo
<1>9. Fresh(s)' /\ AllShown(s)'
  BY <1>2 DEF Fresh, AllShown, At, Setup
<1>10. Serves(s)'
  <2>1. \A i : SlotAt(Ring(s), i)' = SlotAt(Ring(s), i)
    BY <1>2 DEF SlotAt, Zero
  <2> QED BY <1>1, <1>2, <1>3, <1>7, <2>1 DEF Faithful, Serves, EventNo, At
<1>11. Finds(s)'
  <2>1. NameOf(s)' = NameOf(s)
    BY <1>2 DEF NameOf, GeneratedName
  <2> QED BY <1>1, <1>2, <2>1 DEF Faithful, Finds, At
<1> QED BY <1>8, <1>9, <1>10, <1>11 DEF Faithful

LEMMA LookFaithful ==
  ASSUME Typed, NEW s \in Session, Faithful(s), Look(s)
  PROVE  Faithful(s)'
<1>1. /\ At(s, "serving") /\ target' = target /\ objects' = objects
      /\ Ring(s).tail = Ring(s).head
  BY DEF Look, SeesEmpty
<1>2. /\ session'[s].stage = "serving" /\ session'[s].obj = session[s].obj
      /\ session'[s].mode = session[s].mode /\ session'[s].options = session[s].options
      /\ session'[s].got = session[s].got
      /\ session'[s].look = "after" => TargetEnded(s)
  BY LookTold DEF SessionGoes
<1>3. Ring(s)' = Ring(s) /\ NameOf(s)' = NameOf(s)
  BY <1>1, <1>2 DEF Ring, NameOf, GeneratedName
<1>4. Taken(s)' /\ Fresh(s)' /\ Finds(s)'
  BY <1>1, <1>2, <1>3 DEF Faithful, Taken, Fresh, Finds, At, Setup
<1>5. Serves(s)'
  BY <1>1, <1>2, <1>3 DEF Faithful, Serves, At
<1>6. Len(session[s].got) = Len(target[s].sent)
  BY <1>1 DEF Faithful, Serves
<1>7. AllShown(s)'
  BY <1>1, <1>2, <1>6 DEF AllShown, TargetEnded
<1> QED BY <1>4, <1>5, <1>7 DEF Faithful

LEMMA DropFaithful ==
  ASSUME Typed, NEW s \in Session, Faithful(s), Drop(s) \/ Fault(s)
  PROVE  Faithful(s)'
<1>1. CASE Drop(s)
  <2>1. /\ session'[s].stage = "done" /\ session'[s].got = session[s].got
        /\ session'[s].look = session[s].look /\ target' = target /\ At(s, "serving")
    BY <1>1, EndGoes DEF Drop, SessionGoes, Stages
  <2>2. Taken(s)' /\ Fresh(s)' /\ Serves(s)' /\ Finds(s)'
    BY <2>1 DEF Faithful, Taken, Fresh, Serves, Finds, At, Setup
  <2>3. AllShown(s)'
    BY <2>1 DEF Faithful, AllShown, TargetEnded, At
  <2> QED BY <2>2, <2>3 DEF Faithful
<1>2. CASE Fault(s)
  <2>1. PICK stage \in {"failed", "exited", "killed", "panicked"} : Ends(s, stage)
    BY <1>2 DEF Fault, CreateFails, ReaderPanics, SpawnFails, Kill
  <2>2. session'[s].stage = stage /\ session'[s].got = session[s].got
    BY <2>1, EndGoes DEF SessionGoes, Stages
  <2>3. target' = target
    BY <1>2 DEF Fault, CreateFails, ReaderPanics, SpawnFails, Kill
  <2> QED BY <2>2, <2>3, EndFaithful DEF Setup
<1> QED BY <1>1, <1>2

(* A step of the target that sends nothing.                                *)
LEMMA QuietFaithful ==
  ASSUME NEW s \in Session, Faithful(s), session' = session, objects' = objects,
         target'[s].sent = target[s].sent, target'[s].at # "pushing",
         target[s].at \in {"over", "crashed"} => target'[s].at = target[s].at,
         Finds(s)'
  PROVE  Faithful(s)'
<1>1. Ring(s)' = Ring(s)
  BY DEF Ring
<1>2. Taken(s)' /\ Fresh(s)' /\ AllShown(s)'
  BY <1>1 DEF Faithful, Taken, Fresh, AllShown, TargetEnded, At
<1>3. Serves(s)'
  BY <1>1 DEF Faithful, Serves, At
<1> QED BY <1>2, <1>3 DEF Faithful

LEMMA LaunchFaithful ==
  ASSUME Typed, Held, NEW s \in Session, Faithful(s), Spawn(s) \/ UserSpawns(s) \/ TargetEnds(s)
  PROVE  Faithful(s)'
<1>1. /\ session' = session /\ objects' = objects
      /\ target[s].at \notin {"over", "crashed"}
  BY DEF Spawn, Launching, UserSpawns, TargetEnds
<1>2. target'[s].sent = target[s].sent /\ target'[s].at \in {"launched", "over"}
  BY SpawnTold, TargetEndsTold DEF TargetGoes
<1>3. Finds(s)'
  BY <1>2 DEF Finds
<1> QED BY <1>1, <1>2, <1>3, QuietFaithful

LEMMA OpenWriterFaithful ==
  ASSUME Typed, Held, TargetNamed, Alone, NEW s \in Session \ disturbed, Faithful(s),
         OpenWriter(s)
  PROVE  Faithful(s)'
<1>1. session' = session /\ objects' = objects /\ target[s].at = "launched"
  BY DEF OpenWriter
<1>2. target'[s].sent = target[s].sent /\ target'[s].at \in {"mapped", "untraced"}
  BY OpenWriterTold DEF TargetGoes
<1>3. Finds(s)'
  <2> SUFFICES ASSUME At(s, "serving"), session[s].mode = "run",
                      GivenIn(session[s].options) => NameOf(s).slash
               PROVE  target'[s].at = "mapped"
    <3>1. NameOf(s)' = NameOf(s)
      BY <1>1 DEF NameOf, GeneratedName
    <3> QED BY <1>1, <3>1 DEF Finds, At
  <2>1. target[s].name = NameOf(s)
    BY <1>1 DEF TargetNamed
  <2>2. NameOf(s).slash /\ NameOf(s) = Key(s)
    BY SessionNames
  <2>3. Key(s) \in DOMAIN linked
    BY DEF Alone, Live, At
  <2> QED BY <2>1, <2>2, <2>3, OpenWriterTold DEF TargetGoes
<1> QED BY <1>1, <1>2, <1>3, QuietFaithful

(* The target of a monitor that serves has mapped the object of it.        *)
LEMMA MapsRing ==
  ASSUME Held, Alone, NEW s \in Session \ disturbed, At(s, "serving"), Attached(s)
  PROVE  Mapped(s) = Ring(s) /\ target[s].obj = session[s].obj /\ Ring(s).full
<1>1. Live(s) /\ ~ At(s, "opened")
  BY DEF Live, At
<1> QED BY <1>1 DEF Alone, Mapped, Ring, Held

LEMMA BindFaithful ==
  ASSUME Typed, Held, Alone, NEW s \in Session \ disturbed, Faithful(s),
         BindLength(s) \/ BindCheck(s) \/ BindCapacity(s)
  PROVE  Faithful(s)'
<1>1. /\ session' = session /\ objects' = objects /\ Attached(s)
      /\ target[s].at \notin {"over", "crashed"}
  BY DEF BindLength, BindCheck, BindCapacity, Attached
<1>2. target'[s].sent = target[s].sent /\ target'[s].at # "pushing"
  BY BindLengthTold, BindCheckTold, BindCapacityTold DEF TargetGoes
<1>3. Finds(s)'
  <2> SUFFICES ASSUME At(s, "serving")
               PROVE  /\ target'[s].at \notin {"untraced", "crashed"}
                      /\ target'[s].at \in {"traced", "pushing"} => target'[s].room
    BY <1>1 DEF Finds, At
  <2>1. Mapped(s).full /\ Mapped(s).fields = Fields
    BY <1>1, MapsRing DEF Faithful, Serves
  <2>2. CASE BindLength(s)
    BY <2>1, <2>2, BindLengthTold DEF TargetGoes
  <2>3. CASE BindCheck(s)
    BY <2>1, <2>3, BindCheckTold DEF TargetGoes, Fields
  <2>4. CASE BindCapacity(s)
    BY <2>1, <2>4, BindCapacityTold DEF TargetGoes, Fields
  <2> QED BY <2>2, <2>3, <2>4
<1> QED BY <1>1, <1>2, <1>3, QuietFaithful

LEMMA PushSlotFaithful ==
  ASSUME Typed, Held, Seen, Alone, NEW s \in Session \ disturbed, Faithful(s), PushSlot(s)
  PROVE  Faithful(s)'
<1>1. session' = session /\ Attached(s) /\ target[s].at = "traced" /\ target[s].room
  BY DEF PushSlot, Attached
<1>2. /\ target'[s].sent = target[s].sent /\ target'[s].at = "pushing"
      /\ target'[s].room = target[s].room /\ target'[s].head = Mapped(s).head
  BY PushSlotTold DEF TargetGoes
<1>3. session[s].stage \notin Setup
  BY <1>1, NoTargetYet
<1>4. Taken(s)' /\ Fresh(s)' /\ AllShown(s)'
  BY <1>1, <1>2, <1>3 DEF Faithful, Taken, Fresh, AllShown, TargetEnded, At, Setup
<1>5. Finds(s)'
  BY <1>1, <1>2 DEF Finds
<1>6. Serves(s)'
  <2> SUFFICES ASSUME At(s, "serving") PROVE Serves(s)'
    BY <1>1 DEF Serves, At
  <2> DEFINE i == session[s].obj
             n == Len(target[s].sent)
  <2>1. Mapped(s) = objects[i] /\ target[s].obj = i /\ Ring(s) = objects[i]
    BY <1>1, MapsRing DEF Ring
  <2>2. /\ objects'[i].fields = objects[i].fields /\ objects'[i].head = objects[i].head
        /\ objects'[i].tail = objects[i].tail
        /\ \A j \in Nat \ {0} :
             SlotAt(objects'[i], j) = IF j = objects[i].head + 1 THEN NextEvent(s)
                                      ELSE SlotAt(objects[i], j)
    BY <2>1, PushSlotTold DEF PushesSlot
  <2>3. /\ objects[i].fields = Fields /\ objects[i].head = n
        /\ objects[i].tail = Len(session[s].got)
        /\ \A j \in 1 .. objects[i].head : SlotAt(objects[i], j) = EventNo(s, j)
    BY <2>1 DEF Faithful, Serves
  <2>4. n \in Nat /\ NextEvent(s) = EventNo(s, n + 1)
    <3>1. target[s].sent \in Seq(EventType)
      BY EventTyped
    <3> QED BY <3>1 DEF NextEvent, EventNo
  <2> HIDE DEF n
  <2>5. /\ \A j \in 1 .. objects'[i].head : SlotAt(objects'[i], j) = EventNo(s, j)
        /\ SlotAt(objects'[i], objects'[i].head + 1) = EventNo(s, objects'[i].head + 1)
    BY <2>2, <2>3, <2>4
  <2>6. Ring(s)' = objects'[i]
    BY <1>1 DEF Ring
  <2>7. /\ Ring(s)'.fields = Fields
        /\ Ring(s)'.head = Len(target'[s].sent) /\ Ring(s)'.tail = Len(session'[s].got)
        /\ \A j \in 1 .. Ring(s)'.head : SlotAt(Ring(s)', j) = EventNo(s, j)
        /\ target'[s].head = Ring(s)'.head
        /\ SlotAt(Ring(s)', Ring(s)'.head + 1) = EventNo(s, Ring(s)'.head + 1)
    BY <1>1, <1>2, <2>1, <2>2, <2>3, <2>5, <2>6 DEF n
  <2> QED BY <2>7 DEF Serves, SlotAt, Zero, EventNo
<1> QED BY <1>4, <1>5, <1>6 DEF Faithful

LEMMA PushHeadFaithful ==
  ASSUME Typed, Held, Seen, Alone, NEW s \in Session \ disturbed, Faithful(s), PushHead(s)
  PROVE  Faithful(s)'
<1>1. session' = session /\ Attached(s) /\ target[s].at = "pushing"
  BY DEF PushHead, Attached
<1>2. /\ target'[s].sent = Append(target[s].sent, NextEvent(s)) /\ target'[s].at = "traced"
      /\ target'[s].room = target[s].room
  BY PushHeadTold DEF TargetGoes
<1>3. session[s].stage \notin Setup
  BY <1>1, NoTargetYet
<1>4. /\ target[s].sent \in Seq(EventType) /\ session[s].got \in Seq(EventType)
      /\ Len(target[s].sent) \in Nat /\ Len(session[s].got) \in Nat
      /\ Len(target'[s].sent) = Len(target[s].sent) + 1
  BY <1>2, EventTyped DEF Typed, SessionType
<1>5. Taken(s)'
  <2>1. /\ Len(session[s].got) <= Len(target[s].sent)
        /\ \A i \in 1 .. Len(session[s].got) : session[s].got[i] = EventNo(s, i)
    BY DEF Faithful, Taken
  <2>2. Len(session[s].got) <= Len(target'[s].sent)
    BY <1>4, <2>1
  <2> QED BY <1>1, <2>1, <2>2 DEF Taken, EventNo
<1>6. Fresh(s)' /\ AllShown(s)'
  <2>1. ~ (session[s].stage \in {"serving", "done"} /\ session[s].look = "after")
    BY <1>1 DEF Faithful, AllShown, TargetEnded
  <2>2. ~ At(s, "cleared")
    BY <1>3 DEF At, Setup
  <2> QED BY <1>1, <1>3, <2>1, <2>2 DEF Fresh, AllShown, At
<1>7. Finds(s)'
  <2>1. NameOf(s)' = NameOf(s)
    BY <1>1 DEF NameOf, GeneratedName
  <2> QED BY <1>1, <1>2, <2>1 DEF Faithful, Finds, At
<1>8. Serves(s)'
  <2> SUFFICES ASSUME At(s, "serving") PROVE Serves(s)'
    BY <1>1 DEF Serves, At
  <2> DEFINE i == session[s].obj
             n == Len(target[s].sent)
  <2>1. Mapped(s) = objects[i] /\ target[s].obj = i /\ Ring(s) = objects[i]
    BY <1>1, MapsRing DEF Ring
  <2>2. /\ objects'[i].fields = objects[i].fields /\ objects'[i].head = target[s].head + 1
        /\ objects'[i].tail = objects[i].tail /\ objects'[i].slot = objects[i].slot
    BY <2>1, PushHeadTold DEF ObjectGoes
  <2>3. /\ objects[i].fields = Fields /\ objects[i].head = n
        /\ objects[i].tail = Len(session[s].got)
        /\ \A j \in 1 .. objects[i].head : SlotAt(objects[i], j) = EventNo(s, j)
        /\ target[s].head = objects[i].head
        /\ SlotAt(objects[i], objects[i].head + 1) = EventNo(s, objects[i].head + 1)
    BY <1>1, <2>1 DEF Faithful, Serves
  <2>4. \A j : SlotAt(objects'[i], j) = SlotAt(objects[i], j)
    BY <2>2 DEF SlotAt
  <2>5. n \in Nat /\ Len(target'[s].sent) = n + 1
    BY <1>4
  <2> HIDE DEF n
  <2>6. \A j \in 1 .. objects'[i].head : SlotAt(objects'[i], j) = EventNo(s, j)
    BY <2>2, <2>3, <2>4, <2>5
  <2>7. Ring(s)' = objects'[i]
    BY <1>1 DEF Ring
  <2>8. /\ Ring(s)'.fields = Fields
        /\ Ring(s)'.head = Len(target'[s].sent) /\ Ring(s)'.tail = Len(session'[s].got)
        /\ \A j \in 1 .. Ring(s)'.head : SlotAt(Ring(s)', j) = EventNo(s, j)
    BY <1>1, <2>2, <2>3, <2>5, <2>6, <2>7
  <2>9. target'[s].at # "pushing"
    BY <1>2
  <2> QED BY <2>8, <2>9 DEF Serves, SlotAt, Zero, EventNo
<1> QED BY <1>5, <1>6, <1>7, <1>8 DEF Faithful

LEMMA UndisturbedNext ==
  ASSUME Typed, Held, Numbered, TargetNamed, OneName, Seen, Alone, Undisturbed, Next
  PROVE  Undisturbed'
<1>1. PICK s \in Session : Start(s) \/ Create(s) \/ Serve(s) \/ Fault(s) \/ Trace(s)
  BY DEF Next
<1>2. Told(s) /\ Typed'
  BY <1>1, StartStep, OpenStep, SetupStep, ValidateStep, TakeStep, LookStep, SpawnStep, FaultStep,
     OpenWriterStep, BindStep, PushStep
     DEF Create, Serve, Trace
<1>3. ASSUME NEW r \in Session \ {s}, r \notin disturbed' PROVE Faithful(r)'
  BY <1>2, <1>3, OthersFaithful
<1>4. ASSUME s \notin disturbed' PROVE Faithful(s)'
  <2>1. s \in Session \ disturbed /\ Faithful(s)
    BY <1>2, <1>4, SeenNext DEF Undisturbed
  <2>2. CASE Start(s) \/ Create(s) \/ Take(s) \/ Look(s) \/ Drop(s) \/ Fault(s)
    BY <1>2, <2>1, <2>2, StartFaithful, OpenFaithful, SetupFaithful, ValidateFaithful,
       TakeFaithful, LookFaithful, DropFaithful
       DEF Create
  <2>3. CASE Spawn(s) \/ UserSpawns(s) \/ Trace(s)
    BY <2>1, <2>3, LaunchFaithful, OpenWriterFaithful, BindFaithful, PushSlotFaithful,
       PushHeadFaithful
       DEF Trace
  <2> QED BY <1>1, <2>2, <2>3 DEF Serve
<1>5. ASSUME NEW r \in Session \ disturbed' PROVE Faithful(r)'
  BY <1>3, <1>4, <1>5
<1>6. Undisturbed' <=> \A r \in Session \ disturbed' : Faithful(r)'
  BY DEF Undisturbed
<1> QED BY <1>5, <1>6

-----------------------------------------------------------------------------
(* The inductive invariant                                                 *)

Inv ==
  /\ Typed /\ Held /\ NoLeftover
  /\ TargetNamed /\ OneName /\ Seen /\ GeneratedUndisturbed /\ Alone
  /\ Numbered /\ Undisturbed

LEMMA InitInv == Init => Inv
<1> SUFFICES ASSUME Init PROVE Inv
  OBVIOUS
<1>1. /\ objects = << >> /\ linked = << >> /\ disturbed = {}
      /\ \A s \in Session :
           /\ session[s].stage = "new" /\ session[s].mode = "none"
           /\ session[s].options = NoOptions /\ session[s].obj = 0
           /\ session[s].written = {} /\ session[s].got = << >> /\ session[s].look = "none"
           /\ target[s] = NoTarget
  BY DEF Init
<1>2. /\ NoTarget.at = "none" /\ NoTarget.sent = << >>
  BY DEF NoTarget
<1>3. DOMAIN linked = {} /\ Len(objects) = 0
  BY <1>1
<1>4. Typed
  <2>1. << >> \in Seq(EventType)
    OBVIOUS
  <2>2. Name(FALSE, "") \in NameType
    BY DEF Name, NameType
  <2>3. NoTarget \in TargetType
    BY <2>1, <2>2 DEF NoTarget, TargetType, Places
  <2>4. target \in [Session -> TargetType]
    BY <2>3 DEF Init
  <2>5. [stage |-> "new", mode |-> "none", options |-> NoOptions, obj |-> 0, written |-> {},
         got |-> << >>, look |-> "none"] \in SessionType
    BY <2>1 DEF SessionType, Looks, Stages, Before, Modes, Options
  <2>6. session \in [Session -> SessionType]
    BY <2>5 DEF Init
  <2>7. LinkedType
    <3>1. linked = [n \in {} |-> linked[n]]
      BY <1>1
    <3> QED BY <1>3, <3>1 DEF LinkedType
  <2> QED BY <1>1, <1>3, <2>4, <2>6, <2>7 DEF Typed
<1>5. \A s \in Session : ~ Live(s) /\ ~ Attached(s) /\ At(s, "new")
  BY <1>1, <1>2 DEF Live, Attached, At, Setup
<1>6. Held /\ NoLeftover /\ Seen /\ GeneratedUndisturbed /\ Alone
  BY <1>1, <1>3, <1>5 DEF Held, NoLeftover, Seen, Disturbed, GeneratedUndisturbed, Alone
<1>7. TargetNamed /\ OneName
  BY <1>1, <1>2, <1>3, <1>5 DEF TargetNamed, OneName, Uses
<1>8. Numbered
  BY <1>1, <1>2 DEF Numbered
<1>9. ASSUME NEW s \in Session PROVE Faithful(s)
  <2>1. Taken(s)
    BY <1>1, <1>2 DEF Taken
  <2>2. Fresh(s) /\ Serves(s) /\ AllShown(s) /\ Finds(s)
    BY <1>1 DEF Fresh, Serves, AllShown, Finds, At, Setup
  <2> QED BY <2>1, <2>2 DEF Faithful
<1> QED BY <1>4, <1>6, <1>7, <1>8, <1>9 DEF Inv, Undisturbed

LEMMA InvNext == Inv /\ Next => Inv'
<1> SUFFICES ASSUME Inv, Next PROVE Inv'
  OBVIOUS
<1>1. /\ Typed /\ Held /\ NoLeftover /\ TargetNamed /\ OneName /\ Seen
      /\ GeneratedUndisturbed /\ Alone /\ Numbered /\ Undisturbed
  BY DEF Inv
<1>2. Typed' /\ \E s \in Session : Told(s)
  BY <1>1, NextTold
<1>3. PICK s \in Session : Told(s)
  BY <1>2
<1>4. Held' /\ NoLeftover' /\ TargetNamed' /\ OneName' /\ Seen' /\ Alone'
  BY <1>1, <1>2, <1>3, HeldNext, NoLeftoverNext, TargetNamedNext, OneNameNext, SeenNext,
     AloneNext
<1>5. GeneratedUndisturbed'
  BY <1>1, <1>3, <1>4, GeneratedNext
<1>6. Numbered' /\ Undisturbed'
  BY <1>1, NumberedNext, UndisturbedNext
<1> QED BY <1>2, <1>4, <1>5, <1>6 DEF Inv

LEMMA InvStutter == Inv /\ UNCHANGED vars => Inv'
<1> SUFFICES ASSUME Inv, UNCHANGED vars PROVE Inv'
  OBVIOUS
<1>1. /\ objects' = objects /\ linked' = linked /\ session' = session /\ target' = target
      /\ disturbed' = disturbed
  BY DEF vars
<1>2. Typed' /\ Held' /\ NoLeftover'
  BY <1>1 DEF Inv, Typed, LinkedType, Held, NoLeftover, Live, Attached, Ring, At, Key, NameOf,
              GeneratedName
<1>3. TargetNamed' /\ OneName'
  <2>1. \A s \in Session : /\ Key(s)' = Key(s) /\ NameOf(s)' = NameOf(s)
                           /\ Live(s)' <=> Live(s)
                           /\ Attached(s)' <=> Attached(s)
    BY <1>1 DEF Key, NameOf, GeneratedName, Live, Attached
  <2>2. TargetNamed'
    BY <1>1, <2>1 DEF Inv, TargetNamed
  <2>3. Uses' = Uses
    BY <1>1, <2>1 DEF Uses
  <2> QED BY <2>2, <2>3 DEF Inv, OneName
<1>4. Seen' /\ GeneratedUndisturbed' /\ Alone'
  BY <1>1 DEF Inv, Seen, GeneratedUndisturbed, Alone, Disturbed, Live, Attached, At, Key, NameOf,
              GeneratedName
<1>5. Numbered'
  BY <1>1 DEF Inv, Numbered, EventNo
<1>6. ASSUME NEW s \in Session \ disturbed PROVE Faithful(s)'
  <2>1. Ring(s)' = Ring(s) /\ NameOf(s)' = NameOf(s) /\ Faithful(s)
    BY <1>1 DEF Inv, Undisturbed, Ring, NameOf, GeneratedName
  <2>2. Taken(s)' /\ Fresh(s)' /\ AllShown(s)' /\ Finds(s)'
    BY <1>1, <2>1 DEF Faithful, Taken, Fresh, AllShown, TargetEnded, Finds, At
  <2>3. Serves(s)'
    BY <1>1, <2>1 DEF Faithful, Serves, At
  <2> QED BY <2>2, <2>3 DEF Faithful
<1>7. Undisturbed'
  BY <1>1, <1>6 DEF Undisturbed
<1> QED BY <1>2, <1>3, <1>4, <1>5, <1>7 DEF Inv

LEMMA InvAlways == Spec => []Inv
<1>1. Inv /\ [Next]_vars => Inv'
  BY InvNext, InvStutter
<1> QED BY <1>1, InitInv, PTL DEF Spec

-----------------------------------------------------------------------------
(* Who has a mapping maps an object that exists, whose memory is there     *)
(* once the monitor has given it a size: shm_open, ftruncate and mmap, and *)
(* ho_platform_open_writer.                                                *)
THEOREM SharedRingTypes == Spec => []TypeOK
<1>1. Inv => TypeOK
  <2> SUFFICES ASSUME Inv PROVE TypeOK
    OBVIOUS
  <2>1. Typed /\ Held
    BY DEF Inv
  <2>2. \A i \in DOMAIN objects :
          /\ objects[i].full \in BOOLEAN /\ objects[i].fields \subseteq Fields
          /\ objects[i].head \in Nat /\ objects[i].tail \in Nat
    <3>1. \A i \in DOMAIN objects : objects[i] \in ObjectType
      BY <2>1 DEF Typed
    <3> QED BY <3>1 DEF ObjectType
  <2>3. \A name \in DOMAIN linked : name.slash /\ linked[name] \in DOMAIN objects
    BY <2>1 DEF Typed, LinkedType
  <2>4. DOMAIN objects = 1 .. Len(objects)
    BY <2>1 DEF Typed
  <2>5. ASSUME NEW s \in Session
        PROVE  /\ session[s].stage \in Setup \cup {"new", "help", "error", "session", "serving",
                                                  "failed", "done", "exited", "killed",
                                                  "panicked"}
               /\ session[s].look \in {"none", "before", "after"}
               /\ Live(s) => /\ session[s].obj \in DOMAIN objects
                             /\ Ring(s).full \/ At(s, "opened")
               /\ target[s].at \in {"none", "launched", "mapped", "sized", "checked", "traced",
                                   "pushing", "untraced", "crashed", "over"}
               /\ Attached(s) => target[s].obj \in DOMAIN objects
    <3>1. session[s].stage \in Stages /\ session[s].look \in Looks /\ target[s].at \in Places
      BY <2>1 DEF Typed, SessionType, TargetType
    <3> QED BY <2>1, <2>4, <3>1 DEF Stages, Looks, Before, Places, Held
  <2> QED BY <2>2, <2>3, <2>5 DEF TypeOK
<1> QED BY <1>1, InvAlways, PTL

(* A name stays in the file system only while its monitor is there, or     *)
(* because it was killed or exited without its destructors: SharedRing's   *)
(* drop, and the error paths of map, take it back.                         *)
THEOREM NoNameLeft == Spec => []NoLeftover
<1>1. Inv => NoLeftover
  BY DEF Inv
<1> QED BY <1>1, InvAlways, PTL

(* A target that `run` launches finds the ring of its monitor, complete:   *)
(* the name that spawn_target hands on leads ho_platform_open_writer to    *)
(* the object, and validate came before the launch.                        *)
THEOREM RunsFindTheRing == Spec => []RunFindsRing
<1>1. Inv => RunFindsRing
  <2> SUFFICES ASSUME Inv, NEW s \in Session,
                      At(s, "serving"), session[s].mode = "run", s \notin disturbed,
                      session[s].options.shm_name # << >> => NameOf(s).slash
               PROVE  /\ target[s].at \notin {"untraced", "crashed"}
                      /\ target[s].at \in {"traced", "pushing"} => target[s].room
    BY DEF RunFindsRing
  <2>1. Finds(s)
    BY DEF Inv, Undisturbed, Faithful
  <2> QED BY <2>1 DEF Finds, GivenIn
<1> QED BY <1>1, InvAlways, PTL

(* A monitor shows the events of its own target, from the first on, whole  *)
(* and in order, whatever monitors with generated names run beside it or   *)
(* were killed before; one that ends after it looked once more and found   *)
(* the ring empty when its target was over has shown all of them.          *)
THEOREM EventsAreOwn == Spec => []OwnEvents
<1>1. Inv => OwnEvents
  <2> SUFFICES ASSUME Inv, NEW s \in Session,
                      session[s].options.shm_name = << >> \/ s \notin disturbed
               PROVE  /\ IsPrefix(session[s].got, target[s].sent)
                      /\ (At(s, "done") /\ session[s].look = "after")
                           => session[s].got = target[s].sent
    BY DEF OwnEvents
  <2> DEFINE got  == session[s].got
             sent == target[s].sent
  <2>1. s \notin disturbed
    BY DEF Inv, GeneratedUndisturbed, GivenIn
  <2>2. Taken(s) /\ AllShown(s)
    BY <2>1 DEF Inv, Undisturbed, Faithful
  <2>3. \A i \in 1 .. Len(sent) : sent[i] = EventNo(s, i)
    BY DEF Inv, Numbered
  <2>4. got \in Seq(EventType) /\ sent \in Seq(EventType)
    BY DEF Inv, Typed, SessionType, TargetType
  <2>5. /\ Len(got) <= Len(sent)
        /\ \A i \in 1 .. Len(got) : got[i] = EventNo(s, i)
        /\ (At(s, "done") /\ session[s].look = "after") => Len(got) = Len(sent)
    BY <2>2 DEF Taken, AllShown, At
  <2> HIDE DEF got, sent
  <2>6. /\ \A i \in 1 .. Len(got) : got[i] = sent[i]
        /\ Len(got) \in Nat /\ Len(sent) \in Nat
    BY <2>3, <2>4, <2>5
  <2>7. SubSeq(got, 1, Len(got)) = SubSeq(sent, 1, Len(got))
    <3>1. /\ SubSeq(got, 1, Len(got)) = [i \in 1 .. Len(got) |-> got[i]]
          /\ SubSeq(sent, 1, Len(got)) = [i \in 1 .. Len(got) |-> sent[i]]
      BY <2>4, <2>5, <2>6, SubSeqProperties
    <3> QED BY <2>6, <3>1
  <2>8. IsPrefix(got, sent)
    BY <2>5, <2>7 DEF IsPrefix
  <2>9. Len(got) = Len(sent) => got = sent
    BY <2>4, <2>6, SeqEqual
  <2> QED BY <2>5, <2>8, <2>9 DEF got, sent
<1> QED BY <1>1, InvAlways, PTL
=============================================================================
