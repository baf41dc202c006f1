------------------------------ MODULE StatsProofs ------------------------------
(***************************************************************************)
(* What /stats says at every instant between the writes of a supervisor:   *)
(* of a failure, of the pipeline there is, and of the shape of the latter. *)
(* The writes are taken as the set of those yet to come, for all but the   *)
(* mark commute.                                                           *)
(***************************************************************************)
EXTENDS ServiceProofs

-----------------------------------------------------------------------------
\* Writes

StatsFields == {"state", "mark", "last_error", "notes", "restarts", "interface", "pipeline",
                "renderer", "audio"}

\* The states of a service without a pipeline.
Down == {"starting", "failed", "stopping"}

Pending == Range(writes)

Sets(w, f) == w.lock = "stats" /\ f \in DOMAIN w.set
IsMark(w) == Sets(w, "mark")
MarkWrite(state, n) == [lock |-> "stats", set |-> MarkFields(state, n), note |-> n]

\* A write of stats that is no mark, with at most n messages said.
Ordinary(w, n) ==
    /\ w.lock = "stats" /\ w.note \in 0..n
    /\ DOMAIN w.set \subseteq {"last_error", "restarts", "interface", "pipeline", "renderer"}
    /\ "last_error" \in DOMAIN w.set => w.set.last_error = Reason
    /\ "restarts" \in DOMAIN w.set => w.set.restarts \in Nat

\* One that leaves notes and last_error alone.
Quiet(w) == w.note = 0 /\ "last_error" \notin DOMAIN w.set

MarkOK(w, n) ==
    /\ w.lock = "stats" /\ w.note = w.set.mark /\ w.set.mark \in 1..n
    /\ {"state", "mark"} \subseteq DOMAIN w.set
    /\ DOMAIN w.set \subseteq {"state", "mark", "last_error"}
    /\ "last_error" \in DOMAIN w.set => w.set.last_error \in {NoError, w.set.mark}
    /\ w.set.state = "failed" => "last_error" \in DOMAIN w.set /\ w.set.last_error = w.set.mark

HealthOK(w) == w.lock = "health" /\ w.set.ok \in BOOLEAN

WriteOK(w, n) == HealthOK(w) \/ Ordinary(w, n) \/ MarkOK(w, n)

LEMMA WriteLater ==
  ASSUME NEW w, NEW m \in Nat, NEW n \in Nat, m <= n, WriteOK(w, m)
  PROVE  WriteOK(w, n)
  BY DEF WriteOK, Ordinary, MarkOK

\* What each of the supervisor's writes sets.
LEMMA FieldWrites ==
  ASSUME NEW x, NEW n \in Nat
  PROVE  /\ LET w == SetStats([interface |-> x])
            IN Ordinary(w, n) /\ Quiet(w) /\ DOMAIN w.set = {"interface"} /\ w.set.interface = x
         /\ LET w == SetStats([pipeline |-> x])
            IN Ordinary(w, n) /\ Quiet(w) /\ DOMAIN w.set = {"pipeline"} /\ w.set.pipeline = x
         /\ LET w == SetStats([renderer |-> x])
            IN Ordinary(w, n) /\ Quiet(w) /\ DOMAIN w.set = {"renderer"} /\ w.set.renderer = x
<1>1. LET w == SetStats([interface |-> x])
      IN Ordinary(w, n) /\ Quiet(w) /\ DOMAIN w.set = {"interface"} /\ w.set.interface = x
  BY DEF SetStats, Ordinary, Quiet
<1>2. LET w == SetStats([pipeline |-> x])
      IN Ordinary(w, n) /\ Quiet(w) /\ DOMAIN w.set = {"pipeline"} /\ w.set.pipeline = x
  BY DEF SetStats, Ordinary, Quiet
<1>3. LET w == SetStats([renderer |-> x])
      IN Ordinary(w, n) /\ Quiet(w) /\ DOMAIN w.set = {"renderer"} /\ w.set.renderer = x
  BY DEF SetStats, Ordinary, Quiet
<1>4. QED
  BY <1>1, <1>2, <1>3

LEMMA ErrorWrite ==
  ASSUME NEW n \in Nat
  PROVE  Ordinary(SetError, n) /\ DOMAIN SetError.set = {"last_error"}
  BY DEF SetError, SetStats, Ordinary

LEMMA BumpWrite ==
  ASSUME NEW n \in Nat, stats.restarts \in Nat
  PROVE  Ordinary(Bump, n) /\ Quiet(Bump) /\ DOMAIN Bump.set = {"restarts"}
  BY DEF Bump, SetStats, Ordinary, Quiet

LEMMA NoteWrite ==
  ASSUME NEW n \in Nat, NEW k \in 1..n
  PROVE  Ordinary(AddNote(k), n) /\ DOMAIN AddNote(k).set = {}
  BY DEF AddNote, Ordinary

LEMMA MarkWrites ==
  ASSUME NEW state, NEW n \in Nat \ {0}
  PROVE  /\ HealthOK(SetHealth(state, n))
         /\ LET w == MarkWrite(state, n)
            IN MarkOK(w, n) /\ IsMark(w) /\ w.set.state = state /\ w.set.mark = n
<1>1. HealthOK(SetHealth(state, n))
  BY DEF HealthOK, SetHealth
<1> DEFINE w == MarkWrite(state, n)
<1>2. w.lock = "stats" /\ w.note = n /\ w.set = MarkFields(state, n)
  BY DEF MarkWrite
<1> HIDE DEF w
<1>3. /\ "state" \in DOMAIN w.set /\ "mark" \in DOMAIN w.set
      /\ DOMAIN w.set \subseteq {"state", "mark", "last_error"}
      /\ w.set.state = state /\ w.set.mark = n
      /\ "last_error" \in DOMAIN w.set => w.set.last_error \in {NoError, n}
      /\ state = "failed" => "last_error" \in DOMAIN w.set /\ w.set.last_error = n
  <2>1. CASE state = "running"
    <3>1. w.set = [state |-> state, mark |-> n, last_error |-> NoError]
      BY <1>2, <2>1 DEF MarkFields
    <3>2. state # "failed"
      BY <2>1
    <3> HIDE <2>1
    <3>3. QED
      BY <3>1, <3>2
  <2>2. CASE state = "failed"
    <3>1. w.set = [state |-> state, mark |-> n, last_error |-> n]
      BY <1>2, <2>2 DEF MarkFields
    <3>2. QED
      BY <3>1
  <2>3. CASE state \notin {"running", "failed"}
    <3>1. w.set = [state |-> state, mark |-> n]
      BY <1>2, <2>3 DEF MarkFields
    <3>2. QED
      BY <2>3, <3>1
  <2>4. QED
    BY <2>1, <2>2, <2>3
<1>6. w = MarkWrite(state, n)
  BY DEF w
<1>7. MarkOK(w, n) /\ IsMark(w) /\ w.set.state = state /\ w.set.mark = n
  BY <1>2, <1>3 DEF MarkOK, IsMark, Sets
<1>8. QED
  BY <1>1, <1>6, <1>7

\* The three kinds exclude each other.
LEMMA WriteKinds ==
  ASSUME NEW w, NEW n
  PROVE  /\ HealthOK(w) => ~IsMark(w) /\ \A f : ~Sets(w, f)
         /\ Ordinary(w, n) => ~IsMark(w) /\ ~Sets(w, "state") /\ ~Sets(w, "notes") /\ ~Sets(w, "audio")
         /\ MarkOK(w, n) => IsMark(w) /\ \A f \in StatsFields \ {"state", "mark", "last_error"} : ~Sets(w, f)
  BY DEF HealthOK, Ordinary, MarkOK, IsMark, Sets, StatsFields

-----------------------------------------------------------------------------
\* Queues of writes

IsSeq(ws) == \E S : ws \in Seq(S)

LEMMA Joined ==
  ASSUME NEW v, NEW w, IsSeq(v), IsSeq(w)
  PROVE  IsSeq(v \o w) /\ Range(v \o w) = Range(v) \union Range(w)
<1>1. PICK S : v \in Seq(S)
  BY DEF IsSeq
<1>2. PICK T : w \in Seq(T)
  BY DEF IsSeq
<1> DEFINE U == S \union T
<1>3. v \in Seq(U) /\ w \in Seq(U)
  BY <1>1, <1>2
<1> HIDE DEF U
<1>4. v \o w \in Seq(U)
  BY <1>3
<1>5. Range(v \o w) = Range(v) \union Range(w)
  BY <1>3, RangeConcatenation
<1>6. QED
  BY <1>4, <1>5 DEF IsSeq

LEMMA Singles ==
  /\ IsSeq(<<>>) /\ Range(<<>>) = {}
  /\ \A w : IsSeq(<<w>>) /\ Range(<<w>>) = {w}
<1>1. <<>> \in Seq({}) /\ Range(<<>>) = {}
  BY DEF Range
<1>2. ASSUME NEW w PROVE <<w>> \in Seq({w}) /\ Range(<<w>>) = {w}
  BY DEF Range
<1>3. QED
  BY <1>1, <1>2 DEF IsSeq

LEMMA MarkRange ==
  ASSUME NEW state, NEW n
  PROVE  /\ IsSeq(Mark(state, n))
         /\ Range(Mark(state, n)) = {SetHealth(state, n), MarkWrite(state, n)}
<1> DEFINE h == SetHealth(state, n)
           s == MarkWrite(state, n)
<1>1. Mark(state, n) = <<h, s>>
  BY DEF Mark, MarkWrite
<1> HIDE DEF h, s
<1>2. <<h, s>> \in Seq({h, s}) /\ Range(<<h, s>>) = {h, s}
  BY DEF Range
<1>3. QED
  BY <1>1, <1>2 DEF IsSeq, h, s

\* A mark after other writes.
LEMMA ThenMark ==
  ASSUME NEW ws, IsSeq(ws), NEW state, NEW n
  PROVE  /\ IsSeq(ws \o Mark(state, n))
         /\ Range(ws \o Mark(state, n))
              = Range(ws) \union {SetHealth(state, n), MarkWrite(state, n)}
  BY MarkRange, Joined

LEMMA FailsRange ==
  ASSUME NEW before, NEW after, IsSeq(before), IsSeq(after), NEW k \in Nat, said \in Nat,
         Fails(before, after, k)
  PROVE  /\ said' = said + k + 1 /\ IsSeq(writes')
         /\ Range(writes') = Range(before) \union {Bump} \union Range(after)
                             \union {SetHealth("failed", said'), MarkWrite("failed", said')}
<1>1. /\ writes' = (before \o <<Bump>> \o after) \o Mark("failed", said + k + 1)
      /\ said' = said + k + 1
  BY DEF Fails, Writes
<1>2. IsSeq(before \o <<Bump>>) /\ Range(before \o <<Bump>>) = Range(before) \union {Bump}
  BY Joined, Singles
<1>3. /\ IsSeq(before \o <<Bump>> \o after)
      /\ Range(before \o <<Bump>> \o after) = Range(before) \union {Bump} \union Range(after)
  BY <1>2, Joined
<1>4. QED
  BY <1>1, <1>3, ThenMark

\* What is given up is told in notes of their own.
LEMMA GivesUpRange ==
  ASSUME NEW before, NEW after, IsSeq(before), IsSeq(after), said \in Nat, GivesUp(before, after)
  PROVE  /\ said' \in Nat \ {0} /\ said' >= said /\ IsSeq(writes')
         /\ given_up' \subseteq given_up \union {"codec", "capture", "jpeg"}
         /\ \E B : /\ \A w \in B : Ordinary(w, said') /\ DOMAIN w.set = {}
                  /\ Range(writes') = Range(before) \union B \union {Bump} \union Range(after)
                       \union {SetHealth("failed", said'), MarkWrite("failed", said')}
<1>1. PICK blamed \in SUBSET Blamable(pipeline) :
        /\ given_up' = given_up \union blamed
        /\ Fails(before \o [i \in 1..Cardinality(blamed) |-> AddNote(said + i)], after,
                 Cardinality(blamed))
  BY DEF GivesUp
<1> DEFINE n == Cardinality(blamed)
           notes == [i \in 1..n |-> AddNote(said + i)]
<1>2. blamed \subseteq {"codec", "capture", "jpeg"}
  BY DEF Blamable
<1>3. n \in Nat
  <2>1. IsFiniteSet({"codec"} \union {"capture"} \union {"jpeg"})
    BY FS_Singleton, FS_Union
  <2>2. blamed \subseteq {"codec"} \union {"capture"} \union {"jpeg"}
    BY <1>2
  <2>3. QED
    BY <2>1, <2>2, FS_Subset, FS_CardinalityType
<1> HIDE DEF n
<1> DEFINE B == {AddNote(said + i) : i \in 1..n}
<1>4. notes \in Seq(B) /\ Range(notes) = B
  <2>1. DOMAIN notes = 1..n /\ \A i \in 1..n : notes[i] = AddNote(said + i)
    OBVIOUS
  <2>2. Range(notes) = {notes[i] : i \in 1..n}
    BY <2>1, Zenon DEF Range
  <2>3. Range(notes) = B
    BY <2>1, <2>2
  <2>4. notes \in [1..n -> B]
    OBVIOUS
  <2> HIDE DEF notes, B
  <2>5. notes \in Seq(B)
    BY <1>3, <2>4
  <2>6. QED
    BY <2>3, <2>5
<1>5. Fails(before \o notes, after, n)
  BY <1>1 DEF n
<1> HIDE DEF notes
<1>6. IsSeq(before \o notes) /\ Range(before \o notes) = Range(before) \union B
  <2>1. IsSeq(notes)
    BY <1>4 DEF IsSeq
  <2>2. QED
    BY <1>4, <2>1, Joined
<1>7. /\ said' = said + n + 1 /\ IsSeq(writes')
      /\ Range(writes') = (Range(before) \union B) \union {Bump} \union Range(after)
                          \union {SetHealth("failed", said'), MarkWrite("failed", said')}
  BY <1>3, <1>5, <1>6, FailsRange
<1>8. said' \in Nat \ {0} /\ said' >= said
  BY <1>3, <1>7
<1>9. \A w \in B : Ordinary(w, said') /\ DOMAIN w.set = {}
  <2> SUFFICES ASSUME NEW i \in 1..n
               PROVE  Ordinary(AddNote(said + i), said') /\ DOMAIN AddNote(said + i).set = {}
    OBVIOUS
  <2>1. said + i \in 1..said'
    BY <1>3, <1>7
  <2>2. QED
    BY <1>8, <2>1, NoteWrite
<1>10. QED
  BY <1>1, <1>2, <1>7, <1>8, <1>9

LEMMA NewestNotes ==
  ASSUME NEW notes \in Seq(Nat)
  PROVE  /\ Newest(notes) \in Seq(Nat) /\ Len(Newest(notes)) <= NoteCap
         /\ Len(notes) > 0 =>
              /\ Len(Newest(notes)) > 0
              /\ Newest(notes)[Len(Newest(notes))] = notes[Len(notes)]
<1> DEFINE from == Len(notes) - NoteCap + 1
           cut == SubSeq(notes, from, Len(notes))
<1>1. NoteCap \in Nat \ {0} /\ Len(notes) \in Nat
  BY ServiceAssumption
<1>2. CASE Len(notes) > NoteCap
  <2>1. from \in 1..Len(notes) /\ Len(notes) \in 1..Len(notes) /\ from <= Len(notes)
    BY <1>1, <1>2
  <2>2. /\ cut \in Seq(Nat) /\ Len(cut) = Len(notes) - from + 1
        /\ \A i \in 1..(Len(notes) - from + 1) : cut[i] = notes[from + i - 1]
    BY <1>1, <2>1, SubSeqProperties
  <2>3. Newest(notes) = cut
    BY <1>2 DEF Newest
  <2> HIDE DEF cut
  <2>4. Len(cut) = NoteCap
    BY <1>1, <2>2
  <2>5. NoteCap \in 1..(Len(notes) - from + 1) /\ from + NoteCap - 1 = Len(notes)
    BY <1>1
  <2>6. QED
    BY <1>1, <2>2, <2>3, <2>4, <2>5
<1>3. CASE ~(Len(notes) > NoteCap)
  BY <1>1, <1>3 DEF Newest
<1>4. QED
  BY <1>2, <1>3

\* The newest note is the one that has been pushed.
LEMMA PushedNote ==
  ASSUME NEW notes \in Seq(Nat), NEW n \in Nat
  PROVE  LET q == PushNote(notes, n)
         IN q \in Seq(Nat) /\ Len(q) \in 1..NoteCap /\ q[Len(q)] = n
<1> DEFINE a == Append(notes, n)
<1>1. a \in Seq(Nat) /\ Len(a) > 0 /\ a[Len(a)] = n
  BY AppendProperties
<1>2. PushNote(notes, n) = Newest(a)
  BY DEF PushNote
<1> HIDE DEF a
<1>3. /\ Newest(a) \in Seq(Nat) /\ Len(Newest(a)) <= NoteCap /\ Len(Newest(a)) > 0
      /\ Newest(a)[Len(Newest(a))] = n
  BY <1>1, NewestNotes
<1>4. QED
  BY <1>2, <1>3, ServiceAssumption

-----------------------------------------------------------------------------
\* The invariant

ShapeInv ==
    /\ DOMAIN stats = StatsFields
    /\ stats.notes \in Seq(Nat) /\ Len(stats.notes) <= NoteCap
    /\ stats.restarts \in Nat /\ stats.last_error \in {Reason} \union 0..said
    /\ health.ok \in BOOLEAN
    /\ IsSeq(writes)
    /\ \A w \in Pending : WriteOK(w, said)

Failing == {"resolve", "build", "backoff"}
Going == {"start", "wait", "media"}

\* The marks that the supervisor may be about to write where it is.
MayMark(state) ==
    /\ sup \in Failing => state = "failed"
    /\ sup \in Going => state \notin Down
    /\ sup = "returned" => state = "stopping"

\* The state in stats is that of the supervisor, or a mark is yet to come.
PlaceInv ==
    /\ sup \in Failing \union Going \union {"returned"}
    /\ phase \notin {"serve", "ended"} =>
         /\ sup = "resolve" /\ Pending = {}
         /\ stats.state = "starting" /\ stats.last_error = NoError
    /\ sup \in {"resolve", "build"} => stats.state \in {"starting", "failed"}
    /\ sup = "backoff" => stats.state = "failed" \/ \E w \in Pending : IsMark(w)
    /\ sup \in Going => stats.state \notin Down \/ \E w \in Pending : IsMark(w)
    /\ \A w \in Pending : IsMark(w) => MayMark(w.set.state)

\* What explains a failure is not overwritten before the next mark.
FailureInv ==
    stats.state = "failed" =>
        /\ stats.last_error = stats.mark
        /\ Len(stats.notes) > 0 /\ stats.notes[Len(stats.notes)] = stats.mark
        /\ \A w \in Pending : w.lock = "stats" /\ ~IsMark(w) => Quiet(w)

\* The field is v, if not now then after the writes to come.
Tells(f, v) ==
    /\ \A w \in Pending : Sets(w, f) => w.set[f] = v
    /\ stats[f] = v \/ \E w \in Pending : Sets(w, f)

Named ==
    /\ stats.interface = interface /\ stats.pipeline = pipeline
    /\ role = "rx" => stats.renderer = pipeline.renderer

NamesInv ==
    /\ phase \in {"bind", "serve"} => stats.audio = config.audio_enabled
    /\ sup = "build" => Tells("interface", interface)
    /\ sup \in Going =>
         /\ Tells("interface", interface) /\ Tells("pipeline", pipeline)
         /\ role = "rx" => Tells("renderer", pipeline.renderer)
         /\ config.audio_enabled = (pipeline.audio # <<>>)
    /\ stats.state \notin Down =>
         /\ Named /\ stats.audio = (pipeline.audio # <<>>)
         /\ \A w \in Pending : \A f \in {"interface", "pipeline", "renderer"} : ~Sets(w, f)

StatsInv == ShapeInv /\ PlaceInv /\ FailureInv /\ NamesInv

LEMMA InitStats == Init => StatsInv
<1> SUFFICES ASSUME Init PROVE StatsInv
  OBVIOUS
<1>1. /\ DOMAIN stats = StatsFields /\ stats.notes = <<>> /\ stats.restarts = 0
      /\ stats.last_error = NoError /\ stats.state = "starting"
      /\ health.ok \in BOOLEAN /\ sup = "resolve" /\ phase = "load" /\ said = 0
  BY DEF Init, StatsFields
<1>2. IsSeq(writes) /\ Pending = {}
  BY Singles DEF Init, Pending
<1>3. ShapeInv
  <2>1. stats.notes \in Seq(Nat) /\ Len(stats.notes) = 0
    BY <1>1
  <2>2. QED
    BY <1>1, <1>2, <2>1, ServiceAssumption DEF ShapeInv, NoError
<1>4. PlaceInv /\ FailureInv /\ NamesInv
  BY <1>1, <1>2 DEF PlaceInv, FailureInv, NamesInv, MayMark, Failing, Going, Down
<1>5. QED
  BY <1>3, <1>4 DEF StatsInv

-----------------------------------------------------------------------------
\* One write

\* After a mark there is nothing left to write.
LEMMA MarkIsLast ==
  ASSUME MarksInv, writes # <<>>, IsMark(Head(writes))
  PROVE  Tail(writes) = <<>>
<1>1. PICK S : writes \in Seq(S)
  BY DEF MarksInv, Queued
<1>2. Len(writes) \in Nat /\ Len(writes) >= 1 /\ Head(writes) = writes[1] /\ 1 \in 1..Len(writes)
  BY <1>1
<1>3. Len(writes) = 1
  BY <1>2 DEF MarksInv, Queued, IsPlain, IsMark, Sets
<1>4. Tail(writes) \in Seq(S) /\ Len(Tail(writes)) = 0
  BY <1>1, <1>2, <1>3
<1>5. QED
  BY <1>4, EmptySeq

LEMMA NextWrite ==
  ASSUME ShapeInv, MarksInv, Write
  PROVE  LET w == Head(writes)
         IN /\ Pending = {w} \union Pending' /\ IsSeq(writes') /\ WriteOK(w, said)
            /\ IsMark(w) => Pending' = {}
            /\ DOMAIN stats' = StatsFields
            /\ \A f \in StatsFields \ {"notes"} :
                  stats'[f] = IF Sets(w, f) THEN w.set[f] ELSE stats[f]
            /\ stats'.notes = IF w.lock = "health" \/ w.note = 0 THEN stats.notes
                              ELSE PushNote(stats.notes, w.note)
            /\ health' = IF w.lock = "health" THEN w.set ELSE health
<1> DEFINE w == Head(writes)
<1>1. PICK S : writes \in Seq(S)
  BY DEF ShapeInv, IsSeq
<1>2. writes # <<>> /\ writes' = Tail(writes)
  BY DEF Write
<1>3. /\ Len(writes) \in Nat \ {0} /\ w = writes[1] /\ writes' \in Seq(S)
      /\ Len(writes') = Len(writes) - 1
      /\ \A i \in 1..Len(writes') : writes'[i] = writes[i + 1]
  BY <1>1, <1>2
<1>4. Pending = {w} \union Pending'
  <2>1. Pending = {writes[i] : i \in 1..Len(writes)}
    BY <1>1, RangeEquality DEF Pending
  <2>2. Pending' = {writes'[i] : i \in 1..Len(writes')}
    BY <1>3, RangeEquality DEF Pending
  <2>3. ASSUME NEW i \in 1..Len(writes) PROVE writes[i] \in {w} \union Pending'
    <3>1. CASE i = 1
      BY <1>3, <3>1
    <3>2. CASE i # 1
      <4>1. i - 1 \in 1..Len(writes') /\ i - 1 + 1 = i
        BY <1>3, <3>2
      <4>2. writes'[i - 1] = writes[i]
        BY <1>3, <4>1
      <4>3. QED
        BY <2>2, <4>1, <4>2
    <3>3. QED
      BY <3>1, <3>2
  <2>4. ASSUME NEW i \in 1..Len(writes') PROVE writes'[i] \in Pending
    <3>1. i + 1 \in 1..Len(writes) /\ writes'[i] = writes[i + 1]
      BY <1>3
    <3>2. QED
      BY <2>1, <3>1
  <2>5. w \in Pending
    BY <1>3, <2>1
  <2>6. QED
    BY <2>1, <2>2, <2>3, <2>4, <2>5
<1>5. IsSeq(writes') /\ WriteOK(w, said)
  BY <1>3, <1>4 DEF IsSeq, ShapeInv
<1>6. IsMark(w) => Pending' = {}
  BY <1>2, MarkIsLast, Singles DEF Pending
<1>7. DOMAIN stats = StatsFields
  BY DEF ShapeInv
<1>8. CASE w.lock = "health"
  <2>1. health' = w.set /\ stats' = stats
    BY <1>8 DEF Write
  <2>2. QED
    BY <1>4, <1>5, <1>6, <1>7, <1>8, <2>1 DEF Sets
<1>9. CASE w.lock # "health"
  <2>1. w.lock = "stats"
    BY <1>5, <1>9 DEF WriteOK, HealthOK, Ordinary, MarkOK
  <2>2. /\ health' = health
        /\ stats' = IF w.note = 0 THEN Updated(w.set)
                    ELSE [Updated(w.set) EXCEPT !.notes = PushNote(stats.notes, w.note)]
    BY <1>9 DEF Write
  <2>3. "notes" \notin DOMAIN w.set
    BY <1>5, <2>1, WriteKinds DEF WriteOK, Sets, StatsFields
  <2> DEFINE u == Updated(w.set)
  <2>4. /\ DOMAIN u = StatsFields
        /\ \A f \in StatsFields : u[f] = IF f \in DOMAIN w.set THEN w.set[f] ELSE stats[f]
    BY <1>7 DEF Updated
  <2>5. "notes" \in StatsFields
    BY DEF StatsFields
  <2> HIDE DEF u
  <2>6. stats' = IF w.note = 0 THEN u ELSE [u EXCEPT !.notes = PushNote(stats.notes, w.note)]
    BY <2>2 DEF u
  <2> HIDE DEF w
  <2>7. /\ DOMAIN stats' = StatsFields
        /\ \A f \in StatsFields \ {"notes"} : stats'[f] = u[f]
        /\ stats'.notes = IF w.note = 0 THEN stats.notes ELSE PushNote(stats.notes, w.note)
    BY <2>3, <2>4, <2>5, <2>6
  <2>8. \A f \in StatsFields \ {"notes"} :
          stats'[f] = IF Sets(w, f) THEN w.set[f] ELSE stats[f]
    BY <2>1, <2>4, <2>7 DEF Sets
  <2>9. QED
    BY <1>4, <1>5, <1>6, <1>9, <2>2, <2>7, <2>8 DEF w
<1>10. QED
  BY <1>8, <1>9

LEMMA WriteStats == StatsInv /\ MarksInv /\ Write => StatsInv'
<1> SUFFICES ASSUME StatsInv, MarksInv, Write PROVE StatsInv'
  OBVIOUS
<1> DEFINE w == Head(writes)
<1>1. /\ Pending = {w} \union Pending' /\ IsSeq(writes') /\ WriteOK(w, said)
      /\ IsMark(w) => Pending' = {}
      /\ DOMAIN stats' = StatsFields
      /\ \A f \in StatsFields \ {"notes"} :
            stats'[f] = IF Sets(w, f) THEN w.set[f] ELSE stats[f]
      /\ stats'.notes = IF w.lock = "health" \/ w.note = 0 THEN stats.notes
                        ELSE PushNote(stats.notes, w.note)
      /\ health' = IF w.lock = "health" THEN w.set ELSE health
  BY NextWrite DEF StatsInv
<1>2. /\ phase' = phase /\ sup' = sup /\ config' = config /\ role' = role
      /\ interface' = interface /\ pipeline' = pipeline /\ said' = said /\ phase = "serve"
  BY DEF Write, supVars, startVars
<1> HIDE DEF w
<1>3. said \in Nat
  BY DEF MarksInv
<1>4. /\ stats'.state = IF Sets(w, "state") THEN w.set.state ELSE stats.state
      /\ stats'.mark = IF Sets(w, "mark") THEN w.set.mark ELSE stats.mark
      /\ stats'.last_error = IF Sets(w, "last_error") THEN w.set.last_error ELSE stats.last_error
      /\ stats'.restarts = IF Sets(w, "restarts") THEN w.set.restarts ELSE stats.restarts
      /\ stats'.interface = IF Sets(w, "interface") THEN w.set.interface ELSE stats.interface
      /\ stats'.pipeline = IF Sets(w, "pipeline") THEN w.set.pipeline ELSE stats.pipeline
      /\ stats'.renderer = IF Sets(w, "renderer") THEN w.set.renderer ELSE stats.renderer
      /\ stats'.audio = IF Sets(w, "audio") THEN w.set.audio ELSE stats.audio
  BY <1>1 DEF StatsFields
<1>5. Sets(w, "state") <=> IsMark(w)
  BY <1>1 DEF WriteOK, HealthOK, Ordinary, MarkOK, IsMark, Sets
<1>6. CASE IsMark(w)
  <2>1. MarkOK(w, said) /\ Pending' = {} /\ w \in Pending
    BY <1>1, <1>6, WriteKinds DEF WriteOK
  <2>2. w.lock = "stats" /\ w.note \in 1..said /\ w.note = w.set.mark /\ w.note # 0
    BY <1>3, <2>1 DEF MarkOK
  <2>3. /\ stats'.notes \in Seq(Nat) /\ Len(stats'.notes) \in 1..NoteCap
        /\ stats'.notes[Len(stats'.notes)] = w.set.mark
    <3>1. stats.notes \in Seq(Nat) /\ w.note \in Nat
      BY <1>3, <2>2 DEF StatsInv, ShapeInv
    <3>2. stats'.notes = PushNote(stats.notes, w.note)
      BY <1>1, <2>2
    <3>3. QED
      BY <2>2, <3>1, <3>2, PushedNote
  <2>4. /\ stats'.state = w.set.state /\ stats'.mark = w.set.mark
        /\ stats'.restarts = stats.restarts /\ stats'.interface = stats.interface
        /\ stats'.pipeline = stats.pipeline /\ stats'.renderer = stats.renderer
        /\ stats'.audio = stats.audio
    BY <1>4, <1>5, <1>6, <2>1, WriteKinds DEF StatsFields, IsMark
  <2>5. stats'.last_error \in {Reason} \union 0..said
    BY <1>3, <1>4, <2>1 DEF MarkOK, Sets, StatsInv, ShapeInv, NoError
  <2>6. w.set.state = "failed" => stats'.last_error = w.set.mark
    BY <1>4, <2>1 DEF MarkOK, Sets
  <2>7. MayMark(w.set.state)
    BY <1>6, <2>1 DEF StatsInv, PlaceInv
  <2>8. ShapeInv'
    <3>1. health' = health
      BY <1>1, <2>2
    <3>2. Len(stats'.notes) <= NoteCap
      BY <2>3, ServiceAssumption
    <3>3. QED
      BY <1>1, <1>2, <2>1, <2>3, <2>4, <2>5, <3>1, <3>2 DEF StatsInv, ShapeInv
  <2>9. PlaceInv'
    BY <1>2, <2>1, <2>4, <2>7 DEF StatsInv, PlaceInv, MayMark, Failing, Going, Down
  <2>10. FailureInv'
    BY <2>1, <2>3, <2>4, <2>6 DEF FailureInv
  <2>11. NamesInv'
    <3>1. \A f \in {"interface", "pipeline", "renderer"} :
            stats'[f] = stats[f] /\ ~Sets(w, f) /\ Pending = {w}
      BY <1>1, <2>1, <2>4, WriteKinds DEF StatsFields
    <3>2. \A f \in {"interface", "pipeline", "renderer"} : \A v :
            Tells(f, v) => stats[f] = v
      BY <3>1 DEF Tells
    <3>3. /\ sup = "build" => stats.interface = interface
          /\ sup \in Going =>
                /\ stats.interface = interface /\ stats.pipeline = pipeline
                /\ role = "rx" => stats.renderer = pipeline.renderer
                /\ config.audio_enabled = (pipeline.audio # <<>>)
          /\ stats.audio = config.audio_enabled
      BY <1>2, <3>2 DEF StatsInv, NamesInv
    <3>4. stats'.state \notin Down => sup \in Going
      BY <2>4, <2>7 DEF MayMark, Down, Failing, Going, StatsInv, PlaceInv
    <3>5. QED
      BY <1>2, <2>1, <2>4, <3>3, <3>4 DEF NamesInv, Tells, Named
  <2>12. QED
    BY <2>8, <2>9, <2>10, <2>11 DEF StatsInv
<1>7. CASE ~IsMark(w)
  <2>1. stats'.state = stats.state /\ stats'.mark = stats.mark
    BY <1>4, <1>5, <1>7 DEF IsMark
  <2>2. HealthOK(w) \/ Ordinary(w, said)
    BY <1>1, <1>7, WriteKinds DEF WriteOK
  <2>3. stats'.audio = stats.audio
    BY <1>4, <2>2, WriteKinds
  <2>4. \A v \in Pending : IsMark(v) => v \in Pending'
    BY <1>1, <1>7
  <2>5. stats'.notes \in Seq(Nat) /\ Len(stats'.notes) <= NoteCap
    <3>1. stats.notes \in Seq(Nat) /\ Len(stats.notes) <= NoteCap
      BY DEF StatsInv, ShapeInv
    <3>2. CASE w.lock = "health" \/ w.note = 0
      BY <1>1, <3>1, <3>2
    <3>3. CASE ~(w.lock = "health" \/ w.note = 0)
      <4>1. w.note \in Nat
        BY <1>3, <2>2, <3>3 DEF HealthOK, Ordinary
      <4>2. /\ PushNote(stats.notes, w.note) \in Seq(Nat)
            /\ Len(PushNote(stats.notes, w.note)) \in 1..NoteCap
        BY <3>1, <4>1, PushedNote
      <4>3. stats'.notes = PushNote(stats.notes, w.note)
        BY <1>1, <3>3
      <4>4. QED
        BY <4>2, <4>3, ServiceAssumption
    <3>4. QED
      BY <3>2, <3>3
  <2>6. ShapeInv'
    <3>1. stats'.restarts \in Nat
      BY <1>4, <2>2 DEF HealthOK, Ordinary, Sets, StatsInv, ShapeInv
    <3>2. stats'.last_error \in {Reason} \union 0..said
      BY <1>4, <2>2 DEF HealthOK, Ordinary, Sets, StatsInv, ShapeInv
    <3>3. health'.ok \in BOOLEAN
      <4>1. CASE w.lock = "health"
        BY <1>1, <2>2, <4>1 DEF HealthOK, Ordinary
      <4>2. CASE w.lock # "health"
        BY <1>1, <4>2 DEF StatsInv, ShapeInv
      <4>3. QED
        BY <4>1, <4>2
    <3>4. \A v \in Pending' : WriteOK(v, said)
      BY <1>1 DEF StatsInv, ShapeInv
    <3>5. QED
      BY <1>1, <1>2, <2>5, <3>1, <3>2, <3>3, <3>4 DEF ShapeInv
  <2>7. PlaceInv'
    BY <1>1, <1>2, <2>1, <2>4 DEF StatsInv, PlaceInv, MayMark
  <2>8. FailureInv'
    <3> SUFFICES ASSUME stats.state = "failed" PROVE FailureInv'
      BY <2>1 DEF FailureInv
    <3>1. FailureInv
      BY DEF StatsInv
    <3>2. w.lock = "health" \/ Quiet(w)
      BY <1>1, <1>7, <2>2, <3>1 DEF FailureInv, HealthOK, Ordinary
    <3>3. stats'.last_error = stats.last_error /\ stats'.notes = stats.notes
      BY <1>1, <1>4, <3>2 DEF Quiet, Sets
    <3>4. QED
      BY <1>1, <2>1, <3>1, <3>3 DEF FailureInv
  <2>9. NamesInv'
    <3>1. ASSUME NEW f \in {"interface", "pipeline", "renderer"}, NEW v, Tells(f, v)
          PROVE  /\ \A x \in Pending' : Sets(x, f) => x.set[f] = v
                 /\ stats'[f] = v \/ \E x \in Pending' : Sets(x, f)
      <4>1. stats'[f] = IF Sets(w, f) THEN w.set[f] ELSE stats[f]
        BY <1>1 DEF StatsFields
      <4>2. CASE Sets(w, f)
        BY <1>1, <3>1, <4>1, <4>2 DEF Tells
      <4>3. CASE ~Sets(w, f)
        BY <1>1, <3>1, <4>1, <4>3 DEF Tells
      <4>4. QED
        BY <4>2, <4>3
    <3>2. /\ Tells("interface", interface) => Tells("interface", interface)'
          /\ Tells("pipeline", pipeline) => Tells("pipeline", pipeline)'
          /\ Tells("renderer", pipeline.renderer) => Tells("renderer", pipeline.renderer)'
      BY <1>2, <3>1 DEF Tells
    <3>3. stats.state \notin Down => Named' /\ stats'.audio = (pipeline'.audio # <<>>)
      <4> SUFFICES ASSUME stats.state \notin Down
                   PROVE  Named' /\ stats'.audio = (pipeline'.audio # <<>>)
        OBVIOUS
      <4>1. Named /\ \A f \in {"interface", "pipeline", "renderer"} : ~Sets(w, f)
        BY <1>1 DEF StatsInv, NamesInv
      <4>2. stats.audio = (pipeline.audio # <<>>)
        BY DEF StatsInv, NamesInv
      <4>3. stats'.interface = stats.interface /\ stats'.pipeline = stats.pipeline
            /\ stats'.renderer = stats.renderer
        BY <1>4, <4>1
      <4>4. QED
        BY <1>2, <2>3, <4>1, <4>2, <4>3 DEF Named
    <3>4. stats.state \notin Down =>
            \A x \in Pending' : \A f \in {"interface", "pipeline", "renderer"} : ~Sets(x, f)
      BY <1>1 DEF StatsInv, NamesInv
    <3>5. QED
      BY <1>2, <2>1, <2>3, <3>2, <3>3, <3>4 DEF StatsInv, NamesInv
  <2>10. QED
    BY <2>6, <2>7, <2>8, <2>9 DEF StatsInv
<1>8. QED
  BY <1>6, <1>7

-----------------------------------------------------------------------------
\* What the supervisor asks for

Naming == {"interface", "pipeline", "renderer"}

\* The supervisor goes to do the writes of P, and then perhaps a mark.
Asks(P, M, state) ==
    /\ said' \in Nat /\ said' >= said /\ IsSeq(writes') /\ Pending' = P \union M
    /\ \A w \in P : Ordinary(w, said')
    /\ \/ M = {}
       \/ said' # 0 /\ M = {SetHealth(state, said'), MarkWrite(state, said')}
    /\ UNCHANGED <<phase, role, config, health, stats>>

LEMMA AsksShape ==
  ASSUME StatsInv, MarksInv, NEW P, NEW M, NEW state, Asks(P, M, state)
  PROVE  /\ ShapeInv'
         /\ \A w \in Pending' : IsMark(w) => M # {} /\ w.set.state = state
         /\ M # {} => \E w \in Pending' : IsMark(w)
         /\ \A w \in Pending' : w.lock = "stats" /\ ~IsMark(w) => w \in P
         /\ \A w \in Pending' : \A f \in Naming : Sets(w, f) => w \in P
<1>1. said \in Nat
  BY DEF MarksInv
<1>2. \A w \in M : \/ HealthOK(w)
                   \/ MarkOK(w, said') /\ IsMark(w) /\ w.set.state = state
  <2> SUFFICES ASSUME NEW w \in M
               PROVE  \/ HealthOK(w)
                      \/ MarkOK(w, said') /\ IsMark(w) /\ w.set.state = state
    OBVIOUS
  <2>1. /\ said' \in Nat \ {0}
        /\ w = SetHealth(state, said') \/ w = MarkWrite(state, said')
    BY DEF Asks
  <2> DEFINE m == MarkWrite(state, said')
             h == SetHealth(state, said')
  <2>2. HealthOK(h) /\ MarkOK(m, said') /\ IsMark(m) /\ m.set.state = state
    BY <2>1, MarkWrites
  <2>3. w = h \/ w = m
    BY <2>1
  <2> HIDE DEF m, h
  <2>4. CASE w = h
    BY <2>2, <2>4
  <2>5. CASE w = m
    BY <2>2, <2>5
  <2>6. QED
    BY <2>3, <2>4, <2>5
<1>3. M # {} => \E w \in M : IsMark(w)
  <2> SUFFICES ASSUME M # {} PROVE \E w \in M : IsMark(w)
    OBVIOUS
  <2>1. said' \in Nat \ {0} /\ M = {SetHealth(state, said'), MarkWrite(state, said')}
    BY DEF Asks
  <2>2. IsMark(MarkWrite(state, said'))
    BY <2>1, MarkWrites
  <2>3. QED
    BY <2>1, <2>2
<1>4. \A w \in P : Ordinary(w, said') /\ ~IsMark(w)
  BY WriteKinds DEF Asks
<1>5. \A w \in Pending' : WriteOK(w, said')
  BY <1>2, <1>4 DEF WriteOK, Asks
<1>6. ShapeInv'
  BY <1>1, <1>5 DEF Asks, StatsInv, ShapeInv
<1>7. \A w \in M : w.lock = "stats" => IsMark(w)
  BY <1>2 DEF HealthOK
<1>8. \A w \in M : \A f \in Naming : ~Sets(w, f)
  BY <1>2, WriteKinds DEF Naming, StatsFields
<1>9. \A w \in Pending' : w \in P \/ w \in M
  BY DEF Asks
<1>10. \A w \in Pending' : IsMark(w) => M # {} /\ w.set.state = state
  BY <1>2, <1>4, <1>9, WriteKinds
<1>11. QED
  BY <1>3, <1>6, <1>7, <1>8, <1>9, <1>4, <1>10 DEF Asks

\* A failure: nothing that explains the last one is overwritten, and while
\* stats names a pipeline that one stays.
LEMMA FailureStats ==
  ASSUME StatsInv, MarksInv, phase = "serve", NEW P, NEW M, M # {}, Asks(P, M, "failed"),
         \/ sup' = "backoff"
         \/ sup' = "resolve" /\ stats.state \in {"starting", "failed"},
         stats.state = "failed" => \A w \in P : Quiet(w),
         stats.state \notin Down => /\ interface' = interface /\ pipeline' = pipeline
                                   /\ \A w \in P : \A f \in Naming : f \notin DOMAIN w.set
  PROVE  StatsInv'
<1>1. /\ ShapeInv'
      /\ \A w \in Pending' : IsMark(w) => w.set.state = "failed"
      /\ \E w \in Pending' : IsMark(w)
      /\ \A w \in Pending' : w.lock = "stats" /\ ~IsMark(w) => w \in P
      /\ \A w \in Pending' : \A f \in Naming : Sets(w, f) => w \in P
  BY AsksShape
<1>2. stats' = stats /\ phase' = phase /\ role' = role /\ config' = config
  BY DEF Asks
<1>3. PlaceInv'
  BY <1>1, <1>2 DEF PlaceInv, MayMark, Failing, Going
<1>4. FailureInv'
  BY <1>1, <1>2 DEF StatsInv, FailureInv
<1>5. NamesInv'
  BY <1>1, <1>2 DEF StatsInv, NamesInv, Named, Sets, Naming, Going
<1>6. QED
  BY <1>1, <1>3, <1>4, <1>5 DEF StatsInv

\* With the pipeline there is, on to a mark of another state.
LEMMA GoingStats ==
  ASSUME StatsInv, MarksInv, phase = "serve", NEW P, NEW M, NEW state, Asks(P, M, state),
         \A w \in P : \A f \in Naming : f \notin DOMAIN w.set, sup \in Going, Pending = {}, UNCHANGED <<interface, pipeline>>,
         \/ sup' \in Going /\ state \notin Down
         \/ sup' = "returned" /\ state = "stopping"
  PROVE  StatsInv'
<1>1. /\ ShapeInv'
      /\ \A w \in Pending' : IsMark(w) => w.set.state = state
      /\ \A w \in Pending' : \A f \in Naming : ~Sets(w, f)
  BY AsksShape DEF Sets
<1>2. stats' = stats /\ phase' = phase /\ role' = role /\ config' = config
  BY DEF Asks
<1>3. stats.state \notin Down
  BY DEF StatsInv, PlaceInv
<1>4. PlaceInv'
  BY <1>1, <1>2, <1>3 DEF PlaceInv, MayMark, Failing, Going
<1>5. FailureInv'
  BY <1>2, <1>3 DEF FailureInv, Down
<1>6. Named /\ stats.audio = (pipeline.audio # <<>>)
      /\ stats.audio = config.audio_enabled
  BY <1>3 DEF StatsInv, NamesInv
<1>7. NamesInv'
  <2>1. (Tells("interface", interface) /\ Tells("pipeline", pipeline))'
    BY <1>1, <1>2, <1>6 DEF Tells, Named, Naming
  <2>2. role = "rx" => Tells("renderer", pipeline.renderer)'
    BY <1>1, <1>2, <1>6 DEF Tells, Named, Naming
  <2>3. Named'
    BY <1>2, <1>6 DEF Named
  <2>4. sup' # "build"
    BY DEF Going
  <2>5. QED
    BY <1>1, <1>2, <1>6, <2>1, <2>2, <2>3, <2>4 DEF NamesInv, Naming
<1>8. QED
  BY <1>1, <1>4, <1>5, <1>7 DEF StatsInv

\* A pipeline has an audio branch if that is configured.
LEMMA AudioOfPipeline ==
  ASSUME ChoiceInv, NEW name
  PROVE  LET d == Descriptions(config, name, given_up, host)
         IN config.audio_enabled = (d.audio # <<>>)
<1> DEFINE c == CycleConfig(config, given_up)
           d == Descriptions(config, name, given_up, host)
<1>1. config.audio_enabled \in BOOLEAN /\ "audio_enabled" \in DOMAIN config
  BY DEF ChoiceInv, ConfigTyped, TxTyped, RxTyped, Typed
<1>2. c.audio_enabled = config.audio_enabled
  BY <1>1, SMT DEF CycleConfig, SoftwareOnly
<1> HIDE DEF c
<1>3. d.audio = AudioBranch(c)
  <2>1. CASE role = "tx"
    <3>1. d = BuildTxDescriptions(c, name, "jpeg" \in given_up, host)
      BY <2>1, Zenon DEF Descriptions, c
    <3> HIDE DEF d
    <3>2. QED
      BY <3>1 DEF BuildTxDescriptions
  <2>2. CASE role # "tx"
    <3>1. d = BuildRxDescriptions(c, name, host)
      BY <2>2, Zenon DEF Descriptions, c
    <3> HIDE DEF d
    <3>2. QED
      BY <3>1 DEF BuildRxDescriptions
  <2>3. QED
    BY <2>1, <2>2
<1> HIDE DEF d
<1>4. AudioBranch(c) # <<>> <=> c.audio_enabled = TRUE
  BY <1>1, <1>2 DEF AudioBranch
<1>5. config.audio_enabled = (d.audio # <<>>)
  BY <1>1, <1>2, <1>3, <1>4, Zenon
<1>6. QED
  BY <1>5 DEF d

\* Between two things the supervisor does, nothing is left to write.
LEMMA Between ==
  ASSUME StatsInv, MarksInv, NEW place, At(place), Unserved
  PROVE  /\ phase = "serve" /\ sup = place /\ Pending = {} /\ said \in Nat
         /\ stats.restarts \in Nat
         /\ UNCHANGED <<phase, role, host, config, health, stats>>
         /\ place \in Going => stats.state \notin Down
         /\ place = "backoff" => stats.state = "failed"
<1>1. phase = "serve" /\ sup = place /\ Pending = {} /\ said \in Nat
  BY Singles DEF At, Pending, MarksInv
<1>2. UNCHANGED <<phase, role, host, config, health, stats>>
  BY DEF Unserved, startVars, snapshots
<1>3. QED
  BY <1>1, <1>2 DEF StatsInv, PlaceInv, ShapeInv

LEMMA ResolveStats == StatsInv /\ MarksInv /\ Resolve => StatsInv'
<1> SUFFICES ASSUME StatsInv, MarksInv, Resolve PROVE StatsInv'
  OBVIOUS
<1> USE DEF Naming
<1>1. /\ phase = "serve" /\ sup = "resolve" /\ Pending = {} /\ said \in Nat
      /\ stats.restarts \in Nat
      /\ UNCHANGED <<phase, role, host, config, health, stats>>
  BY Between DEF Resolve
<1>2. stats.state \in {"starting", "failed"}
  BY <1>1 DEF StatsInv, PlaceInv
<1>3. CASE Fails(<<SetStats([interface |-> None])>>, <<>>, 0) /\ sup' = "backoff"
  <2> DEFINE i == SetStats([interface |-> None])
             P == {i, Bump}
             M == {SetHealth("failed", said'), MarkWrite("failed", said')}
  <2>1. IsSeq(<<i>>) /\ IsSeq(<<>>) /\ Range(<<i>>) = {i} /\ Range(<<>>) = {}
    BY Singles
  <2>2. /\ said' = said + 0 + 1 /\ IsSeq(writes')
        /\ Range(writes') = {i} \union {Bump} \union {} \union M
    BY <1>1, <1>3, <2>1, FailsRange
  <2>3. said' \in Nat /\ said' >= said /\ said' # 0 /\ Pending' = P \union M /\ M # {}
    BY <1>1, <2>2 DEF Pending
  <2>4. \A w \in P : Ordinary(w, said') /\ Quiet(w)
    <3>1. Ordinary(i, said') /\ Quiet(i)
      BY <2>3, FieldWrites
    <3>2. Ordinary(Bump, said') /\ Quiet(Bump)
      BY <1>1, <2>3, BumpWrite
    <3>3. QED
      BY <3>1, <3>2
  <2> HIDE DEF P, M
  <2>5. Asks(P, M, "failed")
    BY <1>1, <2>2, <2>3, <2>4 DEF Asks, M
  <2>6. stats.state \in Down
    BY <1>2 DEF Down
  <2>7. QED
    BY <1>1, <1>3, <2>3, <2>4, <2>5, <2>6, FailureStats
<1>4. CASE Writes(<<SetStats([interface |-> interface'])>>, 0) /\ sup' = "build"
  <2> DEFINE i == SetStats([interface |-> interface'])
  <2>1. IsSeq(writes') /\ Pending' = {i} /\ said' = said
    BY <1>1, <1>4, Singles DEF Writes, Pending
  <2>2. /\ Ordinary(i, said) /\ Quiet(i) /\ DOMAIN i.set = {"interface"}
        /\ i.set.interface = interface'
    BY <1>1, FieldWrites
  <2> HIDE DEF i
  <2>3. Asks({i}, {}, "failed")
    BY <1>1, <2>1, <2>2 DEF Asks
  <2>4. /\ ShapeInv' /\ \A w \in Pending' : ~IsMark(w)
    BY <2>3, AsksShape
  <2>5. PlaceInv'
    BY <1>1, <1>2, <1>4, <2>4 DEF PlaceInv, Failing, Going
  <2>6. FailureInv'
    BY <1>1, <2>1, <2>2 DEF StatsInv, FailureInv
  <2>7. Tells("interface", interface)'
    BY <2>1, <2>2 DEF Tells, Sets, Ordinary
  <2>8. NamesInv'
    BY <1>1, <1>2, <1>4, <2>7 DEF StatsInv, NamesInv, Going, Down
  <2>9. QED
    BY <2>4, <2>5, <2>6, <2>8 DEF StatsInv
<1>5. QED
  BY <1>3, <1>4 DEF Resolve

LEMMA BuildStats == StatsInv /\ MarksInv /\ ChoiceInv /\ Build => StatsInv'
<1> SUFFICES ASSUME StatsInv, MarksInv, ChoiceInv, Build PROVE StatsInv'
  OBVIOUS
<1> DEFINE p == SetStats([pipeline |-> pipeline'])
           r == SetStats([renderer |-> pipeline'.renderer])
           P == IF role = "rx" THEN {p, r} ELSE {p}
           M == {SetHealth("starting_pipeline", said'), MarkWrite("starting_pipeline", said')}
<1>1. /\ phase = "serve" /\ sup = "build" /\ Pending = {} /\ said \in Nat
      /\ UNCHANGED <<phase, role, host, config, health, stats>>
  BY Between DEF Build
<1>2. /\ pipeline' = Descriptions(config, interface, given_up, host)
      /\ Writes(Announced(pipeline') \o Mark("starting_pipeline", said + 1), 1)
      /\ sup' = "start" /\ interface' = interface
  BY DEF Build
<1>3. stats.state \in {"starting", "failed"} /\ stats.interface = interface
      /\ stats.audio = config.audio_enabled
  BY <1>1 DEF StatsInv, PlaceInv, NamesInv, Tells
<1>4. config.audio_enabled = (pipeline'.audio # <<>>)
  BY <1>2, AudioOfPipeline
<1>5. IsSeq(Announced(pipeline')) /\ Range(Announced(pipeline')) = P
  <2>1. CASE role = "rx"
    <3>1. Announced(pipeline') = <<p>> \o <<r>>
      BY <2>1 DEF Announced
    <3> HIDE DEF p, r
    <3>2. IsSeq(<<p>> \o <<r>>) /\ Range(<<p>> \o <<r>>) = {p} \union {r}
      BY Singles, Joined
    <3>3. QED
      BY <2>1, <3>1, <3>2
  <2>2. CASE role # "rx"
    <3>1. Announced(pipeline') = <<p>> \o <<>>
      BY <2>2 DEF Announced
    <3> HIDE DEF p, r
    <3>2. IsSeq(<<p>> \o <<>>) /\ Range(<<p>> \o <<>>) = {p} \union {}
      BY Singles, Joined
    <3>3. QED
      BY <2>2, <3>1, <3>2
  <2>3. QED
    BY <2>1, <2>2
<1>6. /\ said' = said + 1 /\ IsSeq(writes') /\ Pending' = P \union M
  BY <1>2, <1>5, ThenMark DEF Writes, Pending
<1>7. said' \in Nat /\ said' >= said /\ said' # 0
  BY <1>1, <1>6
<1>8. /\ Ordinary(p, said') /\ Quiet(p) /\ DOMAIN p.set = {"pipeline"}
      /\ p.set.pipeline = pipeline'
      /\ Ordinary(r, said') /\ Quiet(r) /\ DOMAIN r.set = {"renderer"}
      /\ r.set.renderer = pipeline'.renderer
  BY <1>7, FieldWrites
<1> HIDE DEF p, r
<1>9. Asks(P, M, "starting_pipeline") /\ M # {}
  BY <1>1, <1>6, <1>7, <1>8 DEF Asks
<1> HIDE DEF M
<1>10. /\ ShapeInv'
       /\ \A w \in Pending' : IsMark(w) => w.set.state = "starting_pipeline"
       /\ \E w \in Pending' : IsMark(w)
       /\ \A w \in Pending' : w.lock = "stats" /\ ~IsMark(w) => w \in P
       /\ \A w \in Pending' : \A f \in Naming : Sets(w, f) => w \in P
  BY <1>9, AsksShape
<1>11. PlaceInv'
  BY <1>1, <1>2, <1>10 DEF PlaceInv, MayMark, Failing, Going, Down
<1>12. FailureInv'
  BY <1>1, <1>8, <1>10 DEF StatsInv, FailureInv
<1>13. NamesInv'
  <2>1. Tells("interface", interface)'
    BY <1>1, <1>2, <1>3, <1>8, <1>10 DEF Tells, Sets, Naming
  <2>2. Tells("pipeline", pipeline)'
    <3>1. p \in Pending' /\ Sets(p, "pipeline")
      BY <1>6, <1>8 DEF Sets, Ordinary
    <3>2. \A w \in Pending' : Sets(w, "pipeline") => w = p
      BY <1>8, <1>10 DEF Naming, Sets
    <3>3. QED
      BY <1>8, <3>1, <3>2 DEF Tells
  <2>3. role = "rx" => Tells("renderer", pipeline.renderer)'
    <3> SUFFICES ASSUME role = "rx" PROVE Tells("renderer", pipeline.renderer)'
      OBVIOUS
    <3>1. r \in Pending' /\ Sets(r, "renderer")
      BY <1>6, <1>8 DEF Sets, Ordinary
    <3>2. \A w \in Pending' : Sets(w, "renderer") => w = r
      BY <1>8, <1>10 DEF Naming, Sets
    <3>3. QED
      BY <1>8, <3>1, <3>2 DEF Tells
  <2>4. stats'.state \in Down
    BY <1>1, <1>3 DEF Down
  <2>5. QED
    BY <1>1, <1>2, <1>3, <1>4, <2>1, <2>2, <2>3, <2>4 DEF NamesInv
<1>14. QED
  BY <1>10, <1>11, <1>12, <1>13 DEF StatsInv

LEMMA BuildFailsStats == StatsInv /\ MarksInv /\ BuildFails => StatsInv'
<1> SUFFICES ASSUME StatsInv, MarksInv, BuildFails PROVE StatsInv'
  OBVIOUS
<1> DEFINE M == {SetHealth("failed", said'), MarkWrite("failed", said')}
<1>1. /\ phase = "serve" /\ sup = "build" /\ Pending = {} /\ said \in Nat
      /\ stats.restarts \in Nat
      /\ UNCHANGED <<phase, role, host, config, health, stats>>
  BY Between DEF BuildFails
<1>2. stats.state \in {"starting", "failed"}
  BY <1>1 DEF StatsInv, PlaceInv
<1>3. Fails(<<>>, <<>>, 0) /\ sup' \in {"resolve", "backoff"}
  BY DEF BuildFails
<1>4. IsSeq(<<>>) /\ Range(<<>>) = {}
  BY Singles
<1>5. /\ said' = said + 0 + 1 /\ IsSeq(writes')
      /\ Range(writes') = {} \union {Bump} \union {} \union M
  BY <1>1, <1>3, <1>4, FailsRange
<1>6. said' \in Nat /\ said' >= said /\ said' # 0 /\ Pending' = {Bump} \union M /\ M # {}
  BY <1>1, <1>5 DEF Pending
<1>7. Ordinary(Bump, said') /\ Quiet(Bump)
  BY <1>1, <1>6, BumpWrite
<1>8. Asks({Bump}, M, "failed")
  BY <1>1, <1>5, <1>6, <1>7 DEF Asks
<1> HIDE DEF M
<1>9. stats.state \in Down
  BY <1>2 DEF Down
<1>10. QED
  BY <1>1, <1>2, <1>3, <1>6, <1>7, <1>8, <1>9, FailureStats

\* A pipeline that was started is given up.
LEMMA GivesUpStats ==
  ASSUME StatsInv, MarksInv, phase = "serve", sup \in Going, Pending = {},
         UNCHANGED <<phase, role, config, health, stats, interface, pipeline>>, sup' = "backoff",
         NEW before \in {<<>>, <<SetError>>}, NEW after \in {<<>>, <<SetError>>},
         GivesUp(before, after)
  PROVE  StatsInv'
<1> DEFINE M == {SetHealth("failed", said'), MarkWrite("failed", said')}
<1>1. said \in Nat /\ stats.restarts \in Nat /\ stats.state \notin Down
  BY DEF MarksInv, StatsInv, ShapeInv, PlaceInv
<1>2. /\ IsSeq(before) /\ IsSeq(after)
      /\ Range(before) \subseteq {SetError} /\ Range(after) \subseteq {SetError}
  BY Singles
<1>3. said' \in Nat \ {0} /\ said' >= said /\ IsSeq(writes')
  BY <1>1, <1>2, GivesUpRange
<1>4. PICK B : /\ \A w \in B : Ordinary(w, said') /\ DOMAIN w.set = {}
               /\ Range(writes') = Range(before) \union B \union {Bump} \union Range(after)
                                   \union M
  BY <1>1, <1>2, GivesUpRange
<1> DEFINE P == Range(before) \union B \union {Bump} \union Range(after)
<1>5. Pending' = P \union M /\ M # {}
  BY <1>4 DEF Pending
<1>6. \A w \in P : w \in B \/ w = Bump \/ w = SetError
  BY <1>2
<1>7. /\ Ordinary(Bump, said') /\ DOMAIN Bump.set = {"restarts"}
      /\ Ordinary(SetError, said') /\ DOMAIN SetError.set = {"last_error"}
  BY <1>1, <1>3, BumpWrite, ErrorWrite
<1> HIDE DEF P
<1>8. \A w \in P : Ordinary(w, said') /\ \A f \in Naming : f \notin DOMAIN w.set
  BY <1>4, <1>6, <1>7 DEF Naming
<1>9. Asks(P, M, "failed")
  BY <1>3, <1>5, <1>8 DEF Asks
<1> HIDE DEF M
<1>10. QED
  BY <1>1, <1>5, <1>8, <1>9, FailureStats DEF Down

LEMMA GoesDownStats == StatsInv /\ MarksInv /\ (StartFails \/ Restart) => StatsInv'
<1> SUFFICES ASSUME StatsInv, MarksInv, StartFails \/ Restart PROVE StatsInv'
  OBVIOUS
<1>1. /\ \E place \in Going : At(place)
      /\ Unserved /\ sup' = "backoff" /\ UNCHANGED <<interface, pipeline>>
  BY DEF StartFails, Restart, Going
<1>2. /\ phase = "serve" /\ sup \in Going /\ Pending = {}
      /\ UNCHANGED <<phase, role, config, health, stats>>
  BY <1>1, Between
<1>3. \E before \in {<<>>, <<SetError>>}, after \in {<<>>, <<SetError>>} : GivesUp(before, after)
  BY DEF StartFails, Restart
<1>4. QED
  BY <1>1, <1>2, <1>3, GivesUpStats

\* Marks on their own.
LEMMA MarkStats == StatsInv /\ MarksInv /\ (Started \/ Ready \/ Shutdown) => StatsInv'
<1> SUFFICES ASSUME StatsInv, MarksInv, Started \/ Ready \/ Shutdown PROVE StatsInv'
  OBVIOUS
<1>1. /\ \E place \in Going \union {"backoff"} : At(place)
      /\ Unserved /\ UNCHANGED <<interface, pipeline>>
  BY DEF Started, Ready, Shutdown, Going
<1>2. /\ phase = "serve" /\ sup \in Going \union {"backoff"} /\ Pending = {} /\ said \in Nat
      /\ UNCHANGED <<phase, role, config, health, stats>>
      /\ sup = "backoff" => stats.state = "failed"
  BY <1>1, Between
<1>3. PICK state : /\ Writes(Mark(state, said + 1), 1)
                   /\ \/ sup \in Going /\ sup' \in Going /\ state \notin Down
                      \/ sup' = "returned" /\ state = "stopping"
  <2>1. CASE Started
    BY <2>1 DEF Started, At, Going, Down
  <2>2. CASE Ready
    BY <2>2 DEF Ready, At, Going, Down
  <2>3. CASE Shutdown
    BY <2>3 DEF Shutdown
  <2>4. QED
    BY <2>1, <2>2, <2>3
<1> DEFINE M == {SetHealth(state, said'), MarkWrite(state, said')}
<1>4. /\ said' = said + 1 /\ said' \in Nat /\ said' >= said /\ said' # 0
      /\ IsSeq(writes') /\ Pending' = {} \union M /\ M # {}
  BY <1>2, <1>3, MarkRange DEF Writes, Pending
<1>5. Asks({}, M, state)
  BY <1>2, <1>4 DEF Asks
<1> HIDE DEF M
<1>6. CASE sup \in Going
  BY <1>1, <1>2, <1>3, <1>5, <1>6, GoingStats
<1>7. CASE sup = "backoff"
  <2>1. /\ ShapeInv'
        /\ \A w \in Pending' : IsMark(w) => w.set.state = state
        /\ \A w \in Pending' : w.lock = "stats" => IsMark(w)
    BY <1>5, AsksShape
  <2>2. sup' = "returned" /\ state = "stopping" /\ stats.state = "failed"
    BY <1>2, <1>3, <1>7 DEF Going
  <2>3. PlaceInv'
    BY <1>2, <2>1, <2>2 DEF PlaceInv, MayMark, Failing, Going
  <2>4. FailureInv'
    BY <1>2, <2>1 DEF StatsInv, FailureInv
  <2>5. NamesInv'
    BY <1>2, <2>2 DEF StatsInv, NamesInv, Going, Down
  <2>6. QED
    BY <2>1, <2>3, <2>4, <2>5 DEF StatsInv
<1>8. QED
  BY <1>2, <1>6, <1>7

LEMMA EventStats == StatsInv /\ MarksInv /\ Event => StatsInv'
<1> SUFFICES ASSUME StatsInv, MarksInv, Event PROVE StatsInv'
  OBVIOUS
<1> DEFINE a == AddNote(said + 1)
<1>1. /\ \E place \in {"wait", "media"} : At(place)
      /\ Unserved /\ UNCHANGED <<sup, interface, pipeline>>
  BY DEF Event, supVars
<1>2. /\ phase = "serve" /\ sup \in Going /\ Pending = {} /\ said \in Nat
      /\ UNCHANGED <<phase, role, config, health, stats>>
  BY <1>1, Between DEF Going
<1>3. IsSeq(writes') /\ Pending' = {a} /\ said' = said + 1
  BY Singles DEF Event, Writes, Pending
<1>4. said' \in Nat /\ said' >= said /\ said + 1 \in 1..said'
  BY <1>2, <1>3
<1>5. Ordinary(a, said') /\ DOMAIN a.set = {}
  BY <1>4, NoteWrite
<1> HIDE DEF a
<1>6. Asks({a}, {}, "running")
  BY <1>2, <1>3, <1>4, <1>5 DEF Asks
<1>7. \A w \in {a} : \A f \in Naming : f \notin DOMAIN w.set
  BY <1>5
<1>8. "running" \notin Down
  BY DEF Down
<1>9. QED
  BY <1>1, <1>2, <1>6, <1>7, <1>8, GoingStats

-----------------------------------------------------------------------------
\* The other steps

\* Nothing that is in stats before anybody reads it names a pipeline.
LEMMA AnnounceStats == StatsInv /\ MarksInv /\ ChoiceInv /\ Announce => StatsInv'
<1> SUFFICES ASSUME StatsInv, MarksInv, ChoiceInv, Announce PROVE StatsInv'
  OBVIOUS
<1> DEFINE first == [i \in 1..FirstNotes |-> i]
           facts == [stats EXCEPT
                       !.audio = config.audio_enabled,
                       !.renderer = IF role = "tx" THEN "not_applicable" ELSE config.renderer,
                       !.notes = Newest(first)]
<1>1. /\ phase = "announce" /\ phase' = "bind" /\ UNCHANGED <<role, config, sup, writes, health>>
      /\ said' = FirstNotes /\ stats' = facts
  BY DEF Announce, startVars, supVars
<1>2. /\ sup = "resolve" /\ stats.state = "starting" /\ Pending = {}
      /\ DOMAIN stats = StatsFields /\ stats.restarts \in Nat
      /\ stats.last_error \in {Reason} \union 0..said /\ IsSeq(writes) /\ health.ok \in BOOLEAN
  BY <1>1 DEF StatsInv, PlaceInv, ShapeInv
<1>3. FirstNotes \in Nat
  BY DEF FirstNotes
<1> HIDE DEF first
<1>4. first \in Seq(Nat)
  BY <1>3 DEF first
<1>5. Newest(first) \in Seq(Nat) /\ Len(Newest(first)) <= NoteCap
  BY <1>4, NewestNotes
<1>6. /\ DOMAIN facts = StatsFields /\ facts.notes = Newest(first)
      /\ facts.state = stats.state /\ facts.restarts = stats.restarts
      /\ facts.last_error = stats.last_error /\ facts.audio = config.audio_enabled
  BY <1>2, SMT DEF StatsFields
<1> HIDE DEF facts
<1>7. stats.last_error = NoError
  BY <1>1 DEF StatsInv, PlaceInv
<1>8. Pending' = {}
  BY <1>1, <1>2 DEF Pending
<1>9. ShapeInv'
  BY <1>1, <1>2, <1>3, <1>5, <1>6, <1>7, <1>8 DEF ShapeInv, NoError
<1>10. PlaceInv' /\ FailureInv' /\ NamesInv'
  BY <1>1, <1>2, <1>6, <1>7, <1>8
     DEF PlaceInv, FailureInv, NamesInv, Failing, Going, Down
<1>11. QED
  BY <1>9, <1>10 DEF StatsInv

\* A step that leaves alone what the supervisor and stats say; before anything
\* is served the configuration may change, or a pipeline be tried.
LEMMA StatsFrame ==
  ASSUME StatsInv, UNCHANGED <<role, sup, interface, writes, said, stats, health>>,
         phase' \notin {"serve", "ended"} => phase \notin {"serve", "ended"},
         \/ UNCHANGED <<config, pipeline>> /\ (phase' \in {"bind", "serve"} => phase \in {"bind", "serve"})
         \/ phase \notin {"serve", "ended"} /\ phase' \notin {"bind", "serve"}
  PROVE  StatsInv'
<1>1. Pending' = Pending /\ (\A f, v : Tells(f, v)' = Tells(f, v))
  BY DEF Pending, Tells
<1>2. ShapeInv' /\ FailureInv'
  BY <1>1 DEF StatsInv, ShapeInv, FailureInv
<1>3. PlaceInv'
  BY <1>1 DEF StatsInv, PlaceInv, MayMark
<1>4. NamesInv'
  <2>1. CASE UNCHANGED <<config, pipeline>> /\ (phase' \in {"bind", "serve"} => phase \in {"bind", "serve"})
    BY <1>1, <2>1 DEF StatsInv, NamesInv, Named, Tells
  <2>2. CASE phase \notin {"serve", "ended"} /\ phase' \notin {"bind", "serve"}
    <3>1. sup' = "resolve" /\ stats'.state = "starting"
      BY <2>2 DEF StatsInv, PlaceInv
    <3>2. QED
      BY <2>2, <3>1 DEF NamesInv, Going, Down
  <2>3. QED
    BY <2>1, <2>2
<1>5. QED
  BY <1>2, <1>3, <1>4 DEF StatsInv

LEMMA BackoffOverStats == StatsInv /\ MarksInv /\ BackoffOver => StatsInv'
<1> SUFFICES ASSUME StatsInv, MarksInv, BackoffOver PROVE StatsInv'
  OBVIOUS
<1>1. /\ phase = "serve" /\ sup = "backoff" /\ Pending = {} /\ stats.state = "failed"
      /\ UNCHANGED <<phase, role, host, config, health, stats>>
  BY Between DEF BackoffOver
<1>2. UNCHANGED <<interface, pipeline, writes, said>> /\ sup' = "resolve"
  BY DEF BackoffOver
<1>3. Pending' = {}
  BY <1>1, <1>2 DEF Pending
<1>4. ShapeInv' /\ FailureInv'
  BY <1>1, <1>2, <1>3 DEF StatsInv, ShapeInv, FailureInv
<1>5. PlaceInv' /\ NamesInv'
  BY <1>1, <1>2, <1>3 DEF StatsInv, PlaceInv, NamesInv, Failing, Going, Down
<1>6. QED
  BY <1>4, <1>5 DEF StatsInv

LEMMA NextStats == StatsInv /\ MarksInv /\ ChoiceInv /\ [Next]_vars => StatsInv'
<1> SUFFICES ASSUME StatsInv, MarksInv, ChoiceInv, [Next]_vars PROVE StatsInv'
  OBVIOUS
<1>1. CASE Write
  BY <1>1, WriteStats
<1>2. CASE Announce
  BY <1>2, AnnounceStats
<1>3. CASE Resolve
  BY <1>3, ResolveStats
<1>4. CASE Build
  BY <1>4, BuildStats
<1>5. CASE BuildFails
  BY <1>5, BuildFailsStats
<1>6. CASE StartFails \/ Restart
  BY <1>6, GoesDownStats
<1>7. CASE Started \/ Ready \/ Shutdown
  BY <1>7, MarkStats
<1>8. CASE Event
  BY <1>8, EventStats
<1>9. CASE BackoffOver
  BY <1>9, BackoffOverStats
<1>10. CASE Load \/ Bind \/ SupervisorReturned \/ ServerEnded \/ Healthz \/ Stats \/ Ended
              \/ UNCHANGED vars
  BY <1>10, StatsFrame
     DEF Load, Bind, SupervisorReturned, ServerEnded, Healthz, Stats, Ended, At, Exits,
         startVars, supVars, snapshots, vars
<1>11. CASE Override \/ CheckConfig
  BY <1>11, StatsFrame DEF Override, CheckConfig, Exits, startVars, supVars, snapshots
<1>12. QED
  BY <1>1, <1>2, <1>3, <1>4, <1>5, <1>6, <1>7, <1>8, <1>9, <1>10, <1>11 DEF Next

\* The invariant of the marks and that of the configuration hold it up.
LEMMA StatsAlways == Spec => []StatsInv
<1>1. MarksInv /\ [Next]_vars => MarksInv'
  BY NextMarks
<1>2. Spec => []MarksInv
  BY <1>1, InitMarks, PTL DEF Spec
<1>3. QED
  BY <1>2, Choice, InitStats, NextStats, PTL DEF Spec

-----------------------------------------------------------------------------
\* Theorems

\* At any instant between the writes of a failure and those of the next, over
\* any number of cycles and with any number of notes kept: /stats that says
\* failed names its own failure in last_error and in the newest note
\* (metrics.rs:132-143, 272-278).
THEOREM FailuresExplained == Spec => []FailedExplainsItself
<1>1. StatsInv => FailedExplainsItself
  BY DEF StatsInv, FailureInv, FailedExplainsItself
<1>2. QED
  BY <1>1, StatsAlways, PTL

\* While a pipeline starts, waits or runs, /stats tells its interface, its
\* descriptions, its renderer and whether it has audio: whatever a reader sees,
\* no fallback or change of the interface leaves an older pipeline's there
\* (tx/src/main.rs:162-221, rx/src/main.rs:172-224).
THEOREM StatsTrue == Spec => []StatsNameThePipeline
<1>1. StatsInv => StatsNameThePipeline
  BY DEF StatsInv, NamesInv, Named, StatsNameThePipeline, Down
<1>2. QED
  BY <1>1, StatsAlways, PTL

\* The types that the writes have no part in.
MainInv ==
    /\ role \in {"tx", "rx"} /\ check \in BOOLEAN
    /\ phase \in {"load", "override", "check", "announce", "bind", "serve", "ended"}
    /\ exit \in {None, "ok", "error"} /\ (phase = "ended" <=> exit # None)
    /\ DOMAIN config = DOMAIN DefaultOf(role)
    /\ given_up \subseteq {"codec", "capture", "jpeg"}

LEMMA InitMain == Init => MainInv
<1> SUFFICES ASSUME Init PROVE MainInv
  OBVIOUS
<1>1. PICK p \in Rehearsal \union Start : Given(p)
  BY DEF Init
<1>2. role \in {"tx", "rx"} /\ DOMAIN config = DOMAIN DefaultOf(role)
  BY <1>1, ProcessAssumption DEF Given
<1>3. QED
  BY <1>2 DEF Init, MainInv, None

LEMMA NextMain == MainInv /\ MarksInv /\ [Next]_vars => MainInv'
<1> SUFFICES ASSUME MainInv, MarksInv, [Next]_vars PROVE MainInv'
  OBVIOUS
<1> USE DEF MainInv, None
<1>1. CASE Load \/ Bind \/ SupervisorReturned \/ ServerEnded
  BY <1>1 DEF Load, Bind, SupervisorReturned, ServerEnded, At, Exits, startVars, supVars
<1>2. CASE Override
  BY <1>2 DEF Override, Overridden, Exits, startVars, supVars
<1>3. CASE CheckConfig
  BY <1>3 DEF CheckConfig, Exits, startVars
<1>4. CASE Announce
  BY <1>4 DEF Announce, startVars, supVars
<1>5. CASE Write \/ Healthz \/ Stats \/ Ended \/ UNCHANGED vars
  BY <1>5 DEF Write, Healthz, Stats, Ended, startVars, supVars, vars
<1>6. CASE Resolve \/ Build \/ Started \/ Ready \/ Event \/ BackoffOver \/ Shutdown
  BY <1>6 DEF Resolve, Build, Started, Ready, Event, BackoffOver, Shutdown, Unserved, startVars,
              supVars
<1>7. CASE BuildFails
  BY <1>7 DEF BuildFails, Unserved, startVars
<1>8. CASE StartFails \/ Restart
  <2>1. PICK before, after \in {<<>>, <<SetError>>} : GivesUp(before, after)
    BY <1>8 DEF StartFails, Restart
  <2>2. IsSeq(before) /\ IsSeq(after) /\ said \in Nat
    BY Singles, <2>1 DEF MarksInv
  <2>3. given_up' \subseteq given_up \union {"codec", "capture", "jpeg"}
    BY <2>1, <2>2, GivesUpRange
  <2>4. Unserved
    BY <1>8 DEF StartFails, Restart
  <2>5. QED
    BY <2>3, <2>4 DEF Unserved, startVars
<1>9. QED
  BY <1>1, <1>2, <1>3, <1>4, <1>5, <1>6, <1>7, <1>8 DEF Next

\* Every variable of the service keeps its type, and stats never holds more
\* than NoteCap notes (metrics.rs:6-52, 272-278).
THEOREM ServiceTypes == Spec => []TypeOK
<1>1. StatsInv /\ MarksInv /\ MainInv => TypeOK
  <2> SUFFICES ASSUME StatsInv, MarksInv, MainInv PROVE TypeOK
    OBVIOUS
  <2>1. said \in Nat /\ answered \in 0..said /\ health.mark \in 0..said /\ stats.mark \in 0..said
    BY DEF MarksInv
  <2>2. \A i \in DOMAIN writes : writes[i].lock \in {"health", "stats"}
    <3> SUFFICES ASSUME NEW i \in DOMAIN writes PROVE writes[i].lock \in {"health", "stats"}
      OBVIOUS
    <3>1. writes[i] \in Pending
      BY DEF Pending, Range
    <3>2. WriteOK(writes[i], said)
      BY <3>1 DEF StatsInv, ShapeInv
    <3>3. QED
      BY <3>2 DEF WriteOK, HealthOK, Ordinary, MarkOK
  <2>3. sup \in {"resolve", "build", "start", "wait", "media", "backoff", "returned"}
    BY DEF StatsInv, PlaceInv, Failing, Going
  <2>4. /\ stats.last_error \in {Reason} \union 0..said /\ stats.restarts \in Nat
        /\ Len(stats.notes) <= NoteCap /\ health.ok \in BOOLEAN
    BY DEF StatsInv, ShapeInv
  <2>5. QED
    BY <2>1, <2>2, <2>3, <2>4 DEF MainInv, TypeOK
<1>2. Spec => []MarksInv
  BY InitMarks, NextMarks, PTL DEF Spec
<1>3. Spec => []MainInv
  BY <1>2, InitMain, NextMain, PTL DEF Spec
<1>4. QED
  BY <1>1, <1>2, <1>3, StatsAlways, PTL

-----------------------------------------------------------------------------
\* Names in descriptions: what the recursive definitions of PipelineText compute,
\* by the least counterexample.

\* g is what the first n characters of a value become in quotes.
Escapes(g, n, value) ==
    g = [i \in 0..n |-> IF i = 0 THEN <<>> ELSE g[i - 1] \o Escaped(value[i])]

LEMMA EscapesExist ==
  ASSUME NEW value, NEW n \in Nat
  PROVE  \E g : Escapes(g, n, value)
<1> DEFINE T == {m \in Nat : ~ \E g : Escapes(g, m, value)}
<1>1. SUFFICES ASSUME T # {} PROVE FALSE
  OBVIOUS
<1>2. PICK m \in T : \A k \in T : m <= k
  BY <1>1, LeastNatural
<1>3. CASE m = 0
  <2> DEFINE g == [i \in 0..0 |-> <<>>]
  <2>1. Escapes(g, 0, value)
    BY DEF Escapes
  <2>2. QED
    BY <1>2, <1>3, <2>1
<1>4. CASE m # 0
  <2>1. m - 1 \in Nat /\ m - 1 \notin T
    BY <1>2, <1>4
  <2>2. PICK g : Escapes(g, m - 1, value)
    BY <2>1
  <2> DEFINE h == [i \in 0..m |-> IF i = 0 THEN <<>> ELSE g[i - 1] \o Escaped(value[i])]
  <2>3. \A i \in 0..(m - 1) : h[i] = g[i]
    BY <2>1, <2>2 DEF Escapes
  <2>4. \A i \in 0..m : i # 0 => i - 1 \in 0..(m - 1)
    BY <2>1
  <2>5. \A i \in 0..m : i # 0 => g[i - 1] = h[i - 1]
    BY <2>3, <2>4
  <2>6. Escapes(h, m, value)
    BY <2>5 DEF Escapes
  <2>7. QED
    BY <1>2, <2>6
<1>5. QED
  BY <1>3, <1>4

LEMMA QuotedIsEscaped ==
  ASSUME NEW S, {Backslash, Quote} \subseteq S, NEW value \in Seq(S)
  PROVE  \E g : /\ Escapes(g, Len(value), value)
                /\ Quoted(value) = <<Quote>> \o g[Len(value)] \o <<Quote>>
<1> DEFINE a == CHOOSE g : Escapes(g, Len(value), value)
<1>1. Len(value) \in Nat
  OBVIOUS
<1>2. Escapes(a, Len(value), value)
  BY <1>1, EscapesExist, Zenon
<1>3. Quoted(value) = <<Quote>> \o a[Len(value)] \o <<Quote>>
  BY Zenon DEF Quoted, Escapes
<1>4. QED
  BY <1>2, <1>3

\* s begins t.
Begins(s, t) == Len(s) <= Len(t) /\ \A j \in 1..Len(s) : t[j] = s[j]

LEMMA TailOfConcat ==
  ASSUME NEW S, NEW s \in Seq(S), NEW t \in Seq(S), NEW k \in 1..Len(t)
  PROVE  (s \o t)[Len(s) + k] = t[k]
<1>1. Len(s) \in Nat /\ Len(t) \in Nat
  OBVIOUS
<1>2. /\ Len(s) + k \in 1..Len(s) + Len(t) /\ ~(Len(s) + k <= Len(s))
      /\ Len(s) + k - Len(s) = k
  BY <1>1
<1>3. (s \o t)[Len(s) + k] = t[Len(s) + k - Len(s)]
  BY <1>2, ConcatProperties
<1>4. QED
  BY <1>2, <1>3

LEMMA Concatenated ==
  ASSUME NEW S, NEW s \in Seq(S), NEW t \in Seq(S)
  PROVE  /\ s \o t \in Seq(S) /\ Len(s) \in Nat /\ Len(t) \in Nat
         /\ Len(s \o t) = Len(s) + Len(t) /\ Begins(s, s \o t)
         /\ \A k \in 1..Len(t) : (s \o t)[Len(s) + k] = t[k]
<1>1. /\ s \o t \in Seq(S) /\ Len(s) \in Nat /\ Len(t) \in Nat
      /\ Len(s \o t) = Len(s) + Len(t)
      /\ \A j \in 1..Len(s) : (s \o t)[j] = s[j]
  BY ConcatProperties
<1>2. Begins(s, s \o t)
  BY <1>1 DEF Begins
<1>3. QED
  BY <1>1, <1>2, TailOfConcat

\* t is s and c, behind a backslash if it needs one.
Adds(s, c, t) ==
    IF c \in {Backslash, Quote}
    THEN Len(t) = Len(s) + 2 /\ t[Len(s) + 1] = Backslash /\ t[Len(s) + 2] = c
    ELSE Len(t) = Len(s) + 1 /\ t[Len(s) + 1] = c

\* What a character adds.
LEMMA EscapeStep ==
  ASSUME NEW S, {Backslash, Quote} \subseteq S, NEW value \in Seq(S),
         NEW n \in Nat, n <= Len(value), NEW g, Escapes(g, n, value),
         NEW i \in 1..n, g[i - 1] \in Seq(S)
  PROVE  /\ g[i] \in Seq(S)
         /\ g[i] = g[i - 1] \o Escaped(value[i])
         /\ Begins(g[i - 1], g[i])
         /\ Adds(g[i - 1], value[i], g[i])
<1>1. g[i] = g[i - 1] \o Escaped(value[i])
  <2>1. i \in 0..n /\ i # 0
    OBVIOUS
  <2>2. QED
    BY <2>1, Zenon DEF Escapes
<1>2. value[i] \in S
  OBVIOUS
<1> DEFINE s == g[i - 1]
           c == value[i]
<1> HIDE DEF s, c
<1>3. s \in Seq(S) /\ Escaped(c) \in Seq(S) /\ g[i] = s \o Escaped(c)
  BY <1>1, <1>2 DEF s, c, Escaped
<1>4. /\ g[i] \in Seq(S) /\ Len(s) \in Nat /\ Len(g[i]) = Len(s) + Len(Escaped(c))
      /\ Begins(s, g[i])
      /\ \A k \in 1..Len(Escaped(c)) : g[i][Len(s) + k] = Escaped(c)[k]
  BY <1>3, Concatenated
<1>5. CASE c \in {Backslash, Quote}
  <2>1. Len(Escaped(c)) = 2 /\ Escaped(c)[1] = Backslash /\ Escaped(c)[2] = c
    BY <1>5 DEF Escaped
  <2>2. Len(g[i]) = Len(s) + 2 /\ g[i][Len(s) + 1] = Backslash /\ g[i][Len(s) + 2] = c
    BY <1>4, <2>1
  <2>3. Adds(s, c, g[i])
    BY <1>5, <2>2, Zenon DEF Adds
  <2>4. QED
    BY <1>1, <1>4, <2>3 DEF s, c
<1>6. CASE c \notin {Backslash, Quote}
  <2>1. Len(Escaped(c)) = 1 /\ Escaped(c)[1] = c
    BY <1>6 DEF Escaped
  <2>2. Len(g[i]) = Len(s) + 1 /\ g[i][Len(s) + 1] = c
    BY <1>4, <2>1
  <2>3. Adds(s, c, g[i])
    BY <1>6, <2>2, Zenon DEF Adds
  <2>4. QED
    BY <1>1, <1>4, <2>3 DEF s, c
<1>7. QED
  BY <1>5, <1>6

\* Every prefix of a value becomes a prefix of what the value becomes.
LEMMA EscapesGrow ==
  ASSUME NEW S, {Backslash, Quote} \subseteq S, NEW value \in Seq(S),
         NEW n \in Nat, n <= Len(value), NEW g, Escapes(g, n, value)
  PROVE  /\ \A i \in 0..n : g[i] \in Seq(S)
         /\ \A i \in 0..n : Begins(g[i], g[n])
<1>1. \A i \in 0..n : g[i] \in Seq(S)
  <2> DEFINE T == {i \in 0..n : g[i] \notin Seq(S)}
  <2>1. SUFFICES ASSUME T # {} PROVE FALSE
    OBVIOUS
  <2>2. T \subseteq Nat
    OBVIOUS
  <2>3. PICK m \in T : \A k \in T : m <= k
    <3> HIDE DEF T
    <3> QED
      BY <2>1, <2>2, LeastNatural
  <2>4. CASE m = 0
    <3>1. g[0] = <<>> /\ <<>> \in Seq(S)
      BY DEF Escapes
    <3>2. QED
      BY <2>3, <2>4, <3>1
  <2>5. CASE m # 0
    <3>1. m \in 1..n /\ m - 1 \in 0..n /\ m - 1 \notin T
      BY <2>3, <2>5
    <3>2. g[m - 1] \in Seq(S)
      BY <3>1
    <3>3. g[m] \in Seq(S)
      BY <3>1, <3>2, EscapeStep
    <3>4. QED
      BY <2>3, <3>3
  <2>6. QED
    BY <2>4, <2>5
<1>2. \A i \in 0..n : Begins(g[n - i], g[n])
  <2> DEFINE T == {i \in 0..n : ~Begins(g[n - i], g[n])}
  <2>1. SUFFICES ASSUME T # {} PROVE FALSE
    OBVIOUS
  <2>2. T \subseteq Nat
    OBVIOUS
  <2>3. PICK m \in T : \A k \in T : m <= k
    <3> HIDE DEF T
    <3> QED
      BY <2>1, <2>2, LeastNatural
  <2>4. CASE m = 0
    <3>1. Len(g[n]) \in Nat /\ n - 0 = n
      BY <1>1
    <3>2. Begins(g[n], g[n])
      BY <3>1 DEF Begins
    <3>3. QED
      BY <2>3, <2>4, <3>1, <3>2
  <2>5. CASE m # 0
    <3>0. m \in 0..n
      BY <2>3
    <3>1. /\ m - 1 \in 0..n /\ n - m + 1 \in 1..n /\ n - (m - 1) = n - m + 1
          /\ n - m + 1 - 1 = n - m /\ n - m \in 0..n
      BY <2>5, <3>0
    <3>2. Begins(g[n - m + 1], g[n])
      <4>1. m - 1 \notin T
        <5> HIDE DEF T
        <5>1. ~(m <= m - 1)
          BY <3>0
        <5>2. QED
          BY <2>3, <5>1
      <4>2. QED
        BY <3>1, <4>1
    <3> DEFINE i == n - m + 1
    <3>3. Begins(g[i - 1], g[i])
      <4>1. i \in 1..n /\ g[i - 1] \in Seq(S)
        BY <1>1, <3>1
      <4> HIDE DEF i
      <4>2. QED
        BY <4>1, EscapeStep
    <3>4. Len(g[n - m]) \in Nat /\ Len(g[n - m + 1]) \in Nat /\ Len(g[n]) \in Nat
      BY <1>1, <3>1
    <3>5. Begins(g[n - m], g[n])
      <4> DEFINE r == g[n - m]
                 s == g[n - m + 1]
                 t == g[n]
      <4>1. Begins(r, s) /\ Begins(s, t) /\ Len(r) \in Nat /\ Len(s) \in Nat /\ Len(t) \in Nat
        BY <3>1, <3>2, <3>3, <3>4
      <4> HIDE DEF r, s, t
      <4>2. Begins(r, t)
        BY <4>1 DEF Begins
      <4>3. QED
        BY <4>2 DEF r, t
    <3>6. QED
      BY <2>3, <3>5
  <2>6. QED
    BY <2>4, <2>5
<1>3. \A i \in 0..n : n - i \in 0..n /\ n - (n - i) = i
  OBVIOUS
<1>4. QED
  BY <1>1, <1>2, <1>3, Zenon

\* a is where the reader of a description is after each of its first n characters.
Reads(a, n, description) ==
    a = [k \in 0..n |-> IF k = 0 THEN AtStart ELSE ReadChar(a[k - 1], description, k)]

LEMMA ReadsExist ==
  ASSUME NEW description, NEW n \in Nat
  PROVE  \E a : Reads(a, n, description)
<1> DEFINE T == {m \in Nat : ~ \E a : Reads(a, m, description)}
<1>1. SUFFICES ASSUME T # {} PROVE FALSE
  OBVIOUS
<1>2. PICK m \in T : \A k \in T : m <= k
  BY <1>1, LeastNatural
<1>3. CASE m = 0
  <2> DEFINE a == [k \in 0..0 |-> AtStart]
  <2>1. Reads(a, 0, description)
    BY DEF Reads
  <2>2. QED
    BY <1>2, <1>3, <2>1
<1>4. CASE m # 0
  <2>1. m - 1 \in Nat /\ m - 1 \notin T
    BY <1>2, <1>4
  <2>2. PICK a : Reads(a, m - 1, description)
    BY <2>1
  <2> DEFINE b == [k \in 0..m |-> IF k = 0 THEN AtStart ELSE ReadChar(a[k - 1], description, k)]
  <2>3. \A k \in 0..(m - 1) : b[k] = a[k]
    BY <2>1, <2>2 DEF Reads
  <2>4. \A k \in 0..m : k # 0 => k - 1 \in 0..(m - 1)
    BY <2>1
  <2>5. \A k \in 0..m : k # 0 => a[k - 1] = b[k - 1]
    BY <2>3, <2>4
  <2>6. Reads(b, m, description)
    BY <2>5 DEF Reads
  <2>7. QED
    BY <1>2, <2>6
<1>5. QED
  BY <1>3, <1>4

\* The segments are those of the reader at the end, and what is left.
LEMMA SegmentsAreRead ==
  ASSUME NEW S, NEW d \in Seq(S)
  PROVE  \E a : /\ Reads(a, Len(d), d)
                /\ SplitPipelineSegments(d)
                     = Append(a[Len(d)].segments, SubSeq(d, a[Len(d)].start, Len(d)))
<1> DEFINE a == CHOOSE b : Reads(b, Len(d), d)
<1>1. Len(d) \in Nat
  OBVIOUS
<1>2. Reads(a, Len(d), d)
  BY <1>1, ReadsExist, Zenon
<1>3. SplitPipelineSegments(d)
        = Append(a[Len(d)].segments, SubSeq(d, a[Len(d)].start, Len(d)))
  BY Zenon DEF SplitPipelineSegments, Reads
<1>4. QED
  BY <1>2, <1>3

LEMMA ReadStep ==
  ASSUME NEW d, NEW n \in Nat, NEW a, Reads(a, n, d)
  PROVE  \A k \in Nat : k + 1 <= n => a[k + 1] = ReadChar(a[k], d, k + 1)
<1>1. \A i \in 0..n : i # 0 => a[i] = ReadChar(a[i - 1], d, i)
  BY Zenon DEF Reads
<1>2. ASSUME NEW k \in Nat, k + 1 <= n PROVE a[k + 1] = ReadChar(a[k], d, k + 1)
  <2>1. k + 1 \in 0..n /\ k + 1 # 0 /\ (k + 1) - 1 = k
    BY <1>2
  <2>2. a[k + 1] = ReadChar(a[(k + 1) - 1], d, k + 1)
    BY <1>1, <2>1, Zenon
  <2>3. QED
    BY <2>1, <2>2, Zenon
<1>3. QED
  BY <1>2, Zenon

InQuotes == [quote |-> Quote, escaped |-> FALSE, start |-> 1, segments |-> <<>>]
BehindBackslash == [quote |-> Quote, escaped |-> TRUE, start |-> 1, segments |-> <<>>]

LEMMA Characters ==
  /\ Backslash # Quote /\ Quote # "" /\ Quote # "!"
  /\ Backslash \notin {"!", "'", " ", "io-mode", "video", "/", "x-raw", ",", "width",
                       "v4l2src", "device="}
  /\ Quote \notin {"!", "'", " ", "io-mode", "video", "/", "x-raw", ",", "width",
                   "v4l2src", "device="}
BY Zenon DEF Backslash, Quote

\* In quotes the reader stays, whatever comes, until a quote that is not escaped.
LEMMA ReadInQuotes ==
  ASSUME NEW d, NEW k
  PROVE  /\ d[k] \notin {Backslash, Quote} => ReadChar(InQuotes, d, k) = InQuotes
         /\ d[k] = Backslash => ReadChar(InQuotes, d, k) = BehindBackslash
         /\ d[k] = Quote => ReadChar(InQuotes, d, k) = AtStart
         /\ ReadChar(BehindBackslash, d, k) = InQuotes
         /\ d[k] = Quote => ReadChar(AtStart, d, k) = InQuotes
<1> DEFINE InState(q, e) == [quote |-> q, escaped |-> e, start |-> 1, segments |-> <<>>]
<1>1. /\ InQuotes.quote = Quote /\ ~InQuotes.escaped /\ InQuotes.start = 1
      /\ InQuotes.segments = <<>>
  BY DEF InQuotes
<1>2. /\ AtStart.quote = "" /\ ~AtStart.escaped /\ AtStart.start = 1
      /\ AtStart.segments = <<>>
  BY DEF AtStart
<1>3. /\ BehindBackslash.quote = Quote /\ BehindBackslash.escaped /\ BehindBackslash.start = 1
      /\ BehindBackslash.segments = <<>>
  BY DEF BehindBackslash
<1>4. ASSUME d[k] \notin {Backslash, Quote} PROVE ReadChar(InQuotes, d, k) = InQuotes
  <2>1. (d[k] = Backslash /\ ~InQuotes.escaped) = FALSE
    BY <1>4
  <2>2. QED
    BY <1>1, <1>4, <2>1, Characters, Zenon DEF ReadChar, InQuotes
<1>5. ASSUME d[k] = Backslash PROVE ReadChar(InQuotes, d, k) = BehindBackslash
  <2>1. (d[k] = Backslash /\ ~InQuotes.escaped) = TRUE
    BY <1>1, <1>5
  <2>2. QED
    BY <1>1, <1>5, <2>1, Characters, Zenon DEF ReadChar, BehindBackslash
<1>6. ASSUME d[k] = Quote PROVE ReadChar(InQuotes, d, k) = AtStart
  <2>1. (d[k] = Backslash /\ ~InQuotes.escaped) = FALSE
    BY <1>6, Characters
  <2>2. QED
    BY <1>1, <1>6, <2>1, Characters, Zenon DEF ReadChar, AtStart
<1>7. ReadChar(BehindBackslash, d, k) = InQuotes
  <2>1. (d[k] = Backslash /\ ~BehindBackslash.escaped) = FALSE
    BY <1>3
  <2>2. QED
    BY <1>3, <2>1, Zenon DEF ReadChar, InQuotes
<1>8. ASSUME d[k] = Quote PROVE ReadChar(AtStart, d, k) = InQuotes
  <2>1. (d[k] = Backslash /\ ~AtStart.escaped) = FALSE
    BY <1>8, Characters
  <2>2. QED
    BY <1>2, <1>8, <2>1, Characters, Zenon DEF ReadChar, InQuotes
<1>9. QED
  BY <1>4, <1>5, <1>6, <1>7, <1>8

Outside(start, segments) ==
    [quote |-> "", escaped |-> FALSE, start |-> start, segments |-> segments]
Special == {Backslash, Quote, "'", "!", ""}

\* Outside quotes a word changes nothing.
LEMMA ReadWordUnquoted ==
  ASSUME NEW d, NEW k, NEW s, s.quote = "", ~s.escaped, d[k] \notin Special
  PROVE  ReadChar(s, d, k) = Outside(s.start, s.segments)
<1>1. (d[k] = Backslash /\ ~s.escaped) = FALSE
  BY DEF Special
<1>2. d[k] # "" /\ d[k] # "!" /\ d[k] \notin {Quote, "'"}
  BY DEF Special
<1>3. QED
  BY <1>1, <1>2, Zenon DEF ReadChar, Outside

LEMMA ReadWord ==
  ASSUME NEW d, NEW k, NEW i, NEW z, d[k] \notin Special
  PROVE  ReadChar(Outside(i, z), d, k) = Outside(i, z)
<1> DEFINE s == Outside(i, z)
<1>1. s.quote = "" /\ ~s.escaped /\ s.start = i /\ s.segments = z
  BY DEF Outside
<1> HIDE DEF s
<1>2. ReadChar(s, d, k) = Outside(s.start, s.segments)
  BY <1>1, ReadWordUnquoted, Zenon
<1>3. QED
  BY <1>1, <1>2, Zenon DEF s

\* A "!" ends the segment.
LEMMA ReadEndUnquoted ==
  ASSUME NEW d, NEW k, NEW s, s.quote = "", ~s.escaped, d[k] = "!"
  PROVE  ReadChar(s, d, k) = Outside(k + 1, Append(s.segments, SubSeq(d, s.start, k - 1)))
<1>1. (d[k] = Backslash /\ ~s.escaped) = FALSE
  BY Characters, Zenon
<1>2. d[k] # "" /\ d[k] # Backslash /\ d[k] \notin {Quote, "'"}
  BY Characters
<1>3. QED
  BY <1>1, <1>2, Zenon DEF ReadChar, Outside

LEMMA ReadEnd ==
  ASSUME NEW d, NEW k, NEW i, NEW z, d[k] = "!"
  PROVE  ReadChar(Outside(i, z), d, k) = Outside(k + 1, Append(z, SubSeq(d, i, k - 1)))
<1> DEFINE s == Outside(i, z)
<1>1. s.quote = "" /\ ~s.escaped /\ s.start = i /\ s.segments = z
  BY DEF Outside
<1> HIDE DEF s
<1>2. ReadChar(s, d, k) = Outside(k + 1, Append(s.segments, SubSeq(d, s.start, k - 1)))
  BY <1>1, ReadEndUnquoted, Zenon
<1>3. QED
  BY <1>1, <1>2, Zenon DEF s

\* The w characters behind p are words.
Words(d, p, w) == \A j \in 1..w : d[p + j] \notin Special

LEMMA WordsAreRead ==
  ASSUME NEW d, NEW n \in Nat, NEW a, Reads(a, n, d), NEW p \in Nat, NEW w \in Nat, p + w <= n,
         NEW i, NEW z, a[p] = Outside(i, z), Words(d, p, w)
  PROVE  a[p + w] = Outside(i, z)
<1> DEFINE T == {m \in 0..w : a[p + m] # Outside(i, z)}
<1>1. SUFFICES ASSUME T # {} PROVE FALSE
  OBVIOUS
<1>2. T \subseteq Nat
  OBVIOUS
<1>3. PICK m \in T : \A k \in T : m <= k
  <2> HIDE DEF T
  <2> QED
    BY <1>1, <1>2, LeastNatural
<1>4. \A k \in Nat : k + 1 <= n => a[k + 1] = ReadChar(a[k], d, k + 1)
  BY ReadStep
<1>5. \A k : d[k] \notin Special => ReadChar(Outside(i, z), d, k) = Outside(i, z)
  BY ReadWord
<1>6. CASE m = 0
  BY <1>3, <1>6
<1>7. CASE m # 0
  <2>1. m \in 1..w /\ m - 1 \in 0..w /\ ~(m <= m - 1) /\ m - 1 \in Nat /\ (m - 1) + 1 = m
    BY <1>3, <1>7
  <2>2. m - 1 \notin T
    <3> HIDE DEF T
    <3> QED
      BY <1>3, <2>1
  <2>3. a[p + (m - 1)] = Outside(i, z) /\ a[p + m] # Outside(i, z)
    BY <1>3, <2>1, <2>2
  <2>4. p + (m - 1) \in Nat /\ (p + (m - 1)) + 1 <= n /\ (p + (m - 1)) + 1 = p + m
    BY <2>1
  <2>5. a[p + m] = ReadChar(a[p + (m - 1)], d, p + m)
    <3>1. a[(p + (m - 1)) + 1] = ReadChar(a[p + (m - 1)], d, (p + (m - 1)) + 1)
      BY <1>4, <2>4, Zenon
    <3>2. QED
      BY <2>4, <3>1, Zenon
  <2>6. d[p + m] \notin Special
    BY <2>1, Zenon DEF Words
  <2>7. ReadChar(Outside(i, z), d, p + m) = Outside(i, z)
    BY <1>5, <2>6, Zenon
  <2>8. QED
    BY <2>3, <2>5, <2>7, Zenon
<1>8. QED
  BY <1>6, <1>7

KeepsWords(a, n, d) ==
    \A p, w \in Nat : \A i, z :
        p + w <= n => (a[p] = Outside(i, z) => (Words(d, p, w) => a[p + w] = Outside(i, z)))

LEMMA WordsKept ==
  ASSUME NEW d, NEW n \in Nat, NEW a, Reads(a, n, d)
  PROVE  KeepsWords(a, n, d)
BY WordsAreRead DEF KeepsWords

LEMMA EscapedAt ==
  ASSUME NEW S, {Backslash, Quote} \subseteq S, NEW value \in Seq(S),
         NEW g, Escapes(g, Len(value), value)
  PROVE  \A i \in 1..Len(value) : g[i - 1] \in Seq(S) => Adds(g[i - 1], value[i], g[i])
<1>1. Len(value) \in Nat /\ Len(value) <= Len(value)
  OBVIOUS
<1>2. TAKE i \in 1..Len(value)
<1>3. HAVE g[i - 1] \in Seq(S)
<1>4. QED
  BY <1>1, <1>2, <1>3, EscapeStep, Zenon

\* t stands in d from behind p on.
Carries(d, p, t) == \A j \in 1..Len(t) : d[p + j] = t[j]

\* After each character of a quoted value the reader is in quotes, and in front of
\* none that is escaped.
LEMMA ValueIsRead ==
  ASSUME NEW S, {Backslash, Quote} \subseteq S, NEW value \in Seq(S), NEW g,
         Escapes(g, Len(value), value),
         NEW d, NEW n \in Nat, NEW a, Reads(a, n, d), NEW p \in Nat,
         p + Len(g[Len(value)]) <= n, a[p] = InQuotes, Carries(d, p, g[Len(value)])
  PROVE  a[p + Len(g[Len(value)])] = InQuotes
<1> DEFINE N == Len(value)
           T == {i \in 0..N : a[p + Len(g[i])] # InQuotes}
<1>1. N \in Nat /\ N <= Len(value)
  OBVIOUS
<1>2. /\ \A i \in 0..N : g[i] \in Seq(S) /\ Len(g[i]) \in Nat
      /\ \A i \in 0..N : Begins(g[i], g[N])
  BY <1>1, EscapesGrow
<1>3. SUFFICES ASSUME T # {} PROVE FALSE
  BY <1>1
<1>4. T \subseteq Nat
  OBVIOUS
<1>5. PICK m \in T : \A k \in T : m <= k
  <2> HIDE DEF T
  <2> QED
    BY <1>3, <1>4, LeastNatural
<1>6. \A k \in Nat : k + 1 <= n => a[k + 1] = ReadChar(a[k], d, k + 1)
  BY ReadStep, Zenon
<1>7. CASE m = 0
  <2>1. g[0] = <<>>
    BY <1>1 DEF Escapes
  <2>2. p + Len(g[0]) = p
    BY <2>1
  <2>3. QED
    BY <1>5, <1>7, <2>2
<1>8. CASE m # 0
  <2>1. m \in 1..N /\ m - 1 \in 0..N /\ m \in 0..N /\ ~(m <= m - 1)
    BY <1>5, <1>8
  <2>2. m - 1 \notin T
    <3> HIDE DEF T
    <3> QED
      BY <1>5, <2>1
  <2>3. a[p + Len(g[m - 1])] = InQuotes
    BY <2>1, <2>2
  <2> DEFINE l == Len(g[m - 1])
             c == value[m]
  <2>4. IF c \in {Backslash, Quote}
        THEN /\ Len(g[m]) = l + 2
             /\ g[m][l + 1] = Backslash /\ g[m][l + 2] = c
        ELSE /\ Len(g[m]) = l + 1
             /\ g[m][l + 1] = c
    <3>1. g[m - 1] \in Seq(S)
      BY <1>2, <2>1
    <3>2. m \in 1..Len(value)
      BY <2>1
    <3>3. Adds(g[m - 1], value[m], g[m])
      BY <3>1, <3>2, EscapedAt, Zenon
    <3>4. QED
      BY <3>3, Zenon DEF Adds
  <2>5. /\ l \in Nat /\ Len(g[m]) \in Nat /\ Len(g[m]) <= Len(g[N])
        /\ \A j \in 1..Len(g[m]) : d[p + j] = g[m][j]
    <3>1. l \in Nat /\ Len(g[m]) \in Nat /\ Begins(g[m], g[N])
      BY <1>2, <2>1
    <3>2. Len(g[m]) <= Len(g[N]) /\ \A j \in 1..Len(g[m]) : g[N][j] = g[m][j]
      BY <3>1, Zenon DEF Begins
    <3>3. Len(g[N]) \in Nat
      BY <1>1, <1>2
    <3>4. \A j \in 1..Len(g[m]) : j \in 1..Len(g[N])
      BY <3>1, <3>2, <3>3
    <3>5. \A j \in 1..Len(g[m]) : d[p + j] = g[m][j]
      BY <3>2, <3>4, Zenon DEF Carries
    <3>6. QED
      BY <3>1, <3>2, <3>5
  <2>6. p + Len(g[m]) <= n
    BY <1>1, <1>2, <2>1, <2>5
  <2>7. a[p + l] = InQuotes
    BY <2>3
  <2>8. a[p + Len(g[m])] # InQuotes
    BY <1>5
  <2> HIDE DEF T, l, c, N
  <2>9. CASE c \in {Backslash, Quote}
    <3>1. /\ Len(g[m]) = l + 2 /\ l + 1 \in 1..Len(g[m]) /\ l + 2 \in 1..Len(g[m])
          /\ g[m][l + 1] = Backslash
      BY <2>4, <2>5, <2>9
    <3>2. /\ p + l \in Nat /\ p + l + 1 \in Nat /\ p + l + 1 <= n /\ p + l + 1 + 1 <= n
          /\ p + l + 1 + 1 = p + l + 2
      <4>1. p + (l + 2) <= n /\ l \in Nat /\ n \in Nat
        BY <2>5, <2>6, <3>1
      <4>2. QED
        BY <4>1
    <3>3. d[p + l + 1] = Backslash
      <4>1. d[p + (l + 1)] = Backslash
        BY <2>5, <3>1, Zenon
      <4>2. p + (l + 1) = p + l + 1
        BY <2>5
      <4>3. QED
        BY <4>1, <4>2
    <3>4. a[p + l + 1] = BehindBackslash
      <4>1. a[p + l + 1] = ReadChar(a[p + l], d, p + l + 1)
        BY <1>6, <3>2, Zenon
      <4>2. QED
        BY <2>7, <3>3, <4>1, ReadInQuotes, Zenon
    <3>5. a[p + l + 2] = InQuotes
      <4>1. a[p + l + 1 + 1] = ReadChar(a[p + l + 1], d, p + l + 1 + 1)
        BY <1>6, <3>2, Zenon
      <4>2. QED
        BY <3>2, <3>4, <4>1, ReadInQuotes, Zenon
    <3>6. p + Len(g[m]) = p + l + 2
      BY <2>5, <3>1
    <3>7. QED
      BY <2>8, <3>5, <3>6
  <2>10. CASE c \notin {Backslash, Quote}
    <3>1. /\ Len(g[m]) = l + 1 /\ l + 1 \in 1..Len(g[m]) /\ g[m][l + 1] = c
      BY <2>4, <2>5, <2>10
    <3>2. p + l \in Nat /\ p + l + 1 <= n /\ p + Len(g[m]) = p + l + 1
      BY <2>5, <2>6, <3>1
    <3>3. d[p + l + 1] = c
      <4>1. d[p + (l + 1)] = c /\ p + (l + 1) = p + l + 1
        BY <2>5, <3>1
      <4>2. QED
        BY <4>1
    <3>4. a[p + l + 1] = ReadChar(a[p + l], d, p + l + 1)
      BY <1>6, <3>2, Zenon
    <3>5. a[p + l + 1] = InQuotes
      <4>1. d[p + l + 1] \notin {Backslash, Quote}
        BY <2>10, <3>3
      <4>2. ReadChar(InQuotes, d, p + l + 1) = InQuotes
        BY <4>1, ReadInQuotes, Zenon
      <4>3. QED
        BY <2>7, <3>4, <4>2
    <3>6. QED
      BY <2>8, <3>2, <3>5
  <2>11. QED
    BY <2>9, <2>10
<1>9. QED
  BY <1>7, <1>8

BeforeName == <<"v4l2src", " ", "device=">>
BehindName == <<" ", "io-mode", " ", "!", " ", "video", "/", "x-raw", ",", "width">>
Letters == {Backslash, Quote, "v4l2src", " ", "device=", "io-mode", "!", "video", "/", "x-raw", ",",
            "width"}

LEMMA ThreeWords ==
  ASSUME NEW S, NEW a \in S, NEW b \in S, NEW c \in S
  PROVE  <<a, b, c>> \in Seq(S)
OBVIOUS

LEMMA TenWords ==
  ASSUME NEW S, NEW a \in S, NEW b \in S, NEW c \in S, NEW d \in S, NEW e \in S,
         NEW f \in S, NEW g \in S, NEW h \in S, NEW i \in S, NEW j \in S
  PROVE  <<a, b, c, d, e, f, g, h, i, j>> \in Seq(S)
OBVIOUS

LEMMA Ends ==
  ASSUME NEW S, Letters \subseteq S
  PROVE  /\ BeforeName \in Seq(S) /\ Len(BeforeName) = 3 /\ BehindName \in Seq(S) /\ Len(BehindName) = 10
         /\ <<Quote>> \in Seq(S) /\ Len(<<Quote>>) = 1 /\ <<Quote>>[1] = Quote
         /\ {Backslash, Quote} \subseteq S
<1>1. Len(BeforeName) = 3 /\ Len(BehindName) = 10
  BY DEF BeforeName, BehindName
<1>2. {Backslash, Quote} \subseteq S
  BY DEF Letters
<1>3. /\ "v4l2src" \in S /\ " " \in S /\ "device=" \in S /\ "io-mode" \in S /\ "!" \in S
      /\ "video" \in S /\ "/" \in S /\ "x-raw" \in S /\ "," \in S /\ "width" \in S
  BY DEF Letters
<1>4. BeforeName \in Seq(S) /\ BehindName \in Seq(S)
  BY <1>3, ThreeWords, TenWords, Zenon DEF BeforeName, BehindName
<1>5. QED
  BY <1>1, <1>2, <1>4

\* r is x and then y.
JoinedText(S, r, x, y) ==
    /\ r \in Seq(S) /\ Len(x) \in Nat /\ Len(y) \in Nat /\ Len(r) = Len(x) + Len(y)
    /\ Begins(x, r)
    /\ \A k \in 1..Len(y) : r[Len(x) + k] = y[k]

LEMMA ConcatenationJoins ==
  ASSUME NEW S, NEW x \in Seq(S), NEW y \in Seq(S)
  PROVE  JoinedText(S, x \o y, x, y)
BY Concatenated, Zenon DEF JoinedText

\* A description of a source whose device has the quoted name e.
IsSource(d, e) == d = BeforeName \o (<<Quote>> \o e \o <<Quote>>) \o BehindName

\* Where what stands in the description.
LEMMA SourceText ==
  ASSUME NEW S, Letters \subseteq S, NEW e \in Seq(S), NEW d, IsSource(d, e)
  PROVE  /\ d \in Seq(S) /\ Len(e) \in Nat /\ Len(d) = 15 + Len(e)
         /\ \A j \in 1..3 : d[j] = BeforeName[j]
         /\ d[4] = Quote /\ Carries(d, 4, e) /\ d[5 + Len(e)] = Quote
         /\ Carries(d, 5 + Len(e), BehindName)
<1> DEFINE q == <<Quote>>
           s == q \o e
           t == s \o q
           u == BeforeName \o t
<1>1. /\ BeforeName \in Seq(S) /\ Len(BeforeName) = 3 /\ BehindName \in Seq(S) /\ Len(BehindName) = 10
      /\ q \in Seq(S) /\ Len(q) = 1 /\ q[1] = Quote
  BY Ends
<1>2. d = u \o BehindName
  BY Zenon DEF IsSource
<1>3. Len(e) \in Nat
  OBVIOUS
<1>4. /\ s \in Seq(S) /\ Len(s) = 1 + Len(e) /\ Begins(q, s)
      /\ \A k \in 1..Len(e) : s[1 + k] = e[k]
  <2>1. JoinedText(S, s, q, e)
    BY <1>1, ConcatenationJoins, Zenon
  <2> HIDE DEF q, s
  <2>2. QED
    BY <1>1, <2>1 DEF JoinedText
<1>5. /\ t \in Seq(S) /\ Len(t) = 2 + Len(e) /\ Begins(s, t) /\ t[2 + Len(e)] = Quote
  <2> HIDE DEF q, s
  <2>1. JoinedText(S, t, s, q)
    BY <1>1, <1>4, ConcatenationJoins, Zenon
  <2> HIDE DEF t
  <2>2. t[Len(s) + 1] = Quote
    BY <1>1, <2>1 DEF JoinedText
  <2>3. QED
    BY <1>1, <1>3, <1>4, <2>1, <2>2 DEF JoinedText
<1>6. /\ u \in Seq(S) /\ Len(u) = 5 + Len(e) /\ Begins(BeforeName, u)
      /\ \A k \in 1..Len(t) : u[3 + k] = t[k]
  <2> HIDE DEF q, s, t
  <2>1. JoinedText(S, u, BeforeName, t)
    BY <1>1, <1>5, ConcatenationJoins, Zenon
  <2> HIDE DEF u
  <2>2. /\ u \in Seq(S) /\ Begins(BeforeName, u)
        /\ Len(u) = Len(BeforeName) + Len(t)
        /\ \A k \in 1..Len(t) : u[Len(BeforeName) + k] = t[k]
    BY <2>1, Zenon DEF JoinedText
  <2>3. Len(u) = 5 + Len(e)
    BY <1>1, <1>3, <1>5, <2>2
  <2>4. \A k \in 1..Len(t) : u[3 + k] = t[k]
    BY <1>1, <2>2, Zenon
  <2>5. QED
    BY <2>2, <2>3, <2>4, Zenon
<1>7. /\ d \in Seq(S) /\ Len(d) = 15 + Len(e) /\ Begins(u, d)
      /\ \A k \in 1..10 : d[5 + Len(e) + k] = BehindName[k]
  <2> HIDE DEF q, s, t, u
  <2>1. JoinedText(S, d, u, BehindName)
    BY <1>1, <1>2, <1>6, ConcatenationJoins, Zenon
  <2>2. /\ d \in Seq(S) /\ Begins(u, d)
        /\ Len(d) = Len(u) + Len(BehindName)
        /\ \A k \in 1..Len(BehindName) : d[Len(u) + k] = BehindName[k]
    BY <2>1, Zenon DEF JoinedText
  <2>3. Len(d) = 15 + Len(e)
    BY <1>1, <1>3, <1>6, <2>2
  <2>4. \A k \in 1..10 : d[5 + Len(e) + k] = BehindName[k]
    BY <1>1, <1>6, <2>2, Zenon
  <2>5. QED
    BY <2>2, <2>3, <2>4, Zenon
<1> HIDE DEF q, s, t, u
<1>8. \A j \in 1..(5 + Len(e)) : d[j] = u[j]
  BY <1>6, <1>7, Zenon DEF Begins
<1>9. \A j \in 1..3 : d[j] = BeforeName[j]
  <2>1. \A j \in 1..3 : u[j] = BeforeName[j] /\ j \in 1..(5 + Len(e))
    BY <1>1, <1>3, <1>6 DEF Begins
  <2>2. QED
    BY <1>8, <2>1
<1>10. \A k \in 1..(2 + Len(e)) : d[3 + k] = t[k]
  <2>1. \A k \in 1..(2 + Len(e)) : u[3 + k] = t[k] /\ 3 + k \in 1..(5 + Len(e))
    BY <1>3, <1>5, <1>6
  <2>2. QED
    BY <1>8, <2>1
<1>11. \A k \in 1..(1 + Len(e)) : t[k] = s[k] /\ k \in 1..(2 + Len(e))
  BY <1>3, <1>4, <1>5 DEF Begins
<1>12. d[4] = Quote
  <2>1. s[1] = q[1] /\ 1 \in 1..(1 + Len(e)) /\ 1 \in 1..(2 + Len(e)) /\ 3 + 1 = 4
    BY <1>1, <1>3, <1>4 DEF Begins
  <2>2. d[3 + 1] = s[1]
    BY <1>10, <1>11, <2>1, Zenon
  <2>3. QED
    BY <1>1, <2>1, <2>2
<1>13. Carries(d, 4, e)
  <2>1. ASSUME NEW j \in 1..Len(e) PROVE d[4 + j] = e[j]
    <3>1. /\ 1 + j \in 1..(1 + Len(e)) /\ 1 + j \in 1..(2 + Len(e)) /\ 3 + (1 + j) = 4 + j
      BY <1>3
    <3>2. d[3 + (1 + j)] = s[1 + j] /\ s[1 + j] = e[j]
      BY <1>4, <1>10, <1>11, <3>1, Zenon
    <3>3. QED
      BY <3>1, <3>2
  <2>2. QED
    BY <2>1, Zenon DEF Carries
<1>14. d[5 + Len(e)] = Quote
  <2>1. 2 + Len(e) \in 1..(2 + Len(e)) /\ 3 + (2 + Len(e)) = 5 + Len(e)
    BY <1>3
  <2>2. d[3 + (2 + Len(e))] = Quote
    BY <1>5, <1>10, <2>1, Zenon
  <2>3. QED
    BY <2>1, <2>2
<1>15. Carries(d, 5 + Len(e), BehindName)
  BY <1>1, <1>7, Zenon DEF Carries
<1>16. QED
  BY <1>3, <1>7, <1>9, <1>12, <1>13, <1>14, <1>15

\* Finding what is found first.
LEMMA LeastIsMin ==
  ASSUME NEW T, T \subseteq Nat, NEW m \in T, \A k \in T : m <= k
  PROVE  Min(T) = m
<1>1. \E x \in T : \A y \in T : x <= y
  OBVIOUS
<1>2. Min(T) \in T /\ \A y \in T : Min(T) <= y
  BY <1>1, Zenon DEF Min
<1> DEFINE x == Min(T)
<1>3. x \in T /\ x <= m /\ m <= x
  BY <1>2
<1>4. x \in Nat /\ m \in Nat
  BY <1>3
<1> HIDE DEF x
<1>5. x = m
  BY <1>3, <1>4
<1>6. QED
  BY <1>5 DEF x

\* u is t and one more, y.
Appended(S, u, t, y) ==
    /\ u \in Seq(S) /\ Len(u) = Len(t) + 1 /\ u[Len(t) + 1] = y
    /\ \A i \in 1..Len(t) : u[i] = t[i]

LEMMA AppendAppends ==
  ASSUME NEW S, NEW t \in Seq(S), NEW y \in S
  PROVE  Appended(S, Append(t, y), t, y)
BY AppendProperties DEF Appended

LEMMA AppendTwo ==
  ASSUME NEW x, NEW y
  PROVE  Append(<<x>>, y) = <<x, y>>
<1> DEFINE t == <<x>>
           u == Append(t, y)
           v == <<x, y>>
           S == {x, y}
<1>1. t \in Seq(S) /\ Len(t) = 1 /\ t[1] = x /\ y \in S
  OBVIOUS
<1>2. v \in Seq(S) /\ Len(v) = 2 /\ v[1] = x /\ v[2] = y
  OBVIOUS
<1>3. Appended(S, u, t, y)
  <2> HIDE DEF t, v, S
  <2>1. QED
    BY <1>1, AppendAppends
<1> HIDE DEF t, u, v
<1>4. u \in Seq(S) /\ Len(u) = 2 /\ u[1] = x /\ u[2] = y
  BY <1>1, <1>3 DEF Appended
<1>5. u = v
  BY <1>2, <1>4, SeqEqual
<1>6. QED
  BY <1>5, Zenon DEF t, u, v

LEMMA OneLetter ==
  ASSUME NEW S, NEW s \in Seq(S), Len(s) >= 1
  PROVE  SubSeq(s, 1, 1) = <<s[1]>>
<1> DEFINE t == SubSeq(s, 1, 1)
           u == <<s[1]>>
<1>1. t \in Seq(S) /\ Len(t) = 1 /\ t[1] = s[1]
  BY SubSeqProperties
<1>2. u \in Seq(S) /\ Len(u) = 1 /\ u[1] = s[1]
  OBVIOUS
<1> HIDE DEF t, u
<1>3. t = u
  BY <1>1, <1>2, SeqEqual
<1>4. QED
  BY <1>3 DEF t, u

Space == " "
Slash == "/"
Comma == ","

LEMMA Separators == Space # Slash /\ Space # Comma /\ Slash # Comma
BY Zenon DEF Space, Slash, Comma

\* The first word of a segment that starts with one.
LEMMA FirstWordLeads ==
  ASSUME NEW S, NEW s \in Seq(S), Len(s) >= 2, NEW word, word \notin {Space, Slash},
         s[1] = word, s[2] = Space
  PROVE  Leading(s) = <<word>>
<1> DEFINE I == {i \in 1..Len(s) : s[i] # Space}
           J == {i \in 1..Len(s) : s[i] = Space}
<1>1. SelectInSeq(s, LAMBDA ch : ch # Space) = 1
  <2>1. I \subseteq Nat /\ 1 \in I /\ \A k \in I : 1 <= k
    BY Separators
  <2>2. SelectInSeq(s, LAMBDA ch : ch # Space) = IF I # {} THEN Min(I) ELSE 0
    BY Zenon DEF SelectInSeq, Space, Comma
  <2> HIDE DEF I
  <2>3. QED
    BY <2>1, <2>2, LeastIsMin
<1>2. SelectInSubSeq(s, 1, Len(s), LAMBDA ch : ch = Space) = 2
  <2>1. J \subseteq Nat /\ 2 \in J /\ \A k \in J : 2 <= k
    OBVIOUS
  <2>2. SelectInSubSeq(s, 1, Len(s), LAMBDA ch : ch = Space) = IF J # {} THEN Min(J) ELSE 0
    BY Zenon DEF SelectInSubSeq, Space
  <2> HIDE DEF J
  <2>3. QED
    BY <2>1, <2>2, LeastIsMin
<1> HIDE DEF I, J
<1>3. SubSeq(s, 1, 2 - 1) = <<word>>
  BY OneLetter
<1>4. ~Contains(<<word>>, Slash)
  BY DEF Contains
<1>5. 1 # 0 /\ 2 # 0
  OBVIOUS
<1>6. QED
  BY <1>1, <1>2, <1>3, <1>4, <1>5, Zenon DEF Leading, Space, Slash, Comma

\* The media type of the caps.
LEMMA MediaTypeLeads ==
  ASSUME NEW S, NEW s \in Seq(S), Len(s) = 6, NEW media, NEW format, NEW field,
         media \notin {Space, Comma}, format \notin {Space, Comma}, field \notin {Space, Comma},
         s[1] = Space, s[2] = media, s[3] = Slash, s[4] = format, s[5] = Comma, s[6] = field
  PROVE  Leading(s) = <<media, Slash, format>>
<1> DEFINE I == {i \in 1..Len(s) : s[i] # Space}
           J == {i \in 2..Len(s) : s[i] = Space}
           w == SubSeq(s, 2, Len(s))
           K == {i \in 1..Len(w) : w[i] = Comma}
<1>1. /\ media # Space /\ format # Space /\ field # Space
      /\ media # Comma /\ format # Comma /\ field # Comma
  OBVIOUS
<1>2. SelectInSeq(s, LAMBDA ch : ch # Space) = 2
  <2>1. I \subseteq Nat /\ 2 \in I /\ \A k \in I : 2 <= k
    BY <1>1, Separators
  <2>2. SelectInSeq(s, LAMBDA ch : ch # Space) = IF I # {} THEN Min(I) ELSE 0
    BY Zenon DEF SelectInSeq, Space, Comma
  <2> HIDE DEF I
  <2>3. QED
    BY <2>1, <2>2, LeastIsMin
<1>3. SelectInSubSeq(s, 2, Len(s), LAMBDA ch : ch = Space) = 0
  <2>1. J = {}
    BY <1>1, Separators
  <2>2. SelectInSubSeq(s, 2, Len(s), LAMBDA ch : ch = Space) = IF J # {} THEN Min(J) ELSE 0
    BY Zenon DEF SelectInSubSeq, Space
  <2> HIDE DEF J
  <2>3. QED
    BY <2>1, <2>2
<1>4. /\ w \in Seq(S) /\ Len(w) = 5 /\ w[1] = media /\ w[2] = Slash /\ w[3] = format
      /\ w[4] = Comma /\ w[5] = field
  BY SubSeqProperties
<1>5. SelectInSeq(w, LAMBDA ch : ch = Comma) = 4
  <2> HIDE DEF w
  <2>1. K \subseteq Nat /\ 4 \in K /\ \A k \in K : 4 <= k
    BY <1>1, <1>4, Separators
  <2>2. SelectInSeq(w, LAMBDA ch : ch = Comma) = IF K # {} THEN Min(K) ELSE 0
    BY Zenon DEF SelectInSeq, Space, Comma
  <2> HIDE DEF K
  <2>3. QED
    BY <2>1, <2>2, LeastIsMin
<1> HIDE DEF I, J, K
<1>6. SubSeq(w, 1, 4 - 1) = <<media, Slash, format>>
  <2> HIDE DEF w
  <2> DEFINE t == SubSeq(w, 1, 3)
             u == <<media, Slash, format>>
  <2>1. /\ t \in Seq(S) /\ Len(t) = 3 /\ t[1] = media /\ t[2] = Slash /\ t[3] = format
    <3>1. t \in Seq(S) /\ Len(t) = 3 /\ \A i \in 1..3 : t[i] = w[i]
      <4>1. \A i \in 1..Len(w) : w[i] \in S
        BY <1>4, ElementOfSeq, Zenon
      <4>2. \A i \in 1..3 : w[i] \in S
        BY <1>4, <4>1
      <4>3. t \in Seq(S) /\ Len(t) = 3
        BY <4>2, SubSeqProperties
      <4>4. \A i \in 1..3 : t[i] = w[i]
        BY <4>2, SubSeqProperties
      <4>5. QED
        BY <4>3, <4>4
    <3> HIDE DEF t
    <3>2. QED
      BY <1>4, <3>1
  <2>2. media \in S /\ Slash \in S /\ format \in S
    <3>1. 2 \in 1..Len(s) /\ 3 \in 1..Len(s) /\ 4 \in 1..Len(s)
      OBVIOUS
    <3>2. s[2] \in S /\ s[3] \in S /\ s[4] \in S
      BY <3>1, ElementOfSeq, Zenon
    <3>3. QED
      BY <3>2, Zenon
  <2>3. u \in Seq(S)
    BY <2>2, ThreeWords, Zenon
  <2>4. Len(u) = 3 /\ u[1] = media /\ u[2] = Slash /\ u[3] = format
    OBVIOUS
  <2> HIDE DEF t, u
  <2>5. t = u
    <3>1. Len(t) = Len(u) /\ \A i \in 1..Len(t) : t[i] = u[i]
      BY <2>1, <2>4
    <3>2. QED
      BY <2>1, <2>3, <3>1, SeqEqual, Zenon
  <2>6. QED
    BY <2>5 DEF t, u
<1>7. Contains(w, Slash)
  <2> HIDE DEF w
  <2>1. QED
    BY <1>4 DEF Contains
<1>8. 2 # 0 /\ 4 > 0
  OBVIOUS
<1>9. QED
  BY <1>2, <1>3, <1>5, <1>6, <1>7, <1>8, Zenon DEF Leading, Space, Slash, Comma

LEMMA Nth ==
  ASSUME NEW a, NEW b, NEW c, NEW d, NEW e, NEW f, NEW g, NEW h, NEW i, NEW j
  PROVE  /\ <<a, b, c>>[1] = a /\ <<a, b, c>>[2] = b /\ <<a, b, c>>[3] = c
         /\ <<a, b, c, d, e, f, g, h, i, j>>[1] = a /\ <<a, b, c, d, e, f, g, h, i, j>>[2] = b
         /\ <<a, b, c, d, e, f, g, h, i, j>>[3] = c /\ <<a, b, c, d, e, f, g, h, i, j>>[4] = d
         /\ <<a, b, c, d, e, f, g, h, i, j>>[5] = e /\ <<a, b, c, d, e, f, g, h, i, j>>[6] = f
         /\ <<a, b, c, d, e, f, g, h, i, j>>[7] = g /\ <<a, b, c, d, e, f, g, h, i, j>>[8] = h
         /\ <<a, b, c, d, e, f, g, h, i, j>>[9] = i /\ <<a, b, c, d, e, f, g, h, i, j>>[10] = j
OBVIOUS

\* The characters of both ends: one "!", and nothing else of a meaning.
LEMMA Texts ==
  /\ BeforeName[1] = "v4l2src" /\ BeforeName[2] = Space
  /\ BehindName[4] = "!" /\ BehindName[5] = Space /\ BehindName[6] = "video" /\ BehindName[7] = Slash
  /\ BehindName[8] = "x-raw" /\ BehindName[9] = Comma /\ BehindName[10] = "width"
  /\ \A j \in 1..3 : BeforeName[j] \notin Special
  /\ \A j \in (1..3) \union (5..10) : BehindName[j] \notin Special
<1>1. /\ BeforeName[1] = "v4l2src" /\ BeforeName[2] = Space /\ BeforeName[3] = "device="
      /\ BehindName[1] = Space /\ BehindName[2] = "io-mode" /\ BehindName[3] = Space /\ BehindName[4] = "!"
      /\ BehindName[5] = Space /\ BehindName[6] = "video" /\ BehindName[7] = Slash
      /\ BehindName[8] = "x-raw" /\ BehindName[9] = Comma /\ BehindName[10] = "width"
  BY Nth, Zenon DEF BeforeName, BehindName, Space, Slash, Comma
<1>2. /\ "v4l2src" \notin Special /\ Space \notin Special /\ "device=" \notin Special
      /\ "io-mode" \notin Special /\ "video" \notin Special /\ Slash \notin Special
      /\ "x-raw" \notin Special /\ Comma \notin Special /\ "width" \notin Special
  BY Zenon DEF Special, Backslash, Quote, Space, Slash, Comma
<1>3. /\ BeforeName[1] \notin Special /\ BeforeName[2] \notin Special /\ BeforeName[3] \notin Special
      /\ BehindName[1] \notin Special /\ BehindName[2] \notin Special /\ BehindName[3] \notin Special
      /\ BehindName[5] \notin Special /\ BehindName[6] \notin Special /\ BehindName[7] \notin Special
      /\ BehindName[8] \notin Special /\ BehindName[9] \notin Special /\ BehindName[10] \notin Special
  BY <1>1, <1>2, Zenon
<1>4. /\ \A j \in 1..3 : BeforeName[j] \notin Special
      /\ \A j \in (1..3) \union (5..10) : BehindName[j] \notin Special
  <2>1. \A j \in 1..3 : j = 1 \/ j = 2 \/ j = 3
    OBVIOUS
  <2>2. \A j \in 5..10 : j = 5 \/ j = 6 \/ j = 7 \/ j = 8 \/ j = 9 \/ j = 10
    OBVIOUS
  <2>3. QED
    BY <1>3, <2>1, <2>2
<1>5. QED
  BY <1>1, <1>4, Zenon

\* Appended to nothing, and then to that.
LEMMA AppendFirst == \A x : Append(<<>>, x) = <<x>>
OBVIOUS

\* The reader is in the source until the "!", and in the caps until the end.
LEMMA SourceIsRead ==
  ASSUME NEW S, Letters \subseteq S, NEW value \in Seq(S), NEW g,
         Escapes(g, Len(value), value), NEW d, IsSource(d, g[Len(value)])
  PROVE  SplitPipelineSegments(d) = <<SubSeq(d, 1, 8 + Len(g[Len(value)])),
                                      SubSeq(d, 10 + Len(g[Len(value)]), Len(d))>>
<1> DEFINE e == g[Len(value)]
           q == 5 + Len(e)
           n == Len(d)
<1>1. {Backslash, Quote} \subseteq S
  BY Ends
<1>2. e \in Seq(S)
  <2>1. Len(value) \in Nat /\ Len(value) <= Len(value) /\ Len(value) \in 0..Len(value)
    OBVIOUS
  <2>2. QED
    BY <1>1, <2>1, EscapesGrow, Zenon
<1>3. /\ d \in Seq(S) /\ Len(e) \in Nat /\ n = 15 + Len(e)
      /\ \A j \in 1..3 : d[j] = BeforeName[j]
      /\ d[4] = Quote /\ Carries(d, 4, e) /\ d[5 + Len(e)] = Quote
      /\ Carries(d, 5 + Len(e), BehindName)
  BY <1>2, SourceText, Zenon
<1>4. PICK a : /\ Reads(a, n, d)
               /\ SplitPipelineSegments(d) = Append(a[n].segments, SubSeq(d, a[n].start, n))
  BY <1>3, SegmentsAreRead, Zenon
<1>5. /\ n \in Nat /\ q \in Nat /\ n = q + 10 /\ 4 + Len(e) <= n /\ q = (4 + Len(e)) + 1
      /\ 4 + Len(e) \in Nat /\ (4 + Len(e)) + 1 <= n
  BY <1>3
<1> HIDE DEF e, q, n
<1>6. Reads(a, n, d)
  BY <1>4
<1>7. \A k \in Nat : k + 1 <= n => a[k + 1] = ReadChar(a[k], d, k + 1)
  BY <1>5, <1>6, ReadStep
<1>8. KeepsWords(a, n, d)
  BY <1>5, <1>6, WordsKept
<1>9. a[0] = Outside(1, <<>>)
  <2>1. 0 \in 0..n
    BY <1>5
  <2>2. QED
    BY <1>4, <2>1, Zenon DEF Reads, AtStart, Outside
<1>10. a[3] = Outside(1, <<>>)
  <2>1. Words(d, 0, 3)
    <3>1. \A j \in 1..3 : 0 + j = j
      OBVIOUS
    <3>2. \A j \in 1..3 : d[0 + j] \notin Special
      BY <1>3, <3>1, Texts, Zenon
    <3>3. QED
      BY <3>2, Zenon DEF Words
  <2>2. 0 + 3 <= n /\ 0 \in Nat /\ 3 \in Nat /\ 0 + 3 = 3
    BY <1>5
  <2>3. a[0 + 3] = Outside(1, <<>>)
    BY <1>9, <1>8, <2>1, <2>2 DEF KeepsWords
  <2>4. QED
    BY <2>2, <2>3
<1>11. a[4] = InQuotes
  <2>1. 3 \in Nat /\ 3 + 1 <= n /\ 3 + 1 = 4
    BY <1>5
  <2>2. a[4] = ReadChar(AtStart, d, 4)
    BY <1>7, <1>10, <2>1, Zenon DEF AtStart, Outside
  <2>3. QED
    BY <1>3, <2>2, ReadInQuotes, Zenon
<1>12. a[4 + Len(e)] = InQuotes
  <2>1. 4 + Len(e) <= n /\ Carries(d, 4, e)
    BY <1>3, <1>5, Zenon
  <2>2. 4 + Len(g[Len(value)]) <= n /\ Carries(d, 4, g[Len(value)])
    BY <2>1 DEF e
  <2>3. a[4 + Len(g[Len(value)])] = InQuotes
    <3>1. 4 \in Nat /\ n \in Nat
      BY <1>5
    <3>2. QED
      BY <1>1, <1>11, <1>6, <2>2, <3>1, ValueIsRead, Zenon
  <2>4. QED
    BY <2>3 DEF e
<1>13. a[q] = Outside(1, <<>>)
  <2>1. a[q] = ReadChar(InQuotes, d, q)
    BY <1>5, <1>7, <1>12, Zenon
  <2>2. d[q] = Quote
    BY <1>3 DEF q
  <2>3. QED
    BY <2>1, <2>2, ReadInQuotes, Zenon DEF AtStart, Outside
<1>14. \A j \in 1..10 : d[q + j] = BehindName[j]
  BY <1>3, Ends DEF Carries, q
<1>15. a[q + 3] = Outside(1, <<>>)
  <2>1. Words(d, q, 3)
    <3>1. \A j \in 1..3 : j \in 1..10 /\ j \in (1..3) \union (5..10)
      OBVIOUS
    <3>2. \A j \in 1..3 : d[q + j] \notin Special
      BY <1>14, <3>1, Texts, Zenon
    <3>3. QED
      BY <3>2, Zenon DEF Words
  <2>2. q + 3 <= n /\ 3 \in Nat
    BY <1>5
  <2>3. QED
    BY <1>5, <1>13, <1>8, <2>1, <2>2 DEF KeepsWords
<1>16. a[q + 4] = Outside(q + 5, <<SubSeq(d, 1, q + 3)>>)
  <2>1. q + 3 \in Nat /\ (q + 3) + 1 <= n /\ (q + 3) + 1 = q + 4 /\ (q + 4) - 1 = q + 3
        /\ (q + 4) + 1 = q + 5
    BY <1>5
  <2>2. a[q + 4] = ReadChar(Outside(1, <<>>), d, q + 4)
    BY <1>7, <1>15, <2>1, Zenon
  <2>3. d[q + 4] = "!"
    <3>1. 4 \in 1..10
      OBVIOUS
    <3>2. QED
      BY <1>14, <3>1, Texts, Zenon
  <2>4. ReadChar(Outside(1, <<>>), d, q + 4)
          = Outside((q + 4) + 1, Append(<<>>, SubSeq(d, 1, (q + 4) - 1)))
    BY <2>3, ReadEnd, Zenon
  <2>5. Append(<<>>, SubSeq(d, 1, q + 3)) = <<SubSeq(d, 1, q + 3)>>
    BY AppendFirst, Zenon
  <2>6. QED
    BY <2>1, <2>2, <2>4, <2>5, Zenon
<1>17. a[n] = Outside(q + 5, <<SubSeq(d, 1, q + 3)>>)
  <2>1. Words(d, q + 4, 6)
    <3>1. ASSUME NEW j \in 1..6 PROVE d[(q + 4) + j] \notin Special
      <4>1. (q + 4) + j = q + (4 + j) /\ 4 + j \in 1..10 /\ 4 + j \in 5..10
        BY <1>5
      <4>2. d[(q + 4) + j] = BehindName[4 + j]
        BY <1>14, <4>1, Zenon
      <4>3. 4 + j \in (1..3) \union (5..10)
        BY <4>1
      <4>4. QED
        BY <4>2, <4>3, Texts, Zenon
    <3>2. QED
      BY <3>1, Zenon DEF Words
  <2>2. q + 4 \in Nat /\ 6 \in Nat /\ (q + 4) + 6 <= n /\ (q + 4) + 6 = n
    BY <1>5
  <2>3. a[(q + 4) + 6] = Outside(q + 5, <<SubSeq(d, 1, q + 3)>>)
    BY <1>16, <1>8, <2>1, <2>2 DEF KeepsWords
  <2>4. QED
    BY <2>2, <2>3
<1>18. a[n].segments = <<SubSeq(d, 1, q + 3)>> /\ a[n].start = q + 5
  <2>1. \A i, z : Outside(i, z).segments = z /\ Outside(i, z).start = i
    BY DEF Outside
  <2>2. QED
    BY <1>17, <2>1, Zenon
<1>19. q + 3 = 8 + Len(e) /\ q + 5 = 10 + Len(e)
  BY <1>3 DEF q
<1>20. SplitPipelineSegments(d) = <<SubSeq(d, 1, q + 3), SubSeq(d, q + 5, n)>>
  BY <1>4, <1>18, AppendTwo, Zenon
<1>21. QED
  BY <1>19, <1>20 DEF e, n

LeadingWords(w, segments) ==
    w = [i \in 0..Len(segments) |->
            IF i = 0 THEN <<>>
            ELSE IF Leading(segments[i]) = <<>> THEN w[i - 1]
            ELSE Append(w[i - 1], Leading(segments[i]))]

\* The shape of two segments.
LEMMA ShapeOfTwo ==
  ASSUME NEW d, NEW x, NEW y, SplitPipelineSegments(d) = <<x, y>>,
         Leading(x) # <<>>, Leading(y) # <<>>
  PROVE  PipelineShape(d) = <<Leading(x), Leading(y)>>
<1> DEFINE s == SplitPipelineSegments(d)
           a == <<Leading(x)>>
           b == <<Leading(x), Leading(y)>>
           v == [i \in 0..2 |-> IF i = 0 THEN <<>> ELSE IF i = 1 THEN a ELSE b]
           w == CHOOSE f : LeadingWords(f, s)
<1>1. Len(s) = 2 /\ s[1] = x /\ s[2] = y
  OBVIOUS
<1>2. a = Append(<<>>, Leading(x)) /\ b = Append(a, Leading(y))
  BY AppendFirst, AppendTwo, Zenon
<1>3. PipelineShape(d) = w[Len(s)]
  BY Zenon DEF PipelineShape, LeadingWords
<1> HIDE DEF s, a, b
<1>4. v[0] = <<>> /\ v[1] = a /\ v[2] = b
  OBVIOUS
<1>5. \A i \in 0..2 : v[i] = IF i = 0 THEN <<>>
                             ELSE IF Leading(s[i]) = <<>> THEN v[i - 1]
                             ELSE Append(v[i - 1], Leading(s[i]))
  <2>1. Leading(s[1]) = Leading(x) /\ Leading(s[2]) = Leading(y)
    BY <1>1
  <2>2. v[1] = Append(v[1 - 1], Leading(s[1])) /\ v[2] = Append(v[2 - 1], Leading(s[2]))
    BY <1>2, <1>4, <2>1
  <2>3. Leading(s[1]) # <<>> /\ Leading(s[2]) # <<>>
    BY <2>1
  <2> HIDE DEF v
  <2>4. \A i \in 0..2 : i = 0 \/ i = 1 \/ i = 2
    OBVIOUS
  <2>5. QED
    BY <1>4, <2>2, <2>3, <2>4
<1>6. LeadingWords(v, s)
  BY <1>1, <1>5 DEF LeadingWords
<1>7. LeadingWords(w, s)
  BY <1>6, Zenon
<1> HIDE DEF v, w
<1>8. \A i \in 0..2 : w[i] = IF i = 0 THEN <<>>
                             ELSE IF Leading(s[i]) = <<>> THEN w[i - 1]
                             ELSE Append(w[i - 1], Leading(s[i]))
  BY <1>1, <1>7, Zenon DEF LeadingWords
<1>9. w[1] = a
  <2>1. 1 \in 0..2 /\ 1 # 0 /\ 0 \in 0..2 /\ 1 - 1 = 0
    OBVIOUS
  <2>2. w[0] = <<>>
    BY <1>8, <2>1
  <2>3. w[1] = Append(w[0], Leading(x))
    BY <1>1, <1>8, <2>1
  <2>4. QED
    BY <1>2, <2>2, <2>3
<1>10. w[2] = b
  <2>1. 2 \in 0..2 /\ 2 # 0 /\ 2 - 1 = 1
    OBVIOUS
  <2>2. w[2] = Append(w[1], Leading(y))
    BY <1>1, <1>8, <2>1
  <2>3. QED
    BY <1>2, <1>9, <2>2
<1>11. QED
  BY <1>1, <1>3, <1>10 DEF b

\* The source of a device shows its elements, whatever the device is called.
LEMMA SourceShape ==
  ASSUME NEW S, Letters \subseteq S, NEW value \in Seq(S)
  PROVE  PipelineShape(BeforeName \o Quoted(value) \o BehindName)
           = <<<<"v4l2src">>, <<"video", "/", "x-raw">>>>
<1> DEFINE d == BeforeName \o Quoted(value) \o BehindName
<1>1. {Backslash, Quote} \subseteq S
  BY Ends
<1>2. PICK g : /\ Escapes(g, Len(value), value)
               /\ Quoted(value) = <<Quote>> \o g[Len(value)] \o <<Quote>>
  BY <1>1, QuotedIsEscaped, Zenon
<1> DEFINE e == g[Len(value)]
           x == SubSeq(d, 1, 8 + Len(e))
           y == SubSeq(d, 10 + Len(e), Len(d))
<1>3. IsSource(d, e)
  BY <1>2, Zenon DEF IsSource
<1>4. e \in Seq(S)
  <2>1. Len(value) \in Nat /\ Len(value) <= Len(value) /\ Len(value) \in 0..Len(value)
    OBVIOUS
  <2>2. QED
    BY <1>1, <1>2, <2>1, EscapesGrow, Zenon
<1> HIDE DEF d
<1>5. SplitPipelineSegments(d) = <<x, y>>
  BY <1>2, <1>3, SourceIsRead
<1> HIDE DEF e, x, y
<1>6. /\ d \in Seq(S) /\ Len(e) \in Nat /\ Len(d) = 15 + Len(e)
      /\ \A j \in 1..3 : d[j] = BeforeName[j]
      /\ Carries(d, 5 + Len(e), BehindName)
  BY <1>3, <1>4, SourceText, Zenon
<1>7. \A j \in 1..10 : d[(5 + Len(e)) + j] = BehindName[j]
  BY <1>6, Ends DEF Carries
<1>8. \A i \in 1..Len(d) : d[i] \in S
  BY <1>6, ElementOfSeq, Zenon
<1>9. Leading(x) = <<"v4l2src">>
  <2>1. \A i \in 1..(8 + Len(e)) : d[i] \in S
    BY <1>6, <1>8
  <2>2. x \in Seq(S) /\ Len(x) = 8 + Len(e)
    BY <1>6, <2>1, SubSeqProperties DEF x
  <2>3. \A i \in 1..(8 + Len(e)) : x[i] = d[i]
    BY <1>6, <2>1, SubSeqProperties DEF x
  <2>4. x[1] = BeforeName[1] /\ x[2] = BeforeName[2] /\ Len(x) >= 2
    BY <1>6, <2>2, <2>3
  <2>5. BeforeName[1] \notin {Space, Slash} /\ BeforeName[2] = Space
    BY Texts, Zenon DEF Space, Slash
  <2>6. Leading(x) = <<BeforeName[1]>>
    BY <2>2, <2>4, <2>5, FirstWordLeads
  <2>7. QED
    BY <2>6, Texts, Zenon
<1>10. Leading(y) = <<"video", "/", "x-raw">>
  <2>1. \A i \in (10 + Len(e))..Len(d) : d[i] \in S
    BY <1>6, <1>8
  <2>2. y \in Seq(S) /\ Len(y) = 6
    BY <1>6, <2>1, SubSeqProperties DEF y
  <2>3. \A i \in 1..6 : y[i] = d[(5 + Len(e)) + (4 + i)]
    BY <1>6, <2>1, SubSeqProperties DEF y
  <2>4. \A i \in 1..6 : y[i] = BehindName[4 + i]
    <3>1. \A i \in 1..6 : 4 + i \in 1..10
      OBVIOUS
    <3>2. QED
      BY <1>7, <2>3, <3>1, Zenon
  <2>5. /\ y[1] = BehindName[5] /\ y[2] = BehindName[6] /\ y[3] = BehindName[7] /\ y[4] = BehindName[8]
        /\ y[5] = BehindName[9] /\ y[6] = BehindName[10]
    BY <2>4
  <2>6. /\ BehindName[6] \notin {Space, Comma} /\ BehindName[8] \notin {Space, Comma}
        /\ BehindName[10] \notin {Space, Comma}
        /\ BehindName[5] = Space /\ BehindName[7] = Slash /\ BehindName[9] = Comma
    BY Texts, Zenon DEF Space, Comma
  <2>7. Leading(y) = <<BehindName[6], Slash, BehindName[8]>>
    BY <2>2, <2>5, <2>6, MediaTypeLeads
  <2>8. QED
    BY <2>7, Texts, Zenon DEF Slash
<1>11. Leading(x) # <<>> /\ Leading(y) # <<>>
  <2>1. \A u, v, w : <<u>> # <<>> /\ <<u, v, w>> # <<>>
    OBVIOUS
  <2>2. QED
    BY <1>9, <1>10, <2>1, Zenon
<1>12. PipelineShape(d) = <<Leading(x), Leading(y)>>
  BY <1>5, <1>11, ShapeOfTwo, Zenon
<1>13. QED
  BY <1>9, <1>10, <1>12, Zenon DEF d

LEMMA WiderSeq ==
  ASSUME NEW S, NEW T, S \subseteq T, NEW s \in Seq(S)
  PROVE  s \in Seq(T)
<1>1. \A i \in 1..Len(s) : s[i] \in T
  BY ElementOfSeq
<1>2. SubSeq(s, 1, Len(s)) \in Seq(T)
  BY <1>1, SubSeqProperties
<1>3. QED
  BY <1>2, SubSeqFull

\* A value in a description stays one value: whatever characters the name of the
\* device holds, and however many, /stats shows the elements of the source and
\* nothing of the name (lib.rs:867-870, metrics.rs:280-327).
THEOREM DeviceHidden == Spec => []ShapeHidesDevice
<1>1. ChoiceInv => ShapeHidesDevice
  <2> SUFFICES ASSUME ChoiceInv, role = "tx" PROVE ShapeHidesDevice
    BY Zenon DEF ShapeHidesDevice
  <2> DEFINE S == STRING \union Letters
  <2>1. config.device \in Seq(STRING)
    BY DEF ChoiceInv, ConfigTyped, TxTyped
  <2>2. config.device \in Seq(S)
    BY <2>1, WiderSeq
  <2>3. PipelineShape(BeforeName \o Quoted(config.device) \o BehindName)
          = <<<<"v4l2src">>, <<"video", "/", "x-raw">>>>
    BY <2>2, SourceShape
  <2>4. QED
    BY <2>3, Zenon DEF ShapeHidesDevice, BeforeName, BehindName
<1>2. QED
  BY <1>1, Choice, PTL
=============================================================================
