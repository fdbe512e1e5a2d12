-------------------------------- MODULE Buffers --------------------------------
(***************************************************************************)
(* The buffers of a device (OpenAL32/alBuffer.c) and the queues that refer  *)
(* to them (alSource.c).  Applications know buffers by name: alGenBuffers   *)
(* takes a name of the allocator for a block of memory and enters both in   *)
(* BufferMap.  A block is counted by the queue entries that point to it and *)
(* may be deleted at zero, or filled again.                                 *)
(*                                                                          *)
(* alDeleteBuffers tests the counts of all its names and then removes them, *)
(* without the lock that alSourceQueueBuffers holds while it looks up its   *)
(* names twice.  Names are used again, blocks are not.                      *)
(***************************************************************************)
EXTENDS BufferData, FiniteSets, Sequences, SequencesExt

CONSTANTS Thread, Block, Source,
          Name,                    (* of buffers, other than 0 *)
          None,                    (* NULL, and the name 0 *)
          Load,                    (* what an application fills buffers with *)
          Loop,                    (* the loop points it sets *)
          MaxQueue                 (* entries it keeps on a source *)

(* The data of a buffer once it is filled *)
Loaded == {LoadData(l.type, l.stored, l.channels, l.units, l.storesrc) : l \in Load}

ASSUME NoneAssumption ==
  None \notin Block \cup Name \cup Thread \cup {Format(d) : d \in Loaded \cup {NewData}}
ASSUME SourceAssumption == IsFiniteSet(Source)

(* What the code accepts; alBufferData, which keeps the format the samples  *)
(* came in, picks the one they are stored in itself.                        *)
ASSUME LoadAssumption ==
  \A l \in Load : /\ l.type \in DOMAIN StoredAs /\ l.stored \in DOMAIN BytesFromFmt
                  /\ l.channels \in Nat \ {0} /\ l.units \in Nat /\ l.storesrc \in BOOLEAN
                  /\ l.storesrc => l.stored = StoredAs[l.type]

ASSUME LoopAssumption == Loop \subseteq Nat \X Nat

VARIABLES taken,                   \* names the allocator has given out
          BufferMap, allocated, fresh,
          data, ref,               \* of each block
          queue, BuffersPlayed, playing, lSourceType,
          mixfmt,                  \* NumChannels and SampleSize of each source
          given,                   \* names the application was given
          lost,                    \* history: names that a failed alGenBuffers could not take
                                   \* back, since one of them was an old one still in use
          holder,                  \* who is in LockContext
          pc, call,                \* each call's place and locals
          raced                    \* history: a reference was taken to a buffer that
                                   \* alDeleteBuffers had already tested, or that
                                   \* the caller had not, its name having changed hands

bufferVars == <<taken, BufferMap, allocated, fresh>>
sourceVars == <<queue, BuffersPlayed, playing, lSourceType, mixfmt>>
vars == <<bufferVars, data, ref, sourceVars, given, lost, holder, pc, call, raced>>

Entry == Block \cup {None}

(* The locals of a call: names still to handle and handled, a count, the    *)
(* buffer in hand; of a queue call: its source, names and format, what the  *)
(* first lookups found (history) and its new entries.                       *)
NoCall == [todo |-> {}, done |-> {}, n |-> 0, name |-> None, block |-> None,
           source |-> None, names |-> <<>>, fmt |-> None, seen |-> <<>>, entries |-> <<>>]

(* NumChannels and SampleSize, as the mixer uses them. *)
Stored(d) == <<d.Channels, d.FmtType>>

TypeOK ==
  /\ taken \subseteq Name /\ given \subseteq Name /\ lost \subseteq Name
  /\ BufferMap \in [Name -> Entry] /\ allocated \subseteq Block \ fresh
  /\ ref \in [Block -> Int]
  /\ \A s \in Source : /\ queue[s] \in Seq(Entry)
                       /\ BuffersPlayed[s] \in 0 .. Len(queue[s])
                       /\ playing[s] \in BOOLEAN
                       /\ lSourceType[s] \in {"UNDETERMINED", "STATIC", "STREAMING"}
  /\ holder \in Thread \cup {None}
  /\ pc \in [Thread -> {"idle", "gen", "insert", "check", "remove", "free", "verify", "link",
                        "attach"}]
  /\ raced \in BOOLEAN

Init ==
  /\ taken = {} /\ BufferMap = [m \in Name |-> None]
  /\ allocated = {} /\ fresh = Block
  /\ data = [b \in Block |-> NewData] /\ ref = [b \in Block |-> 0]
  /\ queue = [s \in Source |-> <<>>] /\ BuffersPlayed = [s \in Source |-> 0]
  /\ playing = [s \in Source |-> FALSE]
  /\ lSourceType = [s \in Source |-> "UNDETERMINED"]
  /\ mixfmt = [s \in Source |-> None]
  /\ given = {} /\ lost = {} /\ holder = None
  /\ pc = [t \in Thread |-> "idle"] /\ call = [t \in Thread |-> NoCall]
  /\ raced = FALSE

Go(t, from, to) == pc[t] = from /\ pc' = [pc EXCEPT ![t] = to]
Locals(t, c) == call' = [call EXCEPT ![t] = c]
Return(t, from) == Go(t, from, "idle") /\ Locals(t, NoCall)
Unlocked == holder = None

-----------------------------------------------------------------------------
(* Faulty variants of the operators below: bugs the properties must notice. *)
NeverInUse(b) == FALSE
AnyFormat(f, b) == TRUE
NameKept(m) == UNCHANGED taken
UnqueueAny(s) == 1 .. Len(queue[s])

InUse(b) == ref[b] # 0
Unused(m) == BufferMap[m] # None /\ ~InUse(BufferMap[m])

(* The first entry with a buffer sets the format of a queue. *)
First(q) == CHOOSE i \in 1 .. Len(q) : q[i] # None /\ \A j \in 1 .. i - 1 : q[j] = None
FormatOf(q) == IF q \in Seq({None}) THEN None ELSE Format(data[q[First(q)]])
Fits(f, b) == f = None \/ f = Format(data[b])

(* FreeThunkEntry *)
GiveBack(m) == taken' = taken \ {m}

Held(q, b) == Cardinality({i \in 1 .. Len(q) : q[i] = b})

(* One source's references change from old to new entries. *)
Refer(old, new) == ref' = [b \in Block |-> ref[b] - Held(old, b) + Held(new, b)]

Unqueueable(s) == 1 .. BuffersPlayed[s]

(* Names whose deletion has passed its test, and are not removed yet. *)
Doomed ==
  (UNION {call[u].done : u \in {u \in Thread : pc[u] = "check"}})
    \cup (UNION {call[u].todo : u \in {u \in Thread : pc[u] \in {"remove", "free"}}})

-----------------------------------------------------------------------------
(* alGenBuffers, of n buffers *)
Gen(t, n) ==
  /\ Go(t, "idle", "gen")
  /\ Locals(t, [NoCall EXCEPT !.n = n])
  /\ UNCHANGED <<bufferVars, data, ref, sourceVars, given, lost, holder, raced>>

GenNew(t, m, b) ==
  /\ Go(t, "gen", "insert")
  /\ m \in Name \ taken /\ b \in fresh
  /\ taken' = taken \cup {m}
  /\ allocated' = allocated \cup {b} /\ fresh' = fresh \ {b}
  /\ Locals(t, [call[t] EXCEPT !.name = m, !.block = b])
  /\ UNCHANGED <<BufferMap, data, ref, sourceVars, given, lost, holder, raced>>

GenInsert(t) ==
  LET done == call[t].done \cup {call[t].name} IN
  /\ pc[t] = "insert"
  /\ BufferMap' = [BufferMap EXCEPT ![call[t].name] = call[t].block]
  /\ IF Cardinality(done) = call[t].n
     THEN Return(t, "insert") /\ given' = given \cup done
     ELSE /\ Go(t, "insert", "gen")
          /\ Locals(t, [call[t] EXCEPT !.done = done, !.name = None, !.block = None])
          /\ UNCHANGED given
  /\ UNCHANGED <<taken, allocated, fresh, data, ref, sourceVars, lost, holder, raced>>

(* What it made before goes through alDeleteBuffers. *)
Undo(t, from) ==
  IF call[t].done = {} THEN Return(t, from)
  ELSE Go(t, from, "check") /\ Locals(t, [NoCall EXCEPT !.todo = call[t].done])

GenNoMemory(t) ==
  /\ Undo(t, "gen")
  /\ UNCHANGED <<bufferVars, data, ref, sourceVars, given, lost, holder, raced>>

(* The map is at its limit or cannot grow. *)
GenRefused(t) ==
  /\ pc[t] = "insert"
  /\ Undo(t, "insert")
  /\ GiveBack(call[t].name)
  /\ allocated' = allocated \ {call[t].block}
  /\ UNCHANGED <<BufferMap, fresh, data, ref, sourceVars, given, lost, holder, raced>>

-----------------------------------------------------------------------------
(* alDeleteBuffers: tests every name, then removes each. *)
Delete(t, S) ==
  /\ S # {} /\ S \subseteq given
  /\ Go(t, "idle", "check")
  /\ Locals(t, [NoCall EXCEPT !.todo = S])
  /\ UNCHANGED <<bufferVars, data, ref, sourceVars, given, lost, holder, raced>>

Check(t, m) ==
  LET done == call[t].done \cup {m} IN
  /\ m \in call[t].todo \ call[t].done
  /\ Unused(m)
  /\ IF done = call[t].todo
     THEN Go(t, "check", "remove") /\ Locals(t, [call[t] EXCEPT !.done = {}])
     ELSE Go(t, "check", "check") /\ Locals(t, [call[t] EXCEPT !.done = done])
  /\ UNCHANGED <<bufferVars, data, ref, sourceVars, given, lost, holder, raced>>

CheckFails(t, m) ==
  /\ m \in call[t].todo \ call[t].done
  /\ ~Unused(m)
  /\ Return(t, "check")
  /\ lost' = IF m \in given THEN lost \cup (call[t].todo \ given) ELSE lost
  /\ UNCHANGED <<bufferVars, data, ref, sourceVars, given, holder, raced>>

(* The name may be gone, or another buffer's by now. *)
RemoveBuffer(t, m) ==
  /\ m \in call[t].todo
  /\ IF BufferMap[m] # None
     THEN /\ Go(t, "remove", "free")
          /\ Locals(t, [call[t] EXCEPT !.name = m, !.block = BufferMap[m], !.todo = @ \ {m}])
     ELSE IF call[t].todo = {m} THEN Return(t, "remove")
     ELSE Go(t, "remove", "remove") /\ Locals(t, [call[t] EXCEPT !.todo = @ \ {m}])
  /\ BufferMap' = [BufferMap EXCEPT ![m] = None]
  /\ UNCHANGED <<taken, allocated, fresh, data, ref, sourceVars, given, lost, holder, raced>>

Free(t) ==
  /\ pc[t] = "free"
  /\ GiveBack(call[t].name)
  /\ allocated' = allocated \ {call[t].block}
  /\ data' = [data EXCEPT ![call[t].block] = NewData]
  /\ ref' = [ref EXCEPT ![call[t].block] = 0]
  /\ IF call[t].todo = {} THEN Return(t, "free")
     ELSE Go(t, "free", "remove")
            /\ Locals(t, [call[t] EXCEPT !.name = None, !.block = None])
  /\ UNCHANGED <<BufferMap, fresh, sourceVars, given, lost, holder, raced>>

-----------------------------------------------------------------------------
(* alBufferData, alBufferSamplesSOFT and alBufferiv(AL_LOOP_POINTS_SOFT), by *)
(* what they leave in a buffer that no source uses.                          *)
SetData(b, d) ==
  /\ data' = [data EXCEPT ![b] = d]
  /\ UNCHANGED <<bufferVars, ref, sourceVars, given, lost, holder, pc, call, raced>>

Fill(m, d) ==
  /\ Unlocked /\ Unused(m)
  /\ SetData(BufferMap[m], d)

SetLoopPoints(m, start, end) ==
  LET d == data[BufferMap[m]] IN
  /\ Unlocked /\ Unused(m) /\ CanSetLoop(d, start, end)
  /\ SetData(BufferMap[m], SetLoop(d, start, end))

-----------------------------------------------------------------------------
(* alSourceQueueBuffers, under the lock: first every name is looked up and  *)
(* its format compared; the source takes the format of the first one if it  *)
(* had none, even if a later name is then refused.                          *)
Queue(t, s, names) ==
  /\ Unlocked /\ holder' = t
  /\ lSourceType[s] # "STATIC"
  /\ names # <<>> /\ Len(queue[s]) + Len(names) <= MaxQueue
  /\ Go(t, "idle", "verify")
  /\ Locals(t, [NoCall EXCEPT !.source = s, !.names = names, !.fmt = FormatOf(queue[s])])
  /\ UNCHANGED <<bufferVars, data, ref, sourceVars, given, lost, raced>>

Asked(t) == call[t].names[call[t].n + 1]
Looked(t) == IF Asked(t) = None THEN None ELSE BufferMap[Asked(t)]
Accepted(t) == Asked(t) = None \/ (Looked(t) # None /\ Fits(call[t].fmt, Looked(t)))

Verify(t) ==
  LET c == call[t]
      b == Looked(t) IN
  /\ pc[t] = "verify"
  /\ Accepted(t)
  /\ mixfmt' = IF b # None /\ c.fmt = None THEN [mixfmt EXCEPT ![c.source] = Stored(data[b])]
               ELSE mixfmt
  /\ IF c.n + 1 = Len(c.names)
     THEN /\ Go(t, "verify", "link")
          /\ lSourceType' = [lSourceType EXCEPT ![c.source] = "STREAMING"]
          /\ Locals(t, [c EXCEPT !.n = 0, !.seen = Append(@, b)])
     ELSE /\ Go(t, "verify", "verify")
          /\ Locals(t, [c EXCEPT !.n = @ + 1, !.seen = Append(@, b),
                                 !.fmt = IF b # None /\ @ = None THEN Format(data[b]) ELSE @])
          /\ UNCHANGED lSourceType
  /\ UNCHANGED <<bufferVars, data, ref, queue, BuffersPlayed, playing, given, lost, holder, raced>>

VerifyFails(t) ==
  /\ pc[t] = "verify"
  /\ ~Accepted(t)
  /\ Return(t, "verify")
  /\ holder' = None
  /\ UNCHANGED <<bufferVars, data, ref, sourceVars, given, lost, raced>>

(* Then every name is looked up again, and what is found is linked: nothing *)
(* if the buffer was deleted since, another buffer if its name was reused.  *)
Link(t) ==
  LET c == call[t]
      entries == Append(c.entries, Looked(t)) IN
  /\ pc[t] = "link"
  /\ Refer(<<>>, <<Looked(t)>>)
  /\ raced' = (raced \/ Asked(t) \in Doomed \/ Looked(t) # c.seen[c.n + 1])
  /\ IF Len(entries) = Len(c.names)
     THEN /\ Return(t, "link")
          /\ queue' = [queue EXCEPT ![c.source] = @ \o entries]
          /\ holder' = None
     ELSE /\ Go(t, "link", "link")
          /\ Locals(t, [c EXCEPT !.entries = entries, !.n = @ + 1])
          /\ UNCHANGED <<queue, holder>>
  /\ UNCHANGED <<bufferVars, data, BuffersPlayed, playing, lSourceType, mixfmt, given, lost>>

(* alSourceUnqueueBuffers, of n entries *)
Unqueue(s, n) ==
  /\ Unlocked
  /\ lSourceType[s] = "STREAMING" /\ n \in Unqueueable(s)
  /\ Refer(SubSeq(queue[s], 1, n), <<>>)
  /\ queue' = [queue EXCEPT ![s] = SubSeq(@, n + 1, Len(@))]
  /\ BuffersPlayed' = [BuffersPlayed EXCEPT ![s] = @ - n]
  /\ UNCHANGED <<bufferVars, data, playing, lSourceType, mixfmt, given, lost, holder, pc, call, raced>>

(* alSourcei(AL_BUFFER): the queue is replaced, by nothing, ...             *)
Detach(s) ==
  /\ Unlocked /\ ~playing[s]
  /\ Refer(queue[s], <<>>)
  /\ queue' = [queue EXCEPT ![s] = <<>>]
  /\ BuffersPlayed' = [BuffersPlayed EXCEPT ![s] = 0]
  /\ lSourceType' = [lSourceType EXCEPT ![s] = "UNDETERMINED"]
  /\ UNCHANGED <<bufferVars, data, playing, mixfmt, given, lost, holder, pc, call, raced>>

(* ... or by a buffer: between the lookup and the reference, another thread *)
(* may delete it.                                                           *)
Attach(t, s, m) ==
  /\ Unlocked /\ holder' = t
  /\ ~playing[s] /\ BufferMap[m] # None
  /\ Go(t, "idle", "attach")
  /\ Locals(t, [NoCall EXCEPT !.source = s, !.name = m, !.block = BufferMap[m]])
  /\ UNCHANGED <<bufferVars, data, ref, sourceVars, given, lost, raced>>

AttachStore(t) ==
  LET s == call[t].source
      b == call[t].block IN
  /\ Return(t, "attach")
  /\ holder' = None
  /\ Refer(queue[s], <<b>>)
  /\ raced' = (raced \/ call[t].name \in Doomed \/ BufferMap[call[t].name] # b)
  /\ queue' = [queue EXCEPT ![s] = <<b>>]
  /\ BuffersPlayed' = [BuffersPlayed EXCEPT ![s] = 0]
  /\ lSourceType' = [lSourceType EXCEPT ![s] = "STATIC"]
  /\ mixfmt' = [mixfmt EXCEPT ![s] = Stored(data[b])]
  /\ UNCHANGED <<bufferVars, data, playing, given, lost>>

-----------------------------------------------------------------------------
(* Play control and the mixer, by what they do to BuffersPlayed. *)
Play(s) ==
  /\ Unlocked
  /\ \E i \in 1 .. Len(queue[s]) : queue[s][i] # None /\ data[queue[s][i]].size > 0
  /\ playing' = [playing EXCEPT ![s] = TRUE]
  /\ BuffersPlayed' = [BuffersPlayed EXCEPT ![s] = 0]
  /\ UNCHANGED <<bufferVars, data, ref, queue, lSourceType, mixfmt, given, lost, holder, pc, call, raced>>

Stop(s) ==
  /\ Unlocked
  /\ playing' = [playing EXCEPT ![s] = FALSE]
  /\ BuffersPlayed' = [BuffersPlayed EXCEPT ![s] = Len(queue[s])]
  /\ UNCHANGED <<bufferVars, data, ref, queue, lSourceType, mixfmt, given, lost, holder, pc, call, raced>>

MixNext(s) ==
  /\ Unlocked /\ playing[s]
  /\ BuffersPlayed[s] < Len(queue[s]) - 1
  /\ BuffersPlayed' = [BuffersPlayed EXCEPT ![s] = @ + 1]
  /\ UNCHANGED <<bufferVars, data, ref, queue, playing, lSourceType, mixfmt, given, lost, holder, pc,
                 call, raced>>

-----------------------------------------------------------------------------
Next ==
  \/ \E t \in Thread :
       \/ \E n \in 1 .. Cardinality(Name) + 1 : Gen(t, n)
       \/ \E m \in Name, b \in Block : GenNew(t, m, b)
       \/ GenInsert(t) \/ GenNoMemory(t) \/ GenRefused(t)
       \/ \E S \in SUBSET Name : Delete(t, S)
       \/ \E m \in Name : Check(t, m) \/ CheckFails(t, m) \/ RemoveBuffer(t, m)
       \/ Free(t)
       \/ \E s \in Source, names \in BoundedSeq(given \cup {None}, MaxQueue) : Queue(t, s, names)
       \/ Verify(t) \/ VerifyFails(t) \/ Link(t)
       \/ \E s \in Source, m \in given : Attach(t, s, m)
       \/ AttachStore(t)
  \/ \E m \in given, d \in Loaded : Fill(m, d)
  \/ \E m \in given, p \in Loop : SetLoopPoints(m, p[1], p[2])
  \/ \E s \in Source : Detach(s) \/ Play(s) \/ Stop(s) \/ MixNext(s)
  \/ \E s \in Source, n \in 1 .. MaxQueue : Unqueue(s, n)

Spec == Init /\ [][Next]_vars

-----------------------------------------------------------------------------
(* Every entry of a queue, or of the list a call is linking, is a buffer in *)
(* memory, and every one of a queue has the source's NumChannels and        *)
(* SampleSize, with which the mixer reads it, also after a queue call that  *)
(* changed them and was then refused; unless a reference was taken to a     *)
(* buffer under deletion.                                                   *)
QueuedValid ==
  ~raced =>
    /\ \A s \in Source : \A i \in 1 .. Len(queue[s]) :
         queue[s][i] # None => /\ queue[s][i] \in allocated
                               /\ Stored(data[queue[s][i]]) = mixfmt[s]
    /\ \A t \in Thread : \A i \in 1 .. Len(call[t].entries) :
         call[t].entries[i] \in allocated \cup {None}

(* The data, the size and the loop points of a buffer do not change while a *)
(* source has it, which the module Sources takes for granted.               *)
UnchangedWhileQueued ==
  [][\A b \in allocated \cap allocated' :
       data'[b] # data[b] /\ ~raced =>
         \A s \in Source : \A i \in 1 .. Len(queue[s]) : queue[s][i] # b]_vars

(* No call loses a name or a buffer, failed ones included: every name taken *)
(* belongs to a buffer in the map or to a call under way, and what is in the*)
(* map was given to the application or is a call's to give or take back.    *)
(* The exception is a failed alGenBuffers one of whose new names had been   *)
(* given to the application before, which uses it still: alDeleteBuffers    *)
(* then finds it gone or in use and takes nothing back.                     *)
InCall == UNION {{call[t].name} \cup (IF pc[t] \in {"gen", "insert"} THEN call[t].done
                                      ELSE IF pc[t] \in {"check", "remove", "free"} THEN call[t].todo
                                      ELSE {}) : t \in Thread}
Mapped == {m \in Name : BufferMap[m] # None}

NothingLost ==
  /\ taken \subseteq Mapped \cup {call[t].name : t \in Thread}
  /\ Mapped \subseteq given \cup InCall \cup lost

(* A partial update that is accepted writes inside the buffer's data, and   *)
(* loop points are inside it, whatever format the data came in.             *)
WritesInside ==
  \A b \in allocated :
    LET d == data[b] IN
    /\ d.FmtType # Unset => d.LoopEnd * FrameSize(d) <= d.size
    /\ d.OriginalType # Unset =>
         \A i, n \in 0 .. d.OriginalSize \div d.OriginalAlign :
           SubDataAccepted(d, i * d.OriginalAlign, n * d.OriginalAlign) =>
             SubDataEnd(d, i * d.OriginalAlign, n * d.OriginalAlign) <= d.size
=============================================================================
