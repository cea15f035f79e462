----------------------- MODULE EditEngineHistoryProofs -----------------------
(***************************************************************************)
(* EditEngine, one call at a time, implements DocumentHistory, for every    *)
(* set of callers, files and contents and every size of the undo stack.     *)
(*                                                                         *)
(* Coherence says what a call knows of its file while the tie between file  *)
(* and history is unbroken.  The refinement also has to account for calls   *)
(* that begin after the tie was broken: Remembers is what they know.        *)
(***************************************************************************)
EXTENDS EditEngineHistory, CoherenceProofs

-----------------------------------------------------------------------------
(***************************************************************************)
(* What a call knows, whatever happened before it.                          *)
(***************************************************************************)

\* Of a call r on a file with undo stack u, redo stack s and content v: until it
\* writes, the file is as it found it; rollback goes back to that; the entry to
\* push is the change of the file; the entry of a move is on the other stack.
Remembers(r, u, s, v) ==
    /\ r.at \in {"parse", "enter", "moved"} => v = r.pre
    /\ r.at \in Body => r.snap = r.pre
    /\ r.at = "push" => r.entry = [pre |-> r.pre, post |-> v]
    /\ r.at \in {"moved", "moving"} =>
          Onto(r, u, s) # <<>> /\ Last(Onto(r, u, s)) = r.entry

\* The inductive invariant behind ImplementsHistory.
Memory ==
    ~Overlap =>
        /\ Solo
        /\ \A f \in Files, c \in Callers : call[c].file = f =>
              Remembers(call[c], stack["undo"][f], stack["redo"][f], disk[f])

\* A step of one call on one file, alone: it suffices to look at that call.
LEMMA OneMemory ==
    ASSUME TypeOK, Memory, ~Overlap, NEW c \in Callers, NEW f \in Files,
           (call[c] = Idle /\ Quiet) \/ call[c].file = f,
           \A d \in Callers \ {c} : call'[d] = call[d],
           \/ call'[c] = Idle
           \/ call'[c].file = f /\ Remembers(call'[c], stack'["undo"][f], stack'["redo"][f],
                                             disk'[f])
    PROVE  Memory'
<1>1. Idle.file = None /\ \A g \in Files : g # None
  BY EngineConstants DEF Idle
<1>2. \A d \in Callers \ {c} : call[d] = Idle /\ call'[d] = Idle
  BY <1>1 DEF Memory, Solo, Quiet
<1>3. Solo'
  BY <1>2 DEF Solo
<1>4. ASSUME NEW g \in Files, NEW d \in Callers, call'[d].file = g
      PROVE  Remembers(call'[d], stack'["undo"][g], stack'["redo"][g], disk'[g])
  <2>1. d = c /\ g = f
    BY <1>1, <1>2, <1>4
  <2> QED BY <2>1, <1>1, <1>4
<1> QED BY <1>3, <1>4 DEF Memory

\* What the memory of a call under way says.
LEMMA Recalled ==
    ASSUME TypeOK, Memory, ~Overlap, NEW c \in Callers, NEW f \in Files, call[c].file = f
    PROVE  /\ Solo
           /\ Remembers(call[c], stack["undo"][f], stack["redo"][f], disk[f])
BY DEF Memory

\* Every step of a call, of another program and of the process keeps it.
LEMMA NextMemory == TypeOK /\ TypeOK' /\ StackBudget /\ Memory /\ [Next]_vars => Memory'
<1> SUFFICES ASSUME TypeOK, TypeOK', StackBudget, Memory, [Next]_vars, ~Overlap
             PROVE  Memory'
  BY DEF Memory
<1> USE DEF At
<1>0. call \in [Callers -> Calls] /\ disk \in [Files -> Contents]
  BY DEF TypeOK
<1>1. ASSUME NEW c \in Callers, NEW f \in Files, Execute(c, f) PROVE Memory'
  <2>1. /\ call[c] = Idle /\ Quiet
        /\ \A d \in Callers \ {c} : call'[d] = call[d]
        /\ call'[c].file = f /\ call'[c].at \in {"parse", "enter"} /\ call'[c].pre = disk[f]
        /\ UNCHANGED disk
    BY <1>0, <1>1 DEF Execute, MayStart, Idle
  <2>2. Remembers(call'[c], stack'["undo"][f], stack'["redo"][f], disk'[f])
    BY <2>1 DEF Remembers, Body
  <2> QED BY <2>1, <2>2, OneMemory
<1>2. ASSUME NEW c \in Callers, NEW f \in Files, NEW way \in Ways, Take(c, f, way)
      PROVE Memory'
  <2> DEFINE e == Last(stack[way][f])
  <2>1. /\ call[c] = Idle /\ Quiet /\ stack[way][f] # <<>> /\ Move(f, way)
        /\ \A d \in Callers \ {c} : call'[d] = call[d]
        /\ call'[c].file = f /\ call'[c].at = "moved" /\ call'[c].pre = disk[f]
        /\ call'[c].way = way /\ call'[c].entry = e
        /\ UNCHANGED disk
    BY <1>0, <1>2 DEF Take, MayStart, Idle
  <2>2. stack'[Other(way)][f] = Append(stack[Other(way)][f], e) /\ e \in Entry(Contents)
    BY <2>1, MoveWithinBudget, MoveType
  <2>3. stack[Other(way)][f] \in Seq(Entry(Contents))
    BY DEF TypeOK, Ways, Other
  <2> HIDE DEF e
  <2>4. stack'[Other(way)][f] # <<>> /\ Last(stack'[Other(way)][f]) = e
    BY <2>2, <2>3, OnTop
  <2>5. Remembers(call'[c], stack'["undo"][f], stack'["redo"][f], disk'[f])
    BY <2>1, <2>4 DEF Remembers, Onto, Other, Ways, Body
  <2> QED BY <2>1, <2>5, OneMemory
<1>3. ASSUME NEW c \in Callers, Step(c) PROVE Memory'
  <2>1. call[c].at # "idle"
    BY <1>3 DEF Step, Parse, Reject, Enter, Refuse, StartWriting, FinishWriting,
       AtomicWrite, Fail, Restore, RestoreFails, Commit, ReadPost, ReadPostFails, Push,
       RefuseMove, StartMove, FinishMove, MoveFails, Body
  <2>2. PICK f \in Files : call[c].file = f
    BY <2>1 DEF TypeOK, Formed
  <2>3. Remembers(call[c], stack["undo"][f], stack["redo"][f], disk[f])
    BY <2>2, Recalled
  <2>4. CASE Parse(c) \/ Enter(c) \/ StartWriting(c) \/ FinishWriting(c) \/ AtomicWrite(c)
             \/ Fail(c) \/ Commit(c) \/ ReadPost(c) \/ StartMove(c)
    <3>0. /\ \A d \in Callers \ {c} : call'[d] = call[d]
          /\ call'[c].file = f /\ call'[c].pre = call[c].pre
          /\ UNCHANGED stack
      BY <2>2, <2>4, <1>0 DEF Parse, Enter, StartWriting, FinishWriting, AtomicWrite, Fail,
         Commit, ReadPost, StartMove, Go, Calls, history
    <3>1. CASE Parse(c)
      <4>1. call[c].at = "parse" /\ call'[c].at = "enter" /\ UNCHANGED disk
        BY <3>1, <1>0 DEF Parse, Calls
      <4> QED BY <4>1, <3>0, <2>2, <2>3, OneMemory DEF Remembers, Body
    <3>2. CASE Enter(c)
      <4>1. call[c].at = "enter" /\ call'[c].at = "body" /\ call'[c].snap = disk[f]
        BY <3>2, <2>2, <1>0 DEF Enter, Calls
      <4> QED BY <4>1, <3>0, <2>2, <2>3, OneMemory DEF Remembers, Body
    <3>3. CASE StartWriting(c) \/ FinishWriting(c) \/ AtomicWrite(c) \/ Fail(c)
      <4>1. /\ call[c].at \in Body /\ call'[c].snap = call[c].snap
            /\ call'[c].at \in {"writing", "written", "restore"}
        BY <3>3, <1>0 DEF StartWriting, FinishWriting, AtomicWrite, Fail, Go, Calls, Body
      <4> QED BY <4>1, <3>0, <2>2, <2>3, OneMemory DEF Remembers, Body
    <3>4. CASE Commit(c)
      <4>1. call'[c].at = "readpost"
        BY <3>4, <1>0 DEF Commit, Calls
      <4> QED BY <4>1, <3>0, <2>2, OneMemory DEF Remembers, Body
    <3>5. CASE ReadPost(c)
      <4>1. /\ call'[c].at = "push" /\ UNCHANGED disk
            /\ call'[c].entry = [pre |-> call[c].pre, post |-> disk[f]]
        BY <3>5, <2>2, <1>0 DEF ReadPost, Calls
      <4> QED BY <4>1, <3>0, <2>2, OneMemory DEF Remembers, Body
    <3>6. CASE StartMove(c)
      <4>1. /\ call[c].at = "moved" /\ call'[c].at = "moving"
            /\ call'[c].way = call[c].way /\ call'[c].entry = call[c].entry
        BY <3>6, <1>0 DEF StartMove, Go, Calls
      <4> QED BY <4>1, <3>0, <2>2, <2>3, OneMemory DEF Remembers, Onto, Body
    <3> QED BY <2>4, <3>1, <3>2, <3>3, <3>4, <3>5, <3>6
  <2>5. CASE Reject(c) \/ Refuse(c) \/ Restore(c) \/ RestoreFails(c) \/ ReadPostFails(c)
             \/ Push(c) \/ RefuseMove(c) \/ FinishMove(c) \/ MoveFails(c)
    <3>1. call'[c] = Idle /\ \A d \in Callers \ {c} : call'[d] = call[d]
      BY <2>5, <1>0 DEF Reject, Refuse, Restore, RestoreFails, ReadPostFails, Push,
         RefuseMove, FinishMove, MoveFails, Return
    <3> QED BY <3>1, <2>2, OneMemory
  <2> QED BY <1>3, <2>4, <2>5 DEF Step
<1>4. ASSUME NEW f \in Files, External(f) PROVE Memory'
  <2>1. Quiet /\ UNCHANGED call /\ \A c \in Callers : call[c].file \notin Files
    BY <1>4, EngineConstants DEF External, Quiet, Idle
  <2> QED BY <2>1 DEF Memory, Solo
<1>5. CASE Crash
  <2>1. \A c \in Callers : call'[c] = Idle /\ call'[c].file \notin Files
    BY <1>5, EngineConstants DEF Crash, Idle
  <2> QED BY <2>1 DEF Memory, Solo
<1>6. CASE UNCHANGED vars
  <2>1. UNCHANGED <<disk, stack, call>>
    BY <1>6 DEF vars
  <2> QED BY <2>1 DEF Memory, Solo
<1> QED BY <1>1, <1>2, <1>3, <1>4, <1>5, <1>6 DEF Next, Start, TakeLatest

-----------------------------------------------------------------------------
(***************************************************************************)
(* The mapping, seen from the call.                                         *)
(***************************************************************************)

\* What DocumentHistory sees of the file of a call r ...
Seen(f, r) ==
    /\ doc[f] = r.pre
    /\ past[f] = CASE r.way = "undo" -> Append(stack["undo"][f], r.entry)
                   [] r.way = "redo" -> Front(stack["undo"][f])
                   [] OTHER -> stack["undo"][f]
    /\ future[f] = CASE r.way = "redo" -> Append(stack["redo"][f], r.entry)
                     [] r.way = "undo" -> Front(stack["redo"][f])
                     [] OTHER -> stack["redo"][f]

\* ... and of a file of which there is no call.
Plain(f) ==
    /\ doc[f] = disk[f]
    /\ past[f] = stack["undo"][f]
    /\ future[f] = stack["redo"][f]

View ==
    /\ doc = [f \in Files |-> doc[f]]
    /\ past = [f \in Files |-> past[f]]
    /\ future = [f \in Files |-> future[f]]
    /\ \A f \in Files :
         /\ \A c \in Callers : call[c].file = f => Seen(f, call[c])
         /\ (\A c \in Callers : call[c].file # f) => Plain(f)

\* One call at a time, the mapping is what these say.
LEMMA Viewed == TypeOK /\ Solo => View
<1> SUFFICES ASSUME TypeOK, Solo PROVE View
  OBVIOUS
<1>0. /\ doc = [f \in Files |-> doc[f]]
      /\ past = [f \in Files |-> past[f]]
      /\ future = [f \in Files |-> future[f]]
  BY DEF doc, past, future
<1>1. ASSUME NEW f \in Files, NEW c \in Callers, call[c].file = f
      PROVE  Seen(f, call[c])
  <2>1. Idle.file = None /\ f # None
    BY EngineConstants DEF Idle
  <2>2. \A d \in Callers : call[d].file = f => d = c
    BY <1>1, <2>1 DEF Solo
  <2>3. Busy(f) /\ Worker(f) = c
    BY <1>1, <2>2 DEF Busy, Worker
  <2>4. \A way : Moving(f, way) <=> call[c].way = way
    BY <2>3 DEF Moving
  <2>5. doc[f] = call[c].pre
    BY <2>3 DEF doc
  <2>6. past[f] = Unmoved(f, "undo") /\ future[f] = Unmoved(f, "redo")
    BY DEF past, future
  <2>7. Other("undo") = "redo" /\ Other("redo") = "undo"
    BY DEF Other
  <2> QED BY <2>3, <2>4, <2>5, <2>6, <2>7 DEF Seen, Unmoved
<1>2. ASSUME NEW f \in Files, \A c \in Callers : call[c].file # f
      PROVE  Plain(f)
  <2>1. ~Busy(f) /\ \A way : ~Moving(f, way)
    BY <1>2 DEF Busy, Moving
  <2>2. past[f] = Unmoved(f, "undo") /\ future[f] = Unmoved(f, "redo")
    BY DEF past, future
  <2> QED BY <2>1, <2>2 DEF Plain, doc, Unmoved
<1> QED BY <1>0, <1>1, <1>2 DEF View

\* A step of one call on one file, alone, shows at no other file.
LEMMA OneFile ==
    ASSUME Solo, View, View', NEW c \in Callers, NEW f \in Files,
           (call[c] = Idle /\ Quiet) \/ call[c].file = f,
           \A d \in Callers \ {c} : call'[d] = call[d],
           call'[c] = Idle \/ call'[c].file = f,
           \A g \in Files \ {f} : /\ disk'[g] = disk[g]
                                  /\ \A way \in Ways : stack'[way][g] = stack[way][g]
    PROVE  /\ doc' = [doc EXCEPT ![f] = doc'[f]]
           /\ past' = [past EXCEPT ![f] = past'[f]]
           /\ future' = [future EXCEPT ![f] = future'[f]]
<1>1. Idle.file = None /\ \A g \in Files : g # None
  BY EngineConstants DEF Idle
<1>2. \A d \in Callers \ {c} : call[d] = Idle /\ call'[d] = Idle
  BY <1>1 DEF Solo, Quiet
<1>3. ASSUME NEW g \in Files \ {f}
      PROVE  doc'[g] = doc[g] /\ past'[g] = past[g] /\ future'[g] = future[g]
  <2>1. \A d \in Callers : call[d].file # g /\ call'[d].file # g
    BY <1>1, <1>2
  <2>2. Plain(g) /\ Plain(g)'
    BY <2>1 DEF View
  <2> QED BY <2>2 DEF Plain, Ways
<1> QED BY <1>3 DEF View

-----------------------------------------------------------------------------
(***************************************************************************)
(* The steps.                                                               *)
(***************************************************************************)

\* A step of EditEngine is one of DocumentHistory, or none.
Implemented == [Promise!Next]_(Promise!docVars)

\* The instance's operators on sequences are the operators themselves.
LEMMA SameOperators ==
    /\ \A s, e : Promise!Appended(s, e) = Appended(s, e)
    /\ \A s : Promise!Front(s) = Front(s) /\ Promise!Last(s) = Last(s)
BY DEF Promise!Appended, Appended, Promise!Front, Front, Promise!Last, Last

\* Nothing that DocumentHistory sees.
LEMMA Unseen ==
    ASSUME NEW f \in Files,
           doc' = [doc EXCEPT ![f] = doc'[f]], doc'[f] = doc[f],
           past' = [past EXCEPT ![f] = past'[f]], past'[f] = past[f],
           future' = [future EXCEPT ![f] = future'[f]], future'[f] = future[f], View
    PROVE  Implemented
<1>1. UNCHANGED <<doc, past, future>>
  BY DEF View
<1> QED BY <1>1 DEF Implemented, Promise!docVars

\* A document that changes behind its history.
LEMMA Disturbed ==
    ASSUME NEW f \in Files,
           doc' = [doc EXCEPT ![f] = doc'[f]], doc'[f] \in Contents,
           past' = [past EXCEPT ![f] = past'[f]], past'[f] = past[f],
           future' = [future EXCEPT ![f] = future'[f]], future'[f] = future[f], View
    PROVE  Implemented
<1>1. UNCHANGED <<past, future>>
  BY DEF View
<1>2. Promise!Disturb(f)
  BY <1>1 DEF Promise!Disturb
<1> QED BY <1>2 DEF Implemented, Promise!Next

\* The start of execute(), everything inside a call that does not end it.
LEMMA InsideUnseen ==
    ASSUME TypeOK, Memory, ~Overlap, View, View', NEW c \in Callers, NEW f \in Files,
           call[c].file = f,
           \/ Parse(c) \/ Enter(c) \/ StartWriting(c) \/ FinishWriting(c)
           \/ AtomicWrite(c) \/ Fail(c) \/ Commit(c) \/ ReadPost(c) \/ StartMove(c)
    PROVE  Implemented
<1>0. call \in [Callers -> Calls] /\ disk \in [Files -> Contents] /\ Formed(call[c])
  BY DEF TypeOK
<1>1. /\ \A d \in Callers \ {c} : call'[d] = call[d]
      /\ call'[c].file = f /\ call'[c].pre = call[c].pre /\ call'[c].way = call[c].way
      /\ ReadPost(c) \/ call'[c].entry = call[c].entry
      /\ UNCHANGED stack
      /\ \A g \in Files \ {f} : disk'[g] = disk[g]
  BY <1>0 DEF Parse, Enter, StartWriting, FinishWriting, AtomicWrite, Fail,
     Commit, ReadPost, StartMove, Go, Write, Calls, history
<1>2. ReadPost(c) => call[c].way \notin Ways
  BY <1>0 DEF ReadPost, At, Formed
<1>3. Seen(f, call[c]) /\ Seen(f, call[c])'
  BY <1>1 DEF View
<1>4. doc'[f] = doc[f] /\ past'[f] = past[f] /\ future'[f] = future[f]
  BY <1>1, <1>2, <1>3 DEF Seen, Ways
<1>5. Solo
  BY DEF Memory
<1> QED BY <1>1, <1>4, <1>5, OneFile, Unseen

\* execute() begins: DocumentHistory sees the file as it was found.
LEMMA ExecuteUnseen ==
    ASSUME TypeOK, Memory, ~Overlap, View, View', NEW c \in Callers, NEW f \in Files,
           Execute(c, f)
    PROVE  Implemented
<1>1. /\ call[c] = Idle /\ Quiet
      /\ \A d \in Callers \ {c} : call'[d] = call[d]
      /\ call'[c].file = f /\ call'[c].pre = disk[f] /\ call'[c].way = None
      /\ UNCHANGED <<disk, stack>>
  BY DEF Execute, MayStart, Idle, TypeOK, history
<1>2. \A d \in Callers : call[d].file # f
  BY <1>1, EngineConstants DEF Quiet, Idle
<1>3. Plain(f) /\ Seen(f, call[c])'
  BY <1>1, <1>2 DEF View
<1>4. None # "undo" /\ None # "redo"
  BY EngineConstants DEF Ways
<1>5. doc'[f] = doc[f] /\ past'[f] = past[f] /\ future'[f] = future[f]
  BY <1>1, <1>3, <1>4 DEF Seen, Plain
<1>6. Solo
  BY DEF Memory
<1> QED BY <1>1, <1>5, <1>6, OneFile, Unseen

\* undo() or redo() begins: the entry is on the other stack, and DocumentHistory
\* sees it where it was.
LEMMA TakeUnseen ==
    ASSUME TypeOK, StackBudget, Memory, ~Overlap, View, View',
           NEW c \in Callers, NEW f \in Files, NEW way \in Ways, Take(c, f, way)
    PROVE  Implemented
<1> DEFINE e == Last(stack[way][f])
<1>1. /\ call[c] = Idle /\ Quiet /\ stack[way][f] # <<>> /\ Move(f, way)
      /\ \A d \in Callers \ {c} : call'[d] = call[d]
      /\ call'[c].file = f /\ call'[c].pre = disk[f] /\ call'[c].way = way
      /\ call'[c].entry = e /\ UNCHANGED disk
  BY DEF Take, MayStart, Idle, TypeOK
<1>2. \A d \in Callers : call[d].file # f
  BY <1>1, EngineConstants DEF Quiet, Idle
<1>3. Plain(f) /\ Seen(f, call[c])'
  BY <1>1, <1>2 DEF View
<1>4. /\ stack'[way][f] = Front(stack[way][f])
      /\ stack'[Other(way)][f] = Append(stack[Other(way)][f], e)
      /\ \A g \in Files \ {f}, w \in Ways : stack'[w][g] = stack[w][g]
      /\ e \in Entry(Contents)
  BY <1>1, MoveWithinBudget, MoveType
<1>5. /\ stack[way][f] \in Seq(Entry(Contents))
      /\ stack[Other(way)][f] \in Seq(Entry(Contents))
  BY DEF TypeOK, Ways, Other
<1>6. Append(stack'[way][f], e) = stack[way][f]
  BY <1>1, <1>4, <1>5, AppendPopped
<1>7. Front(stack'[Other(way)][f]) = stack[Other(way)][f]
  BY <1>4, <1>5, PopAppended
<1> HIDE DEF e
<1>8. doc'[f] = doc[f] /\ past'[f] = past[f] /\ future'[f] = future[f]
  BY <1>1, <1>3, <1>6, <1>7 DEF Seen, Plain, Ways, Other
<1>9. Solo
  BY DEF Memory
<1> QED BY <1>1, <1>4, <1>8, <1>9, OneFile, Unseen

\* A call that returns, seen before and after.
LEMMA Ended ==
    ASSUME TypeOK, Memory, ~Overlap, View, View', NEW c \in Callers, NEW f \in Files,
           call[c].file = f, Return(c),
           \A g \in Files \ {f} : /\ disk'[g] = disk[g]
                                  /\ \A way \in Ways : stack'[way][g] = stack[way][g]
    PROVE  /\ Seen(f, call[c]) /\ Plain(f)'
           /\ doc' = [doc EXCEPT ![f] = doc'[f]]
           /\ past' = [past EXCEPT ![f] = past'[f]]
           /\ future' = [future EXCEPT ![f] = future'[f]]
           /\ disk'[f] \in Contents => doc'[f] \in Contents
<1>1. /\ call'[c] = Idle /\ \A d \in Callers \ {c} : call'[d] = call[d]
      /\ Solo
  BY DEF Return, TypeOK, Memory
<1>2. Idle.file = None /\ f # None
  BY EngineConstants DEF Idle
<1>3. \A d \in Callers : call'[d].file # f
  BY <1>1, <1>2 DEF Solo
<1>4. Seen(f, call[c]) /\ Plain(f)'
  BY <1>3 DEF View
<1> QED BY <1>1, <1>4, OneFile DEF Plain

\* A call that ends with the file as it found it never happened.
LEMMA RejectUnseen ==
    ASSUME TypeOK, Memory, ~Overlap, View, View', NEW c \in Callers, NEW f \in Files,
           call[c].file = f, Reject(c) \/ Refuse(c) \/ Restore(c)
    PROVE  Implemented
<1> USE DEF At
<1>0. disk \in [Files -> Contents] /\ Formed(call[c])
  BY DEF TypeOK
<1>1. Remembers(call[c], stack["undo"][f], stack["redo"][f], disk[f])
  BY Recalled
<1>2. /\ Return(c) /\ UNCHANGED stack /\ call[c].way \notin Ways
      /\ \A g \in Files \ {f} : disk'[g] = disk[g]
  BY <1>0 DEF Reject, Refuse, Restore, Write, history, Formed, Body
<1>3. disk'[f] = call[c].pre
  BY <1>0, <1>1 DEF Reject, Refuse, Restore, Write, Remembers, Body
<1>4. /\ Seen(f, call[c]) /\ Plain(f)'
      /\ doc' = [doc EXCEPT ![f] = doc'[f]]
      /\ past' = [past EXCEPT ![f] = past'[f]]
      /\ future' = [future EXCEPT ![f] = future'[f]]
  BY <1>2, Ended
<1>5. doc'[f] = doc[f] /\ past'[f] = past[f] /\ future'[f] = future[f]
  BY <1>2, <1>3, <1>4 DEF Seen, Plain, Ways
<1> QED BY <1>4, <1>5, Unseen

\* A rollback that fails and a read that fails after the commit: the file may
\* have changed and the history does not know.
LEMMA FailedDisturbs ==
    ASSUME TypeOK, TypeOK', Memory, ~Overlap, View, View', NEW c \in Callers, NEW f \in Files,
           call[c].file = f, RestoreFails(c) \/ ReadPostFails(c)
    PROVE  Implemented
<1> USE DEF At
<1>0. disk \in [Files -> Contents] /\ Formed(call[c]) /\ disk'[f] \in Contents
  BY DEF TypeOK
<1>1. /\ Return(c) /\ UNCHANGED stack /\ call[c].way \notin Ways
      /\ \A g \in Files \ {f} : disk'[g] = disk[g]
  BY <1>0 DEF RestoreFails, ReadPostFails, Write, history, Formed, Body
<1>2. /\ Seen(f, call[c]) /\ Plain(f)' /\ doc'[f] \in Contents
      /\ doc' = [doc EXCEPT ![f] = doc'[f]]
      /\ past' = [past EXCEPT ![f] = past'[f]]
      /\ future' = [future EXCEPT ![f] = future'[f]]
  BY <1>0, <1>1, Ended
<1>3. past'[f] = past[f] /\ future'[f] = future[f]
  BY <1>1, <1>2 DEF Seen, Plain, Ways
<1> QED BY <1>2, <1>3, Disturbed

\* push() is the Edit: from the content the call found to the one it left.
LEMMA PushIsEdit ==
    ASSUME TypeOK, TypeOK', Memory, ~Overlap, View, View', NEW c \in Callers, NEW f \in Files,
           call[c].file = f, Push(c)
    PROVE  Implemented
<1>0. /\ disk'[f] \in Contents /\ Formed(call[c]) /\ call[c].at = "push"
      /\ stack \in [Ways -> [Files -> Seq(Entry(Contents))]]
  BY DEF TypeOK, Push, At
<1>1. call[c].entry = [pre |-> call[c].pre, post |-> disk[f]]
  BY <1>0, Recalled DEF Remembers
<1>2. Return(c) /\ UNCHANGED disk /\ call[c].way \notin Ways
  BY <1>0 DEF Push, Formed
<1>3. /\ stack'["undo"][f] = Appended(stack["undo"][f], call[c].entry)
      /\ stack'["redo"][f] = <<>>
      /\ \A g \in Files \ {f}, way \in Ways : stack'[way][g] = stack[way][g]
  BY <1>0 DEF Push, Ways
<1>4. /\ Seen(f, call[c]) /\ Plain(f)' /\ doc'[f] \in Contents
      /\ doc' = [doc EXCEPT ![f] = doc'[f]]
      /\ past' = [past EXCEPT ![f] = past'[f]]
      /\ future' = [future EXCEPT ![f] = future'[f]]
  BY <1>0, <1>2, <1>3, Ended
<1>5. /\ past'[f] = Appended(past[f], [pre |-> doc[f], post |-> doc'[f]])
      /\ future'[f] = <<>>
  BY <1>1, <1>2, <1>3, <1>4 DEF Seen, Plain, Ways
<1>6. Promise!Edit(f)
  BY <1>4, <1>5, SameOperators DEF Promise!Edit
<1> QED BY <1>6 DEF Implemented, Promise!Next

\* An append after a pop finds room.
LEMMA RoomAfterPop ==
    ASSUME TypeOK, StackBudget, NEW f \in Files, NEW way \in Ways, stack[way][f] # <<>>
    PROVE  Appended(Front(stack[way][f]), Last(stack[way][f])) = stack[way][f]
<1> DEFINE s == stack[way][f]
<1>1. s \in Seq(Entry(Contents))
  BY DEF TypeOK
<1>2. /\ Len(stack["undo"][f]) \in Nat /\ Len(stack["redo"][f]) \in Nat
      /\ Len(stack["undo"][f]) + Len(stack["redo"][f]) <= MaxUndo
      /\ way = "undo" \/ way = "redo"
  BY LenProperties DEF TypeOK, StackBudget, Ways
<1>3. Len(s) <= MaxUndo
  <2>1. \A m, n \in Nat : m + n <= MaxUndo => m <= MaxUndo /\ n <= MaxUndo
    BY MaxUndoPositive
  <2>2. Len(stack["undo"][f]) <= MaxUndo /\ Len(stack["redo"][f]) <= MaxUndo
    BY <1>2, <2>1
  <2> QED BY <1>2, <2>2
<1> HIDE DEF s
<1>4. s # <<>>
  BY DEF s
<1>5. /\ Front(s) \in Seq(Entry(Contents)) /\ Last(s) \in Entry(Contents)
      /\ Len(Front(s)) = Len(s) - 1 /\ Len(s) \in Nat \ {0}
  BY <1>1, <1>4, FrontLast
<1>6. Len(Front(s)) < MaxUndo
  BY <1>3, <1>5, MaxUndoPositive
<1>7. Appended(Front(s), Last(s)) = Append(Front(s), Last(s))
  BY <1>6 DEF Appended
<1>8. Append(Front(s), Last(s)) = s
  BY <1>1, <1>4, AppendPopped
<1> QED BY <1>7, <1>8 DEF s

\* The end of a move: DocumentHistory sees the cursor pass the entry.
LEMMA MoveSteps ==
    ASSUME TypeOK, TypeOK', StackBudget, Memory, ~Overlap, View, View',
           NEW c \in Callers, NEW f \in Files,
           call[c].file = f, RefuseMove(c) \/ FinishMove(c)
    PROVE  /\ doc' = [doc EXCEPT ![f] = disk'[f]]
           /\ \/ /\ call[c].way = "undo" /\ Promise!StepBack(f)
                 /\ Promise!Last(past[f]) = call[c].entry
              \/ /\ call[c].way = "redo" /\ Promise!StepForward(f)
                 /\ Promise!Last(future[f]) = call[c].entry
<1> USE DEF At
<1> DEFINE u == stack["undo"][f]
           s == stack["redo"][f]
           e == call[c].entry
<1>0. /\ disk \in [Files -> Contents] /\ call[c].at \in {"moved", "moving"}
      /\ call[c].way \in Ways /\ e \in Entry(Contents)
      /\ u \in Seq(Entry(Contents)) /\ s \in Seq(Entry(Contents))
  BY DEF RefuseMove, FinishMove, TypeOK, Formed, Ways
<1>1. Onto(call[c], u, s) # <<>> /\ Last(Onto(call[c], u, s)) = e
  BY <1>0, Recalled DEF Remembers
<1>2. /\ Return(c) /\ UNCHANGED stack
      /\ \A g \in Files \ {f} : disk'[g] = disk[g]
  BY <1>0 DEF RefuseMove, FinishMove, Write, history
<1>3. /\ Seen(f, call[c]) /\ Plain(f)'
      /\ doc' = [doc EXCEPT ![f] = doc'[f]]
      /\ past' = [past EXCEPT ![f] = past'[f]]
      /\ future' = [future EXCEPT ![f] = future'[f]]
  BY <1>2, Ended
<1>4. doc' = [doc EXCEPT ![f] = disk'[f]] /\ past'[f] = u /\ future'[f] = s
  BY <1>2, <1>3 DEF Plain
<1>5. CASE call[c].way = "undo"
  <2>1. past[f] = Append(u, e) /\ future[f] = Front(s)
    BY <1>3, <1>5 DEF Seen
  <2>2. past[f] # <<>> /\ Front(past[f]) = u /\ Last(past[f]) = e
    BY <1>0, <2>1, PopAppended
  <2>3. s # <<>> /\ Last(s) = e
    BY <1>1, <1>5 DEF Onto
  <2>4. Appended(Front(s), Last(s)) = s
    BY <2>3, RoomAfterPop DEF Ways
  <2>5. Appended(future[f], Last(past[f])) = s
    BY <2>1, <2>2, <2>3, <2>4
  <2> HIDE DEF u, s, e
  <2>6. Promise!StepBack(f)
    BY <1>3, <1>4, <2>2, <2>5, SameOperators DEF Promise!StepBack
  <2> QED BY <1>4, <1>5, <2>2, <2>6, SameOperators DEF e
<1>6. CASE call[c].way = "redo"
  <2>1. past[f] = Front(u) /\ future[f] = Append(s, e)
    BY <1>3, <1>6 DEF Seen
  <2>2. future[f] # <<>> /\ Front(future[f]) = s /\ Last(future[f]) = e
    BY <1>0, <2>1, PopAppended
  <2>3. u # <<>> /\ Last(u) = e
    BY <1>1, <1>6 DEF Onto
  <2>4. Appended(Front(u), Last(u)) = u
    BY <2>3, RoomAfterPop DEF Ways
  <2>5. Appended(past[f], Last(future[f])) = u
    BY <2>1, <2>2, <2>3, <2>4
  <2> HIDE DEF u, s, e
  <2>6. Promise!StepForward(f)
    BY <1>3, <1>4, <2>2, <2>5, SameOperators DEF Promise!StepForward
  <2> QED BY <1>4, <1>6, <2>2, <2>6, SameOperators DEF e
<1> QED BY <1>0, <1>5, <1>6 DEF Ways

\* A move that is refused slips: the history moved, the file did not.
LEMMA RefuseMoveSlips ==
    ASSUME TypeOK, TypeOK', StackBudget, Memory, ~Overlap, View, View',
           NEW c \in Callers, NEW f \in Files, call[c].file = f, RefuseMove(c)
    PROVE  Implemented
<1>1. call[c].at = "moved" /\ UNCHANGED disk /\ Seen(f, call[c])
  BY DEF RefuseMove, At, View
<1>2. disk'[f] = doc[f]
  BY <1>1, Recalled DEF Remembers, Seen
<1>3. UNCHANGED doc /\ (Promise!StepBack(f) \/ Promise!StepForward(f))
  BY <1>2, MoveSteps DEF View
<1>4. Promise!Slip(f)
  BY <1>3 DEF Promise!Slip
<1> QED BY <1>4 DEF Implemented, Promise!Next

\* The end of the write is the Undo or the Redo.
LEMMA FinishMoveIsMove ==
    ASSUME TypeOK, TypeOK', StackBudget, Memory, ~Overlap, View, View',
           NEW c \in Callers, NEW f \in Files, call[c].file = f, FinishMove(c)
    PROVE  Implemented
<1>1. disk'[f] = Target(call[c].way, call[c].entry)
  BY DEF FinishMove, Write, TypeOK
<1>2. CASE call[c].way = "undo"
  <2>1. Promise!Undo(f)
    BY <1>1, <1>2, MoveSteps DEF Promise!Undo, Target
  <2> QED BY <2>1 DEF Implemented, Promise!Next
<1>3. CASE call[c].way = "redo"
  <2>1. Promise!Redo(f)
    BY <1>1, <1>3, MoveSteps DEF Promise!Redo, Target
  <2> QED BY <2>1 DEF Implemented, Promise!Next
<1> QED BY <1>2, <1>3, MoveSteps

\* A move whose write fails: before the truncation the entry goes back and nothing
\* has happened; after it the entry goes back and the file is disturbed.
LEMMA MoveFailsGoesBack ==
    ASSUME TypeOK, TypeOK', StackBudget, Memory, ~Overlap, View, View',
           NEW c \in Callers, NEW f \in Files, call[c].file = f, MoveFails(c)
    PROVE  Implemented
<1> DEFINE w == call[c].way
           back == Other(w)
           e == call[c].entry
<1>0. /\ disk'[f] \in Contents /\ call[c].at \in {"moved", "moving"}
      /\ w \in Ways /\ back \in Ways /\ Other(back) = w /\ e \in Entry(Contents)
      /\ stack[w][f] \in Seq(Entry(Contents)) /\ stack[back][f] \in Seq(Entry(Contents))
  BY DEF MoveFails, At, TypeOK, Formed, Ways, Other
<1>1. /\ Remembers(call[c], stack["undo"][f], stack["redo"][f], disk[f])
      /\ stack[back][f] # <<>> /\ Last(stack[back][f]) = e
  BY <1>0, Recalled DEF Remembers, Onto, Other, Ways
<1>2. Return(c) /\ UNCHANGED disk /\ Move(f, back)
  BY <1>1 DEF MoveFails
<1>3. /\ stack'[back][f] = Front(stack[back][f])
      /\ stack'[w][f] = Append(stack[w][f], e)
      /\ \A g \in Files \ {f}, way \in Ways : stack'[way][g] = stack[way][g]
  BY <1>0, <1>1, <1>2, MoveWithinBudget
<1>4. /\ Seen(f, call[c]) /\ Plain(f)' /\ doc'[f] \in Contents
      /\ doc' = [doc EXCEPT ![f] = doc'[f]]
      /\ past' = [past EXCEPT ![f] = past'[f]]
      /\ future' = [future EXCEPT ![f] = future'[f]]
  BY <1>0, <1>2, <1>3, Ended
<1>5. past'[f] = past[f] /\ future'[f] = future[f]
  BY <1>0, <1>3, <1>4 DEF Seen, Plain, Other, Ways
<1>6. CASE call[c].at = "moved"
  <2>1. doc'[f] = doc[f]
    BY <1>1, <1>2, <1>4, <1>6 DEF Remembers, Seen, Plain
  <2> QED BY <1>4, <1>5, <2>1, Unseen
<1>7. CASE call[c].at = "moving"
  BY <1>4, <1>5, Disturbed
<1> QED BY <1>0, <1>6, <1>7

\* Another program's save disturbs the file.
LEMMA ExternalDisturbs ==
    ASSUME TypeOK, TypeOK', ~Overlap, View, View', NEW f \in Files, External(f)
    PROVE  Implemented
<1>1. /\ Quiet /\ UNCHANGED <<stack, call>>
      /\ \A g \in Files \ {f} : disk'[g] = disk[g]
      /\ disk'[f] \in Contents
  BY DEF External, Write, TypeOK, history
<1>2. \A g \in Files, c \in Callers : call[c].file # g /\ call'[c].file # g
  BY <1>1, EngineConstants DEF Quiet, Idle
<1>3. \A g \in Files : Plain(g) /\ Plain(g)'
  BY <1>2 DEF View
<1>4. /\ \A g \in Files \ {f} : doc'[g] = doc[g]
      /\ \A g \in Files : past'[g] = past[g] /\ future'[g] = future[g]
      /\ doc'[f] \in Contents
  BY <1>1, <1>3 DEF Plain
<1>5. /\ doc' = [doc EXCEPT ![f] = doc'[f]]
      /\ past' = [past EXCEPT ![f] = past'[f]] /\ past'[f] = past[f]
      /\ future' = [future EXCEPT ![f] = future'[f]] /\ future'[f] = future[f]
  BY <1>4 DEF View
<1> QED BY <1>4, <1>5, Disturbed

\* The end of the process is the Restart; a file in a call keeps what had reached it.
LEMMA CrashRestarts ==
    ASSUME TypeOK, TypeOK', Memory, ~Overlap, View, View', Crash
    PROVE  Implemented
<1>1. /\ stack' = NoHistory /\ UNCHANGED disk
      /\ \A c \in Callers : call'[c] = Idle
      /\ \A g \in Files : disk'[g] \in Contents
  BY DEF Crash, TypeOK
<1>2. Idle.file = None /\ \A g \in Files : g # None
  BY EngineConstants DEF Idle
<1>3. \A g \in Files : Plain(g)'
  BY <1>1, <1>2 DEF View
<1>4. past' = [f \in Files |-> <<>>] /\ future' = [f \in Files |-> <<>>]
  BY <1>1, <1>3 DEF View, Plain, NoHistory, Ways
<1>5. CASE \A c \in Callers : call[c].file \notin Files
  <2>1. \A g \in Files : doc'[g] = doc[g]
    BY <1>1, <1>3, <1>5 DEF View, Plain
  <2>2. UNCHANGED doc
    BY <2>1 DEF View
  <2>3. Promise!Restart
    BY <1>4, <2>2 DEF Promise!Restart
  <2> QED BY <2>3 DEF Implemented, Promise!Next
<1>6. ASSUME NEW c \in Callers, call[c].file \in Files PROVE Implemented
  <2> DEFINE f == call[c].file
  <2>1. \A d \in Callers, g \in Files \ {f} : call[d].file # g
    BY <1>2, <1>6 DEF Memory, Solo
  <2>2. \A g \in Files \ {f} : doc'[g] = doc[g]
    BY <1>1, <1>3, <2>1 DEF View, Plain
  <2>3. f \in Files /\ doc'[f] \in Contents
    BY <1>1, <1>3, <1>6 DEF Plain
  <2> HIDE DEF f
  <2>4. doc' = [doc EXCEPT ![f] = doc'[f]]
    BY <2>2 DEF View
  <2>5. Promise!Restart
    BY <1>4, <2>3, <2>4 DEF Promise!Restart
  <2> QED BY <2>5 DEF Implemented, Promise!Next
<1> QED BY <1>5, <1>6

-----------------------------------------------------------------------------
(***************************************************************************)
(* The refinement.                                                          *)
(***************************************************************************)

\* Every step of EditEngine, one call at a time, is one of DocumentHistory, or none.
LEMMA NextImplemented ==
    TypeOK /\ TypeOK' /\ StackBudget /\ Memory /\ Memory' /\ [Next]_vars
        => (~Overlap => Implemented)
<1> SUFFICES ASSUME TypeOK, TypeOK', StackBudget, Memory, Memory', [Next]_vars, ~Overlap
             PROVE  Implemented
  OBVIOUS
<1>1. View
  BY Viewed DEF Memory
<1>2. View'
  <2>1. TypeOK' /\ Solo'
    BY DEF Memory
  <2> QED BY <2>1, Viewed, PTL
<1>3. ASSUME NEW c \in Callers, Step(c) PROVE Implemented
  <2>1. call[c].at # "idle"
    BY <1>3 DEF Step, Parse, Reject, Enter, Refuse, StartWriting, FinishWriting,
       AtomicWrite, Fail, Restore, RestoreFails, Commit, ReadPost, ReadPostFails, Push,
       RefuseMove, StartMove, FinishMove, MoveFails, At, Body
  <2>2. PICK f \in Files : call[c].file = f
    BY <2>1 DEF TypeOK, Formed
  <2> QED BY <1>1, <1>2, <1>3, <2>2, InsideUnseen, RejectUnseen, FailedDisturbs, PushIsEdit,
             RefuseMoveSlips, FinishMoveIsMove, MoveFailsGoesBack DEF Step
<1>4. ASSUME NEW c \in Callers, Start(c) PROVE Implemented
  BY <1>1, <1>2, <1>4, ExecuteUnseen, TakeUnseen DEF Start, TakeLatest
<1>5. ASSUME NEW f \in Files, External(f) PROVE Implemented
  BY <1>1, <1>2, <1>5, ExternalDisturbs
<1>6. CASE Crash
  BY <1>1, <1>2, <1>6, CrashRestarts
<1>7. CASE UNCHANGED vars
  <2>1. UNCHANGED <<disk, stack, call>>
    BY <1>7 DEF vars, history
  <2>2. UNCHANGED <<doc, past, future>>
    BY <2>1 DEF doc, past, future, Unmoved, Moving, Busy, Worker
  <2> QED BY <2>2 DEF Implemented, Promise!docVars
<1> QED BY <1>3, <1>4, <1>5, <1>6, <1>7 DEF Next

\* The initial states map to initial states.
LEMMA InitImplemented == Init => Promise!Init
<1> SUFFICES ASSUME Init PROVE Promise!Init
  OBVIOUS
<1>1. TypeOK /\ Solo
  BY InitType DEF Init, Solo
<1>2. \A f \in Files, c \in Callers : call[c].file # f
  BY EngineConstants DEF Init, Idle
<1>3. View /\ \A f \in Files : Plain(f)
  BY <1>1, <1>2, Viewed DEF View
<1>4. \A f \in Files : doc[f] \in Contents /\ past[f] = <<>> /\ future[f] = <<>>
  BY <1>3 DEF Plain, Init, NoHistory, Ways, Contents
<1> QED BY <1>3, <1>4 DEF View, Promise!Init

\* One call at a time, the executor and its undo stack, with every failure of a
\* read, a write, a commit or a rollback that the code handles, and with the end of
\* the process at any point, implement the history of a document.
THEOREM Implementation == ASSUME ~Overlap PROVE Spec => ImplementsHistory
<1>1. Init => Memory
  BY EngineConstants DEF Init, Memory, Solo, Idle
<1>2. Spec => [](TypeOK /\ StackBudget /\ Memory)
  BY <1>1, NextMemory, TypeCorrect, Budget, PTL DEF Spec
<1>3. TypeOK /\ TypeOK' /\ StackBudget /\ Memory /\ Memory' /\ [Next]_vars
          => [Promise!Next]_(Promise!docVars)
  BY NextImplemented DEF Implemented
<1> QED BY <1>2, <1>3, InitImplemented, PTL DEF Spec, ImplementsHistory, Promise!Spec

=============================================================================
