--------------------------- MODULE EditEngineProofs ---------------------------
(***************************************************************************)
(* Theorems of EditEngine, for every set of callers, files and contents and *)
(* every size of the undo stack.                                            *)
(***************************************************************************)
EXTENDS EditEngine, UndoStackProofs

-----------------------------------------------------------------------------
(***************************************************************************)
(* Types.                                                                   *)
(***************************************************************************)

\* A move keeps the types of the stacks and of their keys.
LEMMA MoveType ==
    ASSUME TypeOK, NEW f \in Files, NEW way \in Ways,
           stack[way][f] # <<>>, Move(f, way)
    PROVE  /\ stack' \in [Ways -> [Files -> Seq(Entry(Contents))]]
           /\ keys' \in [Ways -> Seq(Files)]
           /\ Last(stack[way][f]) \in Entry(Contents)
<1>1. stack[way][f] \in Seq(Entry(Contents)) /\ Other(way) \in Ways
  BY DEF TypeOK, Ways, Other
<1>2. /\ Front(stack[way][f]) \in Seq(Entry(Contents))
      /\ Last(stack[way][f]) \in Entry(Contents)
  BY <1>1, FrontLast
<1>3. stack[Other(way)][f] \in Seq(Entry(Contents)) /\ keys[Other(way)] \in Seq(Files)
  BY <1>1 DEF TypeOK
<1>4. /\ Appended(stack[Other(way)][f], Last(stack[way][f])) \in Seq(Entry(Contents))
      /\ WithKey(keys[Other(way)], f) \in Seq(Files)
  BY <1>2, <1>3, AppendedBound, KeysType
<1>5. Other(way) # way
  BY DEF Ways, Other
<1>6. keys' \in [Ways -> Seq(Files)]
  BY <1>1, <1>4 DEF Move, TypeOK
<1>7. stack' \in [Ways -> [Files -> Seq(Entry(Contents))]]
  BY <1>1, <1>2, <1>4, <1>5 DEF Move, TypeOK
<1> QED BY <1>2, <1>6, <1>7

\* A step that changes the state of one caller, to a well-formed one.
LEMMA OneCall ==
    ASSUME TypeOK, NEW c \in Callers, NEW r \in Calls, Formed(r),
           call' = [call EXCEPT ![c] = r]
    PROVE  call' \in [Callers -> Calls] /\ \A d \in Callers : Formed(call'[d])
BY DEF TypeOK

\* A call that returns.
LEMMA IdleFormed == Idle \in Calls /\ Formed(Idle)
BY EngineConstants DEF Idle, Calls, Points, Body, Formed, Ways

\* The initial states have the types.
LEMMA InitType == Init => TypeOK
<1> SUFFICES ASSUME Init PROVE TypeOK
  OBVIOUS
<1>1. stack \in [Ways -> [Files -> Seq(Entry(Contents))]] /\ keys \in [Ways -> Seq(Files)]
  BY EmptySeq DEF Init, NoHistory
<1>2. call \in [Callers -> Calls] /\ \A c \in Callers : Formed(call[c])
  BY IdleFormed DEF Init
<1>3. /\ disk \in [Files -> Contents]
      /\ locked \in [Files -> Callers \cup {None}]
      /\ broken \in [Files -> BOOLEAN]
  BY DEF Init, Contents
<1> QED BY <1>1, <1>2, <1>3 DEF TypeOK

\* A caller that goes on inside the with-block, or inside the write of a move.
LEMMA GoFormed ==
    ASSUME TypeOK, NEW c \in Callers, NEW point \in Points, Go(c, point),
           \/ call[c].at \in Body /\ point \in Body
           \/ call[c].at = "moved" /\ point = "moving"
    PROVE  call' \in [Callers -> Calls] /\ \A d \in Callers : Formed(call'[d])
<1> DEFINE r == [call[c] EXCEPT !.at = point]
<1>1. call[c] \in Calls /\ Formed(call[c])
  BY DEF TypeOK
<1>2. r \in Calls
  BY <1>1 DEF Calls
<1>3. Formed(r)
  BY <1>1 DEF Calls, Formed, Body
<1>4. call' = [call EXCEPT ![c] = r]
  BY DEF Go, TypeOK, Calls
<1> HIDE DEF r
<1> QED BY <1>2, <1>3, <1>4, OneCall

\* A caller that returns.
LEMMA ReturnFormed ==
    ASSUME TypeOK, NEW c \in Callers, Return(c)
    PROVE  call' \in [Callers -> Calls] /\ \A d \in Callers : Formed(call'[d])
BY IdleFormed, OneCall DEF Return

\* Every step keeps the types.
LEMMA NextType == TypeOK /\ [Next]_vars => TypeOK'
<1> SUFFICES ASSUME TypeOK, [Next]_vars PROVE TypeOK'
  OBVIOUS
<1> USE DEF At
<1>0. /\ NoHistory \in [Ways -> [Files -> Seq(Entry(Contents))]]
      /\ [way \in Ways |-> <<>>] \in [Ways -> Seq(Files)]
  BY EmptySeq DEF NoHistory
<1>1. ASSUME NEW c \in Callers, NEW f \in Files, Execute(c, f) PROVE TypeOK'
  <2> DEFINE r == [Idle EXCEPT !.at = IF f \in ProjectFiles THEN "enter" ELSE "parse",
                               !.file = f, !.pre = disk[f]]
  <2>1. r \in Calls /\ Formed(r)
    BY EngineConstants DEF TypeOK, Idle, Calls, Points, Body, Formed, Ways
  <2>2. call' = [call EXCEPT ![c] = r]
    BY <1>1 DEF Execute
  <2> HIDE DEF r
  <2>3. call' \in [Callers -> Calls] /\ \A d \in Callers : Formed(call'[d])
    BY <2>1, <2>2, OneCall
  <2> QED BY <1>1, <2>3 DEF Execute, TypeOK, history
<1>2. ASSUME NEW c \in Callers, Parse(c) PROVE TypeOK'
  <2> DEFINE r == [call[c] EXCEPT !.at = "enter", !.base = disk[call[c].file]]
  <2>1. /\ call[c] \in Calls /\ Formed(call[c])
        /\ call[c].at = "parse"
        /\ disk[call[c].file] \in Contents
    BY <1>2 DEF Parse, TypeOK, Formed
  <2>2. r \in Calls
    BY <2>1 DEF Calls, Points
  <2>3. Formed(r)
    BY <2>1 DEF Calls, Formed, Body
  <2>4. call' = [call EXCEPT ![c] = r]
    BY <1>2 DEF Parse, TypeOK, Calls
  <2> HIDE DEF r
  <2>5. call' \in [Callers -> Calls] /\ \A d \in Callers : Formed(call'[d])
    BY <2>2, <2>3, <2>4, OneCall
  <2> QED BY <1>2, <2>5 DEF Parse, TypeOK, history
<1>3. ASSUME NEW c \in Callers, Enter(c) PROVE TypeOK'
  <2> DEFINE f == call[c].file
             b == IF f \in ProjectFiles THEN disk[f] ELSE call[c].base
             r == [call[c] EXCEPT !.at = "body", !.snap = disk[f], !.base = b]
  <2>1. /\ call[c] \in Calls /\ Formed(call[c])
        /\ call[c].at = "enter"
        /\ f \in Files
        /\ disk[f] \in Contents
    BY <1>3 DEF Enter, TypeOK, Formed
  <2>2. b \in Contents \cup {None}
    BY <2>1 DEF Calls
  <2>3. call' = [call EXCEPT ![c] = r]
    BY <1>3 DEF Enter, TypeOK, Calls
  <2> HIDE DEF f, b
  <2>4. r \in Calls
    BY <2>1, <2>2 DEF Calls, Points, Body
  <2>5. Formed(r)
    BY <2>1 DEF Calls, Formed, Body
  <2> HIDE DEF r
  <2>6. call' \in [Callers -> Calls] /\ \A d \in Callers : Formed(call'[d])
    BY <2>3, <2>4, <2>5, OneCall
  <2>7. locked' \in [Files -> Callers \cup {None}]
    BY <1>3, <2>1 DEF Enter, TypeOK, f
  <2> QED BY <1>3, <2>6, <2>7 DEF Enter, TypeOK, history
<1>4. ASSUME NEW c \in Callers, Commit(c) PROVE TypeOK'
  <2> DEFINE r == [call[c] EXCEPT !.at = "readpost", !.snap = None]
  <2>1. /\ call[c] \in Calls /\ Formed(call[c])
        /\ call[c].at \in {"body", "written"}
        /\ call[c].file \in Files
    BY <1>4 DEF Commit, TypeOK, Formed
  <2>2. r \in Calls
    BY <2>1 DEF Calls, Points
  <2>3. Formed(r)
    BY <2>1 DEF Calls, Formed, Body
  <2>4. call' = [call EXCEPT ![c] = r]
    BY <1>4 DEF Commit, TypeOK, Calls
  <2> HIDE DEF r
  <2>5. call' \in [Callers -> Calls] /\ \A d \in Callers : Formed(call'[d])
    BY <2>2, <2>3, <2>4, OneCall
  <2> QED BY <1>4, <2>1, <2>5 DEF Commit, Release, TypeOK, history
<1>5. ASSUME NEW c \in Callers, ReadPost(c) PROVE TypeOK'
  <2> DEFINE e == [pre |-> call[c].pre, post |-> disk[call[c].file]]
             r == [call[c] EXCEPT !.at = "push", !.entry = e]
  <2>1. /\ call[c] \in Calls /\ Formed(call[c])
        /\ call[c].at = "readpost"
        /\ e \in Entry(Contents)
    BY <1>5 DEF ReadPost, TypeOK, Formed, Entry
  <2>4. call' = [call EXCEPT ![c] = r]
    BY <1>5 DEF ReadPost, TypeOK, Calls
  <2> HIDE DEF e
  <2>2. r \in Calls
    BY <2>1 DEF Calls, Points
  <2>3. Formed(r)
    BY <2>1 DEF Calls, Formed, Body
  <2> HIDE DEF r
  <2>5. call' \in [Callers -> Calls] /\ \A d \in Callers : Formed(call'[d])
    BY <2>2, <2>3, <2>4, OneCall
  <2> QED BY <1>5, <2>5 DEF ReadPost, TypeOK, history
<1>6. ASSUME NEW c \in Callers, NEW f \in Files, NEW way \in Ways, Take(c, f, way)
      PROVE TypeOK'
  <2> DEFINE e == Last(stack[way][f])
             r == [Idle EXCEPT !.at = "moved", !.file = f, !.pre = disk[f],
                               !.way = way, !.entry = e]
  <2>1. /\ stack' \in [Ways -> [Files -> Seq(Entry(Contents))]]
        /\ keys' \in [Ways -> Seq(Files)]
        /\ e \in Entry(Contents)
    BY <1>6, MoveType DEF Take
  <2>2. call' = [call EXCEPT ![c] = r]
    BY <1>6 DEF Take
  <2> HIDE DEF e
  <2>3. r \in Calls /\ Formed(r)
    BY <2>1 DEF TypeOK, Idle, Calls, Points, Body, Formed
  <2> HIDE DEF r
  <2>4. call' \in [Callers -> Calls] /\ \A d \in Callers : Formed(call'[d])
    BY <2>2, <2>3, OneCall
  <2> QED BY <1>6, <2>1, <2>4 DEF Take, TypeOK
<1>7. ASSUME NEW c \in Callers, StartWriting(c) \/ FinishWriting(c) \/ AtomicWrite(c)
                 \/ Fail(c) \/ StartMove(c)
      PROVE TypeOK'
  <2>1. call' \in [Callers -> Calls] /\ \A d \in Callers : Formed(call'[d])
    BY <1>7, GoFormed DEF StartWriting, FinishWriting, AtomicWrite, Fail, StartMove,
                          Body, Points
  <2>2. disk' \in [Files -> Contents]
    BY <1>7 DEF StartWriting, FinishWriting, AtomicWrite, Fail, StartMove, Write,
                TypeOK, Contents
  <2> QED BY <1>7, <2>1, <2>2 DEF StartWriting, FinishWriting, AtomicWrite, Fail,
                                  StartMove, TypeOK, history
<1>8. ASSUME NEW c \in Callers, Reject(c) \/ Refuse(c) PROVE TypeOK'
  <2>1. call' \in [Callers -> Calls] /\ \A d \in Callers : Formed(call'[d])
    BY <1>8, ReturnFormed DEF Reject, Refuse
  <2> QED BY <1>8, <2>1 DEF Reject, Refuse, TypeOK, history
<1>9. ASSUME NEW c \in Callers, Restore(c) \/ RestoreFails(c)
                 \/ ReadPostFails(c) \/ RefuseMove(c) \/ FinishMove(c)
      PROVE TypeOK'
  <2>1. call' \in [Callers -> Calls] /\ \A d \in Callers : Formed(call'[d])
    BY <1>9, ReturnFormed DEF Restore, RestoreFails, ReadPostFails,
                              RefuseMove, FinishMove
  <2>2. /\ locked' \in [Files -> Callers \cup {None}]
        /\ broken' \in [Files -> BOOLEAN]
    BY <1>9 DEF Restore, RestoreFails, ReadPostFails, RefuseMove,
                FinishMove, TypeOK, Release, Break
  <2>3. /\ call[c].at = "restore" => call[c].snap \in Contents
        /\ call[c].at = "moving" =>
              Target(call[c].way, call[c].entry) \in Contents
    BY DEF TypeOK, Formed, Body, Target, Entry
  <2>4. disk' \in [Files -> Contents]
    BY <1>9, <2>3 DEF Restore, RestoreFails, ReadPostFails, RefuseMove,
                      FinishMove, TypeOK, Write, Contents
  <2> QED BY <1>9, <2>1, <2>2, <2>4 DEF Restore, RestoreFails,
             ReadPostFails, RefuseMove, FinishMove, TypeOK, history
<1>10. ASSUME NEW c \in Callers, Push(c) PROVE TypeOK'
  <2> DEFINE f == call[c].file
  <2>1. call' \in [Callers -> Calls] /\ \A d \in Callers : Formed(call'[d])
    BY <1>10, ReturnFormed DEF Push
  <2>2. f \in Files /\ call[c].entry \in Entry(Contents)
    BY <1>10 DEF Push, TypeOK, Formed
  <2>3. /\ stack["undo"][f] \in Seq(Entry(Contents))
        /\ keys["undo"] \in Seq(Files) /\ keys["redo"] \in Seq(Files)
    BY <2>2 DEF TypeOK, Ways
  <2>4. /\ Appended(stack["undo"][f], call[c].entry) \in Seq(Entry(Contents))
        /\ WithKey(keys["undo"], f) \in Seq(Files)
        /\ WithoutKey(keys["redo"], f) \in Seq(Files)
    BY <2>2, <2>3, AppendedBound, KeysType
  <2>5. <<>> \in Seq(Entry(Contents))
    BY EmptySeq
  <2>6. stack' \in [Ways -> [Files -> Seq(Entry(Contents))]]
    BY <1>10, <2>2, <2>4, <2>5 DEF Push, TypeOK, Ways
  <2>7. keys' \in [Ways -> Seq(Files)]
    BY <1>10, <2>4 DEF Push, TypeOK, Ways
  <2> QED BY <1>10, <2>1, <2>6, <2>7 DEF Push, TypeOK
<1>11. ASSUME NEW c \in Callers, MoveFails(c) PROVE TypeOK'
  <2> DEFINE f == call[c].file  back == Other(call[c].way)
  <2>1. call' \in [Callers -> Calls] /\ \A d \in Callers : Formed(call'[d])
    BY <1>11, ReturnFormed DEF MoveFails
  <2>2. f \in Files /\ back \in Ways
    BY <1>11 DEF MoveFails, TypeOK, Formed, Other, Ways
  <2>3. /\ stack' \in [Ways -> [Files -> Seq(Entry(Contents))]]
        /\ keys' \in [Ways -> Seq(Files)]
    <3>1. CASE stack[back][f] = <<>>
      BY <1>11, <3>1 DEF MoveFails, TypeOK, history
    <3>2. CASE stack[back][f] # <<>>
      BY <1>11, <3>2, <2>2, MoveType DEF MoveFails
    <3> QED BY <3>1, <3>2
  <2>4. broken' \in [Files -> BOOLEAN]
    BY <1>11 DEF MoveFails, TypeOK
  <2> QED BY <1>11, <2>1, <2>3, <2>4 DEF MoveFails, TypeOK
<1>12. ASSUME NEW f \in Files, External(f) PROVE TypeOK'
  BY <1>12 DEF External, Write, Break, TypeOK, history
<1>13. CASE Crash
  <2>1. call' \in [Callers -> Calls] /\ \A d \in Callers : Formed(call'[d])
    BY <1>13, IdleFormed DEF Crash
  <2> QED BY <1>13, <1>0, <2>1 DEF Crash, TypeOK
<1>14. CASE UNCHANGED vars
  BY <1>14 DEF vars, TypeOK, history
<1> QED BY <1>1, <1>2, <1>3, <1>4, <1>5, <1>6, <1>7, <1>8, <1>9, <1>10, <1>11, <1>12,
           <1>13, <1>14 DEF Next, Start, Step, TakeLatest

\* Every variable keeps its type, whoever calls what when: a rollback always has
\* its snapshot and a push its two contents.
THEOREM TypeCorrect == Spec => []TypeOK
BY InitType, NextType, PTL DEF Spec

-----------------------------------------------------------------------------
(***************************************************************************)
(* Locks.                                                                   *)
(***************************************************************************)

\* A step of one caller outside the with-block.
LEMMA LocksOutside ==
    ASSUME LocksHandedBack, UNCHANGED locked, NEW c \in Callers,
           \A d \in Callers \ {c} : call'[d] = call[d],
           call[c].at \notin Body, call'[c].at \notin Body
    PROVE  LocksHandedBack'
BY DEF LocksHandedBack, At

\* A step of one caller inside it.
LEMMA LocksInside ==
    ASSUME LocksHandedBack, UNCHANGED locked, NEW c \in Callers,
           \A d \in Callers \ {c} : call'[d] = call[d],
           call[c].at \in Body, call'[c].at \in Body, call'[c].file = call[c].file
    PROVE  LocksHandedBack'
BY DEF LocksHandedBack, At

\* A caller that leaves its with-block and releases the lock.
LEMMA LockReleased ==
    ASSUME TypeOK, LocksHandedBack, NEW c \in Callers, At(c, Body),
           Release(call[c].file), call'[c].at \notin Body,
           \A d \in Callers \ {c} : call'[d] = call[d]
    PROVE  LocksHandedBack'
<1> DEFINE f == call[c].file
<1>1. f \in Files /\ locked[f] = c
  BY DEF TypeOK, Formed, LocksHandedBack, At, Body
<1>2. locked' = [locked EXCEPT ![f] = None] /\ locked \in [Files -> Callers \cup {None}]
  BY DEF Release, TypeOK
<1> SUFFICES ASSUME NEW g \in Files, NEW d \in Callers
             PROVE  locked'[g] = d <=> call'[d].file = g /\ call'[d].at \in Body
  BY DEF LocksHandedBack, At
<1>3. locked[g] = d <=> call[d].file = g /\ call[d].at \in Body
  BY DEF LocksHandedBack, At
<1>4. None # d
  BY EngineConstants
<1>5. CASE g = f
  BY <1>1, <1>2, <1>3, <1>4, <1>5
<1>6. CASE g # f
  BY <1>1, <1>2, <1>3, <1>6
<1> QED BY <1>5, <1>6

\* The locks are handed back on every path.
LEMMA NextLocks == TypeOK /\ LocksHandedBack /\ [Next]_vars => LocksHandedBack'
<1> SUFFICES ASSUME TypeOK, LocksHandedBack, [Next]_vars PROVE LocksHandedBack'
  OBVIOUS
<1>0. \A c \in Callers : call[c] \in Calls
  BY DEF TypeOK
<1>1. ASSUME NEW c \in Callers, NEW f \in Files, Execute(c, f) PROVE LocksHandedBack'
  <2>1. /\ call[c] = Idle /\ UNCHANGED locked
        /\ call'[c].at \in {"enter", "parse"}
        /\ \A d \in Callers \ {c} : call'[d] = call[d]
    BY <1>1 DEF Execute, MayStart, TypeOK, Idle
  <2> QED BY <2>1, LocksOutside DEF Idle, Body
<1>2. ASSUME NEW c \in Callers, NEW f \in Files, NEW way \in Ways, Take(c, f, way)
      PROVE LocksHandedBack'
  <2>1. /\ call[c] = Idle /\ UNCHANGED locked
        /\ call'[c].at = "moved"
        /\ \A d \in Callers \ {c} : call'[d] = call[d]
    BY <1>2 DEF Take, MayStart, TypeOK, Idle
  <2> QED BY <2>1, LocksOutside DEF Idle, Body
<1>3. ASSUME NEW c \in Callers, Reject(c) \/ Refuse(c) \/ ReadPostFails(c) \/ Push(c)
                 \/ RefuseMove(c) \/ FinishMove(c) \/ MoveFails(c)
      PROVE LocksHandedBack'
  <2>1. call' = [call EXCEPT ![c] = Idle] /\ UNCHANGED locked
    BY <1>3 DEF Reject, Refuse, ReadPostFails, Push, RefuseMove, FinishMove, MoveFails,
                Return
  <2>2. call[c].at \notin Body
    BY <1>3 DEF Reject, Refuse, ReadPostFails, Push, RefuseMove, FinishMove, MoveFails,
                At, Body
  <2>3. call'[c] = Idle /\ \A d \in Callers \ {c} : call'[d] = call[d]
    BY <2>1 DEF TypeOK
  <2> QED BY <2>1, <2>2, <2>3, LocksOutside DEF Idle, Body
<1>4. ASSUME NEW c \in Callers, Parse(c) \/ ReadPost(c) \/ StartMove(c)
      PROVE LocksHandedBack'
  <2>1. call[c].at \notin Body /\ UNCHANGED locked
    BY <1>4 DEF Parse, ReadPost, StartMove, At, Body
  <2>2. /\ call'[c].at \in {"enter", "push", "moving"}
        /\ \A d \in Callers \ {c} : call'[d] = call[d]
    BY <1>0, <1>4 DEF Parse, ReadPost, StartMove, Go, TypeOK, Calls
  <2> QED BY <2>1, <2>2, LocksOutside DEF Body
<1>5. ASSUME NEW c \in Callers, StartWriting(c) \/ FinishWriting(c) \/ AtomicWrite(c)
                 \/ Fail(c)
      PROVE LocksHandedBack'
  <2>1. call[c].at \in Body /\ UNCHANGED locked
    BY <1>5 DEF StartWriting, FinishWriting, AtomicWrite, Fail, At, Body
  <2>2. /\ call'[c].at \in {"writing", "written", "restore"}
        /\ call'[c].file = call[c].file
        /\ \A d \in Callers \ {c} : call'[d] = call[d]
    BY <1>0, <1>5 DEF StartWriting, FinishWriting, AtomicWrite, Fail, Go, TypeOK, Calls
  <2> QED BY <2>1, <2>2, LocksInside DEF Body
<1>6. ASSUME NEW c \in Callers, Restore(c) \/ RestoreFails(c)
      PROVE LocksHandedBack'
  <2>1. At(c, Body) /\ Release(call[c].file) /\ call' = [call EXCEPT ![c] = Idle]
    BY <1>6 DEF Restore, RestoreFails, Return, At, Body
  <2>2. call'[c] = Idle /\ \A d \in Callers \ {c} : call'[d] = call[d]
    BY <2>1 DEF TypeOK
  <2>3. call'[c].at \notin Body
    BY <2>2 DEF Idle, Body
  <2> QED BY <2>1, <2>2, <2>3, LockReleased
<1>7. ASSUME NEW c \in Callers, Commit(c) PROVE LocksHandedBack'
  <2>1. At(c, Body) /\ Release(call[c].file)
    BY <1>7 DEF Commit, At, Body
  <2>2. call'[c].at = "readpost" /\ \A d \in Callers \ {c} : call'[d] = call[d]
    BY <1>0, <1>7 DEF Commit, TypeOK, Calls
  <2>3. call'[c].at \notin Body
    BY <2>2 DEF Body
  <2> QED BY <2>1, <2>2, <2>3, LockReleased
<1>8. ASSUME NEW c \in Callers, Enter(c) PROVE LocksHandedBack'
  <2> DEFINE f == call[c].file
  <2>1. /\ call[c].at = "enter" /\ f \in Files /\ locked[f] = None
        /\ locked' = [locked EXCEPT ![f] = c]
        /\ locked \in [Files -> Callers \cup {None}]
    BY <1>8 DEF Enter, At, TypeOK, Formed
  <2>2. /\ call'[c].at = "body" /\ call'[c].file = f
        /\ \A d \in Callers \ {c} : call'[d] = call[d]
    BY <1>8, <1>0 DEF Enter, TypeOK, Calls
  <2> SUFFICES ASSUME NEW g \in Files, NEW d \in Callers
               PROVE  locked'[g] = d <=> call'[d].file = g /\ call'[d].at \in Body
    BY DEF LocksHandedBack, At
  <2>3. locked[g] = d <=> call[d].file = g /\ call[d].at \in Body
    BY DEF LocksHandedBack, At
  <2>4. None # d
    BY EngineConstants
  <2>5. CASE d = c
    BY <2>1, <2>2, <2>3, <2>5 DEF Body
  <2>6. CASE d # c
    BY <2>1, <2>2, <2>3, <2>4, <2>6
  <2> QED BY <2>5, <2>6
<1>9. ASSUME NEW f \in Files, External(f) PROVE LocksHandedBack'
  BY <1>9 DEF External, LocksHandedBack, At
<1>10. CASE Crash
  BY <1>10, EngineConstants DEF Crash, LocksHandedBack, At, Idle, Body
<1>11. CASE UNCHANGED vars
  BY <1>11 DEF vars, LocksHandedBack, At
<1> QED BY <1>1, <1>2, <1>3, <1>4, <1>5, <1>6, <1>7, <1>8, <1>9, <1>10, <1>11
        DEF Next, Start, Step, TakeLatest

\* No failure of a commit, of a rollback or of the read after it leaves a file
\* locked, and a caller in its block always has the lock.
THEOREM LocksReturned == Spec => []LocksHandedBack
<1>1. Init => LocksHandedBack
  BY EngineConstants DEF Init, LocksHandedBack, At, Idle, Body
<1> QED BY <1>1, TypeCorrect, NextLocks, PTL DEF Spec

-----------------------------------------------------------------------------
(***************************************************************************)
(* The history.                                                             *)
(***************************************************************************)

\* All the mutations of f, in the order in which they were made.
Mutations(f) == Timeline(stack["undo"][f], stack["redo"][f])

\* Within the budget a move finds room on the other stack: it evicts nothing and
\* changes the order of nothing.
LEMMA MoveWithinBudget ==
    ASSUME TypeOK, StackBudget, NEW f \in Files, NEW way \in Ways,
           stack[way][f] # <<>>, Move(f, way)
    PROVE  /\ stack'[way][f] = Front(stack[way][f])
           /\ stack'[Other(way)][f] = Append(stack[Other(way)][f], Last(stack[way][f]))
           /\ \A g \in Files \ {f}, w \in Ways : stack'[w][g] = stack[w][g]
           /\ StackBudget'
           /\ \A g \in Files : Mutations(g)' = Mutations(g)
<1> DEFINE u == stack[way][f]
           r == stack[Other(way)][f]
<1>0. \A m, n \in Nat : m + n <= MaxUndo => n + m <= MaxUndo
  BY MaxUndoPositive
<1>1. Other(way) \in Ways /\ Other(way) # way /\ Other(Other(way)) = way
  BY DEF Ways, Other
<1>2. u \in Seq(Entry(Contents)) /\ r \in Seq(Entry(Contents))
  BY <1>1 DEF TypeOK
<1>3. u # <<>>
  OBVIOUS
<1>4. /\ stack' = [stack EXCEPT ![way][f] = Front(u), ![Other(way)][f] = Appended(r, Last(u))]
      /\ stack \in [Ways -> [Files -> Seq(Entry(Contents))]]
  BY DEF Move, TypeOK
<1>5. /\ stack'[way][f] = Front(u)
      /\ stack'[Other(way)][f] = Appended(r, Last(u))
      /\ \A g \in Files \ {f}, w \in Ways : stack'[w][g] = stack[w][g]
  BY <1>1, <1>4
<1>6. Len(u) + Len(r) <= MaxUndo
  <2>1. Len(stack["undo"][f]) + Len(stack["redo"][f]) <= MaxUndo
    BY DEF StackBudget
  <2>2. Len(u) \in Nat /\ Len(r) \in Nat
    BY <1>2, LenProperties
  <2>3. CASE way = "undo"
    BY <2>1, <2>3 DEF Other
  <2>4. CASE way = "redo"
    <3>1. u = stack["redo"][f] /\ r = stack["undo"][f]
      BY <2>4 DEF Other
    <3>2. Len(r) + Len(u) <= MaxUndo
      BY <3>1, <2>1
    <3> QED BY <3>2, <2>2, <1>0
  <2> QED BY <2>3, <2>4 DEF Ways
<1> HIDE DEF u, r
<1>7. /\ Len(Front(u)) = Len(u) - 1
      /\ Last(u) \in Entry(Contents)
      /\ Len(u) \in Nat \ {0}
  BY <1>2, <1>3, FrontLast
<1>8. Len(r) \in Nat /\ MaxUndo \in Nat
  BY <1>2, LenProperties, MaxUndoPositive
<1>9. Len(r) < MaxUndo
  BY <1>6, <1>7, <1>8
<1>10. Appended(r, Last(u)) = Append(r, Last(u)) /\ Len(Append(r, Last(u))) = Len(r) + 1
  BY <1>2, <1>7, <1>9, AppendedBound
<1>11. ASSUME NEW g \in Files
       PROVE  Len(stack'["undo"][g]) + Len(stack'["redo"][g]) <= MaxUndo
  <2>1. CASE g = f
    <3>1. Len(stack'[way][f]) + Len(stack'[Other(way)][f]) <= MaxUndo
      BY <1>5, <1>6, <1>7, <1>8, <1>10
    <3>2. Len(stack'[way][f]) \in Nat /\ Len(stack'[Other(way)][f]) \in Nat
      BY <1>5, <1>7, <1>8, <1>10
    <3>3. CASE way = "undo"
      BY <2>1, <3>1, <3>3 DEF Other
    <3>4. CASE way = "redo"
      <4>1. /\ stack'[way][f] = stack'["redo"][g]
            /\ stack'[Other(way)][f] = stack'["undo"][g]
        BY <2>1, <3>4 DEF Other
      <4>2. Len(stack'[Other(way)][f]) + Len(stack'[way][f]) <= MaxUndo
        BY <3>1, <3>2, <1>0
      <4> QED BY <4>1, <4>2
    <3> QED BY <3>3, <3>4 DEF Ways
  <2>2. CASE g # f
    BY <2>2, <1>5 DEF StackBudget, Ways
  <2> QED BY <2>1, <2>2
<1>12. ASSUME NEW g \in Files
       PROVE  Mutations(g)' = Mutations(g)
  <2>1. CASE g = f
    <3>1. CASE way = "undo"
      <4>1. Timeline(Front(u), Append(r, Last(u))) = Timeline(u, r)
        BY <1>2, <1>3, CursorBack
      <4> QED BY <4>1, <2>1, <3>1, <1>5, <1>10 DEF Mutations, u, r, Other
    <3>2. CASE way = "redo"
      <4>1. Timeline(Append(r, Last(u)), Front(u)) = Timeline(r, u)
        BY <1>2, <1>3, CursorForward
      <4> QED BY <4>1, <2>1, <3>2, <1>5, <1>10 DEF Mutations, u, r, Other
    <3> QED BY <3>1, <3>2 DEF Ways
  <2>2. CASE g # f
    BY <2>2, <1>5 DEF Mutations, Ways
  <2> QED BY <2>1, <2>2
<1> QED BY <1>5, <1>10, <1>11, <1>12 DEF StackBudget, u, r

\* A step that leaves the stacks alone.
LEMMA SameStacks ==
    ASSUME StackBudget, UNCHANGED stack
    PROVE  StackBudget' /\ \A g \in Files : Mutations(g)' = Mutations(g)
BY DEF StackBudget, Mutations

\* Push keeps the budget: it empties the redo stack of its file.
LEMMA PushBudget ==
    ASSUME TypeOK, StackBudget, NEW c \in Callers, Push(c)
    PROVE  /\ StackBudget'
           /\ \A g \in Files : g # call[c].file => Mutations(g)' = Mutations(g)
<1> DEFINE f == call[c].file
           a == Appended(stack["undo"][f], call[c].entry)
<1>1. f \in Files /\ call[c].entry \in Entry(Contents)
  BY DEF Push, At, TypeOK, Formed
<1>2. /\ stack["undo"][f] \in Seq(Entry(Contents))
      /\ stack["redo"][f] \in Seq(Entry(Contents))
      /\ Len(stack["undo"][f]) + Len(stack["redo"][f]) <= MaxUndo
  BY <1>1 DEF TypeOK, StackBudget, Ways
<1>3. Len(stack["undo"][f]) <= MaxUndo
  <2>1. Len(stack["undo"][f]) \in Nat /\ Len(stack["redo"][f]) \in Nat
    BY <1>2, LenProperties
  <2>2. \A m, n \in Nat : m + n <= MaxUndo => m <= MaxUndo
    BY MaxUndoPositive
  <2> QED BY <2>1, <2>2, <1>2
<1>4. a \in Seq(Entry(Contents)) /\ Len(a) <= MaxUndo
  BY <1>1, <1>2, <1>3, AppendedBound
<1>5. /\ stack' = [stack EXCEPT !["undo"][f] = a, !["redo"][f] = <<>>]
      /\ stack \in [Ways -> [Files -> Seq(Entry(Contents))]]
  BY DEF Push, TypeOK
<1> HIDE DEF f, a
<1>6. /\ stack'["undo"][f] = a /\ stack'["redo"][f] = <<>>
      /\ \A g \in Files \ {f}, w \in Ways : stack'[w][g] = stack[w][g]
  BY <1>1, <1>5 DEF Ways
<1>7. Len(<<>>) = 0 /\ Len(a) \in Nat
  BY <1>4, LenProperties
<1>8. ASSUME NEW g \in Files
      PROVE  /\ Len(stack'["undo"][g]) + Len(stack'["redo"][g]) <= MaxUndo
             /\ g # f => Mutations(g)' = Mutations(g)
  <2>1. CASE g = f
    BY <2>1, <1>4, <1>6, <1>7, MaxUndoPositive
  <2>2. CASE g # f
    BY <2>2, <1>6 DEF StackBudget, Mutations, Ways
  <2> QED BY <2>1, <2>2
<1> QED BY <1>8 DEF StackBudget, f

\* The step behind TimelineKept.
KeptStep ==
    \A f \in Files :
       \/ Timeline(stack'["undo"][f], stack'["redo"][f])
             = Timeline(stack["undo"][f], stack["redo"][f])
       \/ \E c \in Callers : At(c, {"push"}) /\ call[c].file = f
       \/ stack' = NoHistory

\* Every step keeps the budget, and every step but push and the end of the
\* process keeps the mutations.
LEMMA NextHistory == TypeOK /\ StackBudget /\ [Next]_vars => StackBudget' /\ KeptStep
<1> SUFFICES ASSUME TypeOK, StackBudget, [Next]_vars
             PROVE  StackBudget' /\ KeptStep
  OBVIOUS
<1>1. CASE UNCHANGED stack
  BY <1>1, SameStacks DEF KeptStep, Mutations
<1>2. ASSUME NEW c \in Callers, NEW f \in Files, NEW way \in Ways, Take(c, f, way)
      PROVE  StackBudget' /\ KeptStep
  <2>1. stack[way][f] # <<>> /\ Move(f, way)
    BY <1>2 DEF Take
  <2>2. StackBudget' /\ \A g \in Files : Mutations(g)' = Mutations(g)
    BY <2>1, MoveWithinBudget
  <2> QED BY <2>2 DEF KeptStep, Mutations
<1>3. ASSUME NEW c \in Callers, MoveFails(c), stack' # stack
      PROVE  StackBudget' /\ KeptStep
  <2> DEFINE f == call[c].file  back == Other(call[c].way)
  <2>1. f \in Files /\ back \in Ways
    BY <1>3 DEF MoveFails, At, TypeOK, Formed, Other, Ways
  <2>2. stack[back][f] # <<>> /\ Move(f, back)
    BY <1>3 DEF MoveFails, history
  <2>3. StackBudget' /\ \A g \in Files : Mutations(g)' = Mutations(g)
    BY <2>1, <2>2, MoveWithinBudget
  <2> QED BY <2>3 DEF KeptStep, Mutations
<1>4. ASSUME NEW c \in Callers, Push(c) PROVE StackBudget' /\ KeptStep
  <2>1. /\ StackBudget'
        /\ \A g \in Files : g # call[c].file => Mutations(g)' = Mutations(g)
    BY <1>4, PushBudget
  <2>2. At(c, {"push"})
    BY <1>4 DEF Push
  <2> QED BY <2>1, <2>2 DEF KeptStep, Mutations
<1>5. CASE Crash
  <2>1. stack' = NoHistory
    BY <1>5 DEF Crash
  <2>2. MaxUndo \in Nat /\ Len(<<>>) = 0
    BY MaxUndoPositive
  <2> QED BY <2>1, <2>2 DEF KeptStep, StackBudget, NoHistory, Ways
<1>6. ASSUME NEW c \in Callers,
             \/ \E f \in Files : Execute(c, f)
             \/ Parse(c) \/ Reject(c) \/ Enter(c) \/ Refuse(c)
             \/ StartWriting(c) \/ FinishWriting(c) \/ AtomicWrite(c)
             \/ Fail(c) \/ Restore(c) \/ RestoreFails(c) \/ Commit(c)
             \/ ReadPost(c) \/ ReadPostFails(c)
             \/ RefuseMove(c) \/ StartMove(c) \/ FinishMove(c)
      PROVE  UNCHANGED stack
  BY <1>6 DEF Execute, Parse, Reject, Enter, Refuse, StartWriting, FinishWriting,
     AtomicWrite, Fail, Restore, RestoreFails, Commit, ReadPost,
     ReadPostFails, RefuseMove, StartMove, FinishMove, history
<1>7. ASSUME NEW f \in Files, External(f) PROVE UNCHANGED stack
  BY <1>7 DEF External, history
<1>8. CASE UNCHANGED vars
  BY <1>8, <1>1 DEF vars
<1> QED BY <1>1, <1>2, <1>3, <1>4, <1>5, <1>6, <1>7, <1>8
        DEF Next, Start, Step, TakeLatest

\* The undo and redo stacks of every file stay within one deque's size together,
\* in every interleaving of callers.
THEOREM Budget == Spec => []StackBudget
<1>1. Init => StackBudget
  BY MaxUndoPositive DEF Init, StackBudget, NoHistory, Ways
<1> QED BY <1>1, TypeCorrect, NextHistory, PTL DEF Spec

\* Undo and redo only move a cursor: no interleaving of them, with each other or
\* with operations that have not reached push, loses or reorders a mutation.
THEOREM HistoryKept == Spec => TimelineKept
<1>1. TypeOK /\ StackBudget /\ [Next]_vars => [KeptStep]_vars
  BY NextHistory
<1>2. Spec => [](TypeOK /\ StackBudget)
  BY TypeCorrect, Budget, PTL
<1>3. Spec => [][KeptStep]_vars
  BY <1>1, <1>2, PTL DEF Spec
<1> QED BY <1>3 DEF TimelineKept, KeptStep

=============================================================================
