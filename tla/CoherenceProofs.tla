--------------------------- MODULE CoherenceProofs ---------------------------
(***************************************************************************)
(* HistoryCoherent of EditEngine, for every set of callers, files and       *)
(* contents and every size of the undo stack.                               *)
(*                                                                         *)
(* Between calls the file is what the cursor of its history says; that is   *)
(* not inductive, since it says nothing of a call under way.  Fits says     *)
(* what a call at each point still knows of the file it found.              *)
(***************************************************************************)
EXTENDS EditEngineProofs

-----------------------------------------------------------------------------
(***************************************************************************)
(* Chains of mutations.                                                     *)
(***************************************************************************)

\* In a chain the two entries beside the cursor fit each other.
LEMMA LinkedAtCursor ==
    ASSUME NEW S, NEW u \in Seq(S), NEW r \in Seq(S),
           Linked(Timeline(u, r)), u # <<>>, r # <<>>
    PROVE  Last(u).post = Last(r).pre
<1>1. Len(u) \in Nat \ {0} /\ Len(r) \in Nat \ {0}
  BY FrontLast
<1>2. Laid(Timeline(u, r), u, r)
  BY TimelineLaid
<1>3. /\ Len(u) \in 1..(Len(Timeline(u, r)) - 1)
      /\ Timeline(u, r)[Len(u)] = u[Len(u)]
      /\ Timeline(u, r)[Len(u) + 1] = r[Len(r) - 1 + 1]
  BY <1>1, <1>2 DEF Laid
<1>4. Len(r) - 1 + 1 = Len(r)
  BY <1>1
<1> QED BY <1>3, <1>4 DEF Linked, Last

\* The undo part of a chain is a chain.
LEMMA LinkedPast ==
    ASSUME NEW S, NEW u \in Seq(S), NEW r \in Seq(S), Linked(Timeline(u, r))
    PROVE  Linked(u)
<1>1. Len(u) \in Nat /\ Len(r) \in Nat
  BY LenProperties
<1>2. Laid(Timeline(u, r), u, r)
  BY TimelineLaid
<1> SUFFICES ASSUME NEW i \in 1..(Len(u) - 1) PROVE u[i].post = u[i + 1].pre
  BY DEF Linked
<1>3. i \in 1..(Len(Timeline(u, r)) - 1) /\ i \in 1..Len(u) /\ i + 1 \in 1..Len(u)
  BY <1>1, <1>2 DEF Laid
<1> QED BY <1>2, <1>3 DEF Laid, Linked

\* Without a future the timeline is the past.
LEMMA NoFuture ==
    ASSUME NEW S, NEW u \in Seq(S), Linked(u)
    PROVE  Linked(Timeline(u, <<>>))
<1>1. Len(u) \in Nat /\ <<>> \in Seq(S) /\ Len(<<>>) = 0
  BY LenProperties, EmptySeq
<1>2. Laid(Timeline(u, <<>>), u, <<>>)
  BY <1>1, TimelineLaid
<1>3. Len(Timeline(u, <<>>)) = Len(u)
  BY <1>1, <1>2 DEF Laid
<1> SUFFICES ASSUME NEW i \in 1..(Len(u) - 1)
             PROVE  Timeline(u, <<>>)[i].post = Timeline(u, <<>>)[i + 1].pre
  BY <1>3 DEF Linked
<1>4. i \in 1..Len(u) /\ i + 1 \in 1..Len(u)
  BY <1>1
<1> QED BY <1>2, <1>4 DEF Laid, Linked

\* A mutation that begins where the chain ends makes it longer, also when the
\* deque is full and drops its oldest entry.
LEMMA LinkedAppended ==
    ASSUME NEW S, NEW u \in Seq(S), NEW e \in S, Linked(u),
           u # <<>> => Last(u).post = e.pre
    PROVE  /\ Linked(Appended(u, e))
           /\ Appended(u, e) # <<>>
           /\ Last(Appended(u, e)) = e
<1>1. Len(u) \in Nat /\ MaxUndo \in Nat \ {0} /\ (u # <<>> <=> Len(u) # 0)
  BY LenProperties, EmptySeq, MaxUndoPositive
<1>2. ASSUME NEW w \in Seq(S), Linked(w), w # <<>> => Last(w).post = e.pre
      PROVE  Linked(Append(w, e)) /\ Append(w, e) # <<>> /\ Last(Append(w, e)) = e
  <2> DEFINE a == Append(w, e)
  <2>1. Len(w) \in Nat /\ (w # <<>> <=> Len(w) # 0)
    BY LenProperties, EmptySeq
  <2>2. /\ a \in Seq(S) /\ Len(a) = Len(w) + 1
        /\ \A i \in 1..Len(w) : a[i] = w[i]
        /\ a[Len(w) + 1] = e
    BY AppendProperties
  <2> HIDE DEF a
  <2>3. a # <<>> /\ Last(a) = e
    BY <2>1, <2>2, EmptySeq DEF Last
  <2>4. ASSUME NEW i \in 1..(Len(a) - 1) PROVE a[i].post = a[i + 1].pre
    <3>1. CASE i = Len(w)
      <4>1. i \in 1..Len(w) /\ w # <<>> /\ a[i] = w[Len(w)]
        BY <3>1, <2>1, <2>2
      <4> QED BY <4>1, <3>1, <2>2, <1>2 DEF Last
    <3>2. CASE i # Len(w)
      <4>1. i \in 1..(Len(w) - 1) /\ i \in 1..Len(w) /\ i + 1 \in 1..Len(w)
        BY <3>2, <2>1, <2>2
      <4> QED BY <4>1, <2>2, <1>2 DEF Linked
    <3> QED BY <3>1, <3>2
  <2> QED BY <2>3, <2>4 DEF Linked, a
<1>3. CASE Len(u) < MaxUndo
  BY <1>3, <1>2 DEF Appended
<1>4. CASE ~(Len(u) < MaxUndo)
  <2> DEFINE w == Tail(u)
  <2>1. u # <<>> /\ Len(u) \in Nat \ {0}
    BY <1>1, <1>4
  <2>2. /\ w \in Seq(S) /\ Len(w) = Len(u) - 1
        /\ \A i \in 1..Len(w) : w[i] = u[i + 1]
    BY <2>1, HeadTailProperties
  <2> HIDE DEF w
  <2>3. ASSUME NEW i \in 1..(Len(w) - 1) PROVE w[i].post = w[i + 1].pre
    <3>1. /\ i \in 1..Len(w) /\ i + 1 \in 1..Len(w)
          /\ i + 1 \in 1..(Len(u) - 1)
      BY <2>1, <2>2
    <3> QED BY <3>1, <2>2 DEF Linked
  <2>4. ASSUME w # <<>> PROVE Last(w).post = e.pre
    <3>1. Len(w) # 0
      BY <2>2, <2>4, EmptySeq
    <3>2. Len(w) \in 1..Len(w) /\ Len(w) + 1 = Len(u)
      BY <3>1, <2>1, <2>2
    <3> QED BY <3>2, <2>1, <2>2 DEF Last
  <2>5. Linked(w)
    BY <2>3 DEF Linked
  <2>6. Linked(Append(w, e)) /\ Append(w, e) # <<>> /\ Last(Append(w, e)) = e
    BY <2>2, <2>4, <2>5, <1>2
  <2> QED BY <2>6, <1>4 DEF Appended, w
<1> QED BY <1>3, <1>4

-----------------------------------------------------------------------------
(***************************************************************************)
(* What a call under way knows.                                             *)
(***************************************************************************)

\* The stack an unfinished move has put its entry on.
Onto(r, past, future) == IF r.way = "undo" THEN future ELSE past

\* Of a call r on a file with history past and future and content v: until the
\* entry is pushed, pre is where the history ends, and rollback goes back to it;
\* a move's entry is on the other stack, and until the write the file is what the
\* entry leaves.
Fits(r, past, future, v) ==
    /\ r.at \in {"parse", "enter", "readpost", "push"} \cup Body => Meets(past, future, r.pre)
    /\ r.at \in {"parse", "enter"} => v = r.pre
    /\ r.at \in Body => r.snap = r.pre
    /\ r.at = "push" => r.entry = [pre |-> r.pre, post |-> v]
    /\ r.at \in {"moved", "moving"} =>
          Onto(r, past, future) # <<>> /\ Last(Onto(r, past, future)) = r.entry
    /\ r.at = "moved" => v = Target(Other(r.way), r.entry)

FileCoherent(f) ==
    /\ Linked(Mutations(f))
    /\ (\A c \in Callers : call[c].file # f) =>
          Meets(stack["undo"][f], stack["redo"][f], disk[f])
    /\ \A c \in Callers : call[c].file = f =>
          Fits(call[c], stack["undo"][f], stack["redo"][f], disk[f])

Solo == \A c, d \in Callers : call[c] # Idle /\ call[d] # Idle => c = d

\* The inductive invariant behind HistoryCoherent.
CoherenceInv == ~Overlap => Solo /\ \A f \in Files : ~broken[f] => FileCoherent(f)

\* It suffices to look at the file and the caller of the step.
LEMMA OneStep ==
    ASSUME TypeOK, TypeOK', CoherenceInv, ~Overlap,
           NEW c \in Callers, NEW f \in Files,
           (call[c] = Idle /\ Quiet) \/ call[c].file = f,
           \A d \in Callers \ {c} : call'[d] = call[d],
           \A g \in Files \ {f} : /\ disk'[g] = disk[g]
                                  /\ broken'[g] = broken[g]
                                  /\ \A way \in Ways : stack'[way][g] = stack[way][g],
           call'[c] = Idle \/ call'[c].file = f,
           ~broken'[f] =>
              /\ Linked(Mutations(f)')
              /\ call'[c] = Idle => Meets(stack'["undo"][f], stack'["redo"][f], disk'[f])
              /\ call'[c].file = f =>
                    Fits(call'[c], stack'["undo"][f], stack'["redo"][f], disk'[f])
    PROVE  CoherenceInv'
<1>1. Solo /\ \A g \in Files : ~broken[g] => FileCoherent(g)
  BY DEF CoherenceInv
<1>2. Idle.file = None /\ \A g \in Files : g # None
  BY EngineConstants DEF Idle
<1>3. \A d \in Callers \ {c} : call[d] = Idle /\ call'[d] = Idle
  BY <1>1, <1>2 DEF Solo, Quiet
<1>4. Solo'
  BY <1>3 DEF Solo
<1>5. ASSUME NEW g \in Files, ~broken'[g] PROVE FileCoherent(g)'
  <2>1. CASE g = f
    <3>1. (\A d \in Callers : call'[d].file # f) => call'[c] = Idle
      OBVIOUS
    <3>2. \A d \in Callers : call'[d].file = f => d = c
      BY <1>2, <1>3
    <3> QED BY <2>1, <1>5, <3>1, <3>2 DEF FileCoherent
  <2>2. CASE g # f
    <3>1. FileCoherent(g) /\ Mutations(g)' = Mutations(g)
      BY <1>1, <1>5, <2>2 DEF Mutations, Ways
    <3>2. \A d \in Callers : call[d].file # g /\ call'[d].file # g
      BY <1>2, <1>3, <2>2
    <3>3. /\ disk'[g] = disk[g] /\ stack'["undo"][g] = stack["undo"][g]
          /\ stack'["redo"][g] = stack["redo"][g]
      BY <2>2 DEF Ways
    <3> QED BY <3>1, <3>2, <3>3 DEF FileCoherent
  <2> QED BY <2>1, <2>2
<1> QED BY <1>4, <1>5 DEF CoherenceInv

\* What the invariant says of the file of a call that is under way.
LEMMA Inside ==
    ASSUME TypeOK, CoherenceInv, ~Overlap, NEW c \in Callers, call[c].at # "idle",
           ~broken[call[c].file]
    PROVE  /\ call[c].file \in Files
           /\ Linked(Mutations(call[c].file))
           /\ Fits(call[c], stack["undo"][call[c].file], stack["redo"][call[c].file],
                   disk[call[c].file])
BY DEF TypeOK, Formed, CoherenceInv, FileCoherent

\* And of a file while no call is under way.
LEMMA Between ==
    ASSUME TypeOK, CoherenceInv, ~Overlap, Quiet, NEW f \in Files, ~broken[f]
    PROVE  /\ Linked(Mutations(f))
           /\ Meets(stack["undo"][f], stack["redo"][f], disk[f])
<1>1. \A c \in Callers : call[c].file # f
  BY EngineConstants DEF Quiet, Idle
<1> QED BY <1>1 DEF CoherenceInv, FileCoherent

\* The entry just appended is the top.
LEMMA OnTop ==
    ASSUME NEW S, NEW s \in Seq(S), NEW e \in S
    PROVE  Append(s, e) # <<>> /\ Last(Append(s, e)) = e
<1>1. /\ Append(s, e) \in Seq(S) /\ Len(Append(s, e)) = Len(s) + 1
      /\ Append(s, e)[Len(s) + 1] = e /\ Len(s) \in Nat
  BY AppendProperties, LenProperties
<1> QED BY <1>1, EmptySeq DEF Last

\* A history that meets the file at one side of the cursor does so at the other.
LEMMA MeetsBoth ==
    ASSUME NEW S, NEW u \in Seq(S), NEW r \in Seq(S), NEW v, Linked(Timeline(u, r)),
           \/ u # <<>> /\ Last(u).post = v
           \/ r # <<>> /\ Last(r).pre = v
    PROVE  Meets(u, r, v)
BY LinkedAtCursor DEF Meets

-----------------------------------------------------------------------------
(***************************************************************************)
(* The steps.                                                               *)
(***************************************************************************)

\* execute() begins with the file as the history has it.
LEMMA ExecuteCoherent ==
    ASSUME TypeOK, TypeOK', CoherenceInv, ~Overlap, NEW c \in Callers, NEW f \in Files,
           Execute(c, f)
    PROVE  CoherenceInv'
<1>1. /\ call[c] = Idle /\ Quiet
      /\ \A d \in Callers \ {c} : call'[d] = call[d]
      /\ call'[c].file = f /\ call'[c].at \in {"parse", "enter"} /\ call'[c].pre = disk[f]
      /\ UNCHANGED <<disk, stack, broken>>
  BY DEF Execute, MayStart, TypeOK, Idle, history
<1>2. ASSUME ~broken[f]
      PROVE  /\ Linked(Mutations(f)')
             /\ call'[c] = Idle => Meets(stack'["undo"][f], stack'["redo"][f], disk'[f])
             /\ Fits(call'[c], stack'["undo"][f], stack'["redo"][f], disk'[f])
  <2>1. Linked(Mutations(f)) /\ Meets(stack["undo"][f], stack["redo"][f], disk[f])
    BY <1>1, <1>2, Between
  <2>2. Mutations(f)' = Mutations(f)
    BY <1>1 DEF Mutations
  <2> QED BY <1>1, <2>1, <2>2 DEF Fits, Body
<1> QED BY <1>1, <1>2, OneStep

\* Inside a call that has not pushed: the history waits, and the call keeps what
\* it found.  r is the call after the step.
LEMMA KeepsWaiting ==
    ASSUME TypeOK, TypeOK', CoherenceInv, ~Overlap, NEW c \in Callers, NEW f \in Files,
           call[c].file = f, call[c].at \in {"parse", "enter", "readpost"} \cup Body,
           NEW r \in Calls, call' = [call EXCEPT ![c] = r],
           r.file = f, r.pre = call[c].pre,
           r.at \in {"enter", "readpost", "push"} \cup Body,
           ~broken[f] => /\ r.at = "enter" => disk'[f] = call[c].pre
                         /\ r.at \in Body => r.snap = call[c].pre
                         /\ r.at = "push" => r.entry = [pre |-> call[c].pre, post |-> disk'[f]],
           \A g \in Files \ {f} : disk'[g] = disk[g],
           UNCHANGED <<stack, broken>>
    PROVE  CoherenceInv'
<1>1. /\ call'[c] = r /\ r # Idle
      /\ \A d \in Callers \ {c} : call'[d] = call[d]
  BY EngineConstants DEF TypeOK, Idle
<1>2. ASSUME ~broken[f]
      PROVE  /\ Linked(Mutations(f)')
             /\ Fits(call'[c], stack'["undo"][f], stack'["redo"][f], disk'[f])
  <2>1. /\ Linked(Mutations(f))
        /\ Fits(call[c], stack["undo"][f], stack["redo"][f], disk[f])
    BY <1>2, Inside DEF Body
  <2>2. Mutations(f)' = Mutations(f)
    BY DEF Mutations
  <2>3. Meets(stack["undo"][f], stack["redo"][f], call[c].pre)
    BY <2>1 DEF Fits
  <2>4. r.at \notin {"parse", "moved", "moving"}
    BY DEF Body
  <2> QED BY <1>1, <1>2, <2>1, <2>2, <2>3, <2>4 DEF Fits
<1> QED BY <1>1, <1>2, OneStep

\* Parsing, entering the block, writing in it and leaving it by commit().
LEMMA BodyCoherent ==
    ASSUME TypeOK, TypeOK', CoherenceInv, ~Overlap, NEW c \in Callers, NEW f \in Files,
           call[c].file = f,
           \/ Parse(c) \/ Enter(c) \/ StartWriting(c) \/ FinishWriting(c)
           \/ AtomicWrite(c) \/ Fail(c) \/ Commit(c) \/ ReadPost(c)
    PROVE  CoherenceInv'
<1> USE DEF At
<1>1. call[c] \in Calls /\ call \in [Callers -> Calls] /\ disk \in [Files -> Contents]
  BY DEF TypeOK
<1>2. call[c].at # "idle" /\ ~broken[f]
         => Fits(call[c], stack["undo"][f], stack["redo"][f], disk[f])
  BY Inside
<1>3. /\ UNCHANGED <<stack, broken>>
      /\ \A g \in Files \ {f} : disk'[g] = disk[g]
  BY <1>1 DEF Parse, Enter, StartWriting, FinishWriting, AtomicWrite, Fail, Commit,
              ReadPost, Write, history
<1>4. call' \in [Callers -> Calls]
  BY DEF TypeOK
<1> DEFINE r == call'[c]
<1>5. r \in Calls
  BY <1>4
<1>6. CASE Parse(c)
  <2>1. /\ call[c].at = "parse" /\ r = [call[c] EXCEPT !.at = "enter", !.base = disk[f]]
        /\ call' = [call EXCEPT ![c] = r] /\ UNCHANGED disk
    BY <1>1, <1>6 DEF Parse, Calls
  <2>2. r.at = "enter" /\ r.file = f /\ r.pre = call[c].pre
    BY <1>1, <2>1 DEF Calls
  <2>3. ~broken[f] => disk'[f] = call[c].pre
    BY <1>2, <2>1 DEF Fits
  <2> HIDE DEF r
  <2> QED BY <1>3, <1>5, <2>1, <2>2, <2>3, KeepsWaiting DEF Body
<1>7. CASE Enter(c)
  <2> DEFINE b == IF f \in ProjectFiles THEN disk[f] ELSE call[c].base
  <2>1. /\ call[c].at = "enter"
        /\ r = [call[c] EXCEPT !.at = "body", !.snap = disk[f], !.base = b]
        /\ call' = [call EXCEPT ![c] = r] /\ UNCHANGED disk
    BY <1>1, <1>7 DEF Enter, Calls
  <2> HIDE DEF b
  <2>2. r.at = "body" /\ r.file = f /\ r.pre = call[c].pre /\ r.snap = disk[f]
    BY <1>1, <2>1 DEF Calls
  <2>3. ~broken[f] => r.snap = call[c].pre
    BY <1>2, <2>1, <2>2 DEF Fits
  <2> HIDE DEF r
  <2> QED BY <1>3, <1>5, <2>1, <2>2, <2>3, KeepsWaiting DEF Body
<1>8. CASE StartWriting(c) \/ FinishWriting(c) \/ AtomicWrite(c) \/ Fail(c)
  <2>1. /\ call[c].at \in Body
        /\ r = [call[c] EXCEPT !.at = r.at] /\ r.at \in Body
        /\ call' = [call EXCEPT ![c] = r]
    BY <1>1, <1>8 DEF StartWriting, FinishWriting, AtomicWrite, Fail, Go, Calls, Body
  <2>2. r.file = f /\ r.pre = call[c].pre /\ r.snap = call[c].snap
    BY <1>1, <2>1 DEF Calls
  <2>3. ~broken[f] => r.snap = call[c].pre
    BY <1>2, <2>1, <2>2 DEF Fits, Body
  <2> HIDE DEF r
  <2> QED BY <1>3, <1>5, <2>1, <2>2, <2>3, KeepsWaiting DEF Body
<1>9. CASE Commit(c)
  <2>1. /\ call[c].at \in Body /\ r = [call[c] EXCEPT !.at = "readpost", !.snap = None]
        /\ call' = [call EXCEPT ![c] = r]
    BY <1>1, <1>9 DEF Commit, Calls, Body
  <2>2. r.at = "readpost" /\ r.file = f /\ r.pre = call[c].pre
    BY <1>1, <2>1 DEF Calls
  <2> HIDE DEF r
  <2> QED BY <1>3, <1>5, <2>1, <2>2, KeepsWaiting DEF Body
<1>10. CASE ReadPost(c)
  <2> DEFINE e == [pre |-> call[c].pre, post |-> disk[f]]
  <2>1. /\ call[c].at = "readpost" /\ r = [call[c] EXCEPT !.at = "push", !.entry = e]
        /\ call' = [call EXCEPT ![c] = r] /\ UNCHANGED disk
    BY <1>1, <1>10 DEF ReadPost, Calls
  <2>2. r.at = "push" /\ r.file = f /\ r.pre = call[c].pre /\ r.entry = e
    BY <1>1, <2>1 DEF Calls
  <2>3. r.entry = [pre |-> call[c].pre, post |-> disk'[f]]
    BY <2>1, <2>2
  <2> HIDE DEF r, e
  <2> QED BY <1>3, <1>5, <2>1, <2>2, <2>3, KeepsWaiting DEF Body
<1> QED BY <1>6, <1>7, <1>8, <1>9, <1>10

\* A call that gives up leaves the file as it found it.
LEMMA GivenUpCoherent ==
    ASSUME TypeOK, TypeOK', CoherenceInv, ~Overlap, NEW c \in Callers, NEW f \in Files,
           call[c].file = f, Reject(c) \/ Refuse(c) \/ Restore(c)
    PROVE  CoherenceInv'
<1>1. /\ call \in [Callers -> Calls] /\ disk \in [Files -> Contents]
      /\ call[c].at \in {"parse", "enter", "restore"}
  BY DEF Reject, Refuse, Restore, At, TypeOK
<1>2. /\ call' = [call EXCEPT ![c] = Idle] /\ UNCHANGED <<stack, broken>>
      /\ \A g \in Files \ {f} : disk'[g] = disk[g]
  BY <1>1 DEF Reject, Refuse, Restore, Return, Write, history
<1>3. call'[c] = Idle /\ \A d \in Callers \ {c} : call'[d] = call[d]
  BY <1>1, <1>2
<1>4. ASSUME ~broken[f]
      PROVE  /\ Linked(Mutations(f)')
             /\ Meets(stack'["undo"][f], stack'["redo"][f], disk'[f])
  <2>1. /\ Linked(Mutations(f))
        /\ Fits(call[c], stack["undo"][f], stack["redo"][f], disk[f])
    BY <1>1, <1>4, Inside
  <2>2. Meets(stack["undo"][f], stack["redo"][f], call[c].pre)
    BY <1>1, <2>1 DEF Fits, Body
  <2>3. disk'[f] = call[c].pre
    BY <1>1, <2>1 DEF Reject, Refuse, Restore, At, Fits, Body, Write
  <2>4. Mutations(f)' = Mutations(f)
    BY <1>2 DEF Mutations
  <2> QED BY <1>2, <2>1, <2>2, <2>3, <2>4
<1>5. call'[c].file # f
  BY <1>3, EngineConstants DEF Idle
<1> QED BY <1>2, <1>3, <1>4, <1>5, OneStep

\* A call that breaks the tie says so.
LEMMA BreakCoherent ==
    ASSUME TypeOK, TypeOK', CoherenceInv, ~Overlap, NEW c \in Callers, NEW f \in Files,
           call[c].file = f, RestoreFails(c) \/ ReadPostFails(c) \/ RefuseMove(c)
    PROVE  CoherenceInv'
<1>1. /\ call \in [Callers -> Calls] /\ disk \in [Files -> Contents]
      /\ broken \in [Files -> BOOLEAN]
  BY DEF TypeOK
<1>2. /\ call' = [call EXCEPT ![c] = Idle] /\ UNCHANGED stack
      /\ broken' = [broken EXCEPT ![f] = TRUE]
      /\ \A g \in Files \ {f} : disk'[g] = disk[g]
  BY <1>1 DEF RestoreFails, ReadPostFails, RefuseMove, Return, Write, Break, history
<1>3. /\ call'[c] = Idle /\ \A d \in Callers \ {c} : call'[d] = call[d]
      /\ broken'[f] /\ \A g \in Files \ {f} : broken'[g] = broken[g]
  BY <1>1, <1>2
<1> QED BY <1>2, <1>3, OneStep

\* push: the chain grows by the mutation, which ends at the file's content.
LEMMA PushCoherent ==
    ASSUME TypeOK, TypeOK', CoherenceInv, ~Overlap, NEW c \in Callers, NEW f \in Files,
           call[c].file = f, Push(c)
    PROVE  CoherenceInv'
<1> DEFINE u == stack["undo"][f]
           e == call[c].entry
<1>1. /\ call \in [Callers -> Calls] /\ call[c].at = "push" /\ e \in Entry(Contents)
      /\ stack \in [Ways -> [Files -> Seq(Entry(Contents))]]
      /\ u \in Seq(Entry(Contents)) /\ stack["redo"][f] \in Seq(Entry(Contents))
  BY DEF Push, At, TypeOK, Formed, Ways
<1>2. /\ call'[c] = Idle /\ \A d \in Callers \ {c} : call'[d] = call[d]
      /\ UNCHANGED <<disk, broken>>
  BY <1>1 DEF Push, Return
<1>3. stack' = [stack EXCEPT !["undo"][f] = Appended(u, e), !["redo"][f] = <<>>]
  BY DEF Push
<1>4. /\ stack'["undo"][f] = Appended(u, e) /\ stack'["redo"][f] = <<>>
      /\ \A g \in Files \ {f}, way \in Ways : stack'[way][g] = stack[way][g]
  BY <1>1, <1>3 DEF Ways
<1>5. ASSUME ~broken[f]
      PROVE  /\ Linked(Mutations(f)')
             /\ Meets(stack'["undo"][f], stack'["redo"][f], disk'[f])
  <2>1. /\ Linked(Timeline(u, stack["redo"][f]))
        /\ Fits(call[c], u, stack["redo"][f], disk[f])
    BY <1>1, <1>5, Inside DEF Mutations
  <2>2. (u # <<>> => Last(u).post = call[c].pre) /\ e = [pre |-> call[c].pre, post |-> disk[f]]
    BY <1>1, <2>1 DEF Fits, Meets
  <2>3. e.pre = call[c].pre /\ e.post = disk[f]
    BY <2>2
  <2>4. Linked(u)
    BY <1>1, <2>1, LinkedPast
  <2> HIDE DEF u, e
  <2>5. /\ Linked(Appended(u, e)) /\ Last(Appended(u, e)) = e
        /\ Appended(u, e) \in Seq(Entry(Contents))
    BY <1>1, <2>2, <2>3, <2>4, LinkedAppended, AppendedBound
  <2>6. Linked(Timeline(Appended(u, e), <<>>))
    BY <2>5, NoFuture
  <2> QED BY <1>2, <1>4, <2>3, <2>5, <2>6 DEF Meets, Mutations
<1>6. call'[c].file # f
  BY <1>2, EngineConstants DEF Idle
<1> HIDE DEF u, e
<1> QED BY <1>2, <1>4, <1>5, <1>6, OneStep

\* undo() and redo() take the entry that ends, or begins, where the file is.
LEMMA TakeCoherent ==
    ASSUME TypeOK, TypeOK', StackBudget, CoherenceInv, ~Overlap,
           NEW c \in Callers, NEW f \in Files, NEW way \in Ways, Take(c, f, way)
    PROVE  CoherenceInv'
<1> DEFINE e == Last(stack[way][f])
           r == [Idle EXCEPT !.at = "moved", !.file = f, !.pre = disk[f],
                             !.way = way, !.entry = e]
<1>1. /\ call \in [Callers -> Calls] /\ call[c] = Idle /\ Quiet
      /\ stack[way][f] # <<>> /\ Move(f, way)
      /\ call' = [call EXCEPT ![c] = r] /\ UNCHANGED <<disk, broken>>
  BY DEF Take, MayStart, TypeOK
<1>2. /\ stack'[Other(way)][f] = Append(stack[Other(way)][f], e)
      /\ \A g \in Files \ {f}, w \in Ways : stack'[w][g] = stack[w][g]
      /\ Mutations(f)' = Mutations(f)
  BY <1>1, MoveWithinBudget
<1>3. /\ call'[c] = r /\ \A d \in Callers \ {c} : call'[d] = call[d]
  BY <1>1
<1>4. /\ r.at = "moved" /\ r.file = f /\ r.way = way /\ r.entry = e
  BY DEF Idle
<1>5. /\ Onto(r, stack'["undo"][f], stack'["redo"][f]) = stack'[Other(way)][f]
      /\ stack[Other(way)][f] \in Seq(Entry(Contents)) /\ e \in Entry(Contents)
  BY <1>1, <1>4, MoveType DEF Onto, Other, Ways, TypeOK
<1>6. stack'[Other(way)][f] # <<>> /\ Last(stack'[Other(way)][f]) = e
  BY <1>2, <1>5, OnTop
<1>7. ASSUME ~broken[f]
      PROVE  /\ Linked(Mutations(f)')
             /\ Fits(call'[c], stack'["undo"][f], stack'["redo"][f], disk'[f])
  <2>1. Linked(Mutations(f)) /\ Meets(stack["undo"][f], stack["redo"][f], disk[f])
    BY <1>1, <1>7, Between
  <2>2. disk[f] = Target(Other(way), e)
    BY <1>1, <2>1 DEF Meets, Target, Other, Ways
  <2> HIDE DEF r, e
  <2> QED BY <1>1, <1>2, <1>3, <1>4, <1>5, <1>6, <2>1, <2>2 DEF Fits, Body
<1>8. r # Idle
  BY <1>4 DEF Idle
<1> HIDE DEF r, e
<1> QED BY <1>1, <1>2, <1>3, <1>4, <1>7, <1>8, OneStep

\* The write of a move begins.
LEMMA StartMoveCoherent ==
    ASSUME TypeOK, TypeOK', CoherenceInv, ~Overlap, NEW c \in Callers, NEW f \in Files,
           call[c].file = f, StartMove(c)
    PROVE  CoherenceInv'
<1>1. /\ call \in [Callers -> Calls] /\ call[c].at = "moved"
      /\ disk \in [Files -> Contents] /\ UNCHANGED <<stack, broken>>
      /\ \A g \in Files \ {f} : disk'[g] = disk[g]
      /\ \A d \in Callers \ {c} : call'[d] = call[d]
      /\ call'[c] = [call[c] EXCEPT !.at = "moving"]
  BY DEF StartMove, At, TypeOK, Go, Write, history
<1>2. /\ call'[c].at = "moving" /\ call'[c].file = f /\ call'[c].way = call[c].way
      /\ call'[c].entry = call[c].entry /\ call'[c] # Idle
  BY <1>1 DEF Calls, Idle
<1>3. ASSUME ~broken[f]
      PROVE  /\ Linked(Mutations(f)')
             /\ Fits(call'[c], stack'["undo"][f], stack'["redo"][f], disk'[f])
  <2>1. /\ Linked(Mutations(f))
        /\ Fits(call[c], stack["undo"][f], stack["redo"][f], disk[f])
    BY <1>1, <1>3, Inside
  <2>2. Mutations(f)' = Mutations(f)
    BY <1>1 DEF Mutations
  <2> QED BY <1>1, <1>2, <2>1, <2>2 DEF Fits, Onto, Body
<1> QED BY <1>1, <1>2, <1>3, OneStep

\* The write of a move ends: the file is on the other side of the entry.
LEMMA FinishMoveCoherent ==
    ASSUME TypeOK, TypeOK', CoherenceInv, ~Overlap, NEW c \in Callers, NEW f \in Files,
           call[c].file = f, FinishMove(c)
    PROVE  CoherenceInv'
<1>1. /\ call \in [Callers -> Calls] /\ call[c].at = "moving" /\ call[c].way \in Ways
      /\ disk \in [Files -> Contents] /\ UNCHANGED <<stack, broken>>
      /\ stack["undo"][f] \in Seq(Entry(Contents)) /\ stack["redo"][f] \in Seq(Entry(Contents))
  BY DEF FinishMove, At, TypeOK, Formed, history, Ways
<1>2. /\ call'[c] = Idle /\ \A d \in Callers \ {c} : call'[d] = call[d]
      /\ disk'[f] = Target(call[c].way, call[c].entry)
      /\ \A g \in Files \ {f} : disk'[g] = disk[g]
  BY <1>1 DEF FinishMove, Return, Write
<1>3. ASSUME ~broken[f]
      PROVE  /\ Linked(Mutations(f)')
             /\ Meets(stack'["undo"][f], stack'["redo"][f], disk'[f])
  <2>1. /\ Linked(Timeline(stack["undo"][f], stack["redo"][f]))
        /\ Fits(call[c], stack["undo"][f], stack["redo"][f], disk[f])
    BY <1>1, <1>3, Inside DEF Mutations
  <2>2. \/ stack["undo"][f] # <<>> /\ Last(stack["undo"][f]).post = disk'[f]
        \/ stack["redo"][f] # <<>> /\ Last(stack["redo"][f]).pre = disk'[f]
    BY <1>1, <1>2, <2>1 DEF Fits, Onto, Target, Ways
  <2>3. Meets(stack["undo"][f], stack["redo"][f], disk'[f])
    BY <1>1, <2>1, <2>2, MeetsBoth
  <2> QED BY <1>1, <2>1, <2>3 DEF Mutations
<1>4. call'[c].file # f
  BY <1>2, EngineConstants DEF Idle
<1> QED BY <1>1, <1>2, <1>3, <1>4, OneStep

\* A move whose write fails before the truncation goes back, and the file is
\* still where the history then ends; after it, the tie is broken.
LEMMA MoveFailsCoherent ==
    ASSUME TypeOK, TypeOK', StackBudget, CoherenceInv, ~Overlap,
           NEW c \in Callers, NEW f \in Files, call[c].file = f, MoveFails(c)
    PROVE  CoherenceInv'
<1> DEFINE w == call[c].way
           back == Other(w)
<1>1. /\ call \in [Callers -> Calls] /\ call[c].at \in {"moved", "moving"} /\ w \in Ways
      /\ back \in Ways /\ Other(back) = w /\ UNCHANGED disk
      /\ broken \in [Files -> BOOLEAN]
  BY DEF MoveFails, At, TypeOK, Formed, Other, Ways
<1>2. /\ call'[c] = Idle /\ \A d \in Callers \ {c} : call'[d] = call[d]
      /\ \A g \in Files \ {f} : broken'[g] = broken[g]
      /\ ~broken'[f] => ~broken[f] /\ call[c].at = "moved"
  BY <1>1 DEF MoveFails, Return, At
<1>3. IF stack[back][f] = <<>> THEN UNCHANGED stack ELSE Move(f, back)
  BY DEF MoveFails, history
<1>4. \A g \in Files \ {f}, way \in Ways : stack'[way][g] = stack[way][g]
  BY <1>1, <1>3, MoveWithinBudget
<1>5. ASSUME ~broken'[f]
      PROVE  /\ Linked(Mutations(f)')
             /\ Meets(stack'["undo"][f], stack'["redo"][f], disk'[f])
  <2> DEFINE e == call[c].entry
  <2>1. /\ Linked(Mutations(f))
        /\ Fits(call[c], stack["undo"][f], stack["redo"][f], disk[f])
    BY <1>1, <1>2, <1>5, Inside
  <2>2. /\ stack[back][f] # <<>> /\ Last(stack[back][f]) = e
        /\ disk[f] = Target(back, e)
    BY <1>1, <1>2, <1>5, <2>1 DEF Fits, Onto, Other, Ways
  <2>3. /\ stack'[w][f] = Append(stack[w][f], e)
        /\ Mutations(f)' = Mutations(f)
    BY <1>1, <1>3, <2>2, MoveWithinBudget
  <2>4. stack[w][f] \in Seq(Entry(Contents)) /\ e \in Entry(Contents)
    BY <1>1 DEF TypeOK, Formed
  <2>5. stack'[w][f] # <<>> /\ Last(stack'[w][f]) = e
    BY <2>3, <2>4, OnTop
  <2>6. \/ stack'["undo"][f] # <<>> /\ Last(stack'["undo"][f]).post = disk[f]
        \/ stack'["redo"][f] # <<>> /\ Last(stack'["redo"][f]).pre = disk[f]
    BY <1>1, <2>2, <2>5 DEF Target, Other, Ways
  <2>7. /\ stack'["undo"][f] \in Seq(Entry(Contents))
        /\ stack'["redo"][f] \in Seq(Entry(Contents))
    BY DEF TypeOK, Ways
  <2>8. Linked(Timeline(stack'["undo"][f], stack'["redo"][f]))
    BY <2>1, <2>3 DEF Mutations
  <2>9. Meets(stack'["undo"][f], stack'["redo"][f], disk[f])
    BY <2>6, <2>7, <2>8, MeetsBoth
  <2> QED BY <1>1, <2>8, <2>9 DEF Mutations
<1>6. call'[c].file # f
  BY <1>2, EngineConstants DEF Idle
<1> HIDE DEF w, back
<1> QED BY <1>1, <1>2, <1>4, <1>5, <1>6, OneStep

\* An outside save breaks the tie of the file it saves, and of no other.
LEMMA ExternalCoherent ==
    ASSUME TypeOK, CoherenceInv, ~Overlap, NEW f \in Files, External(f)
    PROVE  CoherenceInv'
<1>1. /\ UNCHANGED <<stack, call>> /\ broken'[f]
      /\ \A g \in Files \ {f} : disk'[g] = disk[g] /\ broken'[g] = broken[g]
  BY DEF External, Write, Break, TypeOK, history
<1>2. Solo' /\ \A g \in Files : Mutations(g)' = Mutations(g)
  BY <1>1 DEF CoherenceInv, Solo, Mutations
<1>3. ASSUME NEW g \in Files, ~broken'[g] PROVE FileCoherent(g)'
  <2>1. g # f /\ FileCoherent(g) /\ disk'[g] = disk[g]
    BY <1>1, <1>3 DEF CoherenceInv
  <2> QED BY <1>1, <1>2, <2>1 DEF FileCoherent
<1> QED BY <1>2, <1>3 DEF CoherenceInv

\* No call is under way and nothing has been pushed yet.
Fresh == stack = NoHistory /\ \A c \in Callers : call[c] = Idle

\* Then there is nothing to disagree with.
LEMMA FreshCoherent == Fresh => CoherenceInv
<1> SUFFICES ASSUME Fresh PROVE CoherenceInv
  OBVIOUS
<1>1. \A f \in Files : stack["undo"][f] = <<>> /\ stack["redo"][f] = <<>>
  BY DEF Fresh, NoHistory, Ways
<1>2. \A f \in Files : Linked(Mutations(f))
  <2>1. Linked(<<>>) /\ <<>> \in Seq(Entry(Contents))
    BY EmptySeq DEF Linked
  <2> QED BY <1>1, <2>1, NoFuture DEF Mutations
<1>3. \A f \in Files, c \in Callers : call[c].file # f
  BY EngineConstants DEF Fresh, Idle
<1> QED BY <1>1, <1>2, <1>3 DEF Fresh, CoherenceInv, Solo, FileCoherent, Meets

-----------------------------------------------------------------------------
(***************************************************************************)
(* The invariant.                                                           *)
(***************************************************************************)

\* Every step keeps it.
LEMMA NextCoherent ==
    TypeOK /\ TypeOK' /\ StackBudget /\ CoherenceInv /\ [Next]_vars => CoherenceInv'
<1> SUFFICES ASSUME TypeOK, TypeOK', StackBudget, CoherenceInv, [Next]_vars, ~Overlap
             PROVE  CoherenceInv'
  BY DEF CoherenceInv
<1>1. ASSUME NEW c \in Callers, Step(c) PROVE CoherenceInv'
  <2>1. call[c].at # "idle"
    BY <1>1 DEF Step, Parse, Reject, Enter, Refuse, StartWriting, FinishWriting,
       AtomicWrite, Fail, Restore, RestoreFails, Commit, ReadPost, ReadPostFails, Push,
       RefuseMove, StartMove, FinishMove, MoveFails, At, Body
  <2>2. PICK f \in Files : call[c].file = f
    BY <2>1 DEF TypeOK, Formed
  <2> QED BY <1>1, <2>2, BodyCoherent, GivenUpCoherent, BreakCoherent, PushCoherent,
             StartMoveCoherent, FinishMoveCoherent, MoveFailsCoherent DEF Step
<1>2. ASSUME NEW c \in Callers, Start(c) PROVE CoherenceInv'
  BY <1>2, ExecuteCoherent, TakeCoherent DEF Start, TakeLatest
<1>3. ASSUME NEW f \in Files, External(f) PROVE CoherenceInv'
  BY <1>3, ExternalCoherent
<1>4. CASE Crash
  <2>1. Fresh'
    BY <1>4 DEF Crash, Fresh, NoHistory
  <2> QED BY <2>1, FreshCoherent, PTL
<1>5. CASE UNCHANGED vars
  <2>1. UNCHANGED <<disk, stack, call, broken>>
    BY <1>5 DEF vars
  <2> QED BY <2>1 DEF CoherenceInv, Solo, FileCoherent, Mutations
<1> QED BY <1>1, <1>2, <1>3, <1>4, <1>5 DEF Next

\* One call at a time, and until something breaks the tie, the mutations of a
\* file form a chain, and between calls the file is what the cursor says.
THEOREM Coherence == Spec => []HistoryCoherent
<1>1. Init => CoherenceInv
  BY FreshCoherent DEF Init, Fresh
<1>2. CoherenceInv => HistoryCoherent
  BY DEF CoherenceInv, FileCoherent, HistoryCoherent, Mutations
<1> QED BY <1>1, <1>2, NextCoherent, TypeCorrect, Budget, PTL DEF Spec

=============================================================================
