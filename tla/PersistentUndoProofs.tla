------------------------- MODULE PersistentUndoProofs -------------------------
(***************************************************************************)
(* Theorems of PersistentUndo, for every set of threads, files, safe names, *)
(* addresses and contents, every size of the undo stack and every bound.    *)
(***************************************************************************)
EXTENDS PersistentUndo, UndoStackProofs

-----------------------------------------------------------------------------
(***************************************************************************)
(* Types.                                                                   *)
(***************************************************************************)

\* A step that changes one call, to one that is well formed, and leaves the lock.
LEMMA OneCall ==
    ASSUME TypeOK, NEW c \in Callers, NEW r \in Calls, Formed(r),
           call' = [call EXCEPT ![c] = r], UNCHANGED lock,
           r.at = "rename" <=> At(c, "rename")
    PROVE  /\ call' \in [Callers -> Calls]
           /\ \A d \in Callers : Formed(call'[d]) /\ (lock' = d <=> call'[d].at = "rename")
BY DEF TypeOK, At

\* A call that is over.
LEMMA IdleFormed == Idle \in Calls /\ Formed(Idle) /\ Idle.at # "rename"
BY DEF Idle, Calls, Formed

\* A move keeps the types of the deques.
LEMMA MoveType ==
    ASSUME TypeOK, NEW f \in Files, NEW way \in Ways, Move(f, way)
    PROVE  /\ stack' \in [Ways -> [Files -> Seq(Held)]]
           /\ Last(stack[way][f]) \in Held
<1>1. /\ stack[way][f] \in Seq(Held) /\ Other(way) \in Ways /\ Other(way) # way
      /\ stack[Other(way)][f] \in Seq(Held) /\ stack[way][f] # <<>>
  BY DEF TypeOK, Ways, Other, Move
<1>2. Front(stack[way][f]) \in Seq(Held) /\ Last(stack[way][f]) \in Held
  BY <1>1, FrontLast
<1>3. Appended(stack[Other(way)][f], Last(stack[way][f])) \in Seq(Held)
  BY <1>1, <1>2, AppendedBound
<1> QED BY <1>1, <1>2, <1>3 DEF Move, TypeOK

\* A name made up for an entry is a name.
LEMMA NameType ==
    ASSUME TypeOK, NEW f \in Files, NEW id \in Objects
    PROVE  NameOf(f, id) \in Names
<1>1. nextSeq \in 0..MaxSeq /\ names[id] \in Names \cup {None}
  BY DEF TypeOK
<1>2. <<nextSeq, SafeName[f]>> \in Names
  BY <1>1 DEF Names
<1> QED BY <1>1, <1>2 DEF NameOf

\* What _save_manifest writes is a manifest.
LEMMA ImageType == TypeOK => Image \in Manifests
<1> SUFFICES ASSUME TypeOK PROVE Image \in Manifests
  OBVIOUS
<1>1. ASSUME NEW f \in Files
      PROVE  [i \in DOMAIN stack["undo"][f] |->
                 [name |-> NameOf(f, stack["undo"][f][i].id),
                  what |-> stack["undo"][f][i].what]] \in Seq(Slot)
  <2> DEFINE dq == stack["undo"][f]
             s == [i \in DOMAIN dq |-> [name |-> NameOf(f, dq[i].id), what |-> dq[i].what]]
  <2>1. dq \in Seq(Held)
    BY DEF TypeOK, Ways
  <2>2. DOMAIN dq = 1..Len(dq) /\ Len(dq) \in Nat /\ \A i \in 1..Len(dq) : dq[i] \in Held
    BY <2>1, LenProperties, ElementOfSeq
  <2> HIDE DEF dq
  <2>3. \A i \in 1..Len(dq) : [name |-> NameOf(f, dq[i].id), what |-> dq[i].what] \in Slot
    BY <2>2, NameType DEF Held, Slot
  <2>4. s \in [1..Len(dq) -> Slot]
    BY <2>2, <2>3
  <2> HIDE DEF s
  <2>5. s \in Seq(Slot)
    BY <2>2, <2>4, IsASeq
  <2> QED BY <2>5 DEF s, dq
<1>2. nextSeq \in 0..MaxSeq
  BY DEF TypeOK
<1> QED BY <1>1, <1>2 DEF Image, Manifests

\* The initial states have the types.
LEMMA InitType == Init => TypeOK
<1> SUFFICES ASSUME Init PROVE TypeOK
  OBVIOUS
<1>1. <<>> \in Seq(Held) /\ <<>> \in Seq(Slot)
  BY EmptySeq
<1>2. 0 \in 0..MaxSeq
  BY PersistentConstants
<1>3. manifest \in Manifests
  BY <1>1, <1>2 DEF Init, Manifests
<1>4. \A c \in Callers : Formed(call[c]) /\ (lock = c <=> At(c, "rename"))
  BY IdleFormed, PersistentConstants DEF Init, At, Idle
<1>5. call \in [Callers -> Calls]
  BY IdleFormed DEF Init
<1> QED BY <1>1, <1>2, <1>3, <1>4, <1>5 DEF Init, TypeOK

\* Every step keeps the types.
LEMMA NextType == TypeOK /\ [Next]_vars => TypeOK'
<1> SUFFICES ASSUME TypeOK, [Next]_vars PROVE TypeOK'
  OBVIOUS
<1> USE DEF At
<1>0. /\ call \in [Callers -> Calls] /\ names \in [Objects -> Names \cup {None}]
      /\ store \in [Names -> Contents \cup {None}] /\ nextSeq \in 0..MaxSeq
      /\ stack \in [Ways -> [Files -> Seq(Held)]]
      /\ \A c \in Callers : call[c] \in Calls /\ Formed(call[c])
  BY DEF TypeOK
<1>1. ASSUME NEW c \in Callers, NEW f \in Files, Push(c, f) PROVE TypeOK'
  <2>1. PICK id \in Objects \ Live, v \in Contents :
           call' = [call EXCEPT ![c] = [Idle EXCEPT !.at = "write", !.file = f,
                                                    !.entry = [id |-> id, what |-> v]]]
    BY <1>1 DEF Push
  <2> DEFINE e == [id |-> id, what |-> v]
             r == [Idle EXCEPT !.at = "write", !.file = f, !.entry = e]
  <2>2. call' = [call EXCEPT ![c] = r] /\ e \in Held
    BY <2>1 DEF Held
  <2>3. f # None /\ call[c].at # "rename"
    BY <1>1, PersistentConstants DEF Push, Idle
  <2>4. UNCHANGED <<memory, lock, files, unread, mishaps>>
    BY <1>1 DEF Push
  <2> HIDE DEF e
  <2>5. r \in Calls /\ Formed(r) /\ r.at # "rename"
    BY <2>2, <2>3 DEF Idle, Calls, Formed
  <2> HIDE DEF r
  <2> QED BY <2>2, <2>3, <2>4, <2>5, OneCall DEF TypeOK, memory, files
<1>2. ASSUME NEW c \in Callers, WriteEntry(c) PROVE TypeOK'
  <2> DEFINE e == call[c].entry
             name == <<nextSeq, SafeName[call[c].file]>>
             r == [call[c] EXCEPT !.at = "append"]
  <2>1. call[c].at = "write" /\ call[c].file \in Files /\ e \in Held /\ nextSeq < MaxSeq
    BY <1>0, <1>2 DEF WriteEntry, Formed
  <2>2. name \in Names /\ nextSeq + 1 \in 0..MaxSeq
    BY <1>0, <2>1, PersistentConstants DEF Names
  <2>3. r \in Calls /\ Formed(r) /\ r.at # "rename"
    BY <1>0, <2>1 DEF Calls, Formed, Idle
  <2>4. call' = [call EXCEPT ![c] = r] /\ UNCHANGED lock
    BY <1>0, <1>2 DEF WriteEntry, Go, Calls
  <2>5. names' \in [Objects -> Names \cup {None}]
    BY <1>0, <1>2, <2>2 DEF WriteEntry
  <2>6. store' \in [Names -> Contents \cup {None}] /\ e.what \in Contents
    BY <1>0, <1>2, <2>1, <2>2 DEF WriteEntry, Held
  <2>7. mishaps' \subseteq {"stray", "entry", "manifest", "load", "history"}
    BY <1>2 DEF WriteEntry, Suffer, TypeOK
  <2>8. nextSeq' \in 0..MaxSeq /\ UNCHANGED <<stack, lock, manifest, unread>>
    BY <1>2, <2>2 DEF WriteEntry
  <2> HIDE DEF r
  <2> QED BY <2>1, <2>3, <2>4, <2>5, <2>6, <2>7, <2>8, OneCall DEF TypeOK
<1>3. ASSUME NEW c \in Callers, Remember(c) PROVE TypeOK'
  <2> DEFINE f == call[c].file
             dq == stack["undo"][f]
             gone == IF Len(dq) < MaxUndo THEN None ELSE names[Head(dq).id]
             r == [call[c] EXCEPT !.at = "save", !.dropped = gone]
  <2>1. call[c].at = "append" /\ f \in Files /\ call[c].entry \in Held
    BY <1>0, <1>3 DEF Remember, Formed
  <2>2. dq \in Seq(Held) /\ <<>> \in Seq(Held)
    BY <1>0, <2>1, EmptySeq DEF Ways
  <2>3. Appended(dq, call[c].entry) \in Seq(Held)
    BY <2>1, <2>2, AppendedBound
  <2>4. gone \in Names \cup {None}
    <3>1. CASE Len(dq) < MaxUndo
      BY <3>1
    <3>2. CASE ~(Len(dq) < MaxUndo)
      <4>1. Len(dq) \in Nat /\ MaxUndo \in Nat \ {0}
        BY <2>2, LenProperties, MaxUndoPositive
      <4>2. dq # <<>>
        BY <3>2, <4>1, EmptySeq
      <4>3. Head(dq) \in Held
        BY <2>2, <4>2, HeadTailProperties
      <4> QED BY <3>2, <4>3, <1>0 DEF Held
    <3> QED BY <3>1, <3>2
  <2>5. /\ call' = [call EXCEPT ![c] = r]
        /\ UNCHANGED <<nextSeq, names, lock, files, unread, mishaps>>
        /\ stack' = [stack EXCEPT !["undo"][f] = Appended(dq, call[c].entry),
                                  !["redo"][f] = <<>>]
    BY <1>0, <1>3 DEF Remember, Calls
  <2> HIDE DEF gone
  <2>6. r \in Calls /\ Formed(r) /\ r.at # "rename"
    BY <1>0, <2>1, <2>4 DEF Calls, Formed, Idle
  <2>7. stack' \in [Ways -> [Files -> Seq(Held)]]
    BY <1>0, <2>1, <2>2, <2>3, <2>5 DEF Ways
  <2> HIDE DEF r, f, dq
  <2> QED BY <2>1, <2>5, <2>6, <2>7, OneCall DEF TypeOK, files
<1>4. ASSUME NEW c \in Callers, NEW f \in Files, PopUndo(c, f) PROVE TypeOK'
  <2> DEFINE e == Last(stack["undo"][f])
             r == [Idle EXCEPT !.at = "unlink", !.file = f, !.entry = e]
  <2>1. stack' \in [Ways -> [Files -> Seq(Held)]] /\ e \in Held
    BY <1>4, MoveType DEF PopUndo, Ways
  <2>2. /\ call' = [call EXCEPT ![c] = r] /\ call[c].at # "rename"
        /\ UNCHANGED <<nextSeq, names, lock, files, unread, mishaps>>
    BY <1>4 DEF PopUndo, Idle
  <2> HIDE DEF e
  <2>3. r \in Calls /\ Formed(r) /\ r.at # "rename"
    BY <2>1 DEF Calls, Formed, Idle
  <2> HIDE DEF r
  <2> QED BY <2>1, <2>2, <2>3, OneCall DEF TypeOK, files
<1>5. ASSUME NEW c \in Callers, RemoveEntryFile(c) PROVE TypeOK'
  <2> DEFINE id == call[c].entry.id
             r == [call[c] EXCEPT !.at = "save", !.dropped = names[id]]
  <2>1. call[c].at = "unlink" /\ call[c].file \in Files /\ call[c].entry \in Held
    BY <1>0, <1>5 DEF RemoveEntryFile, Formed
  <2>2. id \in Objects /\ names[id] \in Names \cup {None}
    BY <1>0, <2>1 DEF Held
  <2>3. /\ call' = [call EXCEPT ![c] = r]
        /\ UNCHANGED <<stack, nextSeq, lock, manifest, unread, mishaps>>
    BY <1>0, <1>5 DEF RemoveEntryFile, Calls
  <2>4. r \in Calls /\ Formed(r) /\ r.at # "rename"
    BY <1>0, <2>1, <2>2 DEF Calls, Formed, Idle
  <2>5. names' \in [Objects -> Names \cup {None}]
    BY <1>0, <1>5 DEF RemoveEntryFile
  <2>6. store' \in [Names -> Contents \cup {None}]
    BY <1>0, <1>5, <2>2 DEF RemoveEntryFile
  <2> HIDE DEF r
  <2> QED BY <2>1, <2>3, <2>4, <2>5, <2>6, OneCall DEF TypeOK
<1>6. ASSUME NEW c \in Callers, NEW f \in Files, NEW way \in Ways, PopInMemory(c, f, way)
      PROVE  TypeOK'
  <2>1. stack' \in [Ways -> [Files -> Seq(Held)]]
    BY <1>6, MoveType DEF PopInMemory
  <2> QED BY <1>6, <2>1 DEF PopInMemory, TypeOK, Suffer, files
<1>7. ASSUME NEW c \in Callers, Snapshot(c) PROVE TypeOK'
  <2> DEFINE r == [call[c] EXCEPT !.at = "rename", !.shot = Image]
  <2>1. /\ call[c].at = "save" /\ lock = None /\ lock' = c
        /\ call[c].file \in Files /\ call[c].entry \in Held
    BY <1>0, <1>7 DEF Snapshot, Formed
  <2>2. Image \in Manifests
    BY ImageType
  <2>3. call' = [call EXCEPT ![c] = r] /\ UNCHANGED <<stack, nextSeq, files, unread, mishaps>>
    BY <1>0, <1>7 DEF Snapshot, Calls
  <2>4. r \in Calls /\ Formed(r) /\ r.at = "rename"
    BY <1>0, <2>1, <2>2 DEF Calls, Formed, Idle
  <2> HIDE DEF r
  <2>5. \A d \in Callers : call[d].at # "rename"
    BY <2>1, PersistentConstants DEF TypeOK
  <2>6. /\ call' \in [Callers -> Calls]
        /\ \A d \in Callers : Formed(call'[d]) /\ (lock' = d <=> call'[d].at = "rename")
    BY <1>0, <2>1, <2>3, <2>4, <2>5
  <2>7. names' \in [Objects -> Names \cup {None}]
    <3>1. ASSUME NEW id \in Objects, \E f \in Files : Undoable(f, id)
          PROVE  NameOf(CHOOSE f \in Files : Undoable(f, id), id) \in Names
      BY <3>1, NameType
    <3> QED BY <1>0, <1>7, <3>1 DEF Snapshot
  <2> QED BY <2>1, <2>3, <2>6, <2>7 DEF TypeOK, files
<1>8. ASSUME NEW c \in Callers, WriteManifest(c) PROVE TypeOK'
  <2>1. /\ call[c].at = "rename" /\ call[c].shot \in Manifests
        /\ call' = [call EXCEPT ![c] = Idle] /\ lock' = None /\ lock = c
        /\ UNCHANGED <<memory, store, unread>>
    BY <1>0, <1>8 DEF WriteManifest, Formed, Return, TypeOK
  <2>2. \A d \in Callers \ {c} : call[d].at # "rename"
    BY <2>1 DEF TypeOK
  <2>3. /\ call' \in [Callers -> Calls]
        /\ \A d \in Callers : Formed(call'[d]) /\ (lock' = d <=> call'[d].at = "rename")
    BY <1>0, <2>1, <2>2, IdleFormed, PersistentConstants
  <2>4. manifest' \in Manifests /\ mishaps' \subseteq {"stray", "entry", "manifest", "load", "history"}
    BY <1>8, <2>1 DEF WriteManifest, Suffer, TypeOK
  <2> QED BY <2>1, <2>3, <2>4 DEF TypeOK, memory
<1>9. CASE Restart
  <2>1. <<>> \in Seq(Held)
    BY EmptySeq
  <2>2. manifest.next \in 0..MaxSeq /\ manifest.entries \in [Files -> Seq(Slot)]
    BY DEF TypeOK, Manifests
  <2>3. /\ call' \in [Callers -> Calls]
        /\ \A d \in Callers : Formed(call'[d]) /\ (lock' = d <=> call'[d].at = "rename")
    BY <1>9, IdleFormed, PersistentConstants DEF Restart, Idle
  <2>4. /\ nextSeq' \in 0..MaxSeq /\ unread' \in [Files -> Seq(Slot)]
        /\ mishaps' \subseteq {"stray", "entry", "manifest", "load", "history"}
    <3>1. <<>> \in Seq(Slot) /\ 0 \in 0..MaxSeq
      BY EmptySeq, PersistentConstants
    <3>2. /\ \/ nextSeq' = manifest.next /\ unread' = manifest.entries
             \/ nextSeq' = 0 /\ unread' = [f \in Files |-> <<>>]
          /\ mishaps' \in {mishaps, mishaps \cup {"history"}}
      BY <1>9 DEF Restart, LoadedSeq, Suffer
    <3>3. mishaps' \subseteq {"stray", "entry", "manifest", "load", "history"}
      BY <3>2 DEF TypeOK
    <3> QED BY <2>2, <3>1, <3>2, <3>3
  <2> QED BY <1>9, <2>1, <2>3, <2>4 DEF Restart, TypeOK, files
<1>10. ASSUME NEW f \in Files, Load(f) PROVE TypeOK'
  <2> DEFINE slot == Head(unread[f])
  <2>1. unread[f] \in Seq(Slot) /\ unread[f] # <<>>
    BY <1>10 DEF Load, TypeOK
  <2>2. slot \in Slot /\ Tail(unread[f]) \in Seq(Slot)
    BY <2>1, HeadTailProperties
  <2>3. unread' \in [Files -> Seq(Slot)]
    BY <1>10, <2>2 DEF Load, TypeOK
  <2>4. stack["undo"][f] \in Seq(Held) /\ slot.name \in Names
    BY <1>0, <2>2 DEF Ways, Slot
  <2> HIDE DEF slot
  <2>5. /\ stack' \in [Ways -> [Files -> Seq(Held)]]
        /\ names' \in [Objects -> Names \cup {None}]
        /\ mishaps' \subseteq {"stray", "entry", "manifest", "load", "history"}
    <3>1. CASE UNCHANGED <<stack, names>>
      BY <1>0, <1>10, <3>1 DEF Load, Suffer, TypeOK
    <3>2. ASSUME NEW id \in Objects, store[slot.name] # None,
                 stack' = [stack EXCEPT !["undo"][f] =
                              Appended(@, [id |-> id, what |-> store[slot.name]])],
                 names' = [names EXCEPT ![id] = slot.name], UNCHANGED mishaps
          PROVE  <2>5!:
      <4>1. [id |-> id, what |-> store[slot.name]] \in Held
        BY <1>0, <2>4, <3>2 DEF Held
      <4>2. Appended(stack["undo"][f], [id |-> id, what |-> store[slot.name]]) \in Seq(Held)
        BY <2>4, <4>1, AppendedBound
      <4> QED BY <1>0, <2>4, <3>2, <4>2 DEF TypeOK, Ways
    <3> QED BY <1>10, <3>1, <3>2 DEF Load, slot
  <2> QED BY <1>10, <2>3, <2>5 DEF Load, TypeOK, files
<1>11. CASE UNCHANGED vars
  BY <1>11 DEF vars, memory, files, TypeOK
<1> QED BY <1>1, <1>2, <1>3, <1>4, <1>5, <1>6, <1>7, <1>8, <1>9, <1>10, <1>11 DEF Next, Step

\* Every variable keeps its type, whoever pushes and pops when and whatever fails: a
\* manifest that is written is well formed, and only one call writes one.
THEOREM TypeCorrect == Spec => []TypeOK
BY InitType, NextType, PTL DEF Spec

-----------------------------------------------------------------------------
(***************************************************************************)
(* What a slot loads.                                                       *)
(*                                                                         *)
(* SlotsLoadTheirOwn speaks of the manifest on disk.  It is inductive only  *)
(* with what keeps the file of a slot from being written again: the slot's  *)
(* number is below the next one, also below the next one of the manifest,   *)
(* from which a new process goes on; and with where a slot comes from: an   *)
(* entry of an undo deque has a file name, which no other entry's pop takes *)
(* away, as no two of them have the same address.                           *)
(***************************************************************************)

\* Nothing but the writing of a manifest and the reading of an entry has failed.
Kept == mishaps \subseteq {"manifest", "load"}

\* The file of that name holds that content, or is gone, and no push with a number
\* from bound on writes it.
Numbered(name, what, bound) == name[1] < bound /\ store[name] \in {None, what}

\* All slots of a manifest.
AllNumbered(entries, bound) ==
    \A f \in Files : \A i \in DOMAIN entries[f] :
        Numbered(entries[f][i].name, entries[f][i].what, bound)

\* An entry has a name, and its file its content.
Filed(e) == names[e.id] # None /\ Numbered(names[e.id], e.what, nextSeq)

\* e is in an undo deque.
InUndo(e) == \E f \in Files : \E i \in DOMAIN stack["undo"][f] : stack["undo"][f][i] = e

\* No two entries of undo deques have the same address.
Apart ==
    \A f, g \in Files : \A i \in DOMAIN stack["undo"][f], j \in DOMAIN stack["undo"][g] :
        stack["undo"][f][i].id = stack["undo"][g][j].id => f = g /\ i = j

\* An entry that is being pushed is nowhere else yet; one that is being popped is
\* in no undo deque any more.
Apiece(c) ==
    /\ call[c].at \in {"write", "append", "unlink"} =>
          \A e \in Held : InUndo(e) => e.id # call[c].entry.id
    /\ call[c].at \in {"write", "append"} =>
          \A d \in Callers \ {c} : call[d].at # "idle" => call[d].entry.id # call[c].entry.id

\* The manifest, what is unread of it, and the one that is about to be written.
SlotsOwn ==
    /\ manifest.next <= nextSeq
    /\ AllNumbered(manifest.entries, manifest.next)
    /\ AllNumbered(unread, nextSeq)
    /\ \A c \in Callers : call[c].at = "rename" =>
          call[c].shot.next <= nextSeq /\ AllNumbered(call[c].shot.entries, call[c].shot.next)

\* The undo deques, and the calls that add to them and pop from them.
EntriesOwn ==
    /\ \A e \in Held : InUndo(e) => Filed(e)
    /\ \A c \in Callers : call[c].at = "append" => Filed(call[c].entry)
    /\ Apart
    /\ \A c \in Callers : Apiece(c)

Own == SlotsOwn /\ EntriesOwn

\* The inductive invariant behind SlotsLoadTheirOwn.
OwnInv == Kept => Own

\* The entries of a deque that has got another one: those it had, perhaps without
\* the oldest, and the new one.
LEMMA AppendedEntries ==
    ASSUME NEW S, NEW dq \in Seq(S), NEW e \in S
    PROVE  \E k \in {0, 1} :
              /\ Len(Appended(dq, e)) = Len(dq) + 1 - k
              /\ Len(dq) \in Nat /\ Len(Appended(dq, e)) \in Nat
              /\ \A i \in 1..(Len(dq) - k) : Appended(dq, e)[i] = dq[i + k]
              /\ Appended(dq, e)[Len(dq) + 1 - k] = e
<1>1. Len(dq) \in Nat /\ MaxUndo \in Nat \ {0}
  BY LenProperties, MaxUndoPositive
<1>2. CASE Len(dq) < MaxUndo
  <2>1. /\ Len(Append(dq, e)) = Len(dq) + 1
        /\ \A i \in 1..Len(dq) : Append(dq, e)[i] = dq[i]
        /\ Append(dq, e)[Len(dq) + 1] = e
    BY AppendProperties
  <2>2. Appended(dq, e) = Append(dq, e)
    BY <1>2 DEF Appended
  <2>3. /\ Len(Appended(dq, e)) = Len(dq) + 1 - 0
        /\ Len(Appended(dq, e)) \in Nat
        /\ \A i \in 1..(Len(dq) - 0) : Appended(dq, e)[i] = dq[i + 0]
        /\ Appended(dq, e)[Len(dq) + 1 - 0] = e
    BY <1>1, <2>1, <2>2
  <2> QED BY <1>1, <2>3
<1>3. CASE ~(Len(dq) < MaxUndo)
  <2> DEFINE w == Tail(dq)
  <2>1. dq # <<>> /\ Len(dq) \in Nat \ {0}
    BY <1>1, <1>3, EmptySeq
  <2>2. /\ w \in Seq(S) /\ Len(w) = Len(dq) - 1
        /\ \A i \in 1..Len(w) : w[i] = dq[i + 1]
    BY <2>1, HeadTailProperties
  <2> HIDE DEF w
  <2>3. /\ Len(Append(w, e)) = Len(w) + 1
        /\ \A i \in 1..Len(w) : Append(w, e)[i] = w[i]
        /\ Append(w, e)[Len(w) + 1] = e
    BY <2>2, AppendProperties
  <2>4. Appended(dq, e) = Append(w, e)
    BY <1>3 DEF Appended, w
  <2>5. Len(w) + 1 = Len(dq) + 1 - 1 /\ Len(w) = Len(dq) - 1
    BY <2>1, <2>2
  <2>6. /\ Len(Appended(dq, e)) = Len(dq) + 1 - 1
        /\ Len(Appended(dq, e)) \in Nat
        /\ \A i \in 1..(Len(dq) - 1) : Appended(dq, e)[i] = dq[i + 1]
        /\ Appended(dq, e)[Len(dq) + 1 - 1] = e
    BY <2>1, <2>2, <2>3, <2>4, <2>5
  <2> QED BY <1>1, <2>6
<1> QED BY <1>2, <1>3

\* A new entry at an address of its own.
LEMMA AppendApart ==
    ASSUME TypeOK, Apart, NEW f \in Files, NEW e \in Held,
           \A d \in Held : InUndo(d) => d.id # e.id,
           stack'["undo"][f] = Appended(stack["undo"][f], e),
           \A g \in Files \ {f} : stack'["undo"][g] = stack["undo"][g]
    PROVE  Apart' /\ \A d \in Held : InUndo(d)' => InUndo(d) \/ d = e
<1> DEFINE dq == stack["undo"][f]
           new == stack'["undo"][f]
<1>1. /\ dq \in Seq(Held) /\ \A g \in Files : stack["undo"][g] \in Seq(Held)
      /\ DOMAIN dq = 1..Len(dq) /\ Appended(dq, e) \in Seq(Held)
  BY AppendedBound, LenProperties DEF TypeOK, Ways
<1> HIDE DEF dq
<1>2. PICK k \in {0, 1} :
         /\ Len(Appended(dq, e)) = Len(dq) + 1 - k
         /\ Len(dq) \in Nat /\ Len(Appended(dq, e)) \in Nat
         /\ \A i \in 1..(Len(dq) - k) : Appended(dq, e)[i] = dq[i + k]
         /\ Appended(dq, e)[Len(dq) + 1 - k] = e
  BY <1>1, AppendedEntries
<1> USE DEF dq
<1>3. DOMAIN new = 1..(Len(dq) + 1 - k)
  BY <1>1, <1>2, LenProperties
<1>4. ASSUME NEW i \in DOMAIN new
      PROVE  \/ i = Len(dq) + 1 - k /\ new[i] = e
             \/ i + k \in DOMAIN dq /\ new[i] = dq[i + k]
  <2>1. CASE i = Len(dq) + 1 - k
    BY <1>2, <2>1
  <2>2. CASE i # Len(dq) + 1 - k
    <3>1. i \in 1..(Len(dq) - k) /\ i + k \in 1..Len(dq)
      BY <1>2, <1>3, <2>2
    <3> QED BY <1>1, <1>2, <3>1
  <2> QED BY <2>1, <2>2
<1>5. \A g \in Files : \A i \in DOMAIN stack["undo"][g] :
         stack["undo"][g][i] \in Held /\ InUndo(stack["undo"][g][i])
  <2>1. ASSUME NEW g \in Files, NEW i \in DOMAIN stack["undo"][g]
        PROVE  stack["undo"][g][i] \in Held /\ InUndo(stack["undo"][g][i])
    <3>1. i \in 1..Len(stack["undo"][g])
      BY <1>1, <2>1, LenProperties
    <3>2. stack["undo"][g][i] \in Held
      BY <1>1, <3>1, ElementOfSeq
    <3> QED BY <3>2, <2>1 DEF InUndo
  <2> QED BY <2>1
<1> HIDE DEF dq, new
<1>6. Apart'
  <2> SUFFICES ASSUME NEW g \in Files, NEW h \in Files,
                      NEW i \in DOMAIN stack'["undo"][g], NEW j \in DOMAIN stack'["undo"][h],
                      stack'["undo"][g][i].id = stack'["undo"][h][j].id
               PROVE  g = h /\ i = j
    BY DEF Apart
  <2>1. CASE g = f /\ h = f
    <3>1. \A m, n \in DOMAIN dq : dq[m].id = dq[n].id => m = n
      BY DEF Apart, dq
    <3>2. \A m \in DOMAIN dq : dq[m].id # e.id
      BY <1>5 DEF dq
    <3>3. i \in DOMAIN new /\ j \in DOMAIN new /\ new[i].id = new[j].id
      BY <2>1 DEF new
    <3>4. i \in Nat /\ j \in Nat
      BY <1>2, <1>3, <3>3
    <3> QED BY <1>2, <1>4, <2>1, <3>1, <3>2, <3>3, <3>4
  <2>2. CASE g = f /\ h # f
    <3>1. j \in DOMAIN stack["undo"][h] /\ stack'["undo"][h][j] = stack["undo"][h][j]
      BY <2>2
    <3>2. i \in DOMAIN new /\ new[i].id = stack["undo"][h][j].id
      BY <2>2, <3>1 DEF new
    <3>3. new[i] # e
      BY <1>5, <3>1, <3>2
    <3>4. i + k \in DOMAIN dq /\ dq[i + k].id = stack["undo"][h][j].id
      BY <1>4, <3>2, <3>3
    <3> QED BY <2>2, <3>1, <3>4 DEF Apart, dq
  <2>3. CASE g # f /\ h = f
    <3>1. i \in DOMAIN stack["undo"][g] /\ stack'["undo"][g][i] = stack["undo"][g][i]
      BY <2>3
    <3>2. j \in DOMAIN new /\ new[j].id = stack["undo"][g][i].id
      BY <2>3, <3>1 DEF new
    <3>3. new[j] # e
      BY <1>5, <3>1, <3>2
    <3>4. j + k \in DOMAIN dq /\ dq[j + k].id = stack["undo"][g][i].id
      BY <1>4, <3>2, <3>3
    <3> QED BY <2>3, <3>1, <3>4 DEF Apart, dq
  <2>4. CASE g # f /\ h # f
    BY <2>4 DEF Apart
  <2> QED BY <2>1, <2>2, <2>3, <2>4
<1>7. ASSUME NEW d \in Held, InUndo(d)' PROVE InUndo(d) \/ d = e
  <2>1. PICK g \in Files : \E i \in DOMAIN stack'["undo"][g] : stack'["undo"][g][i] = d
    BY <1>7 DEF InUndo
  <2>2. CASE g = f
    BY <1>4, <2>1, <2>2 DEF InUndo, dq, new
  <2>3. CASE g # f
    BY <2>1, <2>3 DEF InUndo
  <2> QED BY <2>2, <2>3
<1> QED BY <1>6, <1>7

\* The top of a deque that is popped is in no deque any more.
LEMMA PopApart ==
    ASSUME TypeOK, Apart, NEW f \in Files, stack["undo"][f] # <<>>,
           stack'["undo"][f] = Front(stack["undo"][f]),
           \A g \in Files \ {f} : stack'["undo"][g] = stack["undo"][g]
    PROVE  /\ Apart'
           /\ Last(stack["undo"][f]) \in Held /\ InUndo(Last(stack["undo"][f]))
           /\ \A d \in Held : InUndo(d)' => InUndo(d) /\ d.id # Last(stack["undo"][f]).id
<1> DEFINE dq == stack["undo"][f]
           n == Len(dq)
<1>1. /\ \A g \in Files : stack["undo"][g] \in Seq(Held)
      /\ dq \in Seq(Held) /\ DOMAIN dq = 1..n
  BY LenProperties DEF TypeOK, Ways
<1>2. /\ Front(dq) \in Seq(Held) /\ Len(Front(dq)) = n - 1
      /\ \A i \in 1..(n - 1) : Front(dq)[i] = dq[i]
      /\ Last(dq) \in Held /\ n \in Nat \ {0}
  BY <1>1, FrontLast
<1>3. DOMAIN Front(dq) = 1..(n - 1)
  BY <1>2, LenProperties
<1>4. n \in DOMAIN dq /\ dq[n] = Last(dq)
  BY <1>1, <1>2 DEF Last
<1>5. \A g \in Files : \A i \in DOMAIN stack'["undo"][g] :
         /\ i \in DOMAIN stack["undo"][g] /\ stack'["undo"][g][i] = stack["undo"][g][i]
         /\ g = f => i # n
  <2>1. ASSUME NEW g \in Files, NEW i \in DOMAIN stack'["undo"][g], g # f
        PROVE  i \in DOMAIN stack["undo"][g] /\ stack'["undo"][g][i] = stack["undo"][g][i]
    BY <2>1
  <2>2. ASSUME NEW i \in DOMAIN stack'["undo"][f]
        PROVE  i \in DOMAIN dq /\ stack'["undo"][f][i] = dq[i] /\ i # n
    <3>1. i \in 1..(n - 1)
      BY <1>3, <2>2
    <3>2. i \in 1..n /\ i # n
      BY <1>2, <3>1
    <3> QED BY <1>1, <1>2, <3>1, <3>2
  <2> QED BY <2>1, <2>2
<1> HIDE DEF n
<1>6. Apart'
  BY <1>5 DEF Apart
<1>7. InUndo(Last(dq))
  BY <1>4 DEF InUndo
<1>8. ASSUME NEW d \in Held, InUndo(d)' PROVE InUndo(d) /\ d.id # Last(dq).id
  <2>1. PICK g \in Files : \E j \in DOMAIN stack'["undo"][g] : stack'["undo"][g][j] = d
    BY <1>8 DEF InUndo
  <2>5. PICK i \in DOMAIN stack'["undo"][g] : stack'["undo"][g][i] = d
    BY <2>1
  <2>2. i \in DOMAIN stack["undo"][g] /\ stack["undo"][g][i] = d /\ (g = f => i # n)
    BY <1>5, <2>5
  <2>3. InUndo(d)
    BY <2>2 DEF InUndo
  <2>4. d.id # Last(dq).id
    BY <1>4, <2>2 DEF Apart
  <2> QED BY <2>3, <2>4
<1> QED BY <1>2, <1>6, <1>7, <1>8

\* No file with a number that has been used is written again.
Spared == \A n \in Names : n[1] < nextSeq => store'[n] \in {None, store[n]}

\* A name that holds its content goes on to.
LEMMA StaysNumbered ==
    ASSUME NEW n \in Names, NEW v, NEW b \in Nat, NEW b2 \in Nat,
           Numbered(n, v, b), nextSeq \in Nat, b <= b2, b <= nextSeq, Spared
    PROVE  n[1] < b2 /\ store'[n] \in {None, v}
<1>1. n[1] \in Nat
  BY DEF Names
<1>2. n[1] < nextSeq /\ n[1] < b2
  BY <1>1 DEF Numbered
<1> QED BY <1>2 DEF Spared, Numbered

\* And so do the slots of a manifest.
LEMMA StaysAllNumbered ==
    ASSUME NEW entries \in [Files -> Seq(Slot)], NEW b \in Nat, NEW b2 \in Nat,
           AllNumbered(entries, b), nextSeq \in Nat, b <= b2, b <= nextSeq, Spared
    PROVE  \A f \in Files : \A i \in DOMAIN entries[f] :
              /\ entries[f][i].name[1] < b2
              /\ store'[entries[f][i].name] \in {None, entries[f][i].what}
<1> SUFFICES ASSUME NEW f \in Files, NEW i \in DOMAIN entries[f]
             PROVE  /\ entries[f][i].name[1] < b2
                    /\ store'[entries[f][i].name] \in {None, entries[f][i].what}
  OBVIOUS
<1>1. entries[f] \in Seq(Slot)
  OBVIOUS
<1>2. entries[f][i] \in Slot
  BY <1>1, LenProperties, ElementOfSeq
<1>3. Numbered(entries[f][i].name, entries[f][i].what, b) /\ entries[f][i].name \in Names
  BY <1>2 DEF AllNumbered, Slot
<1> QED BY <1>3, StaysNumbered

\* While numbers only go up and no used file is written, the manifest and what is
\* unread of it keep their slots, and so does a call that holds the manifest lock.
LEMMA SlotsStay ==
    ASSUME TypeOK, TypeOK', SlotsOwn, Spared, nextSeq <= nextSeq',
           UNCHANGED <<manifest, unread>>,
           \A c \in Callers : call'[c].at = "rename" => call'[c] = call[c]
    PROVE  SlotsOwn'
<1>1. /\ manifest.next \in Nat /\ nextSeq \in Nat /\ nextSeq' \in Nat
      /\ manifest.entries \in [Files -> Seq(Slot)] /\ unread \in [Files -> Seq(Slot)]
  BY PersistentConstants DEF TypeOK, Manifests
<1>2. /\ manifest.next <= nextSeq /\ AllNumbered(manifest.entries, manifest.next)
      /\ AllNumbered(unread, nextSeq)
  BY DEF SlotsOwn
<1>3. manifest'.next <= nextSeq'
  BY <1>1, <1>2
<1>4. AllNumbered(manifest.entries, manifest.next)'
  BY <1>1, <1>2, StaysAllNumbered DEF AllNumbered, Numbered
<1>5. AllNumbered(unread, nextSeq)'
  <2>1. \A f \in Files : \A i \in DOMAIN unread[f] :
           /\ unread[f][i].name[1] < nextSeq'
           /\ store'[unread[f][i].name] \in {None, unread[f][i].what}
    <3>1. nextSeq <= nextSeq /\ nextSeq <= nextSeq'
      BY <1>1
    <3> QED BY <1>1, <1>2, <3>1, StaysAllNumbered
  <2>2. unread' = unread
    OBVIOUS
  <2> QED BY <2>1, <2>2 DEF AllNumbered, Numbered
<1>6. ASSUME NEW c \in Callers, call'[c].at = "rename"
      PROVE  /\ call'[c].shot.next <= nextSeq'
             /\ AllNumbered(call[c].shot.entries, call[c].shot.next)'
  <2>1. call'[c] = call[c] /\ call[c].at = "rename"
    BY <1>6
  <2>2. call[c].shot \in Manifests
    BY <2>1 DEF TypeOK, Formed
  <2>3. call[c].shot.next \in Nat /\ call[c].shot.entries \in [Files -> Seq(Slot)]
    BY <2>2, PersistentConstants DEF Manifests
  <2>4. call[c].shot.next <= nextSeq /\ AllNumbered(call[c].shot.entries, call[c].shot.next)
    BY <2>1 DEF SlotsOwn
  <2>5. call'[c].shot.next <= nextSeq'
    BY <1>1, <2>1, <2>3, <2>4
  <2>6. AllNumbered(call[c].shot.entries, call[c].shot.next)'
    BY <1>1, <2>1, <2>3, <2>4, StaysAllNumbered DEF AllNumbered, Numbered
  <2> QED BY <2>5, <2>6
<1> QED BY <1>3, <1>4, <1>5, <1>6 DEF SlotsOwn

\* An entry whose name is left alone stays filed.
LEMMA StaysFiled ==
    ASSUME TypeOK, TypeOK', Spared, nextSeq <= nextSeq', NEW e \in Held, Filed(e),
           names'[e.id] = names[e.id]
    PROVE  /\ names'[e.id] # None /\ names'[e.id][1] < nextSeq'
           /\ store'[names'[e.id]] \in {None, e.what}
<1>1. /\ names[e.id] \in Names /\ nextSeq \in Nat /\ nextSeq' \in Nat
      /\ Numbered(names[e.id], e.what, nextSeq) /\ names[e.id] # None
  BY PersistentConstants DEF TypeOK, Held, Filed
<1> QED BY <1>1, StaysNumbered

\* The address of an entry in an undo deque is taken, and so is that of a call's entry.
LEMMA InUse ==
    ASSUME TypeOK
    PROVE  /\ \A e \in Held : InUndo(e) => e.id \in Live
           /\ \A c \in Callers : call[c].at # "idle" =>
                 call[c].entry \in Held /\ call[c].entry.id \in Live
<1>1. ASSUME NEW e \in Held, InUndo(e) PROVE e.id \in Live
  <2>1. PICK f \in Files : \E i \in DOMAIN stack["undo"][f] : stack["undo"][f][i] = e
    BY <1>1 DEF InUndo
  <2>2. e.id \in Objects /\ "undo" \in Ways
    BY DEF Held, Ways
  <2>3. \E i \in DOMAIN stack["undo"][f] : stack["undo"][f][i].id = e.id
    BY <2>1
  <2> QED BY <2>2, <2>3 DEF Live
<1>2. ASSUME NEW c \in Callers, call[c].at # "idle"
      PROVE  call[c].entry \in Held /\ call[c].entry.id \in Live
  <2>1. call[c].entry \in Held /\ call[c] # Idle
    BY <1>2 DEF TypeOK, Formed
  <2>2. call[c].entry.id \in Objects
    BY <2>1 DEF Held
  <2> QED BY <2>1, <2>2 DEF Live
<1> QED BY <1>1, <1>2

\* A new entry has an address of its own.
LEMMA PushOwn ==
    ASSUME TypeOK, TypeOK', Own, NEW c \in Callers, NEW f \in Files, Push(c, f)
    PROVE  Own'
<1>1. PICK id \in Objects \ Live, v \in Contents :
         call' = [call EXCEPT ![c] = [Idle EXCEPT !.at = "write", !.file = f,
                                                  !.entry = [id |-> id, what |-> v]]]
  BY DEF Push
<1>2. /\ UNCHANGED <<stack, nextSeq, names, store, manifest, unread>>
      /\ call[c] = Idle /\ call \in [Callers -> Calls] /\ nextSeq \in Nat
  BY PersistentConstants DEF Push, memory, files, TypeOK
<1>3. /\ call'[c].at = "write" /\ call'[c].entry.id = id
      /\ \A d \in Callers \ {c} : call'[d] = call[d]
  BY <1>1, <1>2 DEF Idle
<1> DEFINE e == call'[c].entry
<1>4. SlotsOwn'
  <2>1. nextSeq <= nextSeq' /\ Spared
    BY <1>2 DEF Spared
  <2> QED BY <1>2, <1>3, <2>1, SlotsStay DEF Own
<1>5. \A d \in Held : InUndo(d)' => InUndo(d) /\ d.id # id
  BY <1>2, InUse DEF InUndo
<1>6. \A d \in Callers : call[d].at # "idle" => call[d].entry.id # id
  BY InUse
<1>7. \A d \in Callers : Apiece(d)'
  BY <1>3, <1>5, <1>6 DEF Own, EntriesOwn, Apiece
<1>8. \A d \in Callers : call'[d].at = "append" => Filed(call[d].entry)'
  BY <1>2, <1>3 DEF Own, EntriesOwn, Filed, Numbered
<1>9. Apart' /\ \A d \in Held : InUndo(d)' => Filed(d)'
  BY <1>2, <1>5 DEF Own, EntriesOwn, Apart, Filed, Numbered
<1> QED BY <1>4, <1>7, <1>8, <1>9 DEF Own, EntriesOwn

\* The file is written under a number that no file has had.
LEMMA WriteEntryOwn ==
    ASSUME TypeOK, TypeOK', Own, NEW c \in Callers, WriteEntry(c), Kept'
    PROVE  Own'
<1> DEFINE e == call[c].entry
           name == <<nextSeq, SafeName[call[c].file]>>
<1>1. /\ call[c].at = "write" /\ e \in Held /\ nextSeq \in Nat /\ nextSeq' = nextSeq + 1
      /\ call \in [Callers -> Calls] /\ names \in [Objects -> Names \cup {None}]
      /\ store \in [Names -> Contents \cup {None}]
      /\ UNCHANGED <<stack, manifest, unread>>
  BY PersistentConstants DEF WriteEntry, At, TypeOK, Formed
<1>2. store' = [store EXCEPT ![name] = e.what] /\ names' = [names EXCEPT ![e.id] = name]
  BY DEF WriteEntry, Kept, Suffer
<1>3. /\ call'[c].at = "append" /\ call'[c].entry = e
      /\ \A d \in Callers \ {c} : call'[d] = call[d]
  BY <1>1 DEF WriteEntry, Go, Calls
<1>4. name \in Names /\ name # None /\ name[1] = nextSeq
  BY NoNameIsNone DEF WriteEntry, Names, TypeOK, Formed, At
<1>5. Spared /\ nextSeq <= nextSeq'
  BY <1>1, <1>2, <1>4 DEF Spared
<1> HIDE DEF name, e
<1>6. SlotsOwn'
  BY <1>1, <1>3, <1>5, SlotsStay DEF Own
<1>7. \A d \in Held : InUndo(d)' => InUndo(d) /\ d.id # e.id
  BY <1>1 DEF Own, EntriesOwn, Apiece, InUndo, e
<1>8. ASSUME NEW d \in Held, Filed(d), d.id # e.id PROVE Filed(d)'
  <2>1. names'[d.id] = names[d.id]
    BY <1>1, <1>2, <1>8 DEF Held
  <2> QED BY <1>5, <1>8, <2>1, StaysFiled DEF Filed, Numbered
<1>9. Filed(e)'
  <2>1. names'[e.id] = name /\ store'[name] = e.what /\ name[1] < nextSeq'
    BY <1>1, <1>2, <1>4 DEF Held
  <2>2. UNCHANGED e
    BY <1>3 DEF e
  <2> QED BY <1>4, <2>1, <2>2 DEF Filed, Numbered
<1>10. \A d \in Callers \ {c} : call[d].at # "idle" =>
          call[d].entry \in Held /\ call[d].entry.id # e.id
  BY <1>1, InUse DEF Own, EntriesOwn, Apiece, e
<1>11. ASSUME NEW d \in Callers, call'[d].at = "append" PROVE Filed(call[d].entry)'
  <2>1. CASE d = c
    BY <1>3, <1>9, <2>1 DEF e
  <2>2. CASE d # c
    <3>1. /\ call'[d].entry = call[d].entry /\ call[d].at = "append"
          /\ call[d].entry \in Held /\ call[d].entry.id # e.id
      BY <1>3, <1>10, <1>11, <2>2
    <3>2. Filed(call[d].entry)
      BY <3>1 DEF Own, EntriesOwn
    <3> DEFINE x == call[d].entry
    <3>3. x \in Held /\ Filed(x) /\ x.id # e.id /\ UNCHANGED x
      BY <3>1, <3>2
    <3>4. names'[x.id] = names[x.id]
      BY <1>1, <1>2, <3>3 DEF Held
    <3> HIDE DEF x
    <3>5. names'[x.id] # None /\ names'[x.id][1] < nextSeq' /\ store'[names'[x.id]] \in {None, x.what}
      BY <1>5, <3>3, <3>4, StaysFiled
    <3> QED BY <3>3, <3>5 DEF Filed, Numbered, x
  <2> QED BY <2>1, <2>2
<1>12. Apart' /\ \A d \in Held : InUndo(d)' => Filed(d)'
  BY <1>1, <1>7, <1>8 DEF Own, EntriesOwn, Apart
<1>13. \A d \in Callers : Apiece(d)'
  BY <1>1, <1>3, <1>7, <1>10 DEF Own, EntriesOwn, Apiece, e
<1> QED BY <1>6, <1>11, <1>12, <1>13 DEF Own, EntriesOwn

\* An entry joins the undo deque with its name, and the redo deque is emptied.
LEMMA RememberOwn ==
    ASSUME TypeOK, TypeOK', Own, NEW c \in Callers, Remember(c)
    PROVE  Own'
<1> DEFINE e == call[c].entry
           f == call[c].file
<1>1. /\ call[c].at = "append" /\ e \in Held /\ f \in Files /\ nextSeq \in Nat
      /\ call \in [Callers -> Calls]
      /\ UNCHANGED <<nextSeq, names, store, manifest, unread>>
  <2>1. call[c].at = "append" /\ UNCHANGED <<nextSeq, names, store, manifest, unread>>
    BY DEF Remember, At, files
  <2>2. Formed(call[c]) /\ nextSeq \in Nat /\ call \in [Callers -> Calls]
    BY PersistentConstants DEF TypeOK
  <2> QED BY <2>1, <2>2 DEF Formed
<1>2. /\ call'[c].at = "save" /\ \A d \in Callers \ {c} : call'[d] = call[d]
  BY <1>1 DEF Remember, Calls
<1>3. /\ stack'["undo"][f] = Appended(stack["undo"][f], e)
      /\ \A g \in Files \ {f} : stack'["undo"][g] = stack["undo"][g]
  BY <1>1 DEF Remember, TypeOK, Ways
<1>4. SlotsOwn'
  <2>1. nextSeq <= nextSeq' /\ Spared
    BY <1>1 DEF Spared
  <2> QED BY <1>1, <1>2, <2>1, SlotsStay DEF Own
<1> HIDE DEF e, f
<1>5. \A d \in Held : InUndo(d) => d.id # e.id
  BY <1>1 DEF Own, EntriesOwn, Apiece, e
<1>6. Apart' /\ \A d \in Held : InUndo(d)' => InUndo(d) \/ d = e
  BY <1>1, <1>3, <1>5, AppendApart DEF Own, EntriesOwn
<1>7. \A d \in Held : InUndo(d)' => Filed(d)
  BY <1>1, <1>6 DEF Own, EntriesOwn, e
<1>8. \A d \in Held : InUndo(d)' => Filed(d)'
  BY <1>1, <1>7 DEF Filed, Numbered
<1>9. \A d \in Callers : call'[d].at = "append" => Filed(call[d].entry)'
  BY <1>1, <1>2 DEF Own, EntriesOwn, Filed, Numbered
<1>10. \A d \in Callers \ {c} :
          call[d].at \in {"write", "append", "unlink"} => call[d].entry.id # e.id
  BY <1>1 DEF Own, EntriesOwn, Apiece, e
<1>11. ASSUME NEW d \in Callers PROVE Apiece(d)'
  <2>1. CASE d = c
    BY <1>2, <2>1 DEF Apiece
  <2>2. CASE d # c
    <3>1. call'[d] = call[d] /\ Apiece(d)
      BY <1>2, <2>2 DEF Own, EntriesOwn
    <3>2. \A x \in Callers : call'[x].at # "idle" =>
             call[x].at # "idle" /\ call'[x].entry = call[x].entry
      BY <1>1, <1>2 DEF Remember, Calls
    <3> QED BY <1>6, <1>10, <2>2, <3>1, <3>2 DEF Apiece
  <2> QED BY <2>1, <2>2
<1> QED BY <1>4, <1>6, <1>8, <1>9, <1>11 DEF Own, EntriesOwn

\* The entry that is popped leaves the undo deques.
LEMMA PopUndoOwn ==
    ASSUME TypeOK, TypeOK', Own, NEW c \in Callers, NEW f \in Files, PopUndo(c, f)
    PROVE  Own'
<1> DEFINE e == Last(stack["undo"][f])
<1>1. /\ call[c] = Idle /\ nextSeq \in Nat /\ call \in [Callers -> Calls]
      /\ UNCHANGED <<nextSeq, names, store, manifest, unread>>
      /\ stack["undo"][f] # <<>>
  BY PersistentConstants DEF PopUndo, Move, TypeOK, files
<1>2. /\ call'[c].at = "unlink" /\ call'[c].entry = e
      /\ \A d \in Callers \ {c} : call'[d] = call[d]
  BY <1>1 DEF PopUndo, Idle
<1>3. /\ stack'["undo"][f] = Front(stack["undo"][f])
      /\ \A g \in Files \ {f} : stack'["undo"][g] = stack["undo"][g]
  BY DEF PopUndo, Move, Other, TypeOK, Ways
<1>4. SlotsOwn'
  <2>1. nextSeq <= nextSeq' /\ Spared
    BY <1>1 DEF Spared
  <2> QED BY <1>1, <1>2, <2>1, SlotsStay DEF Own
<1>5. /\ Apart' /\ e \in Held /\ InUndo(e)
      /\ \A d \in Held : InUndo(d)' => InUndo(d) /\ d.id # e.id
  BY <1>1, <1>3, PopApart DEF Own, EntriesOwn
<1> HIDE DEF e
<1>6. \A d \in Held : InUndo(d)' => Filed(d)'
  BY <1>1, <1>5 DEF Own, EntriesOwn, Filed, Numbered
<1>7. \A d \in Callers : call'[d].at = "append" => Filed(call[d].entry)'
  BY <1>1, <1>2 DEF Own, EntriesOwn, Filed, Numbered
<1>8. \A d \in Callers : call[d].at \in {"write", "append"} => call[d].entry.id # e.id
  BY <1>5 DEF Own, EntriesOwn, Apiece
<1>9. ASSUME NEW d \in Callers PROVE Apiece(d)'
  <2>1. CASE d = c
    BY <1>2, <1>5, <2>1 DEF Apiece
  <2>2. CASE d # c
    <3>1. call'[d] = call[d] /\ Apiece(d)
      BY <1>2, <2>2 DEF Own, EntriesOwn
    <3> QED BY <1>2, <1>5, <1>8, <2>2, <3>1 DEF Apiece
  <2> QED BY <2>1, <2>2
<1> QED BY <1>4, <1>5, <1>6, <1>7, <1>9 DEF Own, EntriesOwn

\* The name that is forgotten is no other entry's, and the file goes for good.
LEMMA RemoveEntryFileOwn ==
    ASSUME TypeOK, TypeOK', Own, NEW c \in Callers, RemoveEntryFile(c)
    PROVE  Own'
<1> DEFINE id == call[c].entry.id
<1>1. /\ call[c].at = "unlink" /\ call[c].entry \in Held /\ nextSeq \in Nat
      /\ call \in [Callers -> Calls] /\ names \in [Objects -> Names \cup {None}]
      /\ store \in [Names -> Contents \cup {None}]
      /\ names' = [names EXCEPT ![id] = None]
      /\ UNCHANGED <<stack, nextSeq, manifest, unread>>
  BY PersistentConstants DEF RemoveEntryFile, At, TypeOK, Formed
<1>2. /\ call'[c].at = "save" /\ call'[c].entry = call[c].entry
      /\ \A d \in Callers \ {c} : call'[d] = call[d]
  BY <1>1 DEF RemoveEntryFile, Calls
<1>3. id \in Objects
  BY <1>1 DEF Held
<1>4. Spared /\ nextSeq <= nextSeq'
  BY <1>1, <1>3 DEF RemoveEntryFile, Spared
<1>5. SlotsOwn'
  BY <1>1, <1>2, <1>4, SlotsStay DEF Own
<1>6. /\ \A d \in Held : InUndo(d) => d.id # id
      /\ \A d \in Callers : call[d].at \in {"write", "append"} => call[d].entry.id # id
  <2>1. Apiece(c) /\ \A d \in Callers : Apiece(d)
    BY DEF Own, EntriesOwn
  <2> QED BY <1>1, <2>1 DEF Apiece
<1> HIDE DEF id
<1>7. ASSUME NEW d \in Held, Filed(d), d.id # id PROVE Filed(d)'
  <2>1. names'[d.id] = names[d.id]
    BY <1>1, <1>7 DEF Held
  <2> QED BY <1>4, <1>7, <2>1, StaysFiled DEF Filed, Numbered
<1>8. \A d \in Held : InUndo(d)' => Filed(d)'
  BY <1>1, <1>6, <1>7 DEF Own, EntriesOwn, InUndo
<1>9. ASSUME NEW d \in Callers, call'[d].at = "append" PROVE Filed(call[d].entry)'
  <2> DEFINE x == call[d].entry
  <2>1. d # c /\ call'[d] = call[d] /\ call[d].at = "append"
    BY <1>2, <1>9
  <2>2. x \in Held /\ Filed(x) /\ x.id # id /\ UNCHANGED x
    BY <1>6, <2>1 DEF Own, EntriesOwn, TypeOK, Formed
  <2>3. names'[x.id] = names[x.id]
    BY <1>1, <2>2 DEF Held
  <2> HIDE DEF x
  <2>4. names'[x.id] # None /\ names'[x.id][1] < nextSeq' /\ store'[names'[x.id]] \in {None, x.what}
    BY <1>4, <2>2, <2>3, StaysFiled
  <2> QED BY <2>2, <2>4 DEF Filed, Numbered, x
<1>10. Apart' /\ \A d \in Held : InUndo(d)' <=> InUndo(d)
  BY <1>1 DEF Own, EntriesOwn, Apart, InUndo
<1>11. ASSUME NEW d \in Callers PROVE Apiece(d)'
  <2>1. Apiece(d)
    BY DEF Own, EntriesOwn
  <2> QED BY <1>1, <1>2, <1>10, <2>1 DEF Apiece
<1> QED BY <1>5, <1>8, <1>9, <1>10, <1>11 DEF Own, EntriesOwn

\* What a manifest is made of: every entry has its name, so that none is made up.
LEMMA ImageOwn ==
    ASSUME TypeOK, EntriesOwn
    PROVE  /\ Image.next = nextSeq /\ AllNumbered(Image.entries, nextSeq)
           /\ \A f \in Files, id \in Objects :
                 (\E g \in Files : Undoable(g, id)) => NameOf(f, id) = names[id]
<1>1. ASSUME NEW g \in Files, NEW i \in DOMAIN stack["undo"][g]
      PROVE  stack["undo"][g][i] \in Held /\ Filed(stack["undo"][g][i])
  <2>1. stack["undo"][g] \in Seq(Held)
    BY DEF TypeOK, Ways
  <2>2. stack["undo"][g][i] \in Held
    BY <2>1, LenProperties, ElementOfSeq
  <2>3. InUndo(stack["undo"][g][i])
    BY DEF InUndo
  <2> QED BY <2>2, <2>3 DEF EntriesOwn
<1>2. \A f \in Files, id \in Objects :
         (\E g \in Files : Undoable(g, id)) => NameOf(f, id) = names[id]
  BY <1>1 DEF Undoable, NameOf, Filed
<1>3. ASSUME NEW f \in Files, NEW i \in DOMAIN Image.entries[f]
      PROVE  Numbered(Image.entries[f][i].name, Image.entries[f][i].what, nextSeq)
  <2> DEFINE e == stack["undo"][f][i]
  <2>1. i \in DOMAIN stack["undo"][f]
    BY <1>3 DEF Image
  <2>2. Image.entries[f][i] = [name |-> NameOf(f, e.id), what |-> e.what]
    BY <2>1 DEF Image
  <2>3. e \in Held /\ Filed(e)
    BY <1>1, <2>1
  <2> HIDE DEF e
  <2>4. NameOf(f, e.id) = names[e.id]
    BY <2>3 DEF NameOf, Filed
  <2> QED BY <2>2, <2>3, <2>4 DEF Filed
<1> QED BY <1>2, <1>3 DEF AllNumbered, Image

\* The snapshot changes no name.
LEMMA SnapshotOwn ==
    ASSUME TypeOK, TypeOK', Own, NEW c \in Callers, Snapshot(c)
    PROVE  Own'
<1>1. /\ call[c].at = "save" /\ nextSeq \in Nat /\ call \in [Callers -> Calls]
      /\ names \in [Objects -> Names \cup {None}]
      /\ UNCHANGED <<stack, nextSeq, store, manifest, unread>>
  BY PersistentConstants DEF Snapshot, At, TypeOK, files
<1>2. /\ call'[c].at = "rename" /\ call'[c].shot = Image /\ call'[c].entry = call[c].entry
      /\ \A d \in Callers \ {c} : call'[d] = call[d]
  BY <1>1 DEF Snapshot, Calls
<1>3. /\ Image.next = nextSeq /\ AllNumbered(Image.entries, nextSeq)
      /\ \A f \in Files, id \in Objects :
            (\E g \in Files : Undoable(g, id)) => NameOf(f, id) = names[id]
  BY ImageOwn DEF Own
<1>4. names' = names
  <2>1. \A id \in Objects : (\E f \in Files : Undoable(f, id)) =>
           NameOf(CHOOSE f \in Files : Undoable(f, id), id) = names[id]
    BY <1>3
  <2> QED BY <1>1, <2>1 DEF Snapshot
<1>5. ASSUME NEW d \in Callers, call'[d].at = "rename"
      PROVE  /\ call'[d].shot.next <= nextSeq'
             /\ AllNumbered(call[d].shot.entries, call[d].shot.next)'
  <2>1. CASE d = c
    <3>1. call'[d].shot = Image
      BY <1>2, <2>1
    <3>2. nextSeq <= nextSeq' /\ Image.next = nextSeq
      BY <1>1, <1>3
    <3> QED BY <1>1, <1>3, <3>1, <3>2 DEF AllNumbered, Numbered
  <2>2. CASE d # c
    <3>1. call'[d] = call[d]
      BY <1>2, <2>2
    <3> QED BY <1>1, <1>5, <3>1 DEF Own, SlotsOwn, AllNumbered, Numbered
  <2> QED BY <2>1, <2>2
<1>6. SlotsOwn'
  BY <1>1, <1>5 DEF Own, SlotsOwn, AllNumbered, Numbered
<1>7. \A d \in Held : InUndo(d)' <=> InUndo(d)
  BY <1>1 DEF InUndo
<1>8. \A d \in Callers : Apiece(d)'
  BY <1>1, <1>2, <1>7 DEF Own, EntriesOwn, Apiece
<1>9. \A d \in Callers : call'[d].at = "append" => Filed(call[d].entry)'
  BY <1>1, <1>2, <1>4 DEF Own, EntriesOwn, Filed, Numbered
<1>10. Apart' /\ \A d \in Held : InUndo(d)' => Filed(d)'
  BY <1>1, <1>4, <1>7 DEF Own, EntriesOwn, Apart, Filed, Numbered
<1> QED BY <1>6, <1>8, <1>9, <1>10 DEF Own, EntriesOwn

\* The manifest becomes the shot, or stays.
LEMMA WriteManifestOwn ==
    ASSUME TypeOK, TypeOK', Own, NEW c \in Callers, WriteManifest(c)
    PROVE  Own'
<1>1. /\ call[c].at = "rename" /\ call \in [Callers -> Calls]
      /\ UNCHANGED <<stack, nextSeq, names, store, unread>>
      /\ manifest' \in {manifest, call[c].shot}
  BY DEF WriteManifest, At, TypeOK, memory
<1>2. /\ call'[c].at = "idle" /\ \A d \in Callers \ {c} : call'[d] = call[d]
  BY <1>1 DEF WriteManifest, Return, Idle
<1>3. manifest'.next <= nextSeq' /\ AllNumbered(manifest.entries, manifest.next)'
  BY <1>1 DEF Own, SlotsOwn, AllNumbered, Numbered
<1>4. SlotsOwn'
  BY <1>1, <1>2, <1>3 DEF Own, SlotsOwn, AllNumbered, Numbered
<1>5. \A d \in Held : InUndo(d)' <=> InUndo(d)
  BY <1>1 DEF InUndo
<1>6. \A d \in Callers : Apiece(d)'
  BY <1>1, <1>2, <1>5 DEF Own, EntriesOwn, Apiece
<1>7. \A d \in Callers : call'[d].at = "append" => Filed(call[d].entry)'
  BY <1>1, <1>2 DEF Own, EntriesOwn, Filed, Numbered
<1>8. Apart' /\ \A d \in Held : InUndo(d)' => Filed(d)'
  BY <1>1, <1>5 DEF Own, EntriesOwn, Apart, Filed, Numbered
<1> QED BY <1>4, <1>6, <1>7, <1>8 DEF Own, EntriesOwn

\* A new process goes on from the manifest's next number.
LEMMA RestartOwn ==
    ASSUME TypeOK, TypeOK', Own, Restart, Kept'
    PROVE  Own'
<1>1. /\ nextSeq' = manifest.next /\ unread' = manifest.entries
      /\ \A c \in Callers : call'[c].at = "idle"
      /\ \A f \in Files : stack'["undo"][f] = <<>>
      /\ UNCHANGED <<store, manifest>>
  BY DEF Restart, LoadedSeq, files, Idle, Ways, Kept, Suffer
<1>2. manifest.next \in Nat
  BY PersistentConstants DEF TypeOK, Manifests
<1>3. SlotsOwn'
  BY <1>1, <1>2 DEF Own, SlotsOwn, AllNumbered, Numbered
<1>4. Apart' /\ \A e \in Held : ~InUndo(e)'
  BY <1>1, EmptySeq DEF Apart, InUndo
<1> QED BY <1>1, <1>3, <1>4 DEF Own, EntriesOwn, Apiece

\* A slot that is loaded makes an entry with the slot's name and the file's content.
LEMMA LoadOwn ==
    ASSUME TypeOK, TypeOK', Own, NEW f \in Files, Load(f)
    PROVE  Own'
<1> DEFINE slot == Head(unread[f])
<1>1. /\ unread[f] \in Seq(Slot) /\ unread[f] # <<>> /\ unread \in [Files -> Seq(Slot)]
      /\ stack \in [Ways -> [Files -> Seq(Held)]] /\ nextSeq \in Nat
      /\ names \in [Objects -> Names \cup {None}]
      /\ store \in [Names -> Contents \cup {None}]
      /\ unread' = [unread EXCEPT ![f] = Tail(unread[f])]
      /\ UNCHANGED <<nextSeq, call, store, manifest>>
  BY PersistentConstants DEF Load, TypeOK, files
<1>2. /\ slot \in Slot /\ slot = unread[f][1] /\ Len(unread[f]) \in Nat \ {0}
      /\ Tail(unread[f]) \in Seq(Slot) /\ Len(Tail(unread[f])) = Len(unread[f]) - 1
      /\ \A i \in 1..Len(Tail(unread[f])) : Tail(unread[f])[i] = unread[f][i + 1]
  BY <1>1, HeadTailProperties, EmptySeq, LenProperties
<1>3. AllNumbered(unread, nextSeq)
  BY DEF Own, SlotsOwn
<1>4. slot.name \in Names /\ Numbered(slot.name, slot.what, nextSeq)
  <2>1. 1 \in DOMAIN unread[f]
    BY <1>1, <1>2, LenProperties
  <2> QED BY <1>2, <1>3, <2>1 DEF AllNumbered, Slot
<1>5. AllNumbered(unread, nextSeq)'
  <2> SUFFICES ASSUME NEW g \in Files, NEW i \in DOMAIN unread'[g]
               PROVE  Numbered(unread'[g][i].name, unread'[g][i].what, nextSeq)
    BY <1>1 DEF AllNumbered, Numbered
  <2>1. CASE g # f
    BY <1>1, <1>3, <2>1 DEF AllNumbered
  <2>2. CASE g = f
    <3>1. unread'[g] = Tail(unread[f]) /\ DOMAIN unread'[g] = 1..(Len(unread[f]) - 1)
      BY <1>1, <1>2, <2>2, LenProperties
    <3>2. i \in 1..Len(Tail(unread[f])) /\ i + 1 \in DOMAIN unread[f]
      BY <1>1, <1>2, <3>1, LenProperties
    <3>3. unread'[g][i] = unread[f][i + 1]
      BY <1>2, <3>1, <3>2
    <3> QED BY <1>3, <3>2, <3>3 DEF AllNumbered
  <2> QED BY <2>1, <2>2
<1>6. SlotsOwn'
  BY <1>1, <1>5 DEF Own, SlotsOwn, AllNumbered, Numbered
<1> HIDE DEF slot
<1>7. CASE UNCHANGED <<stack, names>>
  <2>1. \A d \in Held : InUndo(d)' <=> InUndo(d)
    BY <1>7 DEF InUndo
  <2>2. \A d \in Callers : Apiece(d)'
    BY <1>1, <2>1 DEF Own, EntriesOwn, Apiece
  <2>3. \A d \in Callers : call'[d].at = "append" => Filed(call[d].entry)'
    BY <1>1, <1>7 DEF Own, EntriesOwn, Filed, Numbered
  <2>4. Apart' /\ \A d \in Held : InUndo(d)' => Filed(d)'
    BY <1>1, <1>7, <2>1 DEF Own, EntriesOwn, Apart, Filed, Numbered
  <2> QED BY <1>6, <2>2, <2>3, <2>4 DEF Own, EntriesOwn
<1>8. ASSUME NEW id \in Objects \ Live, store[slot.name] # None,
             stack' = [stack EXCEPT !["undo"][f] =
                          Appended(@, [id |-> id, what |-> store[slot.name]])],
             names' = [names EXCEPT ![id] = slot.name]
      PROVE  Own'
  <2> DEFINE e == [id |-> id, what |-> store[slot.name]]
  <2>1. e \in Held /\ e.id = id /\ e.what = store[slot.name]
    BY <1>1, <1>4, <1>8 DEF Held
  <2>2. /\ stack'["undo"][f] = Appended(stack["undo"][f], e)
        /\ \A g \in Files \ {f} : stack'["undo"][g] = stack["undo"][g]
    BY <1>1, <1>8 DEF Ways
  <2> HIDE DEF e
  <2>3. \A d \in Held : InUndo(d) => d.id # id
    BY InUse
  <2>4. Apart' /\ \A d \in Held : InUndo(d)' => InUndo(d) \/ d = e
    BY <2>1, <2>2, <2>3, AppendApart DEF Own, EntriesOwn
  <2>5. names'[id] = slot.name /\ \A x \in Objects \ {id} : names'[x] = names[x]
    BY <1>1, <1>8
  <2>6. ASSUME NEW d \in Held, d = e PROVE Filed(d)'
    <3>1. names'[d.id] = slot.name /\ d.what = store[slot.name] /\ store' = store
      BY <1>1, <2>1, <2>5, <2>6
    <3>2. slot.name # None /\ slot.name[1] < nextSeq'
      BY <1>1, <1>4, NoNameIsNone DEF Numbered
    <3> QED BY <3>1, <3>2 DEF Filed, Numbered
  <2>7. \A d \in Held : InUndo(d)' => Filed(d)'
    <3>1. ASSUME NEW d \in Held, InUndo(d) PROVE Filed(d)'
      <4>1. Filed(d) /\ d.id \in Objects \ {id}
        BY <2>3, <3>1 DEF Own, EntriesOwn, Held
      <4> QED BY <1>1, <2>5, <4>1 DEF Filed, Numbered
    <3> QED BY <2>4, <2>6, <3>1
  <2>8. \A d \in Callers : call[d].at # "idle" =>
           call[d].entry \in Held /\ call[d].entry.id # id
    BY InUse
  <2>9. ASSUME NEW d \in Callers, call'[d].at = "append" PROVE Filed(call[d].entry)'
    <3>1. call[d].at = "append" /\ UNCHANGED call[d].entry
      BY <1>1, <2>9
    <3>2. Filed(call[d].entry) /\ call[d].entry.id \in Objects \ {id}
      BY <2>8, <3>1 DEF Own, EntriesOwn, Held
    <3> QED BY <1>1, <2>5, <3>1, <3>2 DEF Filed, Numbered
  <2>10. \A d \in Callers : Apiece(d)'
    BY <1>1, <2>1, <2>4, <2>8 DEF Own, EntriesOwn, Apiece
  <2> QED BY <1>6, <2>4, <2>7, <2>9, <2>10 DEF Own, EntriesOwn
<1> QED BY <1>7, <1>8 DEF Load, slot

\* Every step keeps the invariant.
LEMMA NextOwn == TypeOK /\ TypeOK' /\ OwnInv /\ [Next]_vars => OwnInv'
<1> SUFFICES ASSUME TypeOK, TypeOK', OwnInv, [Next]_vars, Kept' PROVE Own'
  BY DEF OwnInv
<1>1. mishaps \subseteq mishaps'
  BY DEF Next, Step, Push, WriteEntry, Remember, PopUndo, RemoveEntryFile, PopInMemory,
         Snapshot, WriteManifest, Restart, Load, vars, Suffer
<1>2. Own
  BY <1>1 DEF OwnInv, Kept
<1>3. ASSUME NEW c \in Callers, Step(c) PROVE Own'
  <2>1. ASSUME NEW f \in Files, Push(c, f) PROVE Own'
    BY <1>2, <2>1, PushOwn
  <2>2. ASSUME NEW f \in Files, PopUndo(c, f) PROVE Own'
    BY <1>2, <2>2, PopUndoOwn
  <2>3. ASSUME NEW f \in Files, NEW way \in Ways, PopInMemory(c, f, way) PROVE Own'
    BY <2>3 DEF PopInMemory, Suffer, Kept
  <2>4. CASE WriteEntry(c)
    BY <1>2, <2>4, WriteEntryOwn
  <2>5. CASE Remember(c)
    BY <1>2, <2>5, RememberOwn
  <2>6. CASE RemoveEntryFile(c)
    BY <1>2, <2>6, RemoveEntryFileOwn
  <2>7. CASE Snapshot(c)
    BY <1>2, <2>7, SnapshotOwn
  <2>8. CASE WriteManifest(c)
    BY <1>2, <2>8, WriteManifestOwn
  <2> QED BY <1>3, <2>1, <2>2, <2>3, <2>4, <2>5, <2>6, <2>7, <2>8 DEF Step
<1>4. ASSUME NEW f \in Files, Load(f) PROVE Own'
  BY <1>2, <1>4, LoadOwn
<1>5. CASE Restart
  BY <1>2, <1>5, RestartOwn
<1>6. CASE UNCHANGED vars
  BY <1>2, <1>6 DEF vars, memory, files, Own, SlotsOwn, EntriesOwn, AllNumbered, Numbered,
                    Filed, InUndo, Apart, Apiece
<1> QED BY <1>3, <1>4, <1>5, <1>6 DEF Next

\* It holds before anything is pushed.
LEMMA InitOwn == Init => OwnInv
<1> SUFFICES ASSUME Init PROVE Own
  BY DEF OwnInv
<1>1. \A f \in Files : DOMAIN stack["undo"][f] = {} /\ DOMAIN unread[f] = {}
                       /\ DOMAIN manifest.entries[f] = {}
  BY EmptySeq DEF Init, Ways
<1>2. manifest.next <= nextSeq
  BY DEF Init
<1>3. \A c \in Callers : call[c].at = "idle"
  BY DEF Init, Idle
<1> QED BY <1>1, <1>2, <1>3 DEF Own, SlotsOwn, EntriesOwn, AllNumbered, InUndo, Apart, Apiece

\* A slot of the manifest loads the entry that it was written for, or nothing: whatever
\* the threads' pushes, undos and manifests interleave to, with however many files
\* whose paths share their first 60 characters, and although manifests are not written,
\* entries not read, and a new process takes numbers its predecessor has used.
THEOREM SlotsAreTheirOwn == Spec => []SlotsLoadTheirOwn
<1>1. OwnInv => SlotsLoadTheirOwn
  BY DEF OwnInv, Kept, Own, SlotsOwn, AllNumbered, Numbered, SlotsLoadTheirOwn
<1>2. Spec => []OwnInv
  BY TypeCorrect, InitOwn, NextOwn, PTL DEF Spec
<1> QED BY <1>1, <1>2, PTL


-----------------------------------------------------------------------------
(***************************************************************************)
(* What disk and deques have in common.                                     *)
(*                                                                         *)
(* DiskTracksMemory speaks of the manifest on disk; the next one may be a   *)
(* snapshot that some call has taken and not written yet, while others push *)
(* and pop.  So the invariant says of either that it lists the entries of   *)
(* the deques, in their order, but for those that a call has in hand which  *)
(* has its own snapshot still to take: every call but the one that took     *)
(* this one.  Order and removal are by file name; therefore no two entries  *)
(* may have the same, also not while a new process loads, when the slots it *)
(* has not read yet are the end of the manifest.                            *)
(***************************************************************************)

\* Nothing has failed, and no pop has passed the disk by.
Intact == mishaps = {}

\* The file names of an undo deque, and of the slots of a manifest.
Titles(f) == [i \in DOMAIN stack["undo"][f] |-> names[stack["undo"][f][i].id]]
Roll(slots) == [j \in DOMAIN slots |-> slots[j].name]

\* The call has that entry in hand: adds it, evicts it or pops it.
Claims(c, n) ==
    \/ call[c].at \in {"append", "unlink", "save", "rename"} /\ names[call[c].entry.id] = n
    \/ call[c].at \in {"save", "rename"} /\ call[c].dropped = n
Claimed(C) == {n \in Names : \E c \in C : Claims(c, n)}

\* The files that have not been left for later by the load.
Readable(f) ==
    {n \in Names : store[n] # None /\ \A j \in DOMAIN unread[f] : unread[f][j].name # n}

\* Of the names in T and those in E that are in S, the same are there in the same
\* order, apart from X.
Agree(T, E, X, S) ==
    /\ \A i \in DOMAIN T : T[i] \in X \/ \E j \in DOMAIN E : E[j] = T[i]
    /\ \A j \in DOMAIN E : E[j] \in S => E[j] \in X \/ \E i \in DOMAIN T : T[i] = E[j]
    /\ \A i, k \in DOMAIN T, j, l \in DOMAIN E : T[i] = E[j] /\ T[k] = E[l] /\ i < k => j < l

\* A manifest and the deques, with the calls of C still to save theirs.
Agrees(entries, C) ==
    \A f \in Files : Agree(Titles(f), Roll(entries[f]), Claimed(C), Readable(f))

\* Every slot of a manifest has a name of its own, an entry on its way into a deque
\* another one; and a deque can hold the slots of a file.
Tidy(entries) ==
    /\ \A f \in Files : Len(entries[f]) <= MaxUndo
    /\ \A f, g \in Files : \A i \in DOMAIN entries[f], j \in DOMAIN entries[g] :
          entries[f][i].name = entries[g][j].name => f = g /\ i = j
    /\ \A c \in Callers : call[c].at = "append" =>
          \A f \in Files : \A i \in DOMAIN entries[f] :
              entries[f][i].name # names[call[c].entry.id]

Tracks(entries, C) == Tidy(entries) /\ Agrees(entries, C)

\* A name is that of one object, has a number that is used up, and is not in what
\* is unread.
NamesApart ==
    /\ \A id \in Objects : names[id] # None =>
          /\ names[id][1] < nextSeq
          /\ \A f \in Files : \A j \in DOMAIN unread[f] : unread[f][j].name # names[id]
    /\ \A a, b \in Objects : names[a] # None /\ names[a] = names[b] => a = b

\* The files of the entries of the deques are there.
FilesThere ==
    /\ \A e \in Held : InUndo(e) => store[names[e.id]] = e.what
    /\ \A c \in Callers : call[c].at = "append" =>
          store[names[call[c].entry.id]] = call[c].entry.what

\* The end of the manifest is unread, and there is room for it in the deques.
Reading ==
    /\ Loaded \/ \A c \in Callers : call[c].at = "idle"
    /\ \A f \in Files :
          LET E == manifest.entries[f]  u == unread[f] IN
          /\ Len(u) <= Len(E)
          /\ \A j \in 1..Len(u) : u[j] = E[Len(E) - Len(u) + j]
          /\ Len(stack["undo"][f]) + Len(u) <= MaxUndo

Track ==
    /\ NamesApart /\ FilesThere /\ Reading
    /\ Tracks(manifest.entries, Callers)
    /\ \A c \in Callers : call[c].at = "rename" =>
          Tracks(call[c].shot.entries, Callers \ {c})

\* The inductive invariant behind DiskTracksMemory, with OwnInv.
TrackInv == Intact => Track

\* Agreement outlasts entries that leave one end and are claimed, entries that join
\* the other end, are claimed and not listed, and files that go.
LEMMA AgreeStays ==
    ASSUME NEW T, NEW T2, NEW E, NEW X, NEW X2, NEW S, NEW S2, NEW k \in {0, 1},
           DOMAIN T \subseteq Nat, DOMAIN T2 \subseteq Nat, Agree(T, E, X, S),
           \A i \in DOMAIN T2 : \/ i + k \in DOMAIN T /\ T2[i] = T[i + k]
                                \/ T2[i] \in X2 /\ \A j \in DOMAIN E : E[j] # T2[i],
           \A i \in DOMAIN T : T[i] \in X2 \/ \E m \in DOMAIN T2 : T2[m] = T[i],
           X \subseteq X2, \A j \in DOMAIN E : E[j] \in S2 => E[j] \in S
    PROVE  Agree(T2, E, X2, S2)
<1>1. ASSUME NEW i \in DOMAIN T2 PROVE T2[i] \in X2 \/ \E j \in DOMAIN E : E[j] = T2[i]
  BY <1>1 DEF Agree
<1>2. ASSUME NEW j \in DOMAIN E, E[j] \in S2
      PROVE  E[j] \in X2 \/ \E i \in DOMAIN T2 : T2[i] = E[j]
  BY <1>2 DEF Agree
<1>3. ASSUME NEW i \in DOMAIN T2, NEW m \in DOMAIN T2, NEW j \in DOMAIN E, NEW l \in DOMAIN E,
             T2[i] = E[j], T2[m] = E[l], i < m
      PROVE  j < l
  <2>1. i + k \in DOMAIN T /\ T2[i] = T[i + k] /\ m + k \in DOMAIN T /\ T2[m] = T[m + k]
    BY <1>3
  <2> DEFINE a == i + k  b == m + k
  <2>2. a < b
    BY <1>3
  <2>3. a \in DOMAIN T /\ b \in DOMAIN T /\ T[a] = E[j] /\ T[b] = E[l]
    BY <1>3, <2>1
  <2> HIDE DEF a, b
  <2> QED BY <2>2, <2>3 DEF Agree
<1> QED BY <1>1, <1>2, <1>3 DEF Agree

\* What is made of the deque agrees with it.
LEMMA AgreeSelf ==
    ASSUME NEW T, NEW X, NEW S, \A i, k \in DOMAIN T : T[i] = T[k] => i = k
    PROVE  Agree(T, T, X, S)
BY DEF Agree

\* Loading the next name from E.
LEMMA AgreeLoaded ==
    ASSUME NEW T, NEW T2, NEW E, NEW X, NEW X2, NEW S, NEW S2, NEW n \in Nat, NEW p \in DOMAIN E,
           DOMAIN T = 1..n, DOMAIN T2 = 1..(n + 1), DOMAIN E \subseteq Nat, Agree(T, E, X, S),
           \A i \in 1..n : T2[i] = T[i], T2[n + 1] = E[p], X \subseteq X2,
           \A j, l \in DOMAIN E : E[j] = E[l] => j = l,
           \A i \in 1..n : \A j \in DOMAIN E : T[i] = E[j] => j < p,
           \A j \in DOMAIN E : E[j] \in S2 => E[j] \in S \/ j = p
    PROVE  Agree(T2, E, X2, S2)
<1>1. ASSUME NEW i \in DOMAIN T2 PROVE T2[i] \in X2 \/ \E j \in DOMAIN E : E[j] = T2[i]
  <2>1. i = n + 1 \/ i \in 1..n
    OBVIOUS
  <2> QED BY <1>1, <2>1 DEF Agree
<1>2. ASSUME NEW j \in DOMAIN E, E[j] \in S2
      PROVE  E[j] \in X2 \/ \E i \in DOMAIN T2 : T2[i] = E[j]
  <2>1. n + 1 \in DOMAIN T2 /\ 1..n \subseteq DOMAIN T2
    OBVIOUS
  <2> QED BY <1>2, <2>1 DEF Agree
<1>3. ASSUME NEW i \in DOMAIN T2, NEW m \in DOMAIN T2, NEW j \in DOMAIN E, NEW l \in DOMAIN E,
             T2[i] = E[j], T2[m] = E[l], i < m
      PROVE  j < l
  <2>1. i \in 1..n /\ T[i] = E[j]
    BY <1>3
  <2>2. CASE m = n + 1
    BY <1>3, <2>1, <2>2
  <2>3. CASE m # n + 1
    <3>1. m \in 1..n /\ T[m] = E[l]
      BY <1>3, <2>3
    <3> QED BY <1>3, <2>1, <3>1 DEF Agree
  <2> QED BY <2>2, <2>3
<1> QED BY <1>1, <1>2, <1>3 DEF Agree

\* The entries of an undo deque, their addresses and names.
LEMMA DequeFacts ==
    ASSUME TypeOK, EntriesOwn, NEW f \in Files
    PROVE  /\ DOMAIN stack["undo"][f] = 1..Len(stack["undo"][f]) /\ Len(stack["undo"][f]) \in Nat
           /\ DOMAIN Titles(f) = DOMAIN stack["undo"][f] /\ DOMAIN Titles(f) \subseteq Nat
           /\ \A i \in DOMAIN stack["undo"][f] :
                 /\ stack["undo"][f][i] \in Held /\ InUndo(stack["undo"][f][i])
                 /\ stack["undo"][f][i].id \in Objects
                 /\ Titles(f)[i] = names[stack["undo"][f][i].id]
                 /\ Titles(f)[i] \in Names /\ Titles(f)[i] # None
<1>1. stack["undo"][f] \in Seq(Held)
  BY DEF TypeOK, Ways
<1>2. DOMAIN stack["undo"][f] = 1..Len(stack["undo"][f]) /\ Len(stack["undo"][f]) \in Nat
  BY <1>1, LenProperties
<1>3. DOMAIN Titles(f) = DOMAIN stack["undo"][f] /\ DOMAIN Titles(f) \subseteq Nat
  BY <1>2 DEF Titles
<1>4. ASSUME NEW i \in DOMAIN stack["undo"][f]
      PROVE  /\ stack["undo"][f][i] \in Held /\ InUndo(stack["undo"][f][i])
             /\ stack["undo"][f][i].id \in Objects
             /\ Titles(f)[i] = names[stack["undo"][f][i].id]
             /\ Titles(f)[i] \in Names /\ Titles(f)[i] # None
  <2>1. stack["undo"][f][i] \in Held /\ InUndo(stack["undo"][f][i])
    BY <1>1, <1>2, ElementOfSeq DEF InUndo
  <2>2. stack["undo"][f][i].id \in Objects /\ Titles(f)[i] = names[stack["undo"][f][i].id]
    BY <2>1 DEF Held, Titles
  <2>3. names[stack["undo"][f][i].id] # None
    BY <2>1 DEF EntriesOwn, Filed
  <2> QED BY <2>1, <2>2, <2>3 DEF TypeOK
<1> QED BY <1>2, <1>3, <1>4

\* No two entries of the deques have the same name.
LEMMA TitlesApart ==
    ASSUME TypeOK, EntriesOwn, NamesApart, NEW f \in Files, NEW g \in Files,
           NEW i \in DOMAIN stack["undo"][f], NEW k \in DOMAIN stack["undo"][g],
           Titles(f)[i] = Titles(g)[k]
    PROVE  f = g /\ i = k
<1>1. /\ stack["undo"][f][i].id \in Objects /\ names[stack["undo"][f][i].id] # None
      /\ names[stack["undo"][f][i].id] = names[stack["undo"][g][k].id]
      /\ stack["undo"][g][k].id \in Objects
  BY DequeFacts
<1>2. stack["undo"][f][i].id = stack["undo"][g][k].id
  BY <1>1 DEF NamesApart
<1> QED BY <1>2 DEF EntriesOwn, Apart

\* The slots of a manifest and their names.
LEMMA RollFacts ==
    ASSUME NEW entries \in [Files -> Seq(Slot)], NEW f \in Files
    PROVE  /\ DOMAIN entries[f] = 1..Len(entries[f]) /\ Len(entries[f]) \in Nat
           /\ DOMAIN Roll(entries[f]) = DOMAIN entries[f] /\ DOMAIN Roll(entries[f]) \subseteq Nat
           /\ \A j \in DOMAIN entries[f] :
                 /\ Roll(entries[f])[j] = entries[f][j].name /\ entries[f][j] \in Slot
                 /\ Roll(entries[f])[j] \in Names
<1>1. entries[f] \in Seq(Slot)
  OBVIOUS
<1>2. DOMAIN entries[f] = 1..Len(entries[f]) /\ Len(entries[f]) \in Nat
  BY <1>1, LenProperties
<1>3. \A j \in DOMAIN entries[f] : entries[f][j] \in Slot
  BY <1>1, <1>2, ElementOfSeq
<1> QED BY <1>2, <1>3 DEF Roll, Slot

\* Where the invariant holds, a restart loads what is in memory.
LEMMA TrackDisk == TypeOK /\ OwnInv /\ TrackInv => DiskTracksMemory
<1> SUFFICES ASSUME TypeOK, Own, Track, mishaps = {}, Loaded, NEW f \in Files
             PROVE  SameRun(Remembered(f), Settled(Remembered(f)),
                            Recorded(f), Settled(Recorded(f)))
  BY DEF DiskTracksMemory, OwnInv, Kept, TrackInv, Intact
<1> DEFINE dq == stack["undo"][f]
           E == manifest.entries[f]
           R == Remembered(f)
           D == Recorded(f)
           I == Settled(R)
           J == Settled(D)
<1>0. /\ EntriesOwn /\ NamesApart /\ FilesThere /\ Tidy(manifest.entries)
      /\ Agree(Titles(f), Roll(E), Claimed(Callers), Readable(f))
  BY DEF Own, Track, Tracks, Agrees
<1>1. /\ DOMAIN R = DOMAIN dq /\ DOMAIN Titles(f) = DOMAIN dq /\ DOMAIN dq \subseteq Nat
      /\ \A i \in DOMAIN dq :
            /\ R[i] = [name |-> Titles(f)[i], what |-> store[Titles(f)[i]]]
            /\ R[i].name = Titles(f)[i] /\ R[i].what # None
  <2>1. ASSUME NEW i \in DOMAIN dq
        PROVE  R[i] = [name |-> Titles(f)[i], what |-> store[Titles(f)[i]]] /\ R[i].what # None
    <3>1. dq[i] \in Held /\ InUndo(dq[i]) /\ Titles(f)[i] = names[dq[i].id]
      BY <1>0, DequeFacts
    <3>2. store[Titles(f)[i]] = dq[i].what /\ dq[i].what # None
      BY <1>0, <3>1, PersistentConstants DEF FilesThere, Held
    <3> QED BY <3>1, <3>2 DEF Remembered
  <2> QED BY <1>0, <2>1, DequeFacts DEF Remembered
<1>2. /\ DOMAIN D = DOMAIN E /\ DOMAIN Roll(E) = DOMAIN E
      /\ \A j \in DOMAIN E :
            /\ D[j] = [name |-> Roll(E)[j], what |-> store[Roll(E)[j]]]
            /\ D[j].name = Roll(E)[j] /\ D[j].what = store[Roll(E)[j]]
            /\ Roll(E)[j] \in Names
  BY RollFacts DEF Recorded, Roll, TypeOK, Manifests
<1>3. Claimed(Callers) \subseteq UnderWay
  BY DEF Claimed, Claims, UnderWay, Idle
<1>4. \A n \in Names : store[n] # None => n \in Readable(f)
  BY EmptySeq DEF Readable, Loaded
<1>5. \A j, l \in DOMAIN E : Roll(E)[j] = Roll(E)[l] => j = l
  BY <1>0 DEF Tidy, Roll
<1>7. /\ \A i : i \in I <=> i \in DOMAIN dq /\ Titles(f)[i] \notin UnderWay
      /\ \A j : j \in J <=> j \in DOMAIN E /\ store[Roll(E)[j]] # None /\ Roll(E)[j] \notin UnderWay
  <2> HIDE DEF R, D
  <2> QED BY <1>1, <1>2 DEF Settled
<1> HIDE DEF dq, E, R, D, I, J
<1>6. \A j, l \in DOMAIN E : D[j] = D[l] => j = l
  BY <1>2, <1>5
<1>8. ASSUME NEW i \in I PROVE \E j \in J : D[j] = R[i]
  <2>1. PICK j \in DOMAIN E : Roll(E)[j] = Titles(f)[i]
    BY <1>0, <1>1, <1>2, <1>3, <1>7, <1>8 DEF Agree
  <2> QED BY <1>1, <1>2, <1>7, <1>8, <2>1
<1>9. ASSUME NEW j \in J PROVE \E i \in I : R[i] = D[j]
  <2>1. Roll(E)[j] \in Readable(f) /\ Roll(E)[j] \notin Claimed(Callers) /\ j \in DOMAIN E
    BY <1>2, <1>3, <1>4, <1>7, <1>9
  <2>2. PICK i \in DOMAIN dq : Titles(f)[i] = Roll(E)[j]
    BY <1>0, <1>1, <1>2, <2>1 DEF Agree
  <2> QED BY <1>1, <1>2, <1>7, <1>9, <2>2
<1> DEFINE h == [i \in I |-> CHOOSE j \in J : D[j] = R[i]]
<1>10. \A i \in I : h[i] \in J /\ D[h[i]] = R[i]
  BY <1>8
<1>11. h \in Surjection(I, J)
  <2>1. h \in [I -> J]
    BY <1>10
  <2>2. ASSUME NEW j \in J PROVE \E i \in I : h[i] = j
    <3>1. PICK i \in I : R[i] = D[j]
      BY <1>9
    <3>2. h[i] \in J /\ D[h[i]] = D[j]
      BY <1>10, <3>1
    <3> HIDE DEF h
    <3> QED BY <1>6, <1>7, <3>2
  <2> HIDE DEF h
  <2> QED BY <2>1, <2>2 DEF Surjection
<1>12. ASSUME NEW i \in I, NEW k \in I, i < k PROVE h[i] < h[k]
  <2> DEFINE j == h[i]  l == h[k]
  <2>1. j \in DOMAIN E /\ l \in DOMAIN E /\ D[j] = R[i] /\ D[l] = R[k]
    BY <1>7, <1>10
  <2> HIDE DEF j, l, h
  <2>2. Titles(f)[i] = Roll(E)[j] /\ Titles(f)[k] = Roll(E)[l] /\ i \in DOMAIN dq /\ k \in DOMAIN dq
    BY <1>1, <1>2, <1>7, <2>1
  <2>3. j < l
    BY <1>0, <1>1, <1>2, <1>12, <2>1, <2>2 DEF Agree
  <2> QED BY <2>3 DEF j, l
<1> HIDE DEF h
<1>13. SameRun(R, I, D, J)
  BY <1>10, <1>11, <1>12 DEF SameRun
<1> QED BY <1>13 DEF R, I, D, J

\* It holds before anything is pushed.
LEMMA InitTrack == Init => TrackInv
<1> SUFFICES ASSUME Init PROVE Track
  BY DEF TrackInv
<1>1. \A f \in Files : /\ stack["undo"][f] = <<>> /\ unread[f] = <<>> /\ manifest.entries[f] = <<>>
                       /\ Len(stack["undo"][f]) = 0 /\ Len(unread[f]) = 0
                       /\ DOMAIN stack["undo"][f] = {} /\ DOMAIN manifest.entries[f] = {}
  BY EmptySeq DEF Init, Ways
<1>2. \A c \in Callers : call[c].at = "idle"
  BY DEF Init, Idle
<1>3. MaxUndo \in Nat \ {0}
  BY MaxUndoPositive
<1>4. \A f \in Files : DOMAIN Titles(f) = {} /\ DOMAIN Roll(manifest.entries[f]) = {}
  BY <1>1 DEF Titles, Roll
<1>5. NamesApart /\ FilesThere
  BY <1>1, <1>2 DEF Init, NamesApart, FilesThere, InUndo
<1>6. Reading
  <2>1. 0 <= 0 /\ 1..0 = {} /\ 0 + 0 <= MaxUndo
    BY <1>3
  <2> QED BY <1>1, <1>2, <2>1 DEF Reading
<1>7. Tidy(manifest.entries)
  BY <1>1, <1>2, <1>3 DEF Tidy
<1>8. Agrees(manifest.entries, Callers)
  BY <1>4 DEF Agrees, Agree
<1> QED BY <1>2, <1>5, <1>6, <1>7, <1>8 DEF Track, Tracks

\* A step of d carries on: what a call had in hand it still has, or d has; and an undo
\* deque loses entries at one end that d has then in hand, and gets one at the other
\* end that d has been adding.
Carries(d) ==
    /\ \A c \in Callers, n \in Names : Claims(c, n) => Claims(c, n)' \/ Claims(d, n)'
    /\ \A f \in Files : \E k \in {0, 1} :
          \A i \in DOMAIN Titles(f)' :
              \/ i + k \in DOMAIN Titles(f) /\ Titles(f)'[i] = Titles(f)[i + k]
              \/ /\ call[d].at = "append" /\ Titles(f)'[i] = names[call[d].entry.id]
                 /\ Titles(f)'[i] \in Claimed({d})'
    /\ \A f \in Files : \A i \in DOMAIN Titles(f) :
          Titles(f)[i] \in Claimed({d})' \/ \E m \in DOMAIN Titles(f)' : Titles(f)'[m] = Titles(f)[i]

\* The entries that are on their way into a deque: d may have given its entry a number
\* that no name had.
Enters(d) ==
    \A c \in Callers : call'[c].at = "append" =>
        \/ call[c].at = "append" /\ names'[call'[c].entry.id] = names[call[c].entry.id]
        \/ c = d /\ names'[call'[c].entry.id][1] = nextSeq

\* Such a step keeps what a manifest has in common with the deques.
LEMMA TracksStay ==
    ASSUME TypeOK, TypeOK', NEW d \in Callers, Carries(d), Enters(d),
           Spared, UNCHANGED unread, NEW C \in SUBSET Callers, d \in C,
           NEW entries \in [Files -> Seq(Slot)], NEW b \in Nat, AllNumbered(entries, b),
           nextSeq \in Nat, b <= nextSeq, Tidy(entries), Agrees(entries, C)
    PROVE  /\ \A f \in Files : Agree(Titles(f)', Roll(entries[f]), Claimed(C)', Readable(f)')
           /\ \A c \in Callers : call'[c].at = "append" =>
                 \A f \in Files : \A i \in DOMAIN entries[f] :
                     entries[f][i].name # names'[call'[c].entry.id]
<1>1. \A f \in Files : \A j \in DOMAIN entries[f] :
         /\ entries[f][j].name \in Names /\ entries[f][j].name[1] < nextSeq
         /\ entries[f][j].name[1] \in Nat
  <2> SUFFICES ASSUME NEW f \in Files, NEW j \in DOMAIN entries[f]
               PROVE  /\ entries[f][j].name \in Names /\ entries[f][j].name[1] < nextSeq
                      /\ entries[f][j].name[1] \in Nat
    OBVIOUS
  <2>1. entries[f][j].name \in Names
    BY RollFacts DEF Slot
  <2>2. entries[f][j].name[1] \in Nat
    BY <2>1 DEF Names
  <2>3. entries[f][j].name[1] < b
    BY DEF AllNumbered, Numbered
  <2> QED BY <2>1, <2>2, <2>3
<1>2. Claimed({d})' \subseteq Claimed(C)' /\ Claimed(C) \subseteq Claimed(C)'
  BY DEF Claimed, Carries
<1>3. ASSUME NEW f \in Files
      PROVE  Agree(Titles(f)', Roll(entries[f]), Claimed(C)', Readable(f)')
  <2> DEFINE T == Titles(f)
             T2 == Titles(f)'
             E == Roll(entries[f])
             X == Claimed(C)
             X2 == Claimed(C)'
             S == Readable(f)
             S2 == Readable(f)'
  <2>1. DOMAIN T \subseteq Nat /\ DOMAIN T2 \subseteq Nat
    <3>1. stack["undo"][f] \in Seq(Held) /\ stack'["undo"][f] \in Seq(Held)
      BY DEF TypeOK, Ways
    <3>2. DOMAIN stack["undo"][f] \subseteq Nat /\ DOMAIN stack'["undo"][f] \subseteq Nat
      BY <3>1, LenProperties
    <3> QED BY <3>2 DEF Titles
  <2>2. Agree(T, E, X, S)
    BY DEF Agrees
  <2>3. DOMAIN E = DOMAIN entries[f] /\ \A j \in DOMAIN E : E[j] = entries[f][j].name
    BY RollFacts
  <2>4. PICK k \in {0, 1} :
           \A i \in DOMAIN T2 :
              \/ i + k \in DOMAIN T /\ T2[i] = T[i + k]
              \/ /\ call[d].at = "append" /\ T2[i] = names[call[d].entry.id]
                 /\ T2[i] \in Claimed({d})'
    BY DEF Carries
  <2>5. \A i \in DOMAIN T2 : \/ i + k \in DOMAIN T /\ T2[i] = T[i + k]
                             \/ T2[i] \in X2 /\ \A j \in DOMAIN E : E[j] # T2[i]
    <3>1. call[d].at = "append" => \A j \in DOMAIN E : E[j] # names[call[d].entry.id]
      BY <2>3 DEF Tidy
    <3> HIDE DEF T, T2, E, X2
    <3> QED BY <1>2, <2>4, <3>1 DEF X2
  <2>6. \A i \in DOMAIN T : T[i] \in X2 \/ \E m \in DOMAIN T2 : T2[m] = T[i]
    BY <1>2 DEF Carries
  <2>7. \A j \in DOMAIN E : E[j] \in S2 => E[j] \in S
    BY <1>1, <2>3 DEF Readable, Spared
  <2> HIDE DEF T, T2, E, X, X2, S, S2
  <2>8. Agree(T2, E, X2, S2)
    <3>1. X \subseteq X2
      BY <1>2 DEF X, X2
    <3> QED BY <2>1, <2>2, <2>5, <2>6, <2>7, <3>1, AgreeStays
  <2> QED BY <2>8 DEF T2, E, X2, S2
<1>4. ASSUME NEW c \in Callers, call'[c].at = "append",
             NEW f \in Files, NEW i \in DOMAIN entries[f]
      PROVE  entries[f][i].name # names'[call'[c].entry.id]
  <2>1. CASE call[c].at = "append" /\ names'[call'[c].entry.id] = names[call[c].entry.id]
    BY <2>1 DEF Tidy
  <2>2. CASE names'[call'[c].entry.id][1] = nextSeq
    BY <1>1, <2>2
  <2> QED BY <1>4, <2>1, <2>2 DEF Enters
<1> QED BY <1>3, <1>4

\* And so it is with the manifest on disk ...
LEMMA ManifestTracks ==
    ASSUME TypeOK, TypeOK', Own, Track, NEW d \in Callers, Carries(d), Enters(d),
           Spared, UNCHANGED <<manifest, unread>>
    PROVE  Tracks(manifest.entries, Callers)'
<1>1. /\ nextSeq \in Nat /\ manifest.next \in Nat /\ manifest.next <= nextSeq
      /\ manifest.entries \in [Files -> Seq(Slot)]
      /\ AllNumbered(manifest.entries, manifest.next)
      /\ Tidy(manifest.entries) /\ Agrees(manifest.entries, Callers)
  BY PersistentConstants DEF TypeOK, Manifests, Own, SlotsOwn, Track, Tracks
<1>2. Callers \in SUBSET Callers
  OBVIOUS
<1>3. /\ \A f \in Files :
            Agree(Titles(f)', Roll(manifest.entries[f]), Claimed(Callers)', Readable(f)')
      /\ \A c \in Callers : call'[c].at = "append" =>
            \A f \in Files : \A i \in DOMAIN manifest.entries[f] :
                manifest.entries[f][i].name # names'[call'[c].entry.id]
  BY <1>1, <1>2, TracksStay
<1> QED BY <1>1, <1>3 DEF Tracks, Tidy, Agrees

\* ... and with the one about to be written.
LEMMA ShotsTrack ==
    ASSUME TypeOK, TypeOK', Own, Track, NEW d \in Callers, Carries(d), Enters(d),
           Spared, UNCHANGED unread,
           \A c \in Callers : call'[c].at = "rename" => c # d /\ call'[c] = call[c]
    PROVE  \A c \in Callers : call'[c].at = "rename" =>
              Tracks(call[c].shot.entries, Callers \ {c})'
<1>1. nextSeq \in Nat /\ SlotsOwn
  BY PersistentConstants DEF TypeOK, Own
<1>2. ASSUME NEW c \in Callers, call'[c].at = "rename"
      PROVE  Tracks(call[c].shot.entries, Callers \ {c})'
  <2>1. call[c].at = "rename" /\ c # d /\ call'[c] = call[c]
    BY <1>2
  <2>2. call[c].shot.entries \in [Files -> Seq(Slot)] /\ call[c].shot.next \in Nat
    BY <2>1, PersistentConstants DEF TypeOK, Formed, Manifests
  <2>3. /\ AllNumbered(call[c].shot.entries, call[c].shot.next) /\ call[c].shot.next <= nextSeq
        /\ Tidy(call[c].shot.entries) /\ Agrees(call[c].shot.entries, Callers \ {c})
    BY <1>1, <2>1 DEF SlotsOwn, Track, Tracks
  <2>4. Callers \ {c} \in SUBSET Callers /\ d \in Callers \ {c}
    BY <2>1
  <2> DEFINE s == call[c].shot.entries
             C == Callers \ {c}
  <2>5. /\ \A f \in Files : Agree(Titles(f)', Roll(s[f]), Claimed(C)', Readable(f)')
        /\ \A b \in Callers : call'[b].at = "append" =>
              \A f \in Files : \A i \in DOMAIN s[f] : s[f][i].name # names'[call'[b].entry.id]
    BY <1>1, <2>2, <2>3, <2>4, TracksStay
  <2>6. call'[c].shot.entries = s
    BY <2>1
  <2>7. Tidy(call[c].shot.entries)'
    BY <2>3, <2>5, <2>6 DEF Tidy
  <2>8. Agrees(call[c].shot.entries, Callers \ {c})'
    BY <2>5, <2>6 DEF Agrees
  <2> QED BY <2>7, <2>8 DEF Tracks
<1> QED BY <1>2

\* A step that leaves the deques and the names of their entries.
LEMMA TitlesStay ==
    ASSUME TypeOK, NEW d \in Callers, \A f \in Files : Titles(f)' = Titles(f),
           \A c \in Callers, n \in Names : Claims(c, n) => Claims(c, n)' \/ Claims(d, n)'
    PROVE  Carries(d)
<1>1. ASSUME NEW f \in Files, NEW i \in DOMAIN Titles(f) PROVE i + 0 = i
  <2>1. stack["undo"][f] \in Seq(Held)
    BY DEF TypeOK, Ways
  <2>2. DOMAIN stack["undo"][f] \subseteq Nat
    BY <2>1, LenProperties
  <2> QED BY <2>2 DEF Titles
<1>2. \A f \in Files : \A i \in DOMAIN Titles(f)' :
         i + 0 \in DOMAIN Titles(f) /\ Titles(f)'[i] = Titles(f)[i + 0]
  BY <1>1
<1> QED BY <1>2 DEF Carries

\* Once everything is loaded the deques may grow to their bound.
LEMMA ReadingStays ==
    ASSUME TypeOK', Loaded, UNCHANGED unread,
           \A f \in Files : Len(stack'["undo"][f]) <= MaxUndo
    PROVE  Reading'
<1>1. ASSUME NEW f \in Files
      PROVE  /\ Len(unread'[f]) = 0 /\ Len(manifest'.entries[f]) \in Nat
             /\ Len(stack'["undo"][f]) \in Nat
  <2>1. manifest'.entries[f] \in Seq(Slot) /\ stack'["undo"][f] \in Seq(Held)
    BY DEF TypeOK, Manifests, Ways
  <2> QED BY <2>1, LenProperties, EmptySeq DEF Loaded
<1>2. ASSUME NEW f \in Files
      PROVE  /\ Len(unread'[f]) <= Len(manifest'.entries[f])
             /\ 1..Len(unread'[f]) = {}
             /\ Len(stack'["undo"][f]) + Len(unread'[f]) <= MaxUndo
  <2>1. 0 <= Len(manifest'.entries[f]) /\ 1..0 = {} /\ Len(stack'["undo"][f]) + 0 <= MaxUndo
    BY <1>1
  <2> QED BY <1>1, <2>1
<1>3. Loaded'
  BY DEF Loaded
<1> QED BY <1>2, <1>3 DEF Reading

\* Before that, no call has begun; after it, the deques keep their bound.
LEMMA ReadingFacts ==
    ASSUME TypeOK, Reading
    PROVE  /\ \A c \in Callers : call[c].at # "idle" => Loaded
           /\ Loaded => \A f \in Files : Len(stack["undo"][f]) <= MaxUndo
           /\ Loaded => \A f \in Files : DOMAIN unread[f] = {}
<1>1. ASSUME NEW f \in Files, unread[f] = <<>> PROVE Len(stack["undo"][f]) <= MaxUndo
  <2>1. stack["undo"][f] \in Seq(Held)
    BY DEF TypeOK, Ways
  <2>2. Len(stack["undo"][f]) \in Nat
    BY <2>1, LenProperties
  <2>3. Len(unread[f]) = 0 /\ Len(stack["undo"][f]) + Len(unread[f]) <= MaxUndo
    BY <1>1, EmptySeq DEF Reading
  <2> QED BY <2>2, <2>3
<1> QED BY <1>1, EmptySeq DEF Reading, Loaded

\* An entry that is made is in no deque and has no name yet.
LEMMA PushTrack ==
    ASSUME TypeOK, TypeOK', Own, Track, NEW c \in Callers, NEW f \in Files, Push(c, f)
    PROVE  Track'
<1>1. /\ UNCHANGED <<stack, nextSeq, names, store, manifest, unread>>
      /\ call[c] = Idle /\ call \in [Callers -> Calls] /\ Loaded
  BY DEF Push, memory, files, TypeOK
<1>2. call'[c].at = "write" /\ \A d \in Callers \ {c} : call'[d] = call[d]
  BY <1>1 DEF Push, Idle
<1>3. NamesApart /\ FilesThere /\ Reading
  BY DEF Track
<1>4. NamesApart' /\ FilesThere'
  BY <1>1, <1>2, <1>3 DEF NamesApart, FilesThere, InUndo
<1>5. Reading'
  BY <1>1, <1>3, ReadingFacts, ReadingStays
<1>6. Carries(c)
  <2>1. \A g \in Files : Titles(g)' = Titles(g)
    BY <1>1 DEF Titles
  <2>2. \A d \in Callers, n \in Names : Claims(d, n) => Claims(d, n)' \/ Claims(c, n)'
    BY <1>1, <1>2 DEF Claims, Idle
  <2> QED BY <2>1, <2>2, TitlesStay
<1>7. Enters(c) /\ Spared
  BY <1>1, <1>2 DEF Enters, Spared
<1>8. \A d \in Callers : call'[d].at = "rename" => d # c /\ call'[d] = call[d]
  BY <1>2
<1>9. /\ Tracks(manifest.entries, Callers)'
      /\ \A d \in Callers : call'[d].at = "rename" =>
            Tracks(call[d].shot.entries, Callers \ {d})'
  BY <1>1, <1>6, <1>7, <1>8, ManifestTracks, ShotsTrack
<1> QED BY <1>4, <1>5, <1>9 DEF Track

\* The name is new, and so is the file.
LEMMA WriteEntryTrack ==
    ASSUME TypeOK, TypeOK', Own, Track, Intact', NEW c \in Callers, WriteEntry(c)
    PROVE  Track'
<1> DEFINE e == call[c].entry
           name == <<nextSeq, SafeName[call[c].file]>>
<1>1. /\ call[c].at = "write" /\ e \in Held /\ nextSeq \in Nat /\ nextSeq' = nextSeq + 1
      /\ call \in [Callers -> Calls] /\ names \in [Objects -> Names \cup {None}]
      /\ store \in [Names -> Contents \cup {None}]
      /\ UNCHANGED <<stack, manifest, unread>>
  BY PersistentConstants DEF WriteEntry, At, TypeOK, Formed
<1>2. store' = [store EXCEPT ![name] = e.what] /\ names' = [names EXCEPT ![e.id] = name]
  BY DEF WriteEntry, Intact, Suffer
<1>3. /\ call'[c].at = "append" /\ call'[c].entry = e
      /\ \A d \in Callers \ {c} : call'[d] = call[d]
  BY <1>1 DEF WriteEntry, Go, Calls
<1>4. name \in Names /\ name # None /\ name[1] = nextSeq
  BY NoNameIsNone DEF WriteEntry, Names, TypeOK, Formed, At
<1>5. Spared
  BY <1>1, <1>2, <1>4 DEF Spared
<1>6. NamesApart /\ FilesThere /\ Reading /\ EntriesOwn /\ Apiece(c)
  BY DEF Track, Own, EntriesOwn
<1> HIDE DEF name, e
<1>7. /\ e.id \in Objects /\ names'[e.id] = name
      /\ \A id \in Objects \ {e.id} : names'[id] = names[id]
      /\ store'[name] = e.what /\ \A n \in Names \ {name} : store'[n] = store[n]
      /\ Loaded /\ \A f \in Files : DOMAIN unread[f] = {} /\ Len(stack["undo"][f]) <= MaxUndo
  BY <1>1, <1>2, <1>4, <1>6, ReadingFacts DEF Held
<1>8. \A id \in Objects : names[id] # None =>
         names[id] \in Names /\ names[id][1] < nextSeq /\ names[id] # name /\ names[id][1] \in Nat
  <2>1. ASSUME NEW id \in Objects, names[id] # None
        PROVE  /\ names[id] \in Names /\ names[id][1] < nextSeq /\ names[id][1] \in Nat
    BY <1>1, <1>6, <2>1 DEF NamesApart, Names
  <2> QED BY <1>1, <1>4, <2>1
<1>9. \A id \in Objects : names'[id] # None => names'[id][1] < nextSeq'
  BY <1>1, <1>4, <1>7, <1>8
<1>10. NamesApart'
  BY <1>1, <1>6, <1>7, <1>8, <1>9 DEF NamesApart
<1>11. \A d \in Callers \ {c} : call[d].at # "idle" =>
          call[d].entry \in Held /\ call[d].entry.id \in Objects /\ call[d].entry.id # e.id
  BY <1>1, <1>6, InUse DEF Apiece, e, Held
<1>12. \A d \in Held : InUndo(d) => d.id \in Objects \ {e.id} /\ names[d.id] # None
  BY <1>1, <1>6 DEF Apiece, e, Held, EntriesOwn, Filed
<1>13. FilesThere'
  <2>1. ASSUME NEW d \in Held, InUndo(d)' PROVE store'[names'[d.id]] = d.what
    <3>1. InUndo(d)
      BY <1>1, <2>1 DEF InUndo
    <3>2. names'[d.id] = names[d.id] /\ names[d.id] \in Names \ {name}
      BY <1>7, <1>8, <1>12, <3>1
    <3> QED BY <1>6, <1>7, <3>1, <3>2 DEF FilesThere
  <2>2. ASSUME NEW d \in Callers, call'[d].at = "append"
        PROVE  store'[names'[call'[d].entry.id]] = call'[d].entry.what
    <3>1. CASE d = c
      BY <1>3, <1>7, <3>1
    <3>2. CASE d # c
      <4>1. call'[d] = call[d] /\ call[d].at = "append" /\ call[d].entry.id \in Objects \ {e.id}
        BY <1>3, <1>11, <2>2, <3>2
      <4>2. names[call[d].entry.id] # None
        BY <1>6, <4>1 DEF EntriesOwn, Filed
      <4>3. /\ names'[call[d].entry.id] = names[call[d].entry.id]
            /\ names[call[d].entry.id] \in Names \ {name}
        BY <1>7, <1>8, <4>1, <4>2
      <4> QED BY <1>6, <1>7, <4>1, <4>3 DEF FilesThere
    <3> QED BY <3>1, <3>2
  <2> QED BY <2>1, <2>2 DEF FilesThere
<1>14. Reading'
  BY <1>1, <1>7, ReadingStays
<1>15. Carries(c)
  <2>1. ASSUME NEW f \in Files PROVE Titles(f)' = Titles(f)
    <3>1. \A i \in DOMAIN stack["undo"][f] : names'[stack["undo"][f][i].id] = names[stack["undo"][f][i].id]
      BY <1>6, <1>7, <1>12, DequeFacts
    <3> QED BY <1>1, <3>1 DEF Titles
  <2>2. \A d \in Callers, n \in Names : Claims(d, n) => Claims(d, n)' \/ Claims(c, n)'
    BY <1>1, <1>3, <1>7, <1>11 DEF Claims
  <2> QED BY <2>1, <2>2, TitlesStay
<1>16. Enters(c)
  BY <1>3, <1>4, <1>7, <1>11 DEF Enters
<1>17. /\ Tracks(manifest.entries, Callers)'
       /\ \A d \in Callers : call'[d].at = "rename" =>
             Tracks(call[d].shot.entries, Callers \ {d})'
  BY <1>1, <1>3, <1>5, <1>15, <1>16, ManifestTracks, ShotsTrack
<1> QED BY <1>10, <1>13, <1>14, <1>17 DEF Track

\* The entry joins the deque; the one that is evicted is in hand.
LEMMA RememberTrack ==
    ASSUME TypeOK, TypeOK', Own, Track, NEW c \in Callers, Remember(c)
    PROVE  Track'
<1>0. /\ call[c].at = "append" /\ call[c].file \in Files /\ call[c].entry \in Held
  BY DEF Remember, At, TypeOK, Formed
<1> PICK f \in Files, e \in Held : f = call[c].file /\ e = call[c].entry
  BY <1>0
<1> DEFINE dq == stack["undo"][f]
           new == stack'["undo"][f]
<1>1. /\ call[c].at = "append" /\ e.id \in Objects /\ call \in [Callers -> Calls]
      /\ UNCHANGED <<nextSeq, names, store, manifest, unread>>
  BY <1>0 DEF Remember, files, TypeOK, Held
<1>2. /\ call'[c].at = "save" /\ call'[c].entry = e
      /\ ~(Len(dq) < MaxUndo) => call'[c].dropped = names[Head(dq).id]
      /\ \A d \in Callers \ {c} : call'[d] = call[d]
  BY <1>1 DEF Remember, Calls
<1>3. /\ new = Appended(dq, e)
      /\ \A g \in Files \ {f} : stack'["undo"][g] = stack["undo"][g]
  BY <1>1 DEF Remember, TypeOK, Ways
<1>4. /\ NamesApart /\ FilesThere /\ Reading /\ EntriesOwn /\ Apiece(c) /\ Filed(e)
  BY <1>1 DEF Track, Own, EntriesOwn
<1>5. /\ dq \in Seq(Held) /\ DOMAIN dq = 1..Len(dq) /\ Len(dq) \in Nat
      /\ Loaded /\ \A g \in Files : Len(stack["undo"][g]) <= MaxUndo
  BY <1>1, <1>4, ReadingFacts, LenProperties DEF TypeOK, Ways
<1>6. PICK k \in {0, 1} :
         /\ Len(Appended(dq, e)) = Len(dq) + 1 - k
         /\ Len(Appended(dq, e)) \in Nat
         /\ \A i \in 1..(Len(dq) - k) : Appended(dq, e)[i] = dq[i + k]
         /\ Appended(dq, e)[Len(dq) + 1 - k] = e
  <2> HIDE DEF dq
  <2> QED BY <1>1, <1>5, AppendedEntries
<1>7. DOMAIN new = 1..(Len(dq) + 1 - k) /\ new[Len(dq) + 1 - k] = e
  <2>1. Appended(dq, e) \in Seq(Held)
    BY <1>1, <1>5, AppendedBound
  <2> QED BY <1>3, <1>6, <2>1, LenProperties
<1>8. k = 1 => dq # <<>> /\ call'[c].dropped = names[dq[1].id] /\ 1 \in DOMAIN dq
  <2> SUFFICES ASSUME k = 1
               PROVE  dq # <<>> /\ call'[c].dropped = names[dq[1].id] /\ 1 \in DOMAIN dq
    OBVIOUS
  <2>1. ~(Len(dq) < MaxUndo)
    <3>1. Len(dq) < MaxUndo => Len(Appended(dq, e)) = Len(dq) + 1
      BY <1>1, <1>5, AppendedBound
    <3> QED BY <1>5, <1>6, <3>1
  <2>2. Len(dq) \in Nat \ {0}
    BY <1>5, <2>1, MaxUndoPositive
  <2>3. dq # <<>> /\ Head(dq) = dq[1]
    BY <1>5, <2>2, EmptySeq, HeadTailProperties
  <2> QED BY <1>2, <1>5, <2>1, <2>2, <2>3
<1>9. \A d \in Held : InUndo(d)' => InUndo(d) \/ d = e
  <2>1. \A d \in Held : InUndo(d) => d.id # e.id
    BY <1>1, <1>4 DEF Apiece
  <2> QED BY <1>1, <1>3, <1>4, <2>1, AppendApart DEF EntriesOwn
<1>10. NamesApart'
  BY <1>1, <1>4 DEF NamesApart
<1>11. FilesThere'
  <2>1. store[names[e.id]] = e.what
    BY <1>1, <1>4 DEF FilesThere
  <2> QED BY <1>1, <1>2, <1>4, <1>9, <2>1 DEF FilesThere
<1>12. Reading'
  <2>1. Len(new) <= MaxUndo
    BY <1>1, <1>3, <1>5, AppendedBound
  <2>2. \A g \in Files : Len(stack'["undo"][g]) <= MaxUndo
    BY <1>3, <1>5, <2>1
  <2> QED BY <1>1, <1>5, <2>2, ReadingStays
<1>13. Carries(c)
  <2>1. \A d \in Callers, n \in Names : Claims(d, n) => Claims(d, n)' \/ Claims(c, n)'
    BY <1>1, <1>2 DEF Claims
  <2>2. \A g \in Files \ {f} : Titles(g)' = Titles(g)
    BY <1>1, <1>3 DEF Titles
  <2>3. names[e.id] \in Names /\ names[e.id] \in Claimed({c})'
    <3>1. names[e.id] \in Names
      BY <1>1, <1>4 DEF TypeOK, Filed
    <3> QED BY <1>1, <1>2, <3>1 DEF Claimed, Claims
  <2>4. \A i \in DOMAIN dq : Titles(f)[i] = names[dq[i].id]
    BY DEF Titles
  <2>5. DOMAIN Titles(f)' = DOMAIN new /\ \A i \in DOMAIN new : Titles(f)'[i] = names[new[i].id]
    BY <1>1 DEF Titles
  <2>6. DOMAIN Titles(f) = DOMAIN dq
    BY DEF Titles
  <2>7. \A g \in Files : DOMAIN Titles(g) \subseteq Nat
    BY <1>4, DequeFacts
  <2> HIDE DEF dq, new
  <2>8. ASSUME NEW i \in DOMAIN new
        PROVE  \/ i + k \in DOMAIN dq /\ new[i] = dq[i + k]
               \/ new[i] = e
    <3>1. CASE i = Len(dq) + 1 - k
      BY <1>7, <3>1
    <3>2. CASE i # Len(dq) + 1 - k
      <4>1. i \in 1..(Len(dq) - k) /\ i + k \in 1..Len(dq)
        BY <1>5, <1>7, <3>2
      <4> QED BY <1>3, <1>5, <1>6, <4>1
    <3> QED BY <3>1, <3>2
  <2>9. \A i \in DOMAIN Titles(f)' :
           \/ i + k \in DOMAIN Titles(f) /\ Titles(f)'[i] = Titles(f)[i + k]
           \/ /\ call[c].at = "append" /\ Titles(f)'[i] = names[e.id]
              /\ Titles(f)'[i] \in Claimed({c})'
    BY <1>1, <2>3, <2>4, <2>5, <2>6, <2>8
  <2>10. ASSUME NEW i \in DOMAIN dq
         PROVE  Titles(f)[i] \in Claimed({c})' \/ \E m \in DOMAIN Titles(f)' : Titles(f)'[m] = Titles(f)[i]
    <3>1. CASE k = 1 /\ i = 1
      <4>1. call'[c].dropped = Titles(f)[1] /\ Titles(f)[1] \in Names
        BY <1>1, <1>4, <1>8, <2>4, <3>1, DequeFacts DEF dq
      <4> QED BY <1>2, <3>1, <4>1 DEF Claimed, Claims
    <3>2. CASE ~(k = 1 /\ i = 1)
      <4> DEFINE m == i - k
      <4>1. m \in 1..(Len(dq) - k) /\ m + k = i /\ m \in 1..(Len(dq) + 1 - k)
        BY <1>5, <3>2
      <4> HIDE DEF m
      <4>2. new[m] = dq[i] /\ m \in DOMAIN new
        BY <1>3, <1>6, <1>7, <4>1
      <4> QED BY <2>4, <2>5, <4>2
    <3> QED BY <3>1, <3>2
  <2>11. ASSUME NEW g \in Files \ {f}
         PROVE  /\ \A i \in DOMAIN Titles(g)' : i + 0 \in DOMAIN Titles(g) /\ Titles(g)'[i] = Titles(g)[i + 0]
                /\ \A i \in DOMAIN Titles(g) : \E m \in DOMAIN Titles(g)' : Titles(g)'[m] = Titles(g)[i]
    <3>1. \A i \in DOMAIN Titles(g) : i + 0 = i
      BY <2>7
    <3> QED BY <2>2, <3>1
  <2>12. \A g \in Files : \E q \in {0, 1} : \A i \in DOMAIN Titles(g)' :
            \/ i + q \in DOMAIN Titles(g) /\ Titles(g)'[i] = Titles(g)[i + q]
            \/ /\ call[c].at = "append" /\ Titles(g)'[i] = names[e.id]
               /\ Titles(g)'[i] \in Claimed({c})'
    <3> SUFFICES ASSUME NEW g \in Files
                 PROVE  \E q \in {0, 1} : \A i \in DOMAIN Titles(g)' :
                           \/ i + q \in DOMAIN Titles(g) /\ Titles(g)'[i] = Titles(g)[i + q]
                           \/ /\ call[c].at = "append" /\ Titles(g)'[i] = names[e.id]
                              /\ Titles(g)'[i] \in Claimed({c})'
      OBVIOUS
    <3>1. CASE g = f
      BY <2>9, <3>1
    <3>2. CASE g # f
      BY <2>11, <3>2
    <3> QED BY <3>1, <3>2
  <2>13. \A g \in Files : \A i \in DOMAIN Titles(g) :
            Titles(g)[i] \in Claimed({c})' \/ \E m \in DOMAIN Titles(g)' : Titles(g)'[m] = Titles(g)[i]
    BY <2>6, <2>10, <2>11
  <2> QED BY <2>1, <2>12, <2>13 DEF Carries
<1>14. Enters(c) /\ Spared
  BY <1>1, <1>2 DEF Enters, Spared
<1>15. /\ Tracks(manifest.entries, Callers)'
       /\ \A d \in Callers : call'[d].at = "rename" =>
             Tracks(call[d].shot.entries, Callers \ {d})'
  BY <1>1, <1>2, <1>13, <1>14, ManifestTracks, ShotsTrack
<1> QED BY <1>10, <1>11, <1>12, <1>15 DEF Track

\* The entry leaves the deque and is in hand.
LEMMA PopUndoTrack ==
    ASSUME TypeOK, TypeOK', Own, Track, NEW c \in Callers, NEW f \in Files, PopUndo(c, f)
    PROVE  Track'
<1> DEFINE dq == stack["undo"][f]
           new == stack'["undo"][f]
           n == Len(dq)
           e == Last(dq)
<1>1. /\ call[c] = Idle /\ call \in [Callers -> Calls] /\ Loaded /\ dq # <<>>
      /\ UNCHANGED <<nextSeq, names, store, manifest, unread>>
  BY DEF PopUndo, Move, TypeOK, files
<1>2. /\ call'[c].at = "unlink" /\ call'[c].entry = e
      /\ \A d \in Callers \ {c} : call'[d] = call[d]
  BY <1>1 DEF PopUndo, Idle
<1>3. new = Front(dq) /\ \A g \in Files \ {f} : stack'["undo"][g] = stack["undo"][g]
  BY DEF PopUndo, Move, Other, TypeOK, Ways
<1>4. NamesApart /\ FilesThere /\ Reading /\ EntriesOwn
  BY DEF Track, Own
<1>5. /\ dq \in Seq(Held) /\ DOMAIN dq = 1..n /\ \A g \in Files : Len(stack["undo"][g]) <= MaxUndo
  <2>1. dq \in Seq(Held)
    BY DEF TypeOK, Ways
  <2> QED BY <1>1, <1>4, <2>1, ReadingFacts, LenProperties
<1>6. /\ Front(dq) \in Seq(Held) /\ Len(Front(dq)) = n - 1
      /\ \A i \in 1..(n - 1) : Front(dq)[i] = dq[i]
      /\ e \in Held /\ n \in Nat \ {0} /\ e = dq[n]
  <2> HIDE DEF dq
  <2> QED BY <1>1, <1>5, FrontLast DEF Last
<1>7. DOMAIN new = 1..(n - 1) /\ \A i \in DOMAIN new : new[i] = dq[i] /\ i + 0 = i /\ i \in DOMAIN dq
  <2>1. DOMAIN new = 1..(n - 1) /\ \A i \in 1..(n - 1) : new[i] = dq[i]
    BY <1>3, <1>6, LenProperties
  <2> HIDE DEF n, new
  <2>2. \A i \in 1..(n - 1) : i + 0 = i /\ i \in 1..n
    BY <1>6
  <2> QED BY <1>5, <2>1, <2>2
<1>8. \A d \in Held : InUndo(d)' => InUndo(d)
  BY <1>1, <1>3, <1>4, PopApart DEF EntriesOwn
<1>9. NamesApart' /\ FilesThere'
  BY <1>1, <1>2, <1>4, <1>8 DEF NamesApart, FilesThere
<1>10. Reading'
  <2>1. Len(new) <= MaxUndo
    <3>1. n <= MaxUndo
      BY <1>5
    <3> HIDE DEF n
    <3>2. n - 1 <= MaxUndo
      BY <1>6, <3>1, MaxUndoPositive
    <3> QED BY <1>3, <1>6, <3>2
  <2>2. \A g \in Files : Len(stack'["undo"][g]) <= MaxUndo
    BY <1>3, <1>5, <2>1
  <2> QED BY <1>1, <2>2, ReadingStays
<1>11. Carries(c)
  <2>1. \A d \in Callers, m \in Names : Claims(d, m) => Claims(d, m)' \/ Claims(c, m)'
    BY <1>1, <1>2 DEF Claims, Idle
  <2>2. \A g \in Files \ {f} : Titles(g)' = Titles(g)
    BY <1>1, <1>3 DEF Titles
  <2>3. \A g \in Files : DOMAIN Titles(g) \subseteq Nat
    BY <1>4, DequeFacts
  <2>4. /\ DOMAIN Titles(f) = DOMAIN dq /\ \A i \in DOMAIN dq : Titles(f)[i] = names[dq[i].id]
        /\ DOMAIN Titles(f)' = DOMAIN new /\ \A i \in DOMAIN new : Titles(f)'[i] = names[new[i].id]
    BY <1>1 DEF Titles
  <2>5. names[e.id] \in Claimed({c})'
    <3>1. names[e.id] \in Names
      BY <1>4, <1>5, <1>6, DequeFacts
    <3> QED BY <1>1, <1>2, <3>1 DEF Claimed, Claims
  <2> HIDE DEF dq, new, e
  <2>6. \A i \in DOMAIN Titles(f)' : i + 0 \in DOMAIN Titles(f) /\ Titles(f)'[i] = Titles(f)[i + 0]
    BY <1>7, <2>4
  <2>7. ASSUME NEW i \in DOMAIN Titles(f)
        PROVE  Titles(f)[i] \in Claimed({c})' \/ \E m \in DOMAIN Titles(f)' : Titles(f)'[m] = Titles(f)[i]
    <3>1. CASE i = n
      BY <1>6, <2>4, <2>5, <3>1
    <3>2. CASE i # n
      <4>1. i \in 1..(n - 1)
        BY <1>5, <1>6, <2>4, <3>2
      <4> QED BY <1>7, <2>4, <4>1
    <3> QED BY <3>1, <3>2
  <2>8. \A g \in Files \ {f} : \A i \in DOMAIN Titles(g) : i + 0 = i
    BY <2>3
  <2>9. \A g \in Files : \A i \in DOMAIN Titles(g)' : i + 0 \in DOMAIN Titles(g) /\ Titles(g)'[i] = Titles(g)[i + 0]
    BY <2>2, <2>6, <2>8
  <2>10. \A g \in Files : \A i \in DOMAIN Titles(g) :
            Titles(g)[i] \in Claimed({c})' \/ \E m \in DOMAIN Titles(g)' : Titles(g)'[m] = Titles(g)[i]
    BY <2>2, <2>7
  <2> QED BY <2>1, <2>9, <2>10 DEF Carries
<1>12. Enters(c) /\ Spared
  BY <1>1, <1>2 DEF Enters, Spared
<1>13. /\ Tracks(manifest.entries, Callers)'
       /\ \A d \in Callers : call'[d].at = "rename" =>
             Tracks(call[d].shot.entries, Callers \ {d})'
  BY <1>1, <1>2, <1>11, <1>12, ManifestTracks, ShotsTrack
<1> QED BY <1>9, <1>10, <1>13 DEF Track

\* The name is nobody else's, so the files of the deques stay.
LEMMA RemoveEntryFileTrack ==
    ASSUME TypeOK, TypeOK', Own, Track, NEW c \in Callers, RemoveEntryFile(c)
    PROVE  Track'
<1> DEFINE id == call[c].entry.id
<1>1. /\ call[c].at = "unlink" /\ call[c].entry \in Held /\ id \in Objects
      /\ call \in [Callers -> Calls] /\ names \in [Objects -> Names \cup {None}]
      /\ store \in [Names -> Contents \cup {None}]
      /\ names' = [names EXCEPT ![id] = None]
      /\ \/ names[id] # None /\ store' = [store EXCEPT ![names[id]] = None]
         \/ UNCHANGED store
      /\ UNCHANGED <<stack, nextSeq, manifest, unread>>
  BY DEF RemoveEntryFile, At, TypeOK, Formed, Held
<1>2. /\ call'[c].at = "save" /\ call'[c].entry = call[c].entry /\ call'[c].dropped = names[id]
      /\ \A d \in Callers \ {c} : call'[d] = call[d]
  BY <1>1 DEF RemoveEntryFile, Calls
<1>3. Spared
  BY <1>1 DEF Spared
<1>4. NamesApart /\ FilesThere /\ Reading /\ EntriesOwn /\ Apiece(c)
  BY DEF Track, Own, EntriesOwn
<1>5. /\ \A d \in Held : InUndo(d) => d.id \in Objects \ {id} /\ names[d.id] # None
      /\ \A d \in Callers : call[d].at = "append" =>
            call[d].entry.id \in Objects \ {id} /\ names[call[d].entry.id] # None
  <2>1. \A d \in Callers : Apiece(d)
    BY DEF Own, EntriesOwn
  <2>2. \A d \in Callers : call[d].at = "append" => call[d].entry \in Held
    BY DEF TypeOK, Formed
  <2> QED BY <1>1, <1>4, <2>1, <2>2 DEF Apiece, EntriesOwn, Filed, Held
<1> HIDE DEF id
<1>6. \A x \in Objects \ {id} : names'[x] = names[x] /\ (names[x] # None => store'[names[x]] = store[names[x]])
  <2>1. ASSUME NEW x \in Objects \ {id}, names[x] # None PROVE store'[names[x]] = store[names[x]]
    <3>1. names[id] # None => names[id] # names[x]
      BY <1>1, <1>4, <2>1 DEF NamesApart
    <3>2. names[x] \in Names
      BY <1>1, <2>1
    <3> QED BY <1>1, <3>1, <3>2
  <2> QED BY <1>1, <2>1
<1>7. NamesApart'
  <2>1. \A x \in Objects : names'[x] # None => x # id /\ names'[x] = names[x]
    BY <1>1
  <2> QED BY <1>1, <1>4, <2>1 DEF NamesApart
<1>8. FilesThere'
  <2>1. \A d \in Held : InUndo(d)' => InUndo(d)
    BY <1>1 DEF InUndo
  <2>2. \A d \in Callers : call'[d].at = "append" => call'[d] = call[d]
    BY <1>2
  <2> QED BY <1>4, <1>5, <1>6, <2>1, <2>2 DEF FilesThere
<1>9. Reading'
  BY <1>1, <1>4, ReadingFacts, ReadingStays
<1>10. Carries(c)
  <2>1. ASSUME NEW f \in Files PROVE Titles(f)' = Titles(f)
    <3>1. \A i \in DOMAIN stack["undo"][f] : names'[stack["undo"][f][i].id] = names[stack["undo"][f][i].id]
      BY <1>4, <1>5, <1>6, DequeFacts
    <3> QED BY <1>1, <3>1 DEF Titles
  <2>2. ASSUME NEW d \in Callers, NEW n \in Names, Claims(d, n)
        PROVE  Claims(d, n)' \/ Claims(c, n)'
    <3>1. call[d].at # "idle" /\ call[d].entry.id \in Objects
      BY <2>2 DEF Claims, TypeOK, Formed, Held
    <3>2. CASE call[d].entry.id = id /\ names[id] = n
      BY <1>2, <3>2 DEF Claims
    <3>3. CASE call[d].entry.id # id
      <4>1. d # c /\ call'[d] = call[d] /\ names'[call[d].entry.id] = names[call[d].entry.id]
        BY <1>2, <1>6, <3>1, <3>3 DEF id
      <4> QED BY <2>2, <4>1 DEF Claims
    <3>4. CASE call[d].at \in {"save", "rename"} /\ call[d].dropped = n
      <4>1. d # c /\ call'[d] = call[d]
        BY <1>1, <1>2, <3>4
      <4> QED BY <3>4, <4>1 DEF Claims
    <3> QED BY <2>2, <3>2, <3>3, <3>4 DEF Claims
  <2> QED BY <2>1, <2>2, TitlesStay
<1>11. Enters(c)
  <2>1. ASSUME NEW d \in Callers, call'[d].at = "append"
        PROVE  call[d].at = "append" /\ names'[call'[d].entry.id] = names[call[d].entry.id]
    BY <1>2, <1>5, <1>6, <2>1
  <2> QED BY <2>1 DEF Enters
<1>12. /\ Tracks(manifest.entries, Callers)'
       /\ \A d \in Callers : call'[d].at = "rename" =>
             Tracks(call[d].shot.entries, Callers \ {d})'
  BY <1>1, <1>2, <1>3, <1>10, <1>11, ManifestTracks, ShotsTrack
<1> QED BY <1>7, <1>8, <1>9, <1>12 DEF Track

\* The snapshot lists what the deques hold.
LEMMA SnapshotTrack ==
    ASSUME TypeOK, TypeOK', Own, Track, NEW c \in Callers, Snapshot(c)
    PROVE  Track'
<1>1. /\ call[c].at = "save" /\ call \in [Callers -> Calls] /\ Image \in Manifests
      /\ names \in [Objects -> Names \cup {None}] /\ lock = None
      /\ UNCHANGED <<stack, nextSeq, store, manifest, unread>>
  BY ImageType DEF Snapshot, At, TypeOK, files
<1>2. /\ call'[c].at = "rename" /\ call'[c].shot = Image /\ call'[c].entry = call[c].entry
      /\ call'[c].dropped = call[c].dropped /\ \A d \in Callers \ {c} : call'[d] = call[d]
  BY <1>1 DEF Snapshot, Calls
<1>3. \A d \in Callers : call[d].at # "rename"
  BY <1>1, PersistentConstants DEF TypeOK, At
<1>4. NamesApart /\ FilesThere /\ Reading /\ EntriesOwn /\ \A d \in Callers : Apiece(d)
  BY DEF Track, Own, EntriesOwn
<1>5. /\ names' = names
      /\ \A f \in Files, id \in Objects :
            (\E g \in Files : Undoable(g, id)) => NameOf(f, id) = names[id]
  <2>1. \A f \in Files, id \in Objects :
           (\E g \in Files : Undoable(g, id)) => NameOf(f, id) = names[id]
    BY <1>4, ImageOwn
  <2>2. \A id \in Objects : (\E f \in Files : Undoable(f, id)) =>
           NameOf(CHOOSE f \in Files : Undoable(f, id), id) = names[id]
    BY <2>1
  <2> QED BY <1>1, <2>1, <2>2 DEF Snapshot
<1>6. NamesApart' /\ FilesThere'
  BY <1>1, <1>2, <1>4, <1>5 DEF NamesApart, FilesThere, InUndo
<1>7. Loaded /\ \A f \in Files : Len(stack["undo"][f]) <= MaxUndo
  BY <1>1, <1>4, ReadingFacts
<1>8. Reading'
  BY <1>1, <1>7, ReadingStays
<1>9. \A f \in Files : Titles(f)' = Titles(f)
  BY <1>1, <1>5 DEF Titles
<1>10. Carries(c)
  <2>1. \A d \in Callers, n \in Names : Claims(d, n) => Claims(d, n)' \/ Claims(c, n)'
    BY <1>1, <1>2, <1>5 DEF Claims
  <2> QED BY <1>9, <2>1, TitlesStay
<1>11. Enters(c) /\ Spared
  BY <1>1, <1>2, <1>5 DEF Enters, Spared
<1>12. Tracks(manifest.entries, Callers)'
  BY <1>1, <1>10, <1>11, ManifestTracks
<1>13. ASSUME NEW f \in Files
       PROVE  /\ DOMAIN Image.entries[f] = DOMAIN stack["undo"][f]
              /\ \A i \in DOMAIN stack["undo"][f] : Image.entries[f][i].name = Titles(f)[i]
              /\ Roll(Image.entries[f]) = Titles(f)
              /\ Len(Image.entries[f]) <= MaxUndo
  <2>1. Image.entries[f] = [i \in DOMAIN stack["undo"][f] |->
            [name |-> NameOf(f, stack["undo"][f][i].id), what |-> stack["undo"][f][i].what]]
    BY DEF Image
  <2>2. \A i \in DOMAIN stack["undo"][f] :
           NameOf(f, stack["undo"][f][i].id) = names[stack["undo"][f][i].id]
    BY <1>4, <1>5, DequeFacts DEF Undoable
  <2>3. \A i \in DOMAIN stack["undo"][f] : Image.entries[f][i].name = Titles(f)[i]
    BY <2>1, <2>2 DEF Titles
  <2>4. DOMAIN Image.entries[f] = DOMAIN stack["undo"][f]
    BY <2>1
  <2>5. Image.entries[f] \in Seq(Slot) /\ stack["undo"][f] \in Seq(Held)
    BY <1>1 DEF Manifests, TypeOK, Ways
  <2>6. Len(Image.entries[f]) = Len(stack["undo"][f])
    BY <2>4, <2>5, LenProperties
  <2> QED BY <1>7, <2>3, <2>4, <2>6 DEF Roll, Titles
<1>14. Tidy(Image.entries)'
  <2>1. \A f, g \in Files : \A i \in DOMAIN Image.entries[f], j \in DOMAIN Image.entries[g] :
           Image.entries[f][i].name = Image.entries[g][j].name => f = g /\ i = j
    BY <1>4, <1>13, TitlesApart
  <2>2. ASSUME NEW d \in Callers, call[d].at = "append",
               NEW f \in Files, NEW i \in DOMAIN Image.entries[f]
        PROVE  Image.entries[f][i].name # names[call[d].entry.id]
    <3>1. /\ stack["undo"][f][i] \in Held /\ InUndo(stack["undo"][f][i])
          /\ Image.entries[f][i].name = names[stack["undo"][f][i].id]
          /\ names[stack["undo"][f][i].id] # None /\ stack["undo"][f][i].id \in Objects
      BY <1>4, <1>13, DequeFacts
    <3>2. call[d].entry.id \in Objects /\ stack["undo"][f][i].id # call[d].entry.id
      BY <1>4, <2>2, <3>1 DEF Apiece, TypeOK, Formed, Held
    <3> QED BY <1>4, <3>1, <3>2 DEF NamesApart
  <2>3. Image' = Image
    BY <1>1, <1>5 DEF Image, NameOf
  <2> QED BY <1>2, <1>5, <1>13, <2>1, <2>2, <2>3 DEF Tidy
<1>15. ASSUME NEW f \in Files
       PROVE  Agree(Titles(f)', Roll(Image.entries[f]), Claimed(Callers \ {c})', Readable(f)')
  <2> DEFINE T == Titles(f)
             X == Claimed(Callers \ {c})'
             S == Readable(f)'
  <2>1. \A i, k \in DOMAIN T : T[i] = T[k] => i = k
    BY <1>4, DequeFacts, TitlesApart
  <2> HIDE DEF T, X, S
  <2>2. Agree(T, T, X, S)
    BY <2>1, AgreeSelf
  <2> QED BY <1>9, <1>13, <2>2 DEF T, X, S
<1>16. Tracks(call[c].shot.entries, Callers \ {c})'
  <2>1. Image' = Image /\ call'[c].shot.entries = Image.entries
    BY <1>1, <1>2, <1>5 DEF Image, NameOf
  <2>2. Tidy(call[c].shot.entries)'
    BY <1>14, <2>1 DEF Tidy
  <2>3. Agrees(call[c].shot.entries, Callers \ {c})'
    BY <1>15, <2>1 DEF Agrees
  <2> QED BY <2>2, <2>3 DEF Tracks
<1>17. \A d \in Callers : call'[d].at = "rename" => d = c
  BY <1>2, <1>3
<1> QED BY <1>6, <1>8, <1>12, <1>16, <1>17 DEF Track

\* The call whose snapshot becomes the manifest has nothing in hand any more.
LEMMA WriteManifestTrack ==
    ASSUME TypeOK, TypeOK', Own, Track, Intact', NEW c \in Callers, WriteManifest(c)
    PROVE  Track'
<1>1. /\ call[c].at = "rename" /\ call \in [Callers -> Calls] /\ lock = c
      /\ UNCHANGED <<stack, nextSeq, names, store, unread>>
      /\ manifest' = call[c].shot
  BY DEF WriteManifest, At, TypeOK, memory, Intact, Suffer
<1>2. /\ call'[c].at = "idle" /\ \A d \in Callers \ {c} : call'[d] = call[d]
  BY <1>1 DEF WriteManifest, Return, Idle
<1>3. \A d \in Callers : call'[d].at # "rename"
  BY <1>1, <1>2 DEF TypeOK, At
<1>4. NamesApart /\ FilesThere /\ Reading /\ Tracks(call[c].shot.entries, Callers \ {c})
  BY <1>1 DEF Track
<1>5. NamesApart' /\ FilesThere'
  BY <1>1, <1>2, <1>4 DEF NamesApart, FilesThere, InUndo
<1>6. Reading'
  BY <1>1, <1>4, ReadingFacts, ReadingStays
<1>7. Tidy(manifest.entries)'
  BY <1>1, <1>2, <1>4 DEF Tracks, Tidy
<1>8. ASSUME NEW f \in Files
      PROVE  Agree(Titles(f)', Roll(call[c].shot.entries[f]), Claimed(Callers)', Readable(f)')
  <2> DEFINE T == Titles(f)
             E == Roll(call[c].shot.entries[f])
             X == Claimed(Callers \ {c})
             X2 == Claimed(Callers)'
             S == Readable(f)
  <2>1. Titles(f)' = T /\ Readable(f)' = S
    BY <1>1 DEF Titles, Readable
  <2>2. X \subseteq X2
    BY <1>1, <1>2 DEF Claimed, Claims
  <2>3. Agree(T, E, X, S)
    BY <1>4 DEF Tracks, Agrees
  <2> HIDE DEF T, E, X, X2, S
  <2>4. Agree(T, E, X2, S)
    BY <2>2, <2>3 DEF Agree
  <2> QED BY <2>1, <2>4 DEF E, X2
<1>9. Tracks(manifest.entries, Callers)'
  BY <1>1, <1>7, <1>8 DEF Tracks, Agrees
<1> QED BY <1>3, <1>5, <1>6, <1>9 DEF Track

\* A new process has no entries, and the whole manifest to read.
LEMMA RestartTrack ==
    ASSUME TypeOK, TypeOK', Own, Track, Restart, Intact'
    PROVE  Track'
<1>1. /\ unread' = manifest.entries /\ names' = [id \in Objects |-> None]
      /\ \A c \in Callers : call'[c].at = "idle"
      /\ \A f \in Files : stack'["undo"][f] = <<>>
      /\ UNCHANGED <<store, manifest>>
  BY DEF Restart, files, Idle, Ways, Intact, Suffer
<1>2. Tidy(manifest.entries) /\ manifest.entries \in [Files -> Seq(Slot)]
  BY DEF Track, Tracks, TypeOK, Manifests
<1>3. \A f \in Files : DOMAIN stack'["undo"][f] = {} /\ Len(stack'["undo"][f]) = 0
  BY <1>1, EmptySeq
<1>4. NamesApart' /\ FilesThere'
  BY <1>1, <1>3 DEF NamesApart, FilesThere, InUndo
<1>5. Reading'
  <2>1. ASSUME NEW f \in Files
        PROVE  LET E == manifest'.entries[f]  u == unread'[f] IN
               /\ Len(u) <= Len(E)
               /\ \A j \in 1..Len(u) : u[j] = E[Len(E) - Len(u) + j]
               /\ Len(stack'["undo"][f]) + Len(u) <= MaxUndo
    <3> DEFINE E == manifest.entries[f]
               n == Len(E)
    <3>1. n \in Nat /\ n <= MaxUndo
      BY <1>2, RollFacts DEF Tidy
    <3> HIDE DEF n
    <3>2. n <= n /\ 0 + n <= MaxUndo /\ \A j \in 1..n : n - n + j = j
      BY <3>1
    <3>3. unread'[f] = E /\ manifest'.entries[f] = E
      BY <1>1
    <3> HIDE DEF E
    <3> QED BY <1>3, <3>2, <3>3 DEF n
  <2> QED BY <1>1, <2>1 DEF Reading
<1>6. Tidy(manifest.entries)'
  BY <1>1, <1>2 DEF Tidy
<1>7. ASSUME NEW f \in Files
      PROVE  Agree(Titles(f)', Roll(manifest.entries[f]), Claimed(Callers)', Readable(f)')
  <2>1. DOMAIN Titles(f)' = {}
    BY <1>3 DEF Titles
  <2>2. \A j \in DOMAIN Roll(manifest.entries[f]) : Roll(manifest.entries[f])[j] \notin Readable(f)'
    BY <1>1 DEF Readable, Roll
  <2> QED BY <2>1, <2>2 DEF Agree
<1>8. Tracks(manifest.entries, Callers)'
  BY <1>1, <1>6, <1>7 DEF Tracks, Agrees
<1> QED BY <1>1, <1>4, <1>5, <1>8 DEF Track

\* The next slot is passed over for good, or its entry becomes the top of the deque.
LEMMA LoadTrack ==
    ASSUME TypeOK, TypeOK', Own, Track, Intact', NEW f \in Files, Load(f)
    PROVE  Track'
<1> DEFINE u == unread[f]
           slot == Head(u)
           E == manifest.entries[f]
           dq == stack["undo"][f]
           n == Len(u)
           m == Len(E)
           q == Len(dq)
           p == m - n + 1
<1>1. /\ u \in Seq(Slot) /\ u # <<>> /\ unread \in [Files -> Seq(Slot)]
      /\ stack \in [Ways -> [Files -> Seq(Held)]]
      /\ names \in [Objects -> Names \cup {None}]
      /\ store \in [Names -> Contents \cup {None}]
      /\ manifest.entries \in [Files -> Seq(Slot)] /\ E \in Seq(Slot) /\ dq \in Seq(Held)
      /\ unread' = [unread EXCEPT ![f] = Tail(u)]
      /\ UNCHANGED <<nextSeq, call, store, manifest>>
  BY DEF Load, TypeOK, files, Ways, Manifests
<1>2. /\ NamesApart /\ FilesThere /\ Reading /\ EntriesOwn
      /\ Tidy(manifest.entries) /\ Agrees(manifest.entries, Callers)
      /\ AllNumbered(unread, nextSeq)
  BY DEF Track, Tracks, Own, SlotsOwn
<1>3. \A c \in Callers : call[c].at = "idle"
  BY <1>1, <1>2, ReadingFacts DEF Loaded
<1>4. /\ Len(u) \in Nat \ {0} /\ Len(E) \in Nat /\ Len(dq) \in Nat
      /\ Len(u) <= Len(E) /\ Len(dq) + Len(u) <= MaxUndo
      /\ \A j \in 1..Len(u) : u[j] = E[Len(E) - Len(u) + j]
      /\ slot = u[1] /\ slot \in Slot /\ DOMAIN u = 1..Len(u) /\ DOMAIN E = 1..Len(E)
      /\ DOMAIN dq = 1..Len(dq)
  <2>1. Len(u) \in Nat \ {0} /\ slot = u[1] /\ slot \in Slot
    BY <1>1, HeadTailProperties, EmptySeq, LenProperties
  <2> QED BY <1>1, <1>2, <2>1, LenProperties DEF Reading
<1>5. /\ Len(Tail(u)) = Len(u) - 1 /\ DOMAIN Tail(u) = 1..(Len(u) - 1)
      /\ \A j \in 1..(Len(u) - 1) : Tail(u)[j] = u[j + 1]
  BY <1>1, HeadTailProperties, LenProperties
<1>6. \A g \in Files \ {f} : unread'[g] = unread[g]
  BY <1>1
<1>7. unread'[f] = Tail(u)
  BY <1>1
<1>8. /\ n \in Nat \ {0} /\ m \in Nat /\ q \in Nat /\ n <= m /\ q + n <= MaxUndo
      /\ MaxUndo \in Nat
  BY <1>4, MaxUndoPositive
<1>9. p \in 1..m /\ 1 \in 1..n /\ m - n + 1 = p
  <2> HIDE DEF n, m
  <2> QED BY <1>8
<1>10. /\ slot = E[p] /\ slot.name \in Names /\ slot = u[1] /\ p \in DOMAIN E /\ 1 \in DOMAIN u
       /\ store[slot.name] \in Contents \cup {None} /\ slot.name[1] < nextSeq
  <2>1. slot = E[p] /\ slot.name \in Names /\ slot = u[1] /\ p \in DOMAIN E /\ 1 \in DOMAIN u
    BY <1>4, <1>9 DEF Slot
  <2> QED BY <1>1, <1>2, <2>1 DEF AllNumbered, Numbered
\* The unread slots are slots of the manifest, after p; those left are others.
<1>11. \A i \in DOMAIN u, j \in DOMAIN E : E[j].name = u[i].name => j = m - n + i
  <2>1. ASSUME NEW i \in DOMAIN u PROVE m - n + i \in DOMAIN E /\ u[i] = E[m - n + i]
    <3>1. i \in 1..n
      BY <1>4
    <3>2. m - n + i \in 1..m
      <4> HIDE DEF n, m
      <4> QED BY <1>8, <3>1
    <3> QED BY <1>4, <3>1, <3>2
  <2> SUFFICES ASSUME NEW i \in DOMAIN u, NEW j \in DOMAIN E, E[j].name = u[i].name
               PROVE  j = m - n + i
    OBVIOUS
  <2> DEFINE l == m - n + i
  <2>2. l \in DOMAIN E /\ E[j].name = E[l].name
    BY <2>1
  <2> HIDE DEF l
  <2>3. j = l
    BY <1>2, <2>2 DEF Tidy
  <2> QED BY <2>3 DEF l
<1>12. \A j \in 1..m : j >= p => \E i \in DOMAIN u : u[i] = E[j]
  <2> SUFFICES ASSUME NEW j \in 1..m, j >= p PROVE \E i \in DOMAIN u : u[i] = E[j]
    OBVIOUS
  <2> DEFINE i == j - (m - n)
  <2>1. i \in 1..n /\ m - n + i = j
    <3> HIDE DEF n, m
    <3> QED BY <1>8, <1>9
  <2> HIDE DEF i
  <2>2. i \in DOMAIN u /\ u[i] = E[j]
    BY <1>4, <2>1
  <2> QED BY <2>2
<1>13. \A j \in DOMAIN Tail(u) : /\ j + 1 \in DOMAIN u /\ Tail(u)[j] = u[j + 1]
                                 /\ Tail(u)[j].name # slot.name
  <2> SUFFICES ASSUME NEW j \in DOMAIN Tail(u)
               PROVE  /\ j + 1 \in DOMAIN u /\ Tail(u)[j] = u[j + 1]
                      /\ Tail(u)[j].name # slot.name
    OBVIOUS
  <2>1. j \in 1..(n - 1)
    BY <1>5
  <2>2. j + 1 \in 1..n /\ m - n + (j + 1) # p
    <3> HIDE DEF n, m
    <3> QED BY <1>8, <1>9, <2>1
  <2>3. j + 1 \in DOMAIN u /\ Tail(u)[j] = u[j + 1]
    BY <1>4, <1>5, <2>1, <2>2
  <2> QED BY <1>10, <1>11, <2>2, <2>3
<1>14. \A i \in DOMAIN u : i # 1 => \E j \in DOMAIN Tail(u) : Tail(u)[j] = u[i]
  <2> SUFFICES ASSUME NEW i \in DOMAIN u, i # 1
               PROVE  \E j \in DOMAIN Tail(u) : Tail(u)[j] = u[i]
    OBVIOUS
  <2> DEFINE j == i - 1
  <2>1. i \in 1..n
    BY <1>4
  <2>2. j \in 1..(n - 1) /\ j + 1 = i
    <3> HIDE DEF n
    <3> QED BY <1>8, <2>1
  <2> HIDE DEF j
  <2>3. Tail(u)[j] = u[i] /\ j \in DOMAIN Tail(u)
    BY <1>5, <2>2
  <2> QED BY <2>3
<1> HIDE DEF p
<1>15. ASSUME NEW g \in Files, NEW j \in DOMAIN unread'[g]
       PROVE  /\ \E i \in DOMAIN unread[g] : unread'[g][j] = unread[g][i]
              /\ unread'[g][j].name # slot.name
  <2>1. CASE g = f
    BY <1>7, <1>13, <2>1
  <2>2. CASE g # f
    <3>1. unread'[g] = unread[g]
      BY <1>6, <2>2
    <3>2. \E l \in DOMAIN manifest.entries[g] : unread[g][j] = manifest.entries[g][l]
      <4> DEFINE v == Len(unread[g])  w == Len(manifest.entries[g])
      <4>1. v \in Nat /\ w \in Nat /\ v <= w /\ j \in 1..v /\ DOMAIN manifest.entries[g] = 1..w
        BY <1>1, <1>2, <3>1, RollFacts DEF Reading
      <4>2. unread[g][j] = manifest.entries[g][w - v + j]
        BY <1>2, <4>1 DEF Reading
      <4> HIDE DEF v, w
      <4>3. w - v + j \in 1..w
        BY <4>1
      <4> QED BY <4>1, <4>2, <4>3
    <3> QED BY <1>2, <1>10, <2>2, <3>1, <3>2 DEF Tidy
  <2> QED BY <2>1, <2>2
\* What holds in either case.
<1>16. Loaded' \/ \A c \in Callers : call'[c].at = "idle"
  BY <1>1, <1>3
<1>17. ASSUME \A g \in Files \ {f} : stack'["undo"][g] = stack["undo"][g],
              Len(stack'["undo"][f]) \in {q, q + 1}
       PROVE  Reading'
  <2>1. ASSUME NEW g \in Files
        PROVE  LET D == manifest'.entries[g]  v == unread'[g] IN
               /\ Len(v) <= Len(D)
               /\ \A j \in 1..Len(v) : v[j] = D[Len(D) - Len(v) + j]
               /\ Len(stack'["undo"][g]) + Len(v) <= MaxUndo
    <3>1. CASE g # f
      BY <1>1, <1>2, <1>6, <1>17, <3>1 DEF Reading
    <3>2. CASE g = f
      <4>1. Len(Tail(u)) = n - 1 /\ \A j \in 1..(n - 1) : Tail(u)[j] = u[j + 1]
        BY <1>5
      <4>2. \A i \in 1..n : u[i] = E[m - n + i]
        BY <1>4
      <4> HIDE DEF n, m, q
      <4>3. /\ n - 1 <= m /\ q + (n - 1) <= MaxUndo /\ q + 1 + (n - 1) <= MaxUndo
            /\ \A j \in 1..(n - 1) : j + 1 \in 1..n /\ m - n + (j + 1) = m - (n - 1) + j
        BY <1>8
      <4>4. \A j \in 1..(n - 1) : Tail(u)[j] = E[m - (n - 1) + j]
        BY <4>1, <4>2, <4>3
      <4> QED BY <1>1, <1>7, <1>17, <3>2, <4>1, <4>3, <4>4 DEF m
    <3> QED BY <3>1, <3>2
  <2> QED BY <1>16, <2>1 DEF Reading
<1>18. Tidy(manifest.entries)'
  BY <1>1, <1>2, <1>3 DEF Tidy
<1>19. /\ Claimed(Callers)' = Claimed(Callers)
       /\ \A g \in Files \ {f} : Readable(g)' = Readable(g)
  BY <1>1, <1>3, <1>6 DEF Claimed, Claims, Readable
<1>20. \A j \in DOMAIN E :
          E[j].name \in Readable(f)' => E[j].name \in Readable(f) \/ j = p
  <2> SUFFICES ASSUME NEW j \in DOMAIN E, E[j].name \in Readable(f)', j # p
               PROVE  E[j].name \in Readable(f)
    OBVIOUS
  <2>1. /\ E[j].name \in Names /\ store[E[j].name] # None
        /\ \A i \in DOMAIN Tail(u) : Tail(u)[i].name # E[j].name
    BY <1>1, <1>7 DEF Readable
  <2>2. \A i \in DOMAIN u : u[i].name # E[j].name
    <3>1. u[1].name = slot.name /\ E[j].name # slot.name
      BY <1>2, <1>10 DEF Tidy
    <3> QED BY <1>14, <2>1, <3>1
  <2> QED BY <2>1, <2>2 DEF Readable
<1>21. /\ DOMAIN Roll(E) = DOMAIN E /\ DOMAIN E \subseteq Nat
       /\ \A j \in DOMAIN E : Roll(E)[j] = E[j].name
  BY <1>1, RollFacts
<1> HIDE DEF n, m, q
<1>22. CASE UNCHANGED <<stack, names>> /\ store[slot.name] = None
  <2>1. NamesApart' /\ FilesThere'
    BY <1>1, <1>2, <1>15, <1>22 DEF NamesApart, FilesThere, InUndo
  <2>2. Reading'
    BY <1>17, <1>22 DEF q
  <2>3. ASSUME NEW g \in Files
        PROVE  Agree(Titles(g)', Roll(manifest.entries[g]), Claimed(Callers)', Readable(g)')
    <3>1. Titles(g)' = Titles(g)
      BY <1>22 DEF Titles
    <3>2. CASE g # f
      BY <1>2, <1>19, <3>1, <3>2 DEF Agrees
    <3>3. CASE g = f
      <4>1. \A j \in DOMAIN E : E[j].name \in Readable(f)' => E[j].name \in Readable(f)
        BY <1>1, <1>10, <1>20, <1>22 DEF Readable
      <4>2. Agree(Titles(f), Roll(E), Claimed(Callers), Readable(f))
        BY <1>2 DEF Agrees
      <4> HIDE DEF E
      <4> DEFINE T == Titles(f)  X == Claimed(Callers)  S == Readable(f)  S2 == Readable(f)'
      <4>3. \A j \in DOMAIN Roll(E) : Roll(E)[j] \in S2 => Roll(E)[j] \in S
        BY <1>21, <4>1
      <4> HIDE DEF T, X, S, S2
      <4>4. Agree(T, Roll(E), X, S2)
        BY <4>2, <4>3 DEF Agree, T, X, S
      <4> QED BY <1>19, <3>1, <3>3, <4>4 DEF T, X, S2, E
    <3> QED BY <3>2, <3>3
  <2>4. Agrees(manifest.entries, Callers)'
    BY <1>1, <2>3 DEF Agrees
  <2> QED BY <1>1, <1>3, <1>18, <2>1, <2>2, <2>4 DEF Track, Tracks
<1>23. ASSUME NEW id \in Objects \ Live, store[slot.name] # None,
              stack' = [stack EXCEPT !["undo"][f] =
                           Appended(@, [id |-> id, what |-> store[slot.name]])],
              names' = [names EXCEPT ![id] = slot.name]
       PROVE  Track'
  <2> DEFINE e == [id |-> id, what |-> store[slot.name]]
             T == Titles(f)
             T2 == Titles(f)'
  <2>1. e \in Held /\ e.id = id /\ e.what = store[slot.name] /\ id \in Objects
    BY <1>10, <1>23 DEF Held
  <2>2. /\ stack'["undo"][f] = Appended(dq, e)
        /\ \A g \in Files \ {f} : stack'["undo"][g] = stack["undo"][g]
    BY <1>1, <1>23 DEF Ways
  <2> HIDE DEF e
  <2>3. \A d \in Held : InUndo(d) => d.id \in Objects \ {id} /\ names[d.id] # None
    BY <1>2, InUse DEF EntriesOwn, Filed, Held
  <2>4. names'[id] = slot.name /\ \A x \in Objects \ {id} : names'[x] = names[x]
    BY <1>1, <1>23
  <2>5. /\ DOMAIN stack'["undo"][f] = 1..(q + 1) /\ Len(stack'["undo"][f]) = q + 1
        /\ \A i \in 1..q : stack'["undo"][f][i] = dq[i]
        /\ stack'["undo"][f][q + 1] = e
    <3>1. q < MaxUndo
      BY <1>8
    <3>2. /\ Appended(dq, e) = Append(dq, e) /\ Append(dq, e) \in Seq(Held)
          /\ Len(Append(dq, e)) = q + 1
          /\ \A i \in 1..q : Append(dq, e)[i] = dq[i]
          /\ Append(dq, e)[q + 1] = e
      BY <1>1, <2>1, <3>1, AppendProperties DEF Appended, q
    <3> QED BY <2>2, <3>2, LenProperties
  <2>6. \A x \in Objects : names[x] # None =>
           \A g \in Files : \A j \in DOMAIN unread[g] : unread[g][j].name # names[x]
    BY <1>2 DEF NamesApart
  <2>7. NamesApart'
    <3>1. \A x \in Objects \ {id} : names[x] # None => names[x] # slot.name
      BY <1>10, <2>6
    <3>2. \A x \in Objects : names'[x] # None => names'[x][1] < nextSeq'
      BY <1>1, <1>2, <1>10, <2>4 DEF NamesApart
    <3>3. \A x \in Objects : names'[x] # None =>
             \A g \in Files : \A j \in DOMAIN unread'[g] : unread'[g][j].name # names'[x]
      BY <1>15, <2>4, <2>6
    <3>4. \A a, b \in Objects : names'[a] # None /\ names'[a] = names'[b] => a = b
      BY <1>2, <2>4, <3>1 DEF NamesApart
    <3> QED BY <3>2, <3>3, <3>4 DEF NamesApart
  <2>8. FilesThere'
    <3>1. \A d \in Held : InUndo(d)' => InUndo(d) \/ d = e
      BY <1>2, <2>1, <2>2, <2>3, AppendApart DEF EntriesOwn
    <3>2. \A d \in Held : InUndo(d) => names'[d.id] = names[d.id] /\ store[names[d.id]] = d.what
      BY <1>2, <2>3, <2>4 DEF FilesThere
    <3> QED BY <1>1, <1>3, <2>1, <2>4, <3>1, <3>2 DEF FilesThere
  <2>9. Reading'
    BY <1>17, <2>2, <2>5
  <2>10. ASSUME NEW g \in Files, NEW i \in DOMAIN stack["undo"][g]
         PROVE  /\ names'[stack["undo"][g][i].id] = names[stack["undo"][g][i].id]
                /\ Titles(g)[i] = names[stack["undo"][g][i].id]
                /\ stack["undo"][g][i].id \in Objects /\ Titles(g)[i] # None
    BY <1>2, <2>3, <2>4, DequeFacts
  <2>11. ASSUME NEW g \in Files \ {f} PROVE Titles(g)' = Titles(g)
    <3>1. \A i \in DOMAIN stack["undo"][g] :
             names'[stack["undo"][g][i].id] = names[stack["undo"][g][i].id]
      BY <2>10
    <3> QED BY <2>2, <3>1 DEF Titles
  <2>12. DOMAIN T = 1..q /\ DOMAIN T2 = 1..(q + 1)
    BY <1>4, <2>5 DEF Titles, q
  <2>13. (\A i \in 1..q : T2[i] = T[i]) /\ T2[q + 1] = slot.name
    <3>1. \A i \in 1..(q + 1) : T2[i] = names'[stack'["undo"][f][i].id]
      BY <2>5 DEF Titles
    <3>2. \A i \in 1..q : i \in 1..(q + 1) /\ i \in DOMAIN dq
      BY <1>4, <1>8 DEF q
    <3>3. q + 1 \in 1..(q + 1)
      BY <1>8
    <3> HIDE DEF T, T2
    <3> QED BY <2>1, <2>4, <2>5, <2>10, <3>1, <3>2, <3>3 DEF T
  <2>14. \A i \in 1..q : \A j \in DOMAIN E : T[i] = E[j].name => j < p
    <3> SUFFICES ASSUME NEW i \in 1..q, NEW j \in DOMAIN E, T[i] = E[j].name, ~(j < p)
                 PROVE  FALSE
      OBVIOUS
    <3>1. j \in 1..m /\ j >= p
      <4>1. j \in 1..m /\ p \in Nat
        BY <1>4, <1>9 DEF m
      <4> HIDE DEF p
      <4> QED BY <4>1
    <3>2. PICK l \in DOMAIN u : u[l] = E[j]
      BY <1>12, <3>1
    <3>3. i \in DOMAIN dq
      BY <1>4 DEF q
    <3> QED BY <2>6, <2>10, <3>2, <3>3
  <2>15. Agree(T2, Roll(E), Claimed(Callers), Readable(f)')
    <3> DEFINE D == Roll(E)  X == Claimed(Callers)  S == Readable(f)  S2 == Readable(f)'
    <3>1. Agree(T, D, X, S)
      BY <1>2 DEF Agrees
    <3>2. \A j, l \in DOMAIN D : D[j] = D[l] => j = l
      BY <1>2, <1>21 DEF Tidy
    <3>3. p \in DOMAIN D /\ DOMAIN D \subseteq Nat /\ D[p] = slot.name
      BY <1>10, <1>21
    <3>4. \A j \in DOMAIN D : D[j] \in S2 => D[j] \in S \/ j = p
      BY <1>20, <1>21
    <3>5. \A i \in 1..q : \A j \in DOMAIN D : T[i] = D[j] => j < p
      BY <1>21, <2>14
    <3>6. X \subseteq X /\ q \in Nat
      BY <1>8
    <3> HIDE DEF T, T2, D, X, S, S2, p
    <3>7. Agree(T2, D, X, S2)
      BY <2>12, <2>13, <3>1, <3>2, <3>3, <3>4, <3>5, <3>6, AgreeLoaded
    <3> QED BY <3>7 DEF D, X, S2
  <2>16. ASSUME NEW g \in Files
         PROVE  Agree(Titles(g)', Roll(manifest.entries[g]), Claimed(Callers)', Readable(g)')
    <3>1. CASE g # f
      BY <1>2, <1>19, <2>11, <3>1 DEF Agrees
    <3>2. CASE g = f
      BY <1>19, <2>15, <3>2
    <3> QED BY <3>1, <3>2
  <2>17. Agrees(manifest.entries, Callers)'
    BY <1>1, <2>16 DEF Agrees
  <2> QED BY <1>1, <1>3, <1>18, <2>7, <2>8, <2>9, <2>17 DEF Track, Tracks
<1> QED BY <1>22, <1>23 DEF Load, slot, u, Intact, Suffer

\* Every step keeps the invariant.
LEMMA NextTrack ==
    TypeOK /\ TypeOK' /\ OwnInv /\ TrackInv /\ [Next]_vars => TrackInv'
<1> SUFFICES ASSUME TypeOK, TypeOK', OwnInv, TrackInv, [Next]_vars, Intact' PROVE Track'
  BY DEF TrackInv
<1>1. mishaps \subseteq mishaps'
  BY DEF Next, Step, Push, WriteEntry, Remember, PopUndo, RemoveEntryFile, PopInMemory,
         Snapshot, WriteManifest, Restart, Load, vars, Suffer
<1>2. Own /\ Track
  BY <1>1 DEF OwnInv, Kept, TrackInv, Intact
<1>3. ASSUME NEW c \in Callers, Step(c) PROVE Track'
  <2>1. ASSUME NEW f \in Files, Push(c, f) PROVE Track'
    BY <1>2, <2>1, PushTrack
  <2>2. ASSUME NEW f \in Files, PopUndo(c, f) PROVE Track'
    BY <1>2, <2>2, PopUndoTrack
  <2>3. ASSUME NEW f \in Files, NEW way \in Ways, PopInMemory(c, f, way) PROVE Track'
    BY <2>3 DEF PopInMemory, Suffer, Intact
  <2>4. CASE WriteEntry(c)
    BY <1>2, <2>4, WriteEntryTrack
  <2>5. CASE Remember(c)
    BY <1>2, <2>5, RememberTrack
  <2>6. CASE RemoveEntryFile(c)
    BY <1>2, <2>6, RemoveEntryFileTrack
  <2>7. CASE Snapshot(c)
    BY <1>2, <2>7, SnapshotTrack
  <2>8. CASE WriteManifest(c)
    BY <1>2, <2>8, WriteManifestTrack
  <2> QED BY <1>3, <2>1, <2>2, <2>3, <2>4, <2>5, <2>6, <2>7, <2>8 DEF Step
<1>4. ASSUME NEW f \in Files, Load(f) PROVE Track'
  BY <1>2, <1>4, LoadTrack
<1>5. CASE Restart
  BY <1>2, <1>5, RestartTrack
<1>6. CASE UNCHANGED vars
  <2>1. /\ stack' = stack /\ names' = names /\ store' = store /\ unread' = unread
        /\ manifest' = manifest /\ nextSeq' = nextSeq /\ call' = call
    BY <1>6 DEF vars, memory, files
  <2>2. NamesApart' /\ FilesThere' /\ Reading'
    <3>1. NamesApart'
      BY <1>2, <2>1 DEF Track, NamesApart
    <3>2. FilesThere'
      BY <1>2, <2>1 DEF Track, FilesThere, InUndo
    <3>3. Reading'
      BY <1>2, <2>1 DEF Track, Reading, Loaded
    <3> QED BY <3>1, <3>2, <3>3
  <2>3. \A f \in Files : Titles(f)' = Titles(f) /\ Readable(f)' = Readable(f)
    BY <2>1 DEF Titles, Readable
  <2>4. ASSUME NEW C PROVE Claimed(C)' = Claimed(C)
    BY <2>1 DEF Claimed, Claims
  <2>5. Tracks(manifest.entries, Callers)'
    <3>1. Tidy(manifest.entries)'
      BY <1>2, <2>1 DEF Track, Tracks, Tidy
    <3>2. Agrees(manifest.entries, Callers)'
      BY <1>2, <2>1, <2>3, <2>4 DEF Track, Tracks, Agrees
    <3> QED BY <3>1, <3>2 DEF Tracks
  <2>6. ASSUME NEW c \in Callers, call'[c].at = "rename"
        PROVE  Tracks(call[c].shot.entries, Callers \ {c})'
    <3>1. Tracks(call[c].shot.entries, Callers \ {c})
      BY <1>2, <2>1, <2>6 DEF Track
    <3>2. Tidy(call[c].shot.entries)'
      BY <2>1, <3>1 DEF Tracks, Tidy
    <3>3. Agrees(call[c].shot.entries, Callers \ {c})'
      BY <2>1, <2>3, <2>4, <3>1 DEF Tracks, Agrees
    <3> QED BY <3>2, <3>3 DEF Tracks
  <2> QED BY <2>2, <2>5, <2>6 DEF Track
<1> QED BY <1>3, <1>4, <1>5, <1>6 DEF Next

\* Both invariants hold at all times.
LEMMA TrackAlways == Spec => [](TypeOK /\ OwnInv /\ TrackInv)
BY TypeCorrect, InitOwn, NextOwn, InitTrack, NextTrack, PTL DEF Spec

\* Whatever any number of threads push and undo, in whatever order their steps come,
\* and whenever the process ends and the next one loads: apart from the entries that
\* calls have in hand, a restart finds the undo history that is in memory.
THEOREM DiskAndMemory == Spec => []DiskTracksMemory
BY TrackAlways, TrackDisk, PTL
=============================================================================
