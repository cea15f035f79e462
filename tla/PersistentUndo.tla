--------------------------- MODULE PersistentUndo ---------------------------
(***************************************************************************)
(* PersistentUndoStack: the deques of one server process, the entry files   *)
(* and the manifest it keeps of them in .volta/undo/, threads that push and *)
(* pop, file operations whose OSError is logged and swallowed, and the end  *)
(* of the process with the load that follows it.                            *)
(*                                                                         *)
(* Files are written to a temporary file and renamed, so each is old or new *)
(* and a step.  Left out: clear() and prune_old_entries(), which nothing in *)
(* the package calls; manifests that somebody else has written.             *)
(***************************************************************************)
EXTENDS UndoStack, FiniteSets

CONSTANTS
    Callers,      \* threads of the server
    Files,
    SafeName,     \* _sanitize_filename: the first 60 characters of the path
    Objects,      \* addresses of UndoEntry objects, what id() returns
    Contents,     \* pre_content, post_content and op_type of an entry
    MaxSeq,       \* bound of the run: no push begins with this next_seq
    None

ASSUME PersistentConstants ==
    /\ None \notin Callers \cup Files \cup Objects \cup Contents
    /\ MaxSeq \in Nat
    /\ DOMAIN SafeName = Files

VARIABLES
    stack,      \* stack["undo"][f], stack["redo"][f]: deques of entries
    nextSeq,
    names,      \* _entry_filenames: file name by address of the entry
    lock,       \* holder of _manifest_lock
    call,       \* local state of each caller
    store,      \* the entry files
    manifest,   \* manifest.json
    unread,     \* slots of the manifest that a new process has still to load
    mishaps     \* history: what has happened that disk and deques need not survive

memory == <<stack, nextSeq, names>>
files == <<store, manifest>>
vars == <<memory, lock, call, files, unread, mishaps>>

\* f"{seq:06d}_{safe_name}.json"
Names == (0..MaxSeq) \X {SafeName[f] : f \in Files}

ASSUME NoNameIsNone == None \notin Names

Held == [id : Objects, what : Contents]

\* An element of the manifest's entries; what stands for its op_type.
Slot == [name : Names, what : Contents]

Manifests == [next : 0..MaxSeq, entries : [Files -> Seq(Slot)]]

\* entry: the one a push adds or pop_undo has popped; dropped: history, the name
\* of the entry that push evicts or pop_undo forgets; shot: what _save_manifest
\* writes.
Calls ==
    [at : {"idle", "write", "append", "unlink", "save", "rename"},
     file : Files \cup {None}, entry : Held \cup {None},
     dropped : Names \cup {None}, shot : Manifests \cup {None}]

Idle == [at |-> "idle", file |-> None, entry |-> None, dropped |-> None, shot |-> None]

At(c, point) == call[c].at = point
Go(c, point) == call' = [call EXCEPT ![c].at = point]
Return(c) == call' = [call EXCEPT ![c] = Idle]
Suffer(kind) == mishaps' = mishaps \cup {kind}

\* The objects some deque or some call refers to; the address of any other may
\* be that of the next entry.
Live ==
    {id \in Objects :
        \/ \E way \in Ways, f \in Files :
              \E i \in DOMAIN stack[way][f] : stack[way][f][i].id = id
        \/ \E c \in Callers : call[c] # Idle /\ call[c].entry.id = id}

\* The constructor loads before anybody can call the stack.
Loaded == \A f \in Files : unread[f] = <<>>

-----------------------------------------------------------------------------
Init ==
    /\ stack = [way \in Ways |-> [f \in Files |-> <<>>]]
    /\ nextSeq = 0
    /\ names = [id \in Objects |-> None]
    /\ lock = None
    /\ call = [c \in Callers |-> Idle]
    /\ store = [name \in Names |-> None]
    /\ manifest = [next |-> 0, entries |-> [f \in Files |-> <<>>]]
    /\ unread = [f \in Files |-> <<>>]
    /\ mishaps = {}

\* push() makes the entry.
Push(c, f) ==
    /\ Loaded /\ call[c] = Idle
    /\ nextSeq < MaxSeq
    /\ \E id \in Objects \ Live, v \in Contents :
          call' = [call EXCEPT ![c] = [Idle EXCEPT !.at = "write", !.file = f,
                                                   !.entry = [id |-> id, what |-> v]]]
    /\ UNCHANGED <<memory, lock, files, unread, mishaps>>

\* _write_entry under _manifest_lock: a number, a name and the file; the
\* file may stay unwritten.
WriteEntry(c) ==
    LET e == call[c].entry
        name == <<nextSeq, SafeName[call[c].file]>> IN
    /\ At(c, "write")
    /\ lock = None
    /\ nextSeq < MaxSeq
    /\ nextSeq' = nextSeq + 1
    /\ names' = [names EXCEPT ![e.id] = name]
    /\ \/ store' = [store EXCEPT ![name] = e.what] /\ UNCHANGED mishaps
       \/ Suffer("entry") /\ UNCHANGED store
    /\ Go(c, "append")
    /\ UNCHANGED <<stack, lock, manifest, unread>>

\* The deques, under _lock: a new top, maybe without the oldest entry, no redo.
Remember(c) ==
    LET f == call[c].file  dq == stack["undo"][f] IN
    /\ At(c, "append")
    /\ stack' = [stack EXCEPT !["undo"][f] = Appended(@, call[c].entry),
                              !["redo"][f] = <<>>]
    /\ call' = [call EXCEPT ![c].at = "save",
                            ![c].dropped = IF Len(dq) < MaxUndo THEN None
                                           ELSE names[Head(dq).id]]
    /\ UNCHANGED <<nextSeq, names, lock, files, unread, mishaps>>

\* The top of one deque becomes the top of the other.
Move(f, way) ==
    /\ stack[way][f] # <<>>
    /\ stack' = [stack EXCEPT ![way][f] = Front(@),
                              ![Other(way)][f] = Appended(@, Last(stack[way][f]))]

\* pop_undo(): first the deques ...
PopUndo(c, f) ==
    /\ Loaded /\ call[c] = Idle
    /\ Move(f, "undo")
    /\ call' = [call EXCEPT ![c] = [Idle EXCEPT !.at = "unlink", !.file = f,
                                                !.entry = Last(stack["undo"][f])]]
    /\ UNCHANGED <<nextSeq, names, lock, files, unread, mishaps>>

\* ... then _remove_entry_file: the name is forgotten and the file, if there is
\* a name, unlinked; an OSError leaves it.
RemoveEntryFile(c) ==
    LET id == call[c].entry.id IN
    /\ At(c, "unlink")
    /\ names' = [names EXCEPT ![id] = None]
    /\ \/ names[id] # None /\ store' = [store EXCEPT ![names[id]] = None]
       \/ UNCHANGED store
    /\ call' = [call EXCEPT ![c].at = "save", ![c].dropped = names[id]]
    /\ UNCHANGED <<stack, nextSeq, lock, manifest, unread, mishaps>>

\* pop_redo, pop_latest_undo and pop_latest_redo are those of UndoStack.  Which
\* file the latter two choose is a matter of EditEngine.
PopInMemory(c, f, way) ==
    /\ Loaded /\ call[c] = Idle
    /\ Move(f, way)
    /\ Suffer("stray")
    /\ UNCHANGED <<nextSeq, names, lock, call, files, unread>>

-----------------------------------------------------------------------------
\* _save_manifest.

\* The name of an entry; one without a name gets the number of the next push.
NameOf(f, id) == IF names[id] # None THEN names[id] ELSE <<nextSeq, SafeName[f]>>

Undoable(f, id) == \E i \in DOMAIN stack["undo"][f] : stack["undo"][f][i].id = id

\* The manifest of the deques.
Image ==
    [next |-> nextSeq,
     entries |-> [f \in Files |->
        [i \in DOMAIN stack["undo"][f] |->
            [name |-> NameOf(f, stack["undo"][f][i].id), what |-> stack["undo"][f][i].what]]]]

\* MUTANT of Snapshot: _save_manifest without _manifest_lock.
SnapshotUnlocked(c) ==
    /\ At(c, "save")
    /\ call' = [call EXCEPT ![c].at = "rename", ![c].shot = Image]
    /\ UNCHANGED <<memory, lock, files, unread, mishaps>>

\* _manifest_lock for this step and the next, _lock for this one: the deques are
\* read and the names made up are kept.
Snapshot(c) ==
    /\ At(c, "save")
    /\ lock = None
    /\ lock' = c
    /\ names' = [id \in Objects |->
                    IF \E f \in Files : Undoable(f, id)
                    THEN NameOf(CHOOSE f \in Files : Undoable(f, id), id)
                    ELSE names[id]]
    /\ call' = [call EXCEPT ![c].at = "rename", ![c].shot = Image]
    /\ UNCHANGED <<stack, nextSeq, files, unread, mishaps>>

\* MUTANT of WriteManifest: the lock is released only when the rename succeeds.
WriteManifestLocked(c) ==
    /\ At(c, "rename")
    /\ \/ manifest' = call[c].shot /\ lock' = None /\ UNCHANGED mishaps
       \/ Suffer("manifest") /\ UNCHANGED <<manifest, lock>>
    /\ Return(c)
    /\ UNCHANGED <<memory, store, unread>>

\* The manifest is written and renamed; or it fails and the old one stays.
WriteManifest(c) ==
    /\ At(c, "rename")
    /\ \/ manifest' = call[c].shot /\ UNCHANGED mishaps
       \/ Suffer("manifest") /\ UNCHANGED manifest
    /\ lock' = None
    /\ Return(c)
    /\ UNCHANGED <<memory, store, unread>>

-----------------------------------------------------------------------------
\* MUTANT of LoadedSeq: numbering starts again in every process.
LoadedSeqFresh == 0

\* next_seq of the manifest.
LoadedSeq == manifest.next

\* The process ends, at any point, and the next one reads the manifest; or cannot, and
\* begins with nothing.
Restart ==
    /\ stack' = [way \in Ways |-> [f \in Files |-> <<>>]]
    /\ names' = [id \in Objects |-> None]
    /\ lock' = None
    /\ call' = [c \in Callers |-> Idle]
    /\ \/ nextSeq' = LoadedSeq /\ unread' = manifest.entries /\ UNCHANGED mishaps
       \/ nextSeq' = 0 /\ unread' = [f \in Files |-> <<>>] /\ Suffer("history")
    /\ UNCHANGED files

\* The constructor loads the slots in their order.  One whose file does not exist
\* is passed over, and so is one whose file cannot be read.
Load(f) ==
    LET slot == Head(unread[f]) IN
    /\ unread[f] # <<>>
    /\ unread' = [unread EXCEPT ![f] = Tail(@)]
    /\ \/ /\ store[slot.name] # None
          /\ \E id \in Objects \ Live :
               /\ stack' = [stack EXCEPT !["undo"][f] =
                                Appended(@, [id |-> id, what |-> store[slot.name]])]
               /\ names' = [names EXCEPT ![id] = slot.name]
          /\ UNCHANGED mishaps
       \/ store[slot.name] = None /\ UNCHANGED <<stack, names, mishaps>>
       \/ store[slot.name] # None /\ Suffer("load") /\ UNCHANGED <<stack, names>>
    /\ UNCHANGED <<nextSeq, lock, call, files>>

Step(c) ==
    \/ \E f \in Files : Push(c, f) \/ PopUndo(c, f)
    \/ \E f \in Files, way \in Ways : PopInMemory(c, f, way)
    \/ WriteEntry(c) \/ Remember(c) \/ RemoveEntryFile(c)
    \/ Snapshot(c) \/ WriteManifest(c)

Next ==
    \/ \E c \in Callers : Step(c)
    \/ \E f \in Files : Load(f)
    \/ Restart

Spec == Init /\ [][Next]_vars

-----------------------------------------------------------------------------
\* What a call that has begun carries.
Formed(r) ==
    /\ r.at = "idle" <=> r = Idle
    /\ r.at # "idle" => r.file \in Files /\ r.entry \in Held
    /\ r.at = "rename" => r.shot \in Manifests

\* The type of every variable; the manifest lock is held by the one call that
\* is between its snapshot and the rename.
TypeOK ==
    /\ stack \in [Ways -> [Files -> Seq(Held)]]
    /\ nextSeq \in 0..MaxSeq
    /\ names \in [Objects -> Names \cup {None}]
    /\ lock \in Callers \cup {None}
    /\ call \in [Callers -> Calls]
    /\ store \in [Names -> Contents \cup {None}]
    /\ manifest \in Manifests
    /\ unread \in [Files -> Seq(Slot)]
    /\ mishaps \subseteq {"stray", "entry", "manifest", "load", "history"}
    /\ \A c \in Callers : Formed(call[c]) /\ (lock = c <=> At(c, "rename"))

\* The undo deque, and what a restart would read for each slot of the manifest (it
\* passes over those without a file), with their file names.
Remembered(f) ==
    [i \in DOMAIN stack["undo"][f] |->
        [name |-> names[stack["undo"][f][i].id], what |-> stack["undo"][f][i].what]]
Recorded(f) ==
    [j \in DOMAIN manifest.entries[f] |->
        LET name == manifest.entries[f][j].name IN [name |-> name, what |-> store[name]]]

\* The entries a call under way is adding, popping or evicting.
UnderWay ==
    UNION {{names[call[c].entry.id], call[c].dropped} : c \in {b \in Callers : call[b] # Idle}}

\* The positions of s that hold a file which no call under way has to do with.
Settled(s) == {i \in DOMAIN s : s[i].what # None /\ s[i].name \notin UnderWay}

\* At the positions I, s holds what t holds at the positions J, in the same order.
SameRun(s, I, t, J) ==
    \E h \in Surjection(I, J) :
        /\ \A i \in I : t[h[i]] = s[i]
        /\ \A i, k \in I : i < k => h[i] < h[k]

\* In every interleaving of pushes and undos, and at every point at which the
\* process may die: apart from the entries of the calls that are under way, a
\* restart loads the undo history as it is in memory, in its order.  In
\* particular a push that has returned survives, an entry whose pop_undo has
\* returned does not come back, and between calls the two are equal.
DiskTracksMemory ==
    mishaps = {} /\ Loaded => \A f \in Files :
        SameRun(Remembered(f), Settled(Remembered(f)), Recorded(f), Settled(Recorded(f)))

\* Whatever becomes of the manifest, and although a new process takes numbers
\* its predecessor has used: a slot of the manifest loads the entry that it was
\* written for, or nothing.
SlotsLoadTheirOwn ==
    mishaps \subseteq {"manifest", "load"} => \A f \in Files : \A i \in DOMAIN manifest.entries[f] :
        LET slot == manifest.entries[f][i] IN store[slot.name] \in {None, slot.what}

\* The slots of the manifest whose file exists: what a restart loads.
Exists(slot) == store[slot.name] # None
Found(f) == SelectSeq(manifest.entries[f], Exists)

\* "On push/pop, updates both the in-memory deques and the disk store."
\* (ops/persistent_undo.py:48-49): between calls, and when no write has failed,
\* a restart loads the undo history as it is in memory.
DiskInStep ==
    mishaps \subseteq {"stray"} /\ Loaded /\ (\A c \in Callers : call[c] = Idle) =>
        \A f \in Files : [i \in DOMAIN Found(f) |-> store[Found(f)[i].name]]
                            = [i \in DOMAIN stack["undo"][f] |-> stack["undo"][f][i].what]

=============================================================================
