------------------------ MODULE MultiFileEditsProofs ------------------------
(***************************************************************************)
(* What holds of batches and cross-file operations for any callers, files   *)
(* and number of operations.  First the types, for which a call has to have *)
(* read what it goes on to write; then the locks, for which a call has to   *)
(* be inside exactly those files that its place in the code says; then what *)
(* a call that fails leaves, and what one that succeeds does; last, that no *)
(* call goes round in circles.                                              *)
(***************************************************************************)
EXTENDS MultiFileEdits, SequenceTheorems, FiniteSetTheorems, TLAPS

\* The file at which d is.
Current(d) == d.files[d.n]

\* A call names each file once, and has at least one operation for it; only boards
\* are written raw.
Planned(d) ==
    /\ \A i, j \in DOMAIN d.files : d.files[i] = d.files[j] => i = j
    /\ \A i \in DOMAIN d.files : d.ops[d.files[i]] \in Plans
    /\ \A f \in Files \ Boards : \A i \in DOMAIN d.ops[f] : d.ops[f][i] = "object"
    /\ d.kind = "cross" => d.k = 1
    /\ d.kind = "batch" /\ d.at = "apply" => d.k \in DOMAIN d.ops[Current(d)]

\* It has parsed the files it got past, and read them for its undo stack.
Prepared(c, d) ==
    /\ d.at \in {"capture", "push", "rewrite"} => c \in Undoers
    /\ \A i \in DOMAIN d.files :
         /\ i < d.n \/ d.at # "parse" => d.object[d.files[i]] # None
         /\ c \in Undoers /\ d.at # "parse" /\ (i < d.n \/ d.at # "capture") =>
                d.pre[d.files[i]] # None

\* What it parsed was complete.
Complete(d) ==
    /\ \A f \in Files : d.object[f] # Partial
    /\ d.kind = "batch" /\ d.at = "apply" => d.ir # Partial

Placed(d) == d.at \notin {"idle", "done"} => d.n \in DOMAIN d.files

Formed(c, d) == Placed(d) /\ Planned(d) /\ Prepared(c, d) /\ Complete(d)

\* The inductive invariant behind TypeOK.
TypeInv ==
    /\ TypeOK
    /\ \A c \in Callers : Formed(c, call[c])

\* At its place, with the files in w committed, d is inside the transaction of its i-th
\* file.
Open(d, i, w) ==
    \/ /\ d.kind = "cross"
       /\ \/ d.at \in {"enter", "leaving"} /\ i < d.n
          \/ d.at \in {"apply", "writing"}
          \/ d.at = "commit" /\ i >= d.n
          \/ d.at = "rollback" /\ i <= d.n /\ d.files[i] \notin w
    \/ /\ d.kind = "batch"
       /\ d.at \in {"apply", "write", "writing", "commit", "rollback"} /\ i = d.n

\* The files inside whose transactions d is.
Holding(d, w) == {d.files[i] : i \in {j \in DOMAIN d.files : Open(d, j, w)}}

\* A cross-file operation has committed nothing before it commits, then the files it got
\* past; if it rolls back with some committed, it is one of those lost.
Counted(c, d, w, lost) ==
    d.kind = "cross" =>
        /\ d.at \in {"parse", "capture", "enter", "apply", "writing"} => w = {}
        /\ d.at = "commit" => \A i \in DOMAIN d.files : d.files[i] \in w <=> i < d.n
        /\ d.at \in {"rollback", "leaving"} /\ w # {} => c \in lost

\* The points at which d may have the lock file of a transaction that is not open: one
\* that could not be opened, or not be rolled back.
Closing(d) == d.at = "leaving" \/ (d.at = "rollback" /\ d.kind = "cross")

\* Call d of caller c, with the files in w committed, is inside the files its place says;
\* it owns their lock files, unless there are callers that are lost, and no others.  Only
\* a batch serializes its files on its own.
Owns(c, d, locks, w, lost) ==
    /\ \A f \in Files :
        /\ d.snap[f] # None <=> f \in Holding(d, w)
        /\ lost = {} /\ d.snap[f] # None => locks[f] = c
        /\ locks[f] = c => d.snap[f] # None \/ Closing(d)
    /\ d.at = "write" => d.kind = "batch"
    /\ Counted(c, d, w, lost)

\* The inductive invariant behind LocksRespected and LocksReturned.
LockInv == \A c \in Callers : Owns(c, call[c], lock, committed[c], torn)

-----------------------------------------------------------------------------
(***************************************************************************)
(* Types.                                                                   *)
(***************************************************************************)

\* The places of a call are numbers from one.
LEMMA PlaceTypes ==
    ASSUME NEW d \in Calls, Placed(d), d.at \notin {"idle", "done"}
    PROVE  /\ Len(d.files) \in Nat /\ DOMAIN d.files = 1..Len(d.files)
           /\ d.n \in 1..Len(d.files) /\ 1 \in DOMAIN d.files
           /\ Current(d) \in Files
           /\ d.n # Len(d.files) => d.n + 1 \in DOMAIN d.files
<1>1. d.files \in Seq(Files) /\ d.n \in DOMAIN d.files
  BY DEF Calls, Placed
<1>2. Len(d.files) \in Nat /\ DOMAIN d.files = 1..Len(d.files)
  BY <1>1, LenProperties
<1> QED BY <1>1, <1>2, ElementOfSeq DEF Current

\* The operations on a file that a call names.
LEMMA PlanTypes ==
    ASSUME NEW s \in Plans
    PROVE  /\ s \in Seq(Ways) /\ Len(s) \in 1..MaxOps /\ DOMAIN s = 1..Len(s)
           /\ 1 \in DOMAIN s
<1>1. PICK n \in 1..MaxOps : s \in [1..n -> Ways]
  BY DEF Plans
<1>2. n \in Nat /\ MaxOps \in Nat
  BY EditConstants
<1>3. s \in Seq(Ways)
  BY <1>1, <1>2, SeqDef
<1>4. Len(s) = n
  BY <1>1, <1>2, <1>3, LenProperties
<1> QED BY <1>1, <1>2, <1>3, <1>4

\* Moving a call to a point, or to a point and a file.
LEMMA MoveTypes ==
    ASSUME NEW d \in Calls, NEW p \in Points, NEW i \in Nat
    PROVE  /\ [d EXCEPT !.at = p] \in Calls
           /\ [d EXCEPT !.at = p, !.n = i] \in Calls
           /\ \A o \in {"ok", "failed", "raised"} :
                  [d EXCEPT !.at = p, !.outcome = o, !.n = i] \in Calls
BY DEF Calls

\* A content that is read or written has the type of one.
LEMMA ContentTypes ==
    ASSUME NEW v \in Contents
    PROVE  /\ v # None /\ v \in Contents \cup {None}
           /\ v # Partial => v \in SUBSET Edits
BY DistinctContents DEF Contents

\* A call that is over, or has not begun.
LEMMA EndedFormed ==
    ASSUME NEW c \in Callers, NEW outcome \in {"ok", "failed", "raised", None}
    PROVE  /\ Idle \in Calls /\ Formed(c, Idle)
           /\ Ended(outcome) \in Calls /\ Formed(c, Ended(outcome))
<1>1. <<>> \in Seq(Files) /\ <<>> \in Seq(Ways) /\ DOMAIN <<>> = {}
  BY EmptySeq
<1>2. Idle \in Calls
  BY <1>1 DEF Idle, Calls, Points, Nothing
<1>3. Ended(outcome) \in Calls
  BY <1>2 DEF Ended, Calls, Points
<1>4. /\ Idle.at = "idle" /\ Idle.files = <<>> /\ Idle.kind = "batch"
      /\ Idle.ops = [f \in Files |-> <<>>]
      /\ Idle.object = Nothing /\ Idle.pre = Nothing /\ Idle.snap = Nothing
  BY DEF Idle
<1>5. Ended(outcome).at = "done"
  BY DEF Ended, Idle
<1>6. /\ Ended(outcome).files = <<>> /\ Ended(outcome).kind = "batch"
      /\ Ended(outcome).ops = [f \in Files |-> <<>>]
      /\ Ended(outcome).object = Nothing /\ Ended(outcome).pre = Nothing
      /\ Ended(outcome).snap = Nothing
  BY DEF Ended, Idle
<1>7. \A f \in Files : Nothing[f] # Partial
  BY DistinctContents DEF Nothing
<1>8. Formed(c, Idle)
  BY <1>1, <1>4, <1>7, EditConstants DEF Formed, Placed, Planned, Prepared, Complete
<1>9. Formed(c, Ended(outcome))
  BY <1>1, <1>5, <1>6, <1>7, EditConstants DEF Formed, Placed, Planned, Prepared, Complete
<1> QED BY <1>2, <1>3, <1>8, <1>9

\* A step of one call, to a well-formed one.
LEMMA OneCall ==
    ASSUME TypeInv, NEW c \in Callers, NEW r \in Calls, Formed(c, r),
           call' = [call EXCEPT ![c] = r]
    PROVE  /\ call' \in [Callers -> Calls]
           /\ \A d \in Callers : Formed(d, call'[d])
           /\ \A d \in Callers : Active(d)' => call'[d].n \in DOMAIN call'[d].files
<1>1. call' \in [Callers -> Calls] /\ \A d \in Callers : Formed(d, call'[d])
  BY DEF TypeInv, TypeOK
<1> QED BY <1>1 DEF Formed, Placed, Active

\* What is known of a call that is on.
LEMMA Known ==
    ASSUME TypeInv, NEW c \in Callers, Active(c)
    PROVE  /\ call[c] \in Calls /\ Formed(c, call[c])
           /\ Here(c) = Current(call[c]) /\ Here(c) \in Files
           /\ disk[Here(c)] \in Contents
           /\ call[c].object \in [Files -> Contents \cup {None}]
           /\ call[c].pre \in [Files -> Contents \cup {None}]
           /\ call[c].snap \in [Files -> Contents \cup {None}]
<1>1. call[c] \in Calls /\ Formed(c, call[c])
  BY DEF TypeInv, TypeOK
<1>2. Current(call[c]) \in Files
  BY <1>1, PlaceTypes DEF Active, Formed
<1> QED BY <1>1, <1>2 DEF TypeInv, TypeOK, Here, Current, Calls

\* What a call is when it has moved: the same, elsewhere.
Moved(r, d, p, i) ==
    /\ r \in Calls /\ r.at = p /\ r.n = i
    /\ r.kind = d.kind /\ r.files = d.files /\ r.ops = d.ops /\ r.k = d.k
    /\ r.object = d.object /\ r.ir = d.ir /\ r.pre = d.pre /\ r.snap = d.snap
    /\ r.dirty = d.dirty /\ r.outcome = d.outcome

LEMMA Moves ==
    ASSUME NEW d \in Calls, NEW p \in Points, NEW i \in Nat
    PROVE  /\ Moved([d EXCEPT !.at = p], d, p, d.n)
           /\ Moved([d EXCEPT !.at = p, !.n = i], d, p, i)
BY MoveTypes DEF Moved, Calls

\* A call that begins.
LEMMA BeginFormed ==
    ASSUME NEW c \in Callers, NEW kind \in {"batch", "cross"}, NEW files \in Orders,
           NEW ops \in [Files -> Seq(Ways)],
           \A i \in DOMAIN files : ops[files[i]] \in Plans,
           \A f \in Files \ Boards : \A i \in DOMAIN ops[f] : ops[f][i] = "object"
    PROVE  LET r == [Idle EXCEPT !.at = "parse", !.kind = kind, !.n = 1, !.k = 1,
                                 !.files = files, !.ops = ops]
           IN  r \in Calls /\ Formed(c, r)
<1> DEFINE r == [Idle EXCEPT !.at = "parse", !.kind = kind, !.n = 1, !.k = 1,
                             !.files = files, !.ops = ops]
<1>1. Cardinality(Files) \in Nat
  BY EditConstants, FS_CardinalityType
<1>2. PICK n \in 1..Cardinality(Files) : files \in [1..n -> Files]
  BY DEF Orders
<1>3. /\ n \in Nat /\ 1 \in 1..n
      /\ DOMAIN files = 1..n
      /\ files \in Seq(Files)
  BY <1>1, <1>2, SeqDef
<1>4. \A i, j \in DOMAIN files : files[i] = files[j] => i = j
  BY DEF Orders
<1>5. Idle \in Calls
  BY EndedFormed
<1>6. r \in Calls
  BY <1>3, <1>5 DEF Calls, Points
<1>7. /\ r.at = "parse" /\ r.n = 1 /\ r.files = files /\ r.ops = ops /\ r.k = 1
      /\ r.object = Nothing /\ r.pre = Nothing /\ r.snap = Nothing
  BY DEF Idle
<1> HIDE DEF r
<1>8. \A f \in Files : Nothing[f] # Partial
  BY DistinctContents DEF Nothing
<1>9. \A i \in DOMAIN files : ~(i < 1)
  BY <1>3
<1>10. Formed(c, r)
  BY <1>3, <1>4, <1>7, <1>8, <1>9, EditConstants
     DEF Formed, Placed, Planned, Prepared, Complete
<1> QED BY <1>6, <1>10 DEF r

\* The step of one call keeps the types.
LEMMA OneType ==
    ASSUME TypeInv, NEW c \in Callers, NEW r \in Calls, Formed(c, r),
           call' = [call EXCEPT ![c] = r],
           disk' \in [Files -> Contents],
           lock' \in [Files -> Callers \cup {None}],
           pushed' \in [Files -> Seq([pre : Contents, post : Contents])],
           before' \in [Callers -> [Files -> Contents] \cup {None}], torn' \subseteq Callers,
           committed' \in [Callers -> SUBSET Files], unrestored' \subseteq Files
    PROVE  TypeInv'
BY OneCall DEF TypeInv, TypeOK

\* A call begins.
LEMMA BeginType ==
    ASSUME TypeInv, NEW c \in Callers, ExecuteBatch(c) \/ ExecuteCrossFile(c)
    PROVE  TypeInv'
<1>1. PICK kind \in {"batch", "cross"}, files \in Orders, ops \in [Files -> Seq(Ways)] :
         /\ \A i \in DOMAIN files : ops[files[i]] \in Plans
         /\ \A f \in Files \ Boards : \A i \in DOMAIN ops[f] : ops[f][i] = "object"
         /\ Begin(c, kind, files, ops)
  <2>1. ASSUME NEW files \in Orders
        PROVE  \A i \in DOMAIN files : files[i] \in Files
    BY EditConstants, FS_CardinalityType DEF Orders
  <2>2. CASE ExecuteBatch(c)
    <3>0. PICK files \in Orders : \E ops \in Batches(files) : Begin(c, "batch", files, ops)
      BY <2>2 DEF ExecuteBatch
    <3>1. PICK ops \in Batches(files) : Begin(c, "batch", files, ops)
      BY <3>0
    <3>2. ops \in [Files -> Plans \cup {<<>>}]
      BY DEF Batches
    <3>3. \A i \in DOMAIN files : ops[files[i]] \in Plans
      BY <2>1, <3>2 DEF Batches
    <3>4. Plans \subseteq Seq(Ways) /\ <<>> \in Seq(Ways)
      BY PlanTypes, EmptySeq
    <3>5. ops \in [Files -> Seq(Ways)]
      BY <3>2, <3>4
    <3>6. \A f \in Files \ Boards : \A i \in DOMAIN ops[f] : ops[f][i] = "object"
      BY DEF Batches
    <3> QED BY <3>1, <3>3, <3>5, <3>6
  <2>3. CASE ExecuteCrossFile(c)
    <3> DEFINE s == <<"object">>
    <3>1. s \in [1..1 -> Ways]
      BY DEF Ways
    <3>2. 1 \in 1..MaxOps
      BY EditConstants
    <3>3. s \in Plans /\ s \in Seq(Ways) /\ \A i \in DOMAIN s : s[i] = "object"
      BY <3>1, <3>2, PlanTypes DEF Plans
    <3> HIDE DEF s
    <3>4. PICK files \in Orders : Begin(c, "cross", files, [f \in Files |-> s])
      BY <2>3 DEF ExecuteCrossFile, s
    <3>5. [f \in Files |-> s] \in [Files -> Seq(Ways)]
      BY <3>3
    <3>6. \A i \in DOMAIN files : [f \in Files |-> s][files[i]] \in Plans
      BY <2>1, <3>3
    <3>7. \A f \in Files \ Boards : \A i \in DOMAIN [g \in Files |-> s][f] :
            [g \in Files |-> s][f][i] = "object"
      BY <3>3
    <3> QED BY <3>4, <3>5, <3>6, <3>7
  <2> QED BY <2>2, <2>3
<1> DEFINE r == [Idle EXCEPT !.at = "parse", !.kind = kind, !.n = 1, !.k = 1,
                             !.files = files, !.ops = ops]
<1>2. r \in Calls /\ Formed(c, r)
  BY <1>1, BeginFormed
<1>3. call' = [call EXCEPT ![c] = r]
  BY <1>1 DEF Begin
<1> HIDE DEF r
<1>4. /\ before' \in [Callers -> [Files -> Contents] \cup {None}]
      /\ committed' \in [Callers -> SUBSET Files]
  BY <1>1 DEF Begin, TypeInv, TypeOK
<1> QED BY <1>1, <1>2, <1>3, <1>4, OneType DEF Begin, TypeInv, TypeOK

\* Parse and Capture read the next file.
LEMMA ReadType ==
    ASSUME TypeInv, NEW c \in Callers, Parse(c) \/ Capture(c)
    PROVE  TypeInv'
<1> DEFINE e == call[c]
           f == Here(c)
<1>0. Active(c)
  BY DEF Active, At, Parse, Capture
<1>1. e \in Calls /\ Formed(c, e) /\ f = e.files[e.n] /\ f \in Files /\ disk[f] \in Contents
  BY <1>0, Known DEF Current
<1>2. /\ Len(e.files) \in Nat /\ DOMAIN e.files = 1..Len(e.files)
      /\ e.n \in 1..Len(e.files) /\ 1 \in DOMAIN e.files
  BY <1>0, <1>1, PlaceTypes DEF Formed, Active
<1>3. \A i \in DOMAIN e.files : e.files[i] \in Files
  BY <1>1, <1>2, ElementOfSeq DEF Calls
<1>4. disk[f] # None /\ (disk[f] # Partial => disk[f] \in SUBSET Edits)
  BY <1>1, ContentTypes
<1>5. PICK r \in Calls : Formed(c, r) /\ call' = [call EXCEPT ![c] = r]
  <2>1. CASE Parse(c)
    <3> DEFINE o == [e.object EXCEPT ![f] = disk[f]]
               d == [e EXCEPT !.object = o]
               q == IF c \in Undoers THEN "capture" ELSE "enter"
    <3>1. o \in [Files -> Contents \cup {None}]
      BY <1>1 DEF Calls
    <3>2. d \in Calls /\ d.n = e.n /\ d.files = e.files /\ d.kind = e.kind
          /\ d.ops = e.ops /\ d.k = e.k /\ d.object = o /\ d.ir = e.ir /\ d.pre = e.pre
          /\ d.snap = e.snap
      BY <1>1, <3>1 DEF Calls
    <3>3. call' = [call EXCEPT ![c] = NextFile(d, "parse", Back(d, q))]
      BY <2>1 DEF Parse, Continue, At
    <3>4. e.at = "parse" /\ disk[f] # Partial
      BY <2>1 DEF Parse, At
    <3>5. \A i \in DOMAIN e.files : i <= e.n => o[e.files[i]] # None
      BY <1>1, <1>2, <1>3, <1>4, <3>4 DEF Formed, Prepared, Calls
    <3>6. \A g \in Files : o[g] # Partial
      BY <1>1, <1>3, <3>4 DEF Formed, Complete, Calls
    <3> HIDE DEF o, d, q, e, f
    <3>7. CASE d.n = Len(d.files)
      <4> DEFINE r == [d EXCEPT !.at = q, !.n = 1]
      <4>1. q \in Points /\ q \in {"capture", "enter"} /\ (q = "capture" <=> c \in Undoers)
        BY DEF q, Points
      <4>2. Moved(r, d, q, 1)
        BY <3>2, <4>1, Moves
      <4>3. NextFile(d, "parse", Back(d, q)) = r
        BY <3>7 DEF NextFile, Back
      <4> HIDE DEF r
      <4>4. r \in Calls /\ Placed(r) /\ Planned(r) /\ Complete(r)
        BY <1>1, <1>2, <3>2, <3>6, <4>1, <4>2 DEF Formed, Placed, Planned, Complete, Moved
      <4>5. Prepared(c, r)
        BY <1>1, <1>2, <3>2, <3>5, <3>7, <4>1, <4>2 DEF Formed, Prepared, Moved
      <4> QED BY <3>3, <4>3, <4>4, <4>5 DEF Formed
    <3>8. CASE d.n # Len(d.files)
      <4> DEFINE r == [d EXCEPT !.at = "parse", !.n = d.n + 1]
      <4>1. "parse" \in Points /\ d.n + 1 \in Nat
        BY <1>2, <3>2 DEF Points
      <4>2. Moved(r, d, "parse", d.n + 1)
        BY <3>2, <4>1, Moves
      <4>3. NextFile(d, "parse", Back(d, q)) = r
        BY <3>2, <3>8 DEF NextFile, Calls
      <4> HIDE DEF r
      <4>4. r \in Calls /\ Placed(r) /\ Planned(r) /\ Complete(r)
        <5>1. r \in Calls /\ Placed(r)
          BY <1>2, <3>2, <3>8, <4>1, <4>2 DEF Placed, Moved
        <5>2. Planned(r)
          BY <1>1, <3>2, <4>2 DEF Formed, Planned, Moved
        <5>3. Complete(r)
          BY <1>1, <3>2, <3>6, <4>2 DEF Formed, Complete, Moved
        <5> QED BY <5>1, <5>2, <5>3
      <4>5. Prepared(c, r)
        <5>1. /\ r.at = "parse" /\ r.n = e.n + 1 /\ r.files = e.files
              /\ r.object = o /\ r.pre = e.pre
          BY <3>2, <4>2 DEF Moved
        <5>2. \A i \in DOMAIN e.files : i < e.n + 1 => i <= e.n
          BY <1>2
        <5> QED BY <3>5, <5>1, <5>2 DEF Prepared
      <4> QED BY <3>3, <4>3, <4>4, <4>5 DEF Formed
    <3> QED BY <3>7, <3>8
  <2>2. CASE Capture(c)
    <3> DEFINE o == [e.pre EXCEPT ![f] = disk[f]]
               d == [e EXCEPT !.pre = o]
    <3>1. o \in [Files -> Contents \cup {None}]
      BY <1>1 DEF Calls
    <3>2. d \in Calls /\ d.n = e.n /\ d.files = e.files /\ d.kind = e.kind
          /\ d.ops = e.ops /\ d.k = e.k /\ d.object = e.object /\ d.ir = e.ir /\ d.pre = o
          /\ d.snap = e.snap
      BY <1>1, <3>1 DEF Calls
    <3>3. call' = [call EXCEPT ![c] = NextFile(d, "capture", Back(d, "enter"))]
      BY <2>2 DEF Capture, Continue, At
    <3>4. e.at = "capture" /\ c \in Undoers
      BY <1>1, <2>2 DEF Capture, At, Formed, Prepared
    <3>5. \A i \in DOMAIN e.files : i <= e.n => o[e.files[i]] # None
      BY <1>1, <1>2, <1>3, <1>4, <3>4 DEF Formed, Prepared, Calls
    <3> HIDE DEF o, d, e, f
    <3>7. CASE d.n = Len(d.files)
      <4> DEFINE r == [d EXCEPT !.at = "enter", !.n = 1]
      <4>1. "enter" \in Points
        BY DEF Points
      <4>2. Moved(r, d, "enter", 1)
        BY <3>2, <4>1, Moves
      <4>3. NextFile(d, "capture", Back(d, "enter")) = r
        BY <3>7 DEF NextFile, Back
      <4> HIDE DEF r
      <4>4. r \in Calls /\ Placed(r) /\ Planned(r) /\ Complete(r)
        BY <1>1, <1>2, <3>2, <4>1, <4>2 DEF Formed, Placed, Planned, Complete, Moved
      <4>5. Prepared(c, r)
        BY <1>1, <1>2, <3>2, <3>4, <3>5, <3>7, <4>1, <4>2 DEF Formed, Prepared, Moved
      <4> QED BY <3>3, <4>3, <4>4, <4>5 DEF Formed
    <3>8. CASE d.n # Len(d.files)
      <4> DEFINE r == [d EXCEPT !.at = "capture", !.n = d.n + 1]
      <4>1. "capture" \in Points /\ d.n + 1 \in Nat
        BY <1>2, <3>2 DEF Points
      <4>2. Moved(r, d, "capture", d.n + 1)
        BY <3>2, <4>1, Moves
      <4>3. NextFile(d, "capture", Back(d, "enter")) = r
        BY <3>2, <3>8 DEF NextFile, Calls
      <4> HIDE DEF r
      <4>4. r \in Calls /\ Placed(r) /\ Planned(r) /\ Complete(r)
        <5>1. r \in Calls /\ Placed(r)
          BY <1>2, <3>2, <3>8, <4>1, <4>2 DEF Placed, Moved
        <5>2. Planned(r)
          BY <1>1, <3>2, <4>2 DEF Formed, Planned, Moved
        <5>3. Complete(r)
          BY <1>1, <3>2, <4>2 DEF Formed, Complete, Moved
        <5> QED BY <5>1, <5>2, <5>3
      <4>5. Prepared(c, r)
        <5>1. \A i \in DOMAIN e.files : e.object[e.files[i]] # None
          BY <1>1, <3>4 DEF Formed, Prepared
        <5>2. \A i \in DOMAIN e.files : i < r.n => i <= e.n
          BY <1>2, <3>2, <4>2 DEF Moved
        <5> QED BY <3>2, <3>4, <3>5, <4>2, <5>1, <5>2 DEF Prepared, Moved
      <4> QED BY <3>3, <4>3, <4>4, <4>5 DEF Formed
    <3> QED BY <3>7, <3>8
  <2> QED BY <2>1, <2>2
<1>6. /\ disk' = disk /\ lock' = lock /\ pushed' = pushed /\ before' = before
      /\ committed' = committed /\ torn' = torn /\ unrestored' = unrestored
  BY DEF Parse, Capture
<1> HIDE DEF e, f
<1> QED BY <1>5, <1>6, OneType DEF TypeInv, TypeOK

\* The points at which a call has parsed all of its files and read them.
Ready(p) == p \notin {"idle", "parse", "capture", "done"}

\* r differs from d in where it is, in its snapshots and in its IR.
Alike(r, d) ==
    /\ r \in Calls
    /\ r.kind = d.kind /\ r.files = d.files /\ r.ops = d.ops /\ r.k = d.k
    /\ r.object = d.object /\ r.pre = d.pre

\* A call that goes on anywhere but into the next operation of a batch.
LEMMA AlikeFormed ==
    ASSUME NEW c \in Callers, NEW d \in Calls, Formed(c, d), Ready(d.at),
           NEW r, Alike(r, d), Ready(r.at), r.n \in DOMAIN r.files,
           r.at \in {"push", "rewrite"} => c \in Undoers,
           r.at = "apply" => r.kind = "cross"
    PROVE  r \in Calls /\ Formed(c, r)
<1>1. Placed(r) /\ Planned(r)
  BY DEF Formed, Placed, Planned, Alike
<1>2. Prepared(c, r)
  <2>1. \A i \in DOMAIN d.files :
          /\ d.object[d.files[i]] # None
          /\ c \in Undoers => d.pre[d.files[i]] # None
    BY DEF Formed, Prepared, Ready
  <2> QED BY <2>1 DEF Prepared, Ready, Alike
<1>3. Complete(r)
  BY DEF Formed, Complete, Alike
<1> QED BY <1>1, <1>2, <1>3 DEF Formed, Alike

\* A call that has changed a snapshot, and one that goes on so.
LEMMA SnapTypes ==
    ASSUME NEW c \in Callers, NEW d \in Calls, Formed(c, d), NEW f \in Files,
           NEW v \in Contents \cup {None}
    PROVE  LET r == [d EXCEPT !.snap[f] = v]
           IN  /\ Alike(r, d) /\ r.at = d.at /\ r.n = d.n /\ r.ir = d.ir
               /\ r.snap = [d.snap EXCEPT ![f] = v]
<1> DEFINE s == [d.snap EXCEPT ![f] = v]
           r == [d EXCEPT !.snap = s]
<1>1. s \in [Files -> Contents \cup {None}]
  BY DEF Calls
<1>3. r = [d EXCEPT !.snap[f] = v]
  OBVIOUS
<1> HIDE DEF s
<1>4. r \in Calls
  BY <1>1 DEF Calls
<1>5. Alike(r, d) /\ r.at = d.at /\ r.n = d.n /\ r.ir = d.ir /\ r.snap = s
  BY <1>4 DEF Alike, Calls
<1> QED BY <1>3, <1>5 DEF s

\* What ends a call without touching anything but locks.
LEMMA EndType ==
    ASSUME TypeInv, NEW c \in Callers, Reject(c) \/ Collect(c) \/ ReadBackFails(c)
    PROVE  TypeInv'
<1>1. PICK outcome \in {"ok", "failed", "raised", None} : End(c, outcome)
  BY Known DEF Reject, Collect, ReadBackFails, At, Active, Calls
<1>2. /\ disk' = disk /\ pushed' = pushed /\ before' = before /\ torn' = torn
      /\ lock' \in [Files -> Callers \cup {None}]
      /\ committed' = committed /\ unrestored' = unrestored
  BY DEF Reject, Collect, ReadBackFails, TypeInv, TypeOK
<1> QED BY <1>1, <1>2, EndedFormed, OneType DEF End, Continue, TypeInv, TypeOK

\* A call that is to be rolled back from its i-th file on.
LEMMA AbandonedFormed ==
    ASSUME NEW c \in Callers, NEW e \in Calls, Formed(c, e), Ready(e.at), NEW d, Alike(d, e),
           NEW i \in DOMAIN e.files, NEW o \in {"ok", "failed", "raised"}
    PROVE  LET r == [d EXCEPT !.at = "rollback", !.outcome = o, !.n = i]
           IN  /\ r \in Calls /\ Formed(c, r)
               /\ r.at = "rollback" /\ r.n = i /\ r.snap = d.snap /\ Alike(r, e)
<1> DEFINE r == [d EXCEPT !.at = "rollback", !.outcome = o, !.n = i]
<1>1. "rollback" \in Points /\ d \in Calls
  BY DEF Points, Alike
<1>2. i \in Nat
  <2>1. e.files \in Seq(Files)
    BY DEF Calls
  <2> QED BY <2>1, LenProperties
<1>3. r \in Calls
  BY <1>1, <1>2, MoveTypes
<1>4. r.at = "rollback" /\ r.n = i /\ r.snap = d.snap /\ Alike(r, e)
  BY <1>1, <1>3 DEF Calls, Alike
<1> HIDE DEF r
<1>5. Formed(c, r)
  BY <1>3, <1>4, AlikeFormed DEF Ready, Alike
<1> QED BY <1>3, <1>4, <1>5 DEF r

\* The steps that only go elsewhere: the refused and the failing ones.
LEMMA AwayType ==
    ASSUME TypeInv, NEW c \in Callers,
           Refused(c) \/ OpenFails(c) \/ OpFails(c) \/ EditFails(c) \/ CommitFails(c)
    PROVE  TypeInv'
<1> DEFINE e == call[c]
<1>0. Active(c) /\ Ready(e.at)
  BY DEF Active, Ready, At, CrossAt, Refused, OpenFails, OpFails, EditFails, CommitFails
<1>1. e \in Calls /\ Formed(c, e) /\ Here(c) \in Files /\ Alike(e, e)
  BY <1>0, Known DEF Alike
<1>2. /\ Len(e.files) \in Nat /\ DOMAIN e.files = 1..Len(e.files)
      /\ e.n \in 1..Len(e.files) /\ Len(e.files) \in DOMAIN e.files
  BY <1>0, <1>1, PlaceTypes DEF Formed, Active
<1>4. PICK r \in Calls : Formed(c, r) /\ call' = [call EXCEPT ![c] = r]
  <2>1. CASE Refused(c) /\ ~(e.kind = "cross" /\ e.n > 1)
    BY <2>1, EndedFormed DEF Refused, End, Continue
  <2>2. CASE Refused(c) /\ e.kind = "cross" /\ e.n > 1
    <3> DEFINE r == [e EXCEPT !.at = "rollback", !.outcome = "raised", !.n = e.n - 1]
    <3>1. call' = [call EXCEPT ![c] = r]
      BY <1>1, <2>2 DEF Refused, Continue, Calls
    <3>2. e.n - 1 \in DOMAIN e.files
      BY <1>2, <2>2
    <3>3. r \in Calls /\ Formed(c, r)
      BY <1>0, <1>1, <3>2, AbandonedFormed
    <3> QED BY <3>1, <3>3
  <2>3. CASE OpenFails(c)
    <3> DEFINE r == [e EXCEPT !.at = "leaving", !.outcome = "raised"]
    <3>1. r \in Calls /\ Alike(r, e) /\ r.at = "leaving" /\ r.n = e.n
      BY <1>1 DEF Alike, Calls, Points
    <3>2. call' = [call EXCEPT ![c] = r]
      BY <2>3 DEF OpenFails, Continue
    <3> HIDE DEF r
    <3>3. Formed(c, r)
      BY <1>0, <1>1, <1>2, <3>1, AlikeFormed DEF Ready, Alike
    <3> QED BY <3>1, <3>2, <3>3
  <2>4. ASSUME NEW d, Alike(d, e), d.n = e.n,
               NEW o \in {"ok", "failed", "raised"}
        PROVE  Abandoned(d, o) \in Calls /\ Formed(c, Abandoned(d, o))
    <3> DEFINE i == IF d.kind = "cross" THEN Len(d.files) ELSE d.n
    <3>1. i \in DOMAIN e.files
      BY <1>2, <2>4 DEF Alike
    <3>2. Abandoned(d, o) = [d EXCEPT !.at = "rollback", !.outcome = o, !.n = i]
      BY <2>4 DEF Abandoned, Alike, Calls
    <3> HIDE DEF i
    <3>3. /\ [d EXCEPT !.at = "rollback", !.outcome = o, !.n = i] \in Calls
          /\ Formed(c, [d EXCEPT !.at = "rollback", !.outcome = o, !.n = i])
      BY <1>0, <1>1, <2>4, <3>1, AbandonedFormed
    <3> QED BY <3>2, <3>3
  <2>5. CASE OpFails(c) \/ EditFails(c) \/ CommitFails(c)
    <3>1. PICK o \in {"ok", "failed", "raised"} :
            call' = [call EXCEPT ![c] = Abandoned(e, o)]
      BY <2>5 DEF OpFails, EditFails, CommitFails, Continue
    <3> QED BY <1>1, <2>4, <3>1
  <2> QED BY <2>1, <2>2, <2>3, <2>5
<1>5. /\ disk' = disk /\ pushed' = pushed /\ before' = before
      /\ lock' \in [Files -> Callers \cup {None}] /\ torn' \subseteq Callers
      /\ committed' = committed /\ unrestored' = unrestored
  BY <1>1 DEF Refused, OpenFails, OpFails, EditFails, CommitFails, TypeInv, TypeOK
<1> HIDE DEF e
<1> QED BY <1>4, <1>5, OneType DEF TypeInv, TypeOK

\* A call that goes on at another point, with the same, the first or the next file.
LEMMA OnwardFormed ==
    ASSUME NEW c \in Callers, NEW e \in Calls, Formed(c, e), Ready(e.at),
           NEW d, Alike(d, e), d.n = e.n,
           NEW p \in Points, Ready(p),
           p \in {"push", "rewrite"} => c \in Undoers, p = "apply" => e.kind = "cross",
           NEW o \in Calls, Formed(c, o)
    PROVE  /\ [d EXCEPT !.at = p] \in Calls /\ Formed(c, [d EXCEPT !.at = p])
           /\ Back(d, p) \in Calls /\ Formed(c, Back(d, p))
           /\ NextFile(d, p, o) \in Calls /\ Formed(c, NextFile(d, p, o))
<1>1. d \in Calls /\ d.files = e.files /\ d.kind = e.kind
  BY DEF Alike
<1>2. /\ Len(e.files) \in Nat /\ DOMAIN e.files = 1..Len(e.files)
      /\ e.n \in 1..Len(e.files) /\ 1 \in DOMAIN e.files
  BY PlaceTypes DEF Formed, Ready
<1>3. ASSUME NEW i \in DOMAIN e.files, NEW r, Moved(r, d, p, i)
      PROVE  r \in Calls /\ Formed(c, r)
  <2>1. Alike(r, e)
    BY <1>3 DEF Alike, Moved
  <2> QED BY <1>1, <1>3, <2>1, AlikeFormed DEF Moved
<1>4. Moved([d EXCEPT !.at = p], d, p, e.n)
  BY <1>1, Moves
<1>5. Moved(Back(d, p), d, p, 1)
  BY <1>1, Moves DEF Back
<1>6. NextFile(d, p, o) \in Calls /\ Formed(c, NextFile(d, p, o))
  <2>1. CASE d.n = Len(d.files)
    BY <2>1 DEF NextFile
  <2>2. CASE d.n # Len(d.files)
    <3>1. e.n + 1 \in DOMAIN e.files /\ e.n + 1 \in Nat
      BY <1>1, <1>2, <2>2
    <3>2. Moved([d EXCEPT !.at = p, !.n = e.n + 1], d, p, e.n + 1)
      BY <1>1, <3>1, Moves
    <3>3. NextFile(d, p, o) = [d EXCEPT !.at = p, !.n = e.n + 1]
      BY <1>1, <2>2 DEF NextFile, Calls
    <3> QED BY <1>3, <3>1, <3>2, <3>3
  <2> QED BY <2>1, <2>2
<1> QED BY <1>2, <1>3, <1>4, <1>5, <1>6

\* What every step of a call that is ready starts from.
LEMMA Started ==
    ASSUME TypeInv, NEW c \in Callers, Ready(call[c].at)
    PROVE  /\ call[c] \in Calls /\ Formed(c, call[c]) /\ Alike(call[c], call[c])
           /\ Active(c) /\ Here(c) = Current(call[c]) /\ Here(c) \in Files
           /\ disk[Here(c)] \in Contents
<1>1. Active(c)
  BY DEF Active, Ready
<1> QED BY <1>1, Known DEF Alike, Formed, TypeInv

\* The next call is entered: the snapshot is the file.
LEMMA EnterType ==
    ASSUME TypeInv, NEW c \in Callers, Enter(c)
    PROVE  TypeInv'
<1> DEFINE e == call[c]
           f == Here(c)
           d == [e EXCEPT !.snap[f] = disk[f]]
<1>1. e.at = "enter" /\ Ready(e.at)
  BY DEF Enter, At, Ready
<1>2. /\ e \in Calls /\ Formed(c, e) /\ Active(c) /\ f = Current(e) /\ f \in Files
      /\ disk[f] \in Contents
  BY <1>1, Started
<1>3. Alike(d, e) /\ d.at = e.at /\ d.n = e.n /\ d.ir = e.ir
  <2>1. disk[f] \in Contents \cup {None}
    BY <1>2
  <2> HIDE DEF e
  <2> QED BY <1>2, <2>1, SnapTypes
<1>4. "enter" \in Points /\ "apply" \in Points /\ Ready("enter") /\ Ready("apply")
  BY DEF Points, Ready
<1>5. /\ lock' = [lock EXCEPT ![f] = c]
      /\ call' = [call EXCEPT ![c] =
                    IF d.kind = "cross" THEN NextFile(d, "enter", Back(d, "apply"))
                    ELSE [d EXCEPT !.at = "apply", !.k = 1, !.ir = None]]
      /\ disk' = disk /\ pushed' = pushed /\ before' = before /\ torn' = torn
      /\ committed' = committed /\ unrestored' = unrestored
  BY DEF Enter, Continue
<1>6. PICK r \in Calls : Formed(c, r) /\ call' = [call EXCEPT ![c] = r]
  <2>1. CASE d.kind = "cross"
    <3>1. e.kind = "cross"
      BY <1>3, <2>1 DEF Alike
    <3> HIDE DEF d, e
    <3>2. Back(d, "apply") \in Calls /\ Formed(c, Back(d, "apply"))
      BY <1>1, <1>2, <1>3, <1>4, <3>1, OnwardFormed
    <3>3. /\ NextFile(d, "enter", Back(d, "apply")) \in Calls
          /\ Formed(c, NextFile(d, "enter", Back(d, "apply")))
      BY <1>1, <1>2, <1>3, <1>4, <3>2, OnwardFormed
    <3> QED BY <1>5, <2>1, <3>3
  <2>2. CASE d.kind # "cross"
    <3> DEFINE r == [d EXCEPT !.at = "apply", !.k = 1, !.ir = None]
    <3>1. d \in Calls
      BY <1>3 DEF Alike
    <3> HIDE DEF d, e
    <3>2. r \in Calls
      BY <1>4, <3>1 DEF Calls
    <3>3. /\ r.at = "apply" /\ r.k = 1 /\ r.ir = None /\ r.n = d.n /\ r.files = d.files
          /\ r.kind = d.kind /\ r.ops = d.ops /\ r.object = d.object /\ r.pre = d.pre
          /\ r.snap = d.snap
      BY <3>1 DEF Calls
    <3>4. call' = [call EXCEPT ![c] = r]
      BY <1>5, <2>2
    <3> HIDE DEF r
    <3>5. d.n \in DOMAIN d.files
      BY <1>2, <1>3 DEF Alike, Formed, Placed, Active, e
    <3>6. Placed(r) /\ Planned(r)
      <4>1. r.ops[Current(r)] \in Plans
        BY <1>2, <1>3, <3>3, <3>5 DEF Alike, Formed, Planned, Current
      <4>2. r.k \in DOMAIN r.ops[Current(r)]
        BY <3>3, <4>1, PlanTypes
      <4> QED BY <1>2, <1>3, <2>2, <3>3, <3>5, <4>2 DEF Alike, Formed, Placed, Planned
    <3>7. Prepared(c, r) /\ Complete(r)
      BY <1>1, <1>2, <1>3, <3>3, DistinctContents DEF Alike, Formed, Prepared, Complete
    <3> QED BY <3>2, <3>4, <3>6, <3>7 DEF Formed
  <2> QED BY <2>1, <2>2
<1>7. lock' \in [Files -> Callers \cup {None}]
  BY <1>5 DEF TypeInv, TypeOK
<1> HIDE DEF e, d
<1> QED BY <1>5, <1>6, <1>7, OneType DEF TypeInv, TypeOK

\* What a rolled back file goes on with: the file before it, the pre_contents, or the end.
LEMMA RolledBack ==
    ASSUME NEW c, NEW d \in Calls, Placed(d), d.at = "rollback", NEW locks
    PROVE  LET r == AfterRollback(c, d, locks)
               rewrites == /\ d.kind = "batch" /\ d.outcome = "failed"
                           /\ c \in Undoers /\ Len(d.files) > 1
               ends == ~(d.kind = "cross" /\ d.n > 1) /\ ~rewrites
           IN  \/ /\ d.kind = "cross" /\ d.n > 1 /\ d.n - 1 \in DOMAIN d.files
                  /\ Moved(r, d, "rollback", d.n - 1)
               \/ rewrites /\ Moved(r, d, "rewrite", 1)
               \/ ends /\ (\E f \in Files : locks[f] = c) /\ Moved(r, d, "leaving", d.n)
               \/ ends /\ (\A f \in Files : locks[f] # c) /\ r = Ended(d.outcome)
<1> DEFINE r == AfterRollback(c, d, locks)
<1>1. /\ Len(d.files) \in Nat /\ DOMAIN d.files = 1..Len(d.files)
      /\ d.n \in 1..Len(d.files)
  BY PlaceTypes
<1>2. CASE d.kind = "cross" /\ d.n > 1
  <2> DEFINE i == d.n - 1
  <2>1. i \in DOMAIN d.files /\ i \in Nat
    BY <1>1, <1>2
  <2>2. "rollback" \in Points
    BY DEF Points
  <2>3. r = [d EXCEPT !.at = "rollback", !.n = i]
    BY <1>2 DEF AfterRollback, Calls
  <2> HIDE DEF i, r
  <2>4. Moved(r, d, "rollback", i)
    BY <2>1, <2>2, <2>3, Moves
  <2> QED BY <1>2, <2>1, <2>4 DEF i, r
<1>3. CASE /\ d.kind = "batch" /\ d.outcome = "failed" /\ c \in Undoers /\ Len(d.files) > 1
  <2>1. "rewrite" \in Points /\ 1 \in Nat
    BY DEF Points
  <2>2. r = [d EXCEPT !.at = "rewrite", !.n = 1]
    BY <1>3 DEF AfterRollback, Back
  <2>3. Moved(r, d, "rewrite", 1)
    BY <2>1, <2>2, Moves
  <2> QED BY <1>3, <2>3
<1>4. CASE /\ ~(d.kind = "cross" /\ d.n > 1)
           /\ ~(d.kind = "batch" /\ d.outcome = "failed" /\ c \in Undoers /\ Len(d.files) > 1)
  <2>1. CASE \E f \in Files : locks[f] = c
    <3>1. "leaving" \in Points
      BY DEF Points
    <3>2. r = [d EXCEPT !.at = "leaving"]
      BY <1>4, <2>1 DEF AfterRollback
    <3>3. Moved(r, d, "leaving", d.n)
      BY <3>1, <3>2, Moves
    <3> QED BY <1>4, <2>1, <3>3
  <2>2. CASE ~\E f \in Files : locks[f] = c
    <3>1. r = Ended(d.outcome)
      BY <1>4, <2>2 DEF AfterRollback
    <3> QED BY <1>4, <2>2, <3>1
  <2> QED BY <2>1, <2>2
<1> QED BY <1>2, <1>3, <1>4

\* What a roll back makes of the call: its file is closed; the exception of a batch
\* may be another one.
LEMMA Closed ==
    ASSUME TypeInv, NEW c \in Callers, Rollback(c) \/ RollbackFails(c)
    PROVE  \E d \in Calls :
             /\ call' = [call EXCEPT ![c] = AfterRollback(c, d, lock')]
             /\ Alike(d, call[c]) /\ d.at = "rollback" /\ d.n = call[c].n
             /\ d.snap = [call[c].snap EXCEPT ![Here(c)] = None]
             /\ d.dirty = call[c].dirty /\ d.ir = call[c].ir
             /\ \/ d.outcome = call[c].outcome /\ (Rollback(c) \/ d.kind = "cross")
                \/ d.outcome = "raised" /\ d.kind = "batch" /\ RollbackFails(c)
<1> DEFINE e == call[c]
           f == Here(c)
           s == [e EXCEPT !.snap[f] = None]
<1>1. Ready(e.at) /\ e.at = "rollback"
  BY DEF Rollback, RollbackFails, At, Ready
<1>2. e \in Calls /\ Formed(c, e) /\ f \in Files
  BY <1>1, Started
<1>3. /\ Alike(s, e) /\ s.at = e.at /\ s.n = e.n /\ s.ir = e.ir
      /\ s.snap = [e.snap EXCEPT ![f] = None]
  BY <1>2, DistinctContents, SnapTypes
<1>4. s \in Calls /\ s.outcome = e.outcome /\ s.dirty = e.dirty /\ s.kind = e.kind
  BY <1>2, <1>3 DEF Alike, Calls
<1>5. CASE Rollback(c)
  <2>1. call' = [call EXCEPT ![c] = AfterRollback(c, s, lock')]
    BY <1>5 DEF Rollback, Continue
  <2> HIDE DEF s
  <2> QED BY <1>1, <1>3, <1>4, <1>5, <2>1
<1>6. CASE RollbackFails(c)
  <2> DEFINE o == IF e.kind = "batch" THEN "raised" ELSE e.outcome
             d == [s EXCEPT !.outcome = o]
  <2>1. d = [e EXCEPT !.snap[f] = None, !.outcome = IF e.kind = "batch" THEN "raised" ELSE @]
    BY <1>2 DEF Calls
  <2>2. call' = [call EXCEPT ![c] = AfterRollback(c, d, lock')]
    BY <1>6, <2>1 DEF RollbackFails, Continue
  <2>3. o \in {"ok", "failed", "raised", None}
    BY <1>2 DEF Calls
  <2> HIDE DEF s, o
  <2>4. d \in Calls /\ d.outcome = o
    BY <1>4, <2>3 DEF Calls
  <2>5. /\ d.at = s.at /\ d.n = s.n /\ d.ir = s.ir /\ d.snap = s.snap
        /\ d.dirty = s.dirty /\ Alike(d, s)
    BY <1>4, <2>4 DEF Alike, Calls
  <2>6. Alike(d, e) /\ d.kind = e.kind
    BY <1>3, <2>5 DEF Alike
  <2> HIDE DEF d
  <2>7. e.kind \in {"batch", "cross"}
    BY <1>2 DEF Calls
  <2> QED BY <1>1, <1>3, <1>4, <1>6, <2>2, <2>4, <2>5, <2>6, <2>7 DEF o
<1> QED BY <1>5, <1>6

\* A file is given its old content back, or some.
LEMMA RollbackType ==
    ASSUME TypeInv, NEW c \in Callers, Rollback(c) \/ RollbackFails(c)
    PROVE  TypeInv'
<1> DEFINE e == call[c]
           f == Here(c)
<1>1. Ready(e.at) /\ e.at = "rollback"
  BY DEF Rollback, RollbackFails, At, Ready
<1>2. e \in Calls /\ Formed(c, e) /\ f \in Files /\ e.n \in DOMAIN e.files
  BY <1>1, Started DEF Formed, Placed, Active
<1>3. pushed' = pushed /\ before' = before /\ committed' = committed /\ torn' = torn
  BY DEF Rollback, RollbackFails
<1>4. lock' \in [Files -> Callers \cup {None}]
  BY <1>2 DEF Rollback, RollbackFails, Unlock, TypeInv, TypeOK
<1>5. disk' \in [Files -> Contents] /\ unrestored' \subseteq Files
  <2>1. Inside(c, f) => e.snap[f] \in Contents
    BY <1>2 DEF Inside, Calls
  <2>2. Partial \in Contents /\ disk \in [Files -> Contents] /\ unrestored \subseteq Files
    BY DEF Contents, TypeInv, TypeOK
  <2> QED BY <1>2, <2>1, <2>2 DEF Rollback, RollbackFails, Restored, Write, GiveUp
<1>6. PICK d \in Calls :
        /\ call' = [call EXCEPT ![c] = AfterRollback(c, d, lock')]
        /\ Alike(d, e) /\ d.at = "rollback" /\ d.n = e.n
  BY Closed
<1> DEFINE r == AfterRollback(c, d, lock')
<1>7. Placed(d) /\ d.outcome \in {"ok", "failed", "raised", None}
  BY <1>2, <1>6 DEF Placed, Alike, Calls
<1>8. r \in Calls /\ Formed(c, r)
  <2>1. ASSUME NEW p \in {"rollback", "rewrite", "leaving"}, NEW i \in DOMAIN e.files,
               Moved(r, d, p, i), p = "rewrite" => c \in Undoers
        PROVE  r \in Calls /\ Formed(c, r)
    <3>1. Alike(r, e) /\ Ready(r.at) /\ r.n \in DOMAIN r.files
      BY <1>6, <2>1 DEF Alike, Moved, Ready
    <3> QED BY <1>1, <1>2, <2>1, <3>1, AlikeFormed DEF Moved
  <2>2. Ended(d.outcome) \in Calls /\ Formed(c, Ended(d.outcome))
    BY <1>7, EndedFormed
  <2>3. 1 \in DOMAIN e.files
    BY <1>1, <1>2, PlaceTypes DEF Formed
  <2>4. e.files = d.files
    BY <1>6 DEF Alike
  <2>5. \/ d.n - 1 \in DOMAIN d.files /\ Moved(r, d, "rollback", d.n - 1)
        \/ c \in Undoers /\ Moved(r, d, "rewrite", 1)
        \/ Moved(r, d, "leaving", d.n)
        \/ r = Ended(d.outcome)
    BY <1>6, <1>7, RolledBack
  <2> HIDE DEF r
  <2> QED BY <1>2, <1>6, <2>1, <2>2, <2>3, <2>4, <2>5
<1> HIDE DEF e, f, r
<1> QED BY <1>3, <1>4, <1>5, <1>6, <1>8, OneType DEF TypeInv, TypeOK, r

\* A transaction is committed.
LEMMA CommitType ==
    ASSUME TypeInv, NEW c \in Callers, CommitFile(c) \/ CommitOne(c)
    PROVE  TypeInv'
<1> DEFINE e == call[c]
           f == Here(c)
           s == [e EXCEPT !.snap[f] = None]
<1>1. Ready(e.at) /\ e.at = "commit"
  BY DEF CommitFile, CommitOne, CrossAt, At, Ready
<1>2. /\ e \in Calls /\ Formed(c, e) /\ Active(c) /\ f = Current(e) /\ f \in Files
  BY <1>1, Started
<1>3. s \in Calls /\ Alike(s, e) /\ s.n = e.n
  BY <1>2, SnapTypes DEF Alike
<1>4. \A p \in {"enter", "commit", "push"} : p \in Points /\ Ready(p)
  BY DEF Points, Ready
<1>5. /\ lock' = [lock EXCEPT ![f] = None] /\ disk' = disk
      /\ pushed' = pushed /\ before' = before /\ torn' = torn /\ unrestored' = unrestored
  BY DEF CommitFile, CommitOne, Commit, Unlock
<1>6. Ended("ok") \in Calls /\ Formed(c, Ended("ok"))
  BY EndedFormed
<1> HIDE DEF s, e, f
<1>7. PICK r \in Calls : Formed(c, r) /\ call' = [call EXCEPT ![c] = r]
  <2>1. CASE CommitFile(c)
    <3>1. call' = [call EXCEPT ![c] = IF c \in Undoers THEN [s EXCEPT !.at = "push"]
                                      ELSE NextFile(s, "enter", Ended("ok"))]
      BY <2>1 DEF CommitFile, Continue, s, e, f
    <3>2. c \in Undoers =>
            [s EXCEPT !.at = "push"] \in Calls /\ Formed(c, [s EXCEPT !.at = "push"])
      BY <1>1, <1>2, <1>3, <1>4, <1>6, OnwardFormed
    <3>3. /\ NextFile(s, "enter", Ended("ok")) \in Calls
          /\ Formed(c, NextFile(s, "enter", Ended("ok")))
      BY <1>1, <1>2, <1>3, <1>4, <1>6, OnwardFormed
    <3> QED BY <3>1, <3>2, <3>3
  <2>2. CASE CommitOne(c)
    <3> DEFINE o == IF c \in Undoers THEN Back(s, "push") ELSE Ended("ok")
    <3>1. call' = [call EXCEPT ![c] = NextFile(s, "commit", o)]
      BY <2>2 DEF CommitOne, Continue, s, e, f
    <3>2. c \in Undoers => Back(s, "push") \in Calls /\ Formed(c, Back(s, "push"))
      BY <1>1, <1>2, <1>3, <1>4, <1>6, OnwardFormed
    <3>3. o \in Calls /\ Formed(c, o)
      BY <1>6, <3>2
    <3> HIDE DEF o
    <3>4. NextFile(s, "commit", o) \in Calls /\ Formed(c, NextFile(s, "commit", o))
      BY <1>1, <1>2, <1>3, <1>4, <3>3, OnwardFormed
    <3> QED BY <3>1, <3>4
  <2> QED BY <2>1, <2>2
<1>8. lock' \in [Files -> Callers \cup {None}]
  BY <1>5 DEF TypeInv, TypeOK
<1>9. committed' \in [Callers -> SUBSET Files]
  <2>1. committed' = [committed EXCEPT ![c] = @ \cup {f}]
    BY DEF CommitFile, CommitOne, Commit, f
  <2> QED BY <1>2, <2>1 DEF TypeInv, TypeOK
<1> QED BY <1>5, <1>7, <1>8, <1>9, OneType DEF TypeInv, TypeOK

\* What a call that is ready has parsed, and the edit that it makes.
LEMMA Parsed ==
    ASSUME TypeInv, NEW c \in Callers, Ready(call[c].at)
    PROVE  /\ call[c].object[Here(c)] \in SUBSET Edits
           /\ call[c].at = "apply" => Edit(c) \in Edits
<1> DEFINE e == call[c]
<1>1. /\ e \in Calls /\ Formed(c, e) /\ Active(c)
      /\ Here(c) = Current(e) /\ Here(c) \in Files
  BY Started
<1>2. e.n \in DOMAIN e.files
  BY <1>1 DEF Formed, Placed, Active
<1>3. e.object[Here(c)] \in SUBSET Edits
  <2>1. e.object[Here(c)] # None
    BY <1>1, <1>2 DEF Formed, Prepared, Ready, Current
  <2>2. e.object[Here(c)] # Partial
    BY <1>1 DEF Formed, Complete
  <2>3. e.object[Here(c)] \in Contents \cup {None}
    BY <1>1 DEF Calls
  <2> QED BY <2>1, <2>2, <2>3 DEF Contents
<1>4. e.at = "apply" => Edit(c) \in Edits
  <2> SUFFICES ASSUME e.at = "apply" PROVE e.k \in 1..MaxOps
    BY DEF Edit, Edits
  <2>1. CASE e.kind = "cross"
    <3>1. e.k = 1
      BY <1>1, <2>1 DEF Formed, Planned
    <3> QED BY <3>1, EditConstants
  <2>2. CASE e.kind = "batch"
    <3>1. e.k \in DOMAIN e.ops[Current(e)]
      BY <1>1, <2>2 DEF Formed, Planned
    <3>2. e.ops[Current(e)] \in Plans
      BY <1>1, <1>2 DEF Formed, Planned, Current
    <3>3. DOMAIN e.ops[Current(e)] = 1..Len(e.ops[Current(e)])
          /\ Len(e.ops[Current(e)]) \in 1..MaxOps
      BY <3>2, PlanTypes
    <3> QED BY <3>1, <3>3, EditConstants
  <2> QED BY <1>1, <2>1, <2>2 DEF Calls
<1> QED BY <1>3, <1>4

\* r differs from e in what it parsed f as, and in what it has edited.
Edited(r, e, f, v) ==
    /\ r \in Calls /\ r.at = e.at /\ r.n = e.n /\ r.kind = e.kind /\ r.files = e.files
    /\ r.ops = e.ops /\ r.k = e.k /\ r.snap = e.snap /\ r.pre = e.pre /\ r.ir = e.ir
    /\ r.object = [e.object EXCEPT ![f] = v]

\* A call whose objects have been edited.
LEMMA ObjectFormed ==
    ASSUME NEW c \in Callers, NEW e \in Calls, Formed(c, e), NEW f \in Files,
           NEW v \in Contents, v # Partial, NEW r, Edited(r, e, f, v)
    PROVE  Formed(c, r) /\ r.object[f] = v
<1> DEFINE o == [e.object EXCEPT ![f] = v]
<1>1. v # None
  BY ContentTypes
<1>2. o[f] = v
  BY DEF Calls
<1>3. \A g \in Files : o[g] # Partial /\ (e.object[g] # None => o[g] # None)
  BY <1>1 DEF Formed, Complete, Calls
<1>4. /\ r.at = e.at /\ r.n = e.n /\ r.kind = e.kind /\ r.files = e.files /\ r.ops = e.ops
      /\ r.k = e.k /\ r.snap = e.snap /\ r.pre = e.pre /\ r.ir = e.ir /\ r.object = o
  BY DEF Edited
<1> HIDE DEF o
<1>5. \A i \in DOMAIN e.files : e.files[i] \in Files
  <2>1. e.files \in Seq(Files)
    BY DEF Calls
  <2> QED BY <2>1, LenProperties, ElementOfSeq
<1>6. Placed(r) /\ Planned(r)
  BY <1>4 DEF Formed, Placed, Planned, Current
<1>7. Prepared(c, r)
  BY <1>3, <1>4, <1>5 DEF Formed, Prepared
<1>8. Complete(r)
  BY <1>3, <1>4 DEF Formed, Complete, Current
<1> QED BY <1>2, <1>4, <1>6, <1>7, <1>8 DEF Formed

\* A batch goes on to its next operation on the file, or to writing it.
LEMMA NextOpFormed ==
    ASSUME NEW c \in Callers, NEW e \in Calls, Formed(c, e), e.at = "apply",
           e.kind = "batch", NEW v \in Contents, v # Partial
    PROVE  NextOp(e, v) \in Calls /\ Formed(c, NextOp(e, v))
<1>1. e.n \in DOMAIN e.files
  BY DEF Formed, Placed
<1>2. "write" \in Points /\ Ready("write") /\ Ready("apply")
  BY DEF Points, Ready
<1>3. CASE e.k = Len(e.ops[Current(e)])
  <2> DEFINE r == [e EXCEPT !.at = "write", !.ir = v]
  <2>1. r \in Calls
    BY <1>2 DEF Calls
  <2>2. Alike(r, e) /\ r.at = "write" /\ r.n = e.n /\ r.snap = e.snap
    BY <2>1 DEF Alike, Calls
  <2>3. NextOp(e, v) = r
    BY <1>3 DEF NextOp, Current
  <2> HIDE DEF r
  <2>4. Formed(c, r)
    BY <1>1, <1>2, <2>1, <2>2, AlikeFormed DEF Alike
  <2> QED BY <2>1, <2>3, <2>4
<1>4. CASE e.k # Len(e.ops[Current(e)])
  <2> DEFINE r == [e EXCEPT !.k = e.k + 1, !.ir = v]
  <2>1. e.ops[Current(e)] \in Plans /\ e.k \in DOMAIN e.ops[Current(e)]
    BY <1>1 DEF Formed, Planned, Current
  <2>2. e.k + 1 \in DOMAIN e.ops[Current(e)] /\ e.k + 1 \in Nat
    <3>1. /\ Len(e.ops[Current(e)]) \in 1..MaxOps
          /\ DOMAIN e.ops[Current(e)] = 1..Len(e.ops[Current(e)])
      BY <2>1, PlanTypes
    <3> QED BY <1>4, <2>1, <3>1, EditConstants
  <2>3. r \in Calls
    BY <2>2 DEF Calls
  <2>4. /\ r.at = e.at /\ r.n = e.n /\ r.kind = e.kind /\ r.files = e.files
        /\ r.ops = e.ops /\ r.object = e.object /\ r.snap = e.snap /\ r.pre = e.pre
        /\ r.k = e.k + 1 /\ r.ir = v
    BY DEF Calls
  <2>5. NextOp(e, v) = r
    BY <1>4 DEF NextOp, Current, Calls
  <2> HIDE DEF r
  <2>6. Placed(r) /\ Planned(r)
    BY <2>2, <2>4 DEF Formed, Placed, Planned, Current
  <2>7. Prepared(c, r) /\ Complete(r)
    BY <2>4 DEF Formed, Prepared, Complete, Current
  <2> QED BY <2>3, <2>5, <2>6, <2>7 DEF Formed
<1> QED BY <1>3, <1>4

\* An operation of a batch.
LEMMA OpType ==
    ASSUME TypeInv, NEW c \in Callers, ApplyToObject(c) \/ ApplyRaw(c)
    PROVE  TypeInv'
<1> DEFINE e == call[c]
           f == Here(c)
<1>1. e.at = "apply" /\ e.kind = "batch" /\ Ready(e.at)
  BY DEF ApplyToObject, ApplyRaw, BatchOp, At, Ready
<1>2. /\ e \in Calls /\ Formed(c, e) /\ f = Current(e) /\ f \in Files
      /\ disk[f] \in Contents
      /\ e.object[f] \in SUBSET Edits /\ Edit(c) \in Edits
  BY <1>1, Started, Parsed
<1>3. CASE ApplyToObject(c)
  <2> DEFINE v == IF e.ir = None THEN e.object[f] \cup {Edit(c)} ELSE e.object[f]
             o == [e.object EXCEPT ![f] = v]
             d == [e EXCEPT !.object = o]
  <2>1. v \in SUBSET Edits
    BY <1>2
  <2>2. v \in Contents /\ v # Partial
    BY <2>1, DistinctContents DEF Contents
  <2>3. call' = [call EXCEPT ![c] = NextOp(d, disk[f])]
    <3>1. d = [e EXCEPT !.object[f] = IF e.ir = None THEN @ \cup {Edit(c)} ELSE @]
      BY <1>2 DEF Calls
    <3> QED BY <1>3, <3>1 DEF ApplyToObject, Continue
  <2>4. /\ disk' = disk /\ lock' = lock /\ pushed' = pushed /\ before' = before
        /\ committed' = committed /\ torn' = torn /\ unrestored' = unrestored
        /\ disk[f] # Partial
    BY <1>3 DEF ApplyToObject
  <2>5. o \in [Files -> Contents \cup {None}]
    BY <1>2, <2>2 DEF Calls
  <2>6. Edited(d, e, f, v)
    <3> HIDE DEF v, e, f
    <3>1. d \in Calls /\ d.object = o
      <4> HIDE DEF o
      <4> QED BY <1>2, <2>5 DEF Calls
    <3> QED BY <1>2, <3>1 DEF Edited, Calls
  <2> HIDE DEF d, v, e, o
  <2>7. d \in Calls /\ Formed(c, d) /\ d.at = e.at /\ d.kind = e.kind /\ Current(d) = f
    <3>1. d \in Calls /\ d.at = e.at /\ d.kind = e.kind /\ d.n = e.n /\ d.files = e.files
      BY <2>6 DEF Edited
    <3>2. Formed(c, d)
      BY <1>2, <2>2, <2>6, ObjectFormed
    <3> QED BY <1>2, <3>1, <3>2 DEF Current
  <2>8. NextOp(d, disk[f]) \in Calls /\ Formed(c, NextOp(d, disk[f]))
    BY <1>1, <1>2, <2>4, <2>7, NextOpFormed
  <2> QED BY <2>3, <2>4, <2>8, OneType DEF TypeInv, TypeOK
<1>4. CASE ApplyRaw(c)
  <2> DEFINE v == (IF e.ir = None THEN e.object[f] ELSE e.ir) \cup {Edit(c)}
  <2>1. /\ call' = [call EXCEPT ![c] = NextOp(e, v)]
        /\ disk' = [disk EXCEPT ![f] = v]
        /\ lock' = lock /\ pushed' = pushed /\ before' = before /\ torn' = torn
        /\ committed' = committed /\ unrestored' = unrestored
    BY <1>4 DEF ApplyRaw, Continue, Write
  <2>2. v \in SUBSET Edits
    <3>2. e.ir # None => e.ir \in SUBSET Edits
      BY <1>1, <1>2 DEF Formed, Complete, Calls, Contents
    <3> QED BY <1>2, <3>2
  <2>3. v \in Contents /\ v # Partial
    BY <2>2, DistinctContents DEF Contents
  <2> HIDE DEF v, e
  <2>4. NextOp(e, v) \in Calls /\ Formed(c, NextOp(e, v))
    BY <1>1, <1>2, <2>3, NextOpFormed
  <2>5. disk' \in [Files -> Contents]
    BY <1>2, <2>1, <2>3 DEF TypeInv, TypeOK
  <2> QED BY <2>1, <2>4, <2>5, OneType DEF TypeInv, TypeOK
<1> QED BY <1>3, <1>4

\* A file is written, or not.
LEMMA WriteType ==
    ASSUME TypeInv, NEW c \in Callers, Serialize(c) \/ FinishWriting(c) \/ Rewrite(c)
    PROVE  TypeInv'
<1> DEFINE e == call[c]
           f == Here(c)
<1>1. Ready(e.at) /\ e.at \in {"write", "writing", "rewrite"}
  BY DEF Serialize, FinishWriting, Rewrite, At, Ready
<1>2. /\ e \in Calls /\ Formed(c, e) /\ Alike(e, e) /\ f = Current(e) /\ f \in Files
      /\ e.n \in DOMAIN e.files /\ e.object[f] \in SUBSET Edits
  BY <1>1, Started, Parsed DEF Formed, Placed, Active
<1>3. e.object[f] \in Contents /\ e.object[f] # Partial /\ Partial \in Contents
  BY <1>2, DistinctContents DEF Contents
<1>4. \A p \in {"commit", "writing", "apply", "rewrite"} : p \in Points /\ Ready(p)
  BY DEF Points, Ready
<1>5. Ended("failed") \in Calls /\ Formed(c, Ended("failed"))
  BY EndedFormed
<1>6. /\ lock' = lock /\ pushed' = pushed /\ before' = before /\ torn' = torn
      /\ committed' = committed /\ unrestored' \subseteq Files
  BY <1>2 DEF Serialize, FinishWriting, Rewrite, GiveUp, TypeInv, TypeOK
<1>7. PICK v \in Contents : disk' = [disk EXCEPT ![f] = v]
  <2>1. CASE Serialize(c) \/ FinishWriting(c)
    BY <1>3, <2>1 DEF Serialize, FinishWriting, Write
  <2>2. CASE Rewrite(c)
    <3>1. /\ e.at = "rewrite"
          /\ \E v \in {e.pre[f], disk[f], Partial} : disk' = [disk EXCEPT ![f] = v]
      BY <2>2 DEF Rewrite, At, Write
    <3>2. e.pre[f] # None
      BY <1>2, <3>1 DEF Formed, Prepared, Current
    <3>3. e.pre[f] \in Contents
      BY <1>2, <3>2 DEF Calls
    <3>4. disk[f] \in Contents
      BY <1>2 DEF TypeInv, TypeOK
    <3> QED BY <1>3, <3>1, <3>3, <3>4
  <2> QED BY <2>1, <2>2
<1>8. disk' \in [Files -> Contents]
  BY <1>2, <1>7 DEF TypeInv, TypeOK
<1>9. PICK r \in Calls : Formed(c, r) /\ call' = [call EXCEPT ![c] = r]
  <2> DEFINE q == [e EXCEPT !.at = "commit"]
             w == [e EXCEPT !.at = "writing"]
  <2>1. q \in Calls /\ Formed(c, q) /\ w \in Calls /\ Formed(c, w)
    <3> HIDE DEF e
    <3> QED BY <1>1, <1>2, <1>4, <1>5, OnwardFormed
  <2>2. CASE Serialize(c)
    <3>1. call' = [call EXCEPT ![c] = q] \/ call' = [call EXCEPT ![c] = w]
      BY <2>2 DEF Serialize, Go, TypeInv, TypeOK
    <3> HIDE DEF q, w
    <3> QED BY <2>1, <3>1
  <2>3. CASE FinishWriting(c) /\ e.kind = "batch"
    <3>1. call' = [call EXCEPT ![c] = q]
      BY <2>3 DEF FinishWriting, Go, TypeInv, TypeOK
    <3> HIDE DEF q
    <3> QED BY <2>1, <3>1
  <2>4. CASE FinishWriting(c) /\ e.kind # "batch"
    <3> DEFINE o == Back(e, "commit")
               r == NextFile(e, "apply", o)
    <3>1. call' = [call EXCEPT ![c] = r] /\ e.kind = "cross"
      BY <1>2, <2>4 DEF FinishWriting, Continue, Calls
    <3> HIDE DEF e
    <3>2. o \in Calls /\ Formed(c, o)
      BY <1>1, <1>2, <1>4, <1>5, OnwardFormed
    <3> HIDE DEF o
    <3>3. r \in Calls /\ Formed(c, r)
      BY <1>1, <1>2, <1>4, <3>1, <3>2, OnwardFormed
    <3> QED BY <3>1, <3>3
  <2>5. CASE Rewrite(c)
    <3> DEFINE r == NextFile(e, "rewrite", Ended("failed"))
    <3>1. call' = [call EXCEPT ![c] = r] /\ e.at = "rewrite"
      BY <2>5 DEF Rewrite, Continue, At
    <3>2. c \in Undoers
      BY <1>2, <3>1 DEF Formed, Prepared
    <3> HIDE DEF e
    <3>3. r \in Calls /\ Formed(c, r)
      BY <1>1, <1>2, <1>4, <1>5, <3>1, <3>2, OnwardFormed
    <3> QED BY <3>1, <3>3
  <2> QED BY <2>2, <2>3, <2>4, <2>5
<1> HIDE DEF e, f
<1> QED BY <1>6, <1>8, <1>9, OneType DEF TypeInv, TypeOK

\* A cross-file operation edits its next file.
LEMMA EditType ==
    ASSUME TypeInv, NEW c \in Callers, EditFile(c)
    PROVE  TypeInv'
<1> DEFINE e == call[c]
           f == Here(c)
           v == e.object[f] \cup {Edit(c)}
           o == [e.object EXCEPT ![f] = v]
           w == e.dirty \cup {f}
           d == [e EXCEPT !.object = o, !.dirty = w]
           After(g) == NextFile(g, "apply", Back(g, "commit"))
<1>1. e.at = "apply" /\ e.kind = "cross" /\ Ready(e.at)
  BY DEF EditFile, CrossAt, At, Ready
<1>2. /\ e \in Calls /\ Formed(c, e) /\ Alike(e, e) /\ f = Current(e) /\ f \in Files
      /\ e.n \in DOMAIN e.files /\ e.object[f] \in SUBSET Edits /\ Edit(c) \in Edits
  BY <1>1, Started, Parsed DEF Formed, Placed, Active
<1>3. v \in Contents /\ v # Partial /\ Partial \in Contents
  <2>1. v \in SUBSET Edits
    BY <1>2
  <2> QED BY <2>1, DistinctContents DEF Contents
<1>4. o \in [Files -> Contents \cup {None}] /\ w \in SUBSET Files /\ o[f] = v
  BY <1>2, <1>3 DEF Calls
<1>5. /\ lock' = lock /\ pushed' = pushed /\ before' = before /\ torn' = torn
      /\ committed' = committed /\ unrestored' = unrestored
      /\ \/ call' = [call EXCEPT ![c] = After(e)] /\ disk' = disk
         \/ call' = [call EXCEPT ![c] = After(d)] /\ disk' = [disk EXCEPT ![f] = v]
         \/ /\ call' = [call EXCEPT ![c] = [d EXCEPT !.at = "writing"]]
            /\ disk' = [disk EXCEPT ![f] = Partial]
  <2>1. d = [e EXCEPT !.object[f] = @ \cup {Edit(c)}, !.dirty = @ \cup {f}]
    BY <1>2 DEF Calls
  <2>2. d.object[f] = v
    <3>1. d.object = o
      BY <1>2 DEF Calls
    <3> QED BY <1>4, <3>1
  <2> HIDE DEF d, v
  <2> QED BY <2>1, <2>2 DEF EditFile, Write, Continue
<1>6. Edited(d, e, f, v)
  <2> HIDE DEF v, e, f, w
  <2>1. d \in Calls /\ d.object = o
    <3> HIDE DEF o
    <3> QED BY <1>2, <1>4 DEF Calls
  <2> QED BY <1>2, <2>1 DEF Edited, Calls
<1> HIDE DEF d, v, e, f, o, w
<1>7. disk' \in [Files -> Contents]
  <2>1. \/ disk' = disk \/ disk' = [disk EXCEPT ![f] = v]
        \/ disk' = [disk EXCEPT ![f] = Partial]
    BY <1>5
  <2> QED BY <1>2, <1>3, <2>1 DEF TypeInv, TypeOK
<1>8. d \in Calls /\ Formed(c, d) /\ Alike(d, d) /\ Ready(d.at) /\ d.kind = "cross"
  BY <1>1, <1>2, <1>3, <1>6, ObjectFormed DEF Edited, Alike
<1>9. \A p \in {"commit", "writing", "apply"} : p \in Points /\ Ready(p)
  BY DEF Points, Ready
<1>10. Ended("ok") \in Calls /\ Formed(c, Ended("ok"))
  BY EndedFormed
<1>11. ASSUME NEW g \in Calls, Formed(c, g), Alike(g, g), Ready(g.at), g.kind = "cross"
       PROVE  /\ After(g) \in Calls /\ Formed(c, After(g))
              /\ [g EXCEPT !.at = "writing"] \in Calls
              /\ Formed(c, [g EXCEPT !.at = "writing"])
  <2> DEFINE q == Back(g, "commit")
  <2>1. q \in Calls /\ Formed(c, q)
    BY <1>9, <1>10, <1>11, OnwardFormed
  <2> HIDE DEF q
  <2>2. NextFile(g, "apply", q) \in Calls /\ Formed(c, NextFile(g, "apply", q))
    BY <1>9, <1>11, <2>1, OnwardFormed
  <2>3. /\ [g EXCEPT !.at = "writing"] \in Calls
        /\ Formed(c, [g EXCEPT !.at = "writing"])
    BY <1>9, <1>10, <1>11, OnwardFormed
  <2> QED BY <2>2, <2>3 DEF q
<1>12. After(e) \in Calls /\ Formed(c, After(e))
  BY <1>1, <1>2, <1>11
<1>13. /\ After(d) \in Calls /\ Formed(c, After(d))
       /\ [d EXCEPT !.at = "writing"] \in Calls /\ Formed(c, [d EXCEPT !.at = "writing"])
  BY <1>8, <1>11
<1> HIDE DEF After
<1>14. PICK r \in Calls : Formed(c, r) /\ call' = [call EXCEPT ![c] = r]
  BY <1>5, <1>12, <1>13
<1> QED BY <1>5, <1>7, <1>14, OneType DEF TypeInv, TypeOK

\* An undo entry is pushed.
LEMMA PushType ==
    ASSUME TypeInv, NEW c \in Callers, PushFile(c) \/ PushOne(c)
    PROVE  TypeInv'
<1> DEFINE e == call[c]
           f == Here(c)
           entry == [pre |-> e.pre[f], post |-> disk[f]]
<1>1. Ready(e.at) /\ e.at = "push"
  BY DEF PushFile, PushOne, CrossAt, At, Ready
<1>2. /\ e \in Calls /\ Formed(c, e) /\ Alike(e, e) /\ f = Current(e) /\ f \in Files
      /\ e.n \in DOMAIN e.files /\ disk[f] \in Contents
  BY <1>1, Started DEF Formed, Placed, Active
<1>3. c \in Undoers
  BY <1>1, <1>2 DEF Formed, Prepared
<1>4. entry \in [pre : Contents, post : Contents]
  <2>1. e.pre[f] # None
    BY <1>1, <1>2, <1>3 DEF Formed, Prepared, Current
  <2>2. e.pre[f] \in Contents
    BY <1>2, <2>1 DEF Calls
  <2> QED BY <1>2, <2>2
<1>5. /\ disk' = disk /\ lock' = lock /\ before' = before /\ torn' = torn
      /\ committed' = committed /\ unrestored' = unrestored
      /\ pushed' = pushed \/ pushed' = [pushed EXCEPT ![f] = Append(@, entry)]
      /\ \/ call' = [call EXCEPT ![c] = NextFile(e, "enter", Ended("ok"))]
         \/ call' = [call EXCEPT ![c] = NextFile(e, "push", Ended("ok"))]
  BY DEF PushFile, PushOne, Continue
<1> HIDE DEF entry, e, f
<1>6. pushed' \in [Files -> Seq([pre : Contents, post : Contents])]
  <2>1. pushed \in [Files -> Seq([pre : Contents, post : Contents])]
    BY DEF TypeInv, TypeOK
  <2>2. Append(pushed[f], entry) \in Seq([pre : Contents, post : Contents])
    BY <1>2, <1>4, <2>1, AppendProperties
  <2> QED BY <1>2, <1>5, <2>1, <2>2
<1>7. \A p \in {"enter", "push"} : p \in Points /\ Ready(p)
  BY DEF Points, Ready
<1>8. Ended("ok") \in Calls /\ Formed(c, Ended("ok"))
  BY EndedFormed
<1>9. /\ NextFile(e, "enter", Ended("ok")) \in Calls
      /\ Formed(c, NextFile(e, "enter", Ended("ok")))
      /\ NextFile(e, "push", Ended("ok")) \in Calls
      /\ Formed(c, NextFile(e, "push", Ended("ok")))
  BY <1>1, <1>2, <1>3, <1>7, <1>8, OnwardFormed
<1>10. PICK r \in Calls : Formed(c, r) /\ call' = [call EXCEPT ![c] = r]
  BY <1>5, <1>9
<1> QED BY <1>5, <1>6, <1>10, OneType DEF TypeInv, TypeOK

\* Nothing is read yet.
LEMMA InitType == Init => TypeInv
<1> SUFFICES ASSUME Init PROVE TypeInv
  OBVIOUS
<1>1. ASSUME NEW c \in Callers PROVE Idle \in Calls /\ Formed(c, Idle) /\ Idle.at = "idle"
  BY EndedFormed DEF Idle
<1>2. {} \in Contents
  BY DistinctContents DEF Contents
<1>3. <<>> \in Seq([pre : Contents, post : Contents])
  BY EmptySeq
<1> QED BY <1>1, <1>2, <1>3, EditConstants DEF Init, TypeInv, TypeOK, Active

\* Every step keeps the types.
LEMMA NextType == TypeInv /\ [Next]_vars => TypeInv'
<1> SUFFICES ASSUME TypeInv, [Next]_vars PROVE TypeInv'
  OBVIOUS
<1>1. CASE UNCHANGED vars
  <2>1. /\ disk' = disk /\ lock' = lock /\ call' = call /\ pushed' = pushed
        /\ before' = before /\ committed' = committed /\ torn' = torn
        /\ unrestored' = unrestored
    BY <1>1 DEF vars
  <2> QED BY <2>1 DEF TypeInv, TypeOK, Active
<1>2. ASSUME NEW c \in Callers, ExecuteBatch(c) \/ ExecuteCrossFile(c) PROVE TypeInv'
  BY <1>2, BeginType
<1>3. ASSUME NEW c \in Callers, Step(c) PROVE TypeInv'
  BY <1>3, ReadType, EndType, AwayType, EnterType, RollbackType, CommitType, OpType, WriteType,
     EditType, PushType DEF Step
<1> QED BY <1>1, <1>2, <1>3 DEF Next

\* The type of every variable, for any callers, files and number of operations: no call
\* writes a content that it has not read, and none is left without a file to work on.
THEOREM TypeCorrect == Spec => []TypeOK
<1>1. TypeInv => TypeOK
  BY DEF TypeInv
<1> QED BY <1>1, InitType, NextType, PTL DEF Spec

-----------------------------------------------------------------------------
(***************************************************************************)
(* Locks.                                                                   *)
(***************************************************************************)

\* Whether a call holds its i-th file says its place.
LEMMA HoldsAt ==
    ASSUME NEW d, Planned(d), NEW i \in DOMAIN d.files, NEW w
    PROVE  d.files[i] \in Holding(d, w) <=> Open(d, i, w)
BY DEF Planned, Holding

\* A call that goes on inside the same files.
LEMMA SameOwner ==
    ASSUME NEW c \in Callers, NEW d, NEW locks, NEW w, NEW lost, Owns(c, d, locks, w, lost),
           ~Closing(d), NEW r, r.files = d.files, r.snap = d.snap,
           r.at = "write" => r.kind = "batch",
           \A i \in DOMAIN d.files : Open(r, i, w) <=> Open(d, i, w),
           NEW more, lost \subseteq more, Counted(c, r, w, more)
    PROVE  Owns(c, r, locks, w, more)
<1>1. Holding(r, w) = Holding(d, w)
  BY DEF Holding
<1>2. more = {} => lost = {}
  OBVIOUS
<1> QED BY <1>1, <1>2 DEF Owns

\* r is d after caller c has entered d's current file.
Entered(c, r, d, locks, w, next) ==
    /\ r.files = d.files /\ r.at # "write"
    /\ \A i \in DOMAIN d.files : Open(r, i, w) <=> Open(d, i, w) \/ i = d.n
    /\ \A f \in Files : r.snap[f] # None <=> d.snap[f] # None \/ f = Current(d)
    /\ \A f \in Files : next[f] = IF f = Current(d) THEN c ELSE locks[f]

LEMMA EnterOwner ==
    ASSUME NEW c \in Callers, NEW d, Planned(d), d.n \in DOMAIN d.files, ~Closing(d),
           NEW locks, NEW w, NEW lost, Owns(c, d, locks, w, lost),
           NEW r, NEW next, Entered(c, r, d, locks, w, next), Counted(c, r, w, lost)
    PROVE  Owns(c, r, next, w, lost)
<1>1. \A f \in Files : f \in Holding(r, w) <=> f \in Holding(d, w) \/ f = Current(d)
  BY DEF Holding, Current, Entered
<1> QED BY <1>1 DEF Owns, Entered

\* r is d after its current file has been left, and v is committed.
Left(c, r, d, locks, w, next, v) ==
    /\ r.files = d.files /\ r.at # "write" /\ (Closing(d) => Closing(r))
    /\ \A i \in DOMAIN d.files : Open(r, i, v) <=> Open(d, i, w) /\ i # d.n
    /\ \A f \in Files : r.snap[f] # None <=> d.snap[f] # None /\ f # Current(d)
    /\ \A f \in Files :
         IF f = Current(d) THEN next[f] = c => Closing(r) ELSE next[f] = locks[f]

LEMMA LeaveOwner ==
    ASSUME NEW c \in Callers, NEW d, Planned(d), d.n \in DOMAIN d.files,
           NEW locks, NEW w, NEW lost, Owns(c, d, locks, w, lost),
           NEW r, NEW next, NEW v, Left(c, r, d, locks, w, next, v), Counted(c, r, v, lost)
    PROVE  Owns(c, r, next, v, lost)
<1>1. \A f \in Files : f \in Holding(r, v) <=> f \in Holding(d, w) /\ f # Current(d)
  BY DEF Holding, Current, Planned, Left
<1> QED BY <1>1 DEF Owns, Left

\* A call that is inside no file owns no lock file.
LEMMA FreeOwner ==
    ASSUME NEW c \in Callers, NEW d, NEW locks, NEW w, NEW lost, Owns(c, d, locks, w, lost),
           ~Closing(d), \A i \in DOMAIN d.files : ~Open(d, i, w)
    PROVE  \A f \in Files : locks[f] # c /\ d.snap[f] = None
BY DEF Owns, Holding

\* One that owns none is inside none.
LEMMA EmptyOwner ==
    ASSUME NEW c \in Callers, NEW locks, \A f \in Files : locks[f] # c,
           NEW r, \A f \in Files : r.snap[f] = None, r.at # "write",
           NEW w, NEW lost, \A i \in DOMAIN r.files : ~Open(r, i, w), Counted(c, r, w, lost)
    PROVE  Owns(c, r, locks, w, lost)
BY DEF Owns, Holding

LEMMA EndOwner ==
    ASSUME NEW c \in Callers, NEW locks, \A f \in Files : locks[f] # c, NEW o,
           NEW w, NEW lost
    PROVE  Owns(c, Ended(o), locks, w, lost)
<1>1. Ended(o).at = "done" /\ Ended(o).snap = Nothing /\ Ended(o).kind = "batch"
  BY DEF Ended, Idle
<1>2. Counted(c, Ended(o), w, lost)
  BY <1>1 DEF Counted
<1> QED BY <1>1, <1>2, EmptyOwner DEF Open, Nothing

\* The step of one call takes no lock file that is another's, and leaves it to the other
\* unless somebody is lost.
LEMMA OneOwner ==
    ASSUME TypeInv, LockInv, NEW c \in Callers, NEW r, call' = [call EXCEPT ![c] = r],
           torn \subseteq torn', \A b \in Callers \ {c} : committed'[b] = committed[b],
           Owns(c, r, lock', committed'[c], torn'),
           \A f \in Files, b \in Callers \ {c} : lock'[f] = b => lock[f] = b,
           torn' = {} => \A f \in Files, b \in Callers \ {c} : lock[f] = b => lock'[f] = b
    PROVE  LockInv'
<1> SUFFICES ASSUME NEW b \in Callers
             PROVE  Owns(b, call'[b], lock', committed'[b], torn')
  BY DEF LockInv
<1>1. CASE b = c
  BY <1>1 DEF TypeInv, TypeOK
<1>2. CASE b # c
  <2>1. call'[b] = call[b] /\ Owns(b, call[b], lock, committed[b], torn)
    BY <1>2 DEF TypeInv, TypeOK, LockInv
  <2>2. Counted(b, call[b], committed[b], torn')
    BY <2>1 DEF Owns, Counted
  <2>3. torn' = {} => torn = {}
    OBVIOUS
  <2> QED BY <1>2, <2>1, <2>2, <2>3 DEF Owns
<1> QED BY <1>1, <1>2

\* Where a call goes.
LEMMA Turns ==
    ASSUME NEW d \in Calls, NEW p \in Points, NEW o
    PROVE  /\ Moved(Back(d, p), d, p, 1)
           /\ d.n = Len(d.files) => NextFile(d, p, o) = o
           /\ d.n # Len(d.files) => Moved(NextFile(d, p, o), d, p, d.n + 1)
<1>1. d.n \in Nat /\ d.n + 1 \in Nat
  BY DEF Calls
<1>2. NextFile(d, p, o) = IF d.n = Len(d.files) THEN o
                          ELSE [d EXCEPT !.at = p, !.n = d.n + 1]
  BY DEF NextFile, Calls
<1> QED BY <1>1, <1>2, Moves DEF Back

\* What is known of the locks of a call that is on.
LEMMA Held ==
    ASSUME TypeInv, LockInv, NEW c \in Callers, Active(c)
    PROVE  /\ call[c] \in Calls /\ Planned(call[c])
           /\ call[c].kind \in {"batch", "cross"} /\ call[c].n \in DOMAIN call[c].files
           /\ Here(c) = Current(call[c]) /\ Here(c) \in Files
           /\ Len(call[c].files) \in Nat
           /\ DOMAIN call[c].files = 1..Len(call[c].files)
           /\ call[c].snap \in [Files -> Contents \cup {None}]
           /\ lock \in [Files -> Callers \cup {None}]
           /\ Owns(c, call[c], lock, committed[c], torn)
           /\ Counted(c, call[c], committed[c], torn)
<1>1. call[c] \in Calls /\ Formed(c, call[c]) /\ Here(c) = Current(call[c])
      /\ Here(c) \in Files
  BY Known
<1>2. Placed(call[c]) /\ Planned(call[c]) /\ call[c].n \in DOMAIN call[c].files
  BY <1>1 DEF Formed, Placed, Active
<1>3. /\ Len(call[c].files) \in Nat
      /\ DOMAIN call[c].files = 1..Len(call[c].files)
  BY <1>1, <1>2, PlaceTypes DEF Active
<1>4. /\ Owns(c, call[c], lock, committed[c], torn)
      /\ Counted(c, call[c], committed[c], torn)
  BY DEF LockInv, Owns
<1> QED BY <1>1, <1>2, <1>3, <1>4 DEF Calls, TypeInv, TypeOK

\* A call begins inside no file.
LEMMA BeginLocks ==
    ASSUME TypeInv, LockInv, NEW c \in Callers, ExecuteBatch(c) \/ ExecuteCrossFile(c)
    PROVE  LockInv'
<1>1. PICK kind, files, ops : Begin(c, kind, files, ops)
  BY DEF ExecuteBatch, ExecuteCrossFile
<1> DEFINE r == [Idle EXCEPT !.at = "parse", !.kind = kind, !.n = 1, !.k = 1,
                             !.files = files, !.ops = ops]
<1>2. call[c] = Idle /\ call' = [call EXCEPT ![c] = r] /\ lock' = lock /\ torn' = torn
  BY <1>1 DEF Begin
<1>3. Idle.at = "idle" /\ r.at = "parse" /\ r.snap = Nothing
  BY DEF Idle
<1> HIDE DEF r
<1>4. committed'[c] = {} /\ \A b \in Callers \ {c} : committed'[b] = committed[b]
  BY <1>1 DEF Begin, TypeInv, TypeOK
<1>5. \A f \in Files : lock[f] # c
  <2>1. Owns(c, Idle, lock, committed[c], torn)
    BY <1>2 DEF LockInv
  <2>2. ~Closing(Idle) /\ \A i \in DOMAIN Idle.files : ~Open(Idle, i, committed[c])
    BY <1>3 DEF Closing, Open
  <2> QED BY <2>1, <2>2, FreeOwner
<1>6. Owns(c, r, lock, committed'[c], torn)
  <2>1. Counted(c, r, committed'[c], torn)
    BY <1>3, <1>4 DEF Counted
  <2>2. \A i \in DOMAIN r.files : ~Open(r, i, committed'[c])
    BY <1>3 DEF Open
  <2> QED BY <1>3, <1>5, <2>1, <2>2, EmptyOwner DEF Nothing
<1> QED BY <1>2, <1>4, <1>6, OneOwner

\* A step that touches no lock file, to a call inside the same files or to its end.
LEMMA StaysLocks ==
    ASSUME TypeInv, LockInv, NEW c \in Callers, Active(c),
           call[c].at \notin {"leaving", "rollback"},
           lock' = lock, torn \subseteq torn', committed' = committed,
           NEW r, call' = [call EXCEPT ![c] = r],
           \/ /\ r.files = call[c].files /\ r.snap = call[c].snap
              /\ r.at = "write" => r.kind = "batch"
              /\ \A i \in DOMAIN r.files :
                   Open(r, i, committed[c]) <=> Open(call[c], i, committed[c])
              /\ Counted(c, r, committed[c], torn')
           \/ /\ \A i \in DOMAIN call[c].files : ~Open(call[c], i, committed[c])
              /\ \E o : r = Ended(o)
    PROVE  LockInv'
<1>1. Owns(c, call[c], lock, committed[c], torn) /\ ~Closing(call[c])
  BY Held DEF Closing
<1>2. Owns(c, r, lock, committed[c], torn')
  <2>1. CASE /\ r.files = call[c].files /\ r.snap = call[c].snap
             /\ r.at = "write" => r.kind = "batch"
             /\ \A i \in DOMAIN r.files :
                  Open(r, i, committed[c]) <=> Open(call[c], i, committed[c])
             /\ Counted(c, r, committed[c], torn')
    BY <1>1, <2>1, SameOwner
  <2>2. CASE /\ \A i \in DOMAIN call[c].files : ~Open(call[c], i, committed[c])
             /\ \E o : r = Ended(o)
    <3>1. \A f \in Files : lock[f] # c
      BY <1>1, <2>2, FreeOwner
    <3> QED BY <2>2, <3>1, EndOwner
  <2> QED BY <2>1, <2>2
<1> QED BY <1>2, OneOwner

\* Until it enters the first file it is in none.
LEMMA ReadLocks ==
    ASSUME TypeInv, LockInv, NEW c \in Callers, Parse(c) \/ Capture(c) \/ Reject(c)
    PROVE  LockInv'
<1> DEFINE e == call[c]
<1>1. Active(c) /\ e.at \in {"parse", "capture"}
  BY DEF Parse, Capture, Reject, CrossAt, At, Active
<1>2. /\ e \in Calls /\ e.n \in DOMAIN e.files /\ Here(c) \in Files
      /\ Len(e.files) \in Nat /\ DOMAIN e.files = 1..Len(e.files)
      /\ disk[Here(c)] \in Contents \cup {None} /\ Counted(c, e, committed[c], torn)
  BY <1>1, Held DEF TypeInv, TypeOK
<1>3. lock' = lock /\ torn' = torn /\ committed' = committed
  BY DEF Parse, Capture, Reject
<1>4. \A i \in DOMAIN e.files : ~Open(e, i, committed[c])
  BY <1>1 DEF Open
<1>5. PICK r : /\ call' = [call EXCEPT ![c] = r]
               /\ \/ \E o : r = Ended(o)
                  \/ /\ r.at \in {"parse", "capture", "enter"} /\ r.files = e.files
                     /\ r.kind = e.kind /\ r.snap = e.snap /\ (r.at = "enter" => r.n = 1)
  <2>1. CASE Reject(c)
    BY <2>1 DEF Reject, End, Continue
  <2>2. CASE Parse(c)
    <3> DEFINE o == [e.object EXCEPT ![Here(c)] = disk[Here(c)]]
               d == [e EXCEPT !.object = o]
               q == IF c \in Undoers THEN "capture" ELSE "enter"
               r == NextFile(d, "parse", Back(d, q))
    <3>1. call' = [call EXCEPT ![c] = r]
      BY <2>2 DEF Parse, Continue
    <3>2. o \in [Files -> Contents \cup {None}]
      BY <1>2 DEF Calls
    <3>3. d \in Calls /\ d.files = e.files /\ d.kind = e.kind /\ d.snap = e.snap
      <4> HIDE DEF o, e
      <4> QED BY <1>2, <3>2 DEF Calls
    <3>4. q \in Points /\ q \in {"capture", "enter"} /\ "parse" \in Points
      BY DEF Points
    <3> HIDE DEF d, q, e, o
    <3>5. Moved(Back(d, q), d, q, 1)
      BY <3>3, <3>4, Turns
    <3>6. r = Back(d, q) \/ Moved(r, d, "parse", d.n + 1)
      BY <3>3, <3>4, Turns
    <3> HIDE DEF r
    <3>7. \/ Moved(r, d, q, 1)
          \/ Moved(r, d, "parse", d.n + 1)
      BY <3>5, <3>6
    <3> QED BY <3>1, <3>3, <3>4, <3>7 DEF Moved
  <2>3. CASE Capture(c)
    <3> DEFINE o == [e.pre EXCEPT ![Here(c)] = disk[Here(c)]]
               d == [e EXCEPT !.pre = o]
               r == NextFile(d, "capture", Back(d, "enter"))
    <3>1. call' = [call EXCEPT ![c] = r]
      BY <2>3 DEF Capture, Continue
    <3>2. o \in [Files -> Contents \cup {None}]
      BY <1>2 DEF Calls
    <3>3. d \in Calls /\ d.files = e.files /\ d.kind = e.kind /\ d.snap = e.snap
      <4> HIDE DEF o, e
      <4> QED BY <1>2, <3>2 DEF Calls
    <3>4. "capture" \in Points /\ "enter" \in Points
      BY DEF Points
    <3> HIDE DEF d, e, o
    <3>5. Moved(Back(d, "enter"), d, "enter", 1)
      BY <3>3, <3>4, Turns
    <3>6. r = Back(d, "enter") \/ Moved(r, d, "capture", d.n + 1)
      BY <3>3, <3>4, Turns
    <3> HIDE DEF r
    <3>7. \/ Moved(r, d, "enter", 1)
          \/ Moved(r, d, "capture", d.n + 1)
      BY <3>5, <3>6
    <3> QED BY <3>1, <3>3, <3>7 DEF Moved
  <2> QED BY <2>1, <2>2, <2>3
<1> HIDE DEF e
<1>6. CASE \E o : r = Ended(o)
  BY <1>1, <1>3, <1>4, <1>5, <1>6, StaysLocks DEF e
<1>7. CASE /\ r.at \in {"parse", "capture", "enter"} /\ r.files = e.files
           /\ r.kind = e.kind /\ r.snap = e.snap /\ (r.at = "enter" => r.n = 1)
  <2>1. \A i \in DOMAIN r.files : ~Open(r, i, committed[c])
    BY <1>2, <1>7 DEF Open
  <2>2. Counted(c, r, committed[c], torn)
    BY <1>1, <1>2, <1>7 DEF Counted
  <2> QED BY <1>1, <1>3, <1>4, <1>5, <1>7, <2>1, <2>2, StaysLocks DEF e
<1> QED BY <1>5, <1>6, <1>7

\* A call enters its next file: the lock file was nobody's.
LEMMA EnterLocks ==
    ASSUME TypeInv, LockInv, NEW c \in Callers, Enter(c)
    PROVE  LockInv'
<1> DEFINE e == call[c]
           f == Here(c)
           s == [e.snap EXCEPT ![f] = disk[f]]
           d == [e EXCEPT !.snap = s]
           n == [d EXCEPT !.at = "apply", !.k = 1, !.ir = None]
           b == Back(d, "apply")
           m == NextFile(d, "enter", b)
           r == IF d.kind = "cross" THEN m ELSE n
           w == committed[c]
<1>1. Active(c) /\ e.at = "enter" /\ lock[f] = None
  BY DEF Enter, At, Active
<1>2. /\ e \in Calls /\ Planned(e) /\ e.n \in DOMAIN e.files /\ f = Current(e) /\ f \in Files
      /\ Len(e.files) \in Nat /\ DOMAIN e.files = 1..Len(e.files)
      /\ e.kind \in {"batch", "cross"} /\ lock \in [Files -> Callers \cup {None}]
      /\ e.snap \in [Files -> Contents \cup {None}] /\ Owns(c, e, lock, w, torn)
      /\ Counted(c, e, w, torn)
  BY <1>1, Held
<1>3. disk[f] \in Contents /\ disk[f] # None
  BY <1>2, ContentTypes DEF TypeInv, TypeOK
<1>4. s \in [Files -> Contents \cup {None}]
  BY <1>2, <1>3
<1>5. d \in Calls /\ d.n = e.n /\ d.files = e.files /\ d.kind = e.kind /\ d.snap = s
  <2> HIDE DEF s, e
  <2> QED BY <1>2, <1>4 DEF Calls
<1>6. /\ call' = [call EXCEPT ![c] = r]
      /\ lock' = [lock EXCEPT ![f] = c] /\ torn' = torn /\ committed' = committed
  BY DEF Enter, Continue
<1> HIDE DEF d, e, f, w
<1>7. "enter" \in Points /\ "apply" \in Points
  BY DEF Points
<1>8. /\ n.at = "apply" /\ n.n = e.n /\ n.files = e.files /\ n.kind = e.kind /\ n.snap = s
  BY <1>5 DEF Calls
<1> HIDE DEF n
<1>9. /\ Moved(b, d, "apply", 1)
      /\ d.n = Len(d.files) => m = b
      /\ d.n # Len(d.files) => Moved(m, d, "enter", d.n + 1)
  BY <1>5, <1>7, Turns
<1> HIDE DEF b, m
<1>10. /\ r.files = e.files /\ r.snap = s /\ r.kind = e.kind /\ r.at \in {"enter", "apply"}
       /\ \A i \in DOMAIN e.files : Open(r, i, w) <=> Open(e, i, w) \/ i = e.n
  <2>1. CASE d.kind # "cross"
    <3>1. r = n /\ e.kind = "batch"
      BY <1>2, <1>5, <2>1
    <3> HIDE DEF r, s
    <3> QED BY <1>1, <1>8, <3>1 DEF Open
  <2>2. CASE d.kind = "cross" /\ d.n = Len(d.files)
    <3>1. r = b /\ e.kind = "cross" /\ e.n = Len(e.files)
      BY <1>5, <1>9, <2>2
    <3>2. /\ b.at = "apply" /\ b.kind = "cross" /\ b.files = e.files /\ b.snap = s
      BY <1>5, <1>9, <2>2 DEF Moved
    <3> HIDE DEF r, s
    <3>3. \A i \in DOMAIN e.files : i < e.n \/ i = e.n
      BY <1>2, <3>1
    <3> QED BY <1>1, <3>1, <3>2, <3>3 DEF Open
  <2>3. CASE d.kind = "cross" /\ d.n # Len(d.files)
    <3>1. r = m /\ e.kind = "cross"
      BY <1>5, <2>3
    <3>2. /\ m.at = "enter" /\ m.kind = "cross" /\ m.files = e.files /\ m.snap = s
          /\ m.n = e.n + 1
      BY <1>5, <1>9, <2>3 DEF Moved
    <3> HIDE DEF r, s
    <3>3. \A i \in DOMAIN e.files : i < e.n + 1 <=> i < e.n \/ i = e.n
      BY <1>2
    <3> QED BY <1>1, <3>1, <3>2, <3>3 DEF Open
  <2> QED BY <2>1, <2>2, <2>3
<1> HIDE DEF r
<1>11. Owns(c, r, lock', w, torn)
  <2>1. \A g \in Files : lock'[g] = IF g = Current(e) THEN c ELSE lock[g]
    BY <1>2, <1>6
  <2>2. \A g \in Files : r.snap[g] # None <=> e.snap[g] # None \/ g = Current(e)
    BY <1>2, <1>3, <1>10
  <2> HIDE DEF s
  <2>3. Entered(c, r, e, lock, w, lock')
    BY <1>10, <2>1, <2>2 DEF Entered
  <2>4. Counted(c, r, w, torn) /\ ~Closing(e)
    BY <1>1, <1>2, <1>10 DEF Counted, Closing
  <2> QED BY <1>1, <1>2, <2>3, <2>4, EnterOwner
<1>12. /\ \A g \in Files, a \in Callers \ {c} : lock'[g] = a => lock[g] = a
       /\ \A g \in Files, a \in Callers \ {c} : lock[g] = a => lock'[g] = a
  BY <1>1, <1>2, <1>6, EditConstants
<1> QED BY <1>6, <1>11, <1>12, OneOwner DEF w

\* A call whose current file is no longer its own: what the others keep.
LEMMA OthersKeep ==
    ASSUME TypeInv, LockInv, NEW c \in Callers, Active(c),
           call[c].at \in {"rollback", "commit"},
           lock' = [lock EXCEPT ![Here(c)] = None] \/ lock' = lock
    PROVE  /\ \A g \in Files, a \in Callers \ {c} : lock'[g] = a => lock[g] = a
           /\ torn = {} =>
                \A g \in Files, a \in Callers \ {c} : lock[g] = a => lock'[g] = a
<1> DEFINE e == call[c]
           f == Here(c)
           w == committed[c]
<1>1. /\ e \in Calls /\ Planned(e) /\ e.n \in DOMAIN e.files /\ f = Current(e) /\ f \in Files
      /\ Len(e.files) \in Nat /\ DOMAIN e.files = 1..Len(e.files)
      /\ e.kind \in {"batch", "cross"} /\ lock \in [Files -> Callers \cup {None}]
      /\ Owns(c, e, lock, w, torn) /\ Counted(c, e, w, torn)
  BY Held
<1>2. torn = {} => lock[f] = c
  <2> SUFFICES ASSUME torn = {} PROVE lock[f] = c
    OBVIOUS
  <2>1. e.at = "rollback" /\ e.kind = "cross" => w = {}
    BY <1>1 DEF Counted
  <2>2. e.n <= e.n /\ e.n >= e.n
    BY <1>1
  <2>3. Open(e, e.n, w)
    BY <1>1, <2>1, <2>2 DEF Open
  <2>4. f \in Holding(e, w)
    BY <1>1, <2>3, HoldsAt DEF Current
  <2> QED BY <1>1, <2>4 DEF Owns
<1> HIDE DEF e, f, w
<1> QED BY <1>1, <1>2, EditConstants DEF f

\* A file is rolled back.
LEMMA RollbackLocks ==
    ASSUME TypeInv, LockInv, NEW c \in Callers, Rollback(c) \/ RollbackFails(c)
    PROVE  LockInv'
<1> DEFINE e == call[c]
           f == Here(c)
           w == committed[c]
<1>1. Active(c) /\ e.at = "rollback"
  BY DEF Rollback, RollbackFails, At, Active
<1>2. /\ e \in Calls /\ Planned(e) /\ e.n \in DOMAIN e.files /\ f = Current(e) /\ f \in Files
      /\ Len(e.files) \in Nat /\ DOMAIN e.files = 1..Len(e.files)
      /\ e.kind \in {"batch", "cross"} /\ lock \in [Files -> Callers \cup {None}]
      /\ e.snap \in [Files -> Contents \cup {None}] /\ Owns(c, e, lock, w, torn)
      /\ Counted(c, e, w, torn)
  BY <1>1, Held
<1>3. /\ torn' = torn /\ committed' = committed
      /\ lock' = [lock EXCEPT ![f] = None] \/ (lock' = lock /\ RollbackFails(c))
  BY DEF Rollback, RollbackFails, Unlock
<1>4. PICK d \in Calls :
        /\ call' = [call EXCEPT ![c] = AfterRollback(c, d, lock')]
        /\ Alike(d, e) /\ d.at = "rollback" /\ d.n = e.n
        /\ d.snap = [e.snap EXCEPT ![f] = None]
        /\ RollbackFails(c) /\ d.kind = "batch" => Rollback(c) \/ d.outcome = "raised"
  BY Closed
<1> DEFINE r == AfterRollback(c, d, lock')
<1>5. Placed(d) /\ d.at = "rollback" /\ d.kind = e.kind /\ d.files = e.files
  BY <1>2, <1>4 DEF Placed, Alike
<1>6. \/ /\ d.kind = "cross" /\ d.n > 1 /\ Moved(r, d, "rollback", d.n - 1)
      \/ /\ d.kind = "batch" /\ d.outcome = "failed" /\ Moved(r, d, "rewrite", 1)
      \/ /\ ~(d.kind = "cross" /\ d.n > 1) /\ Moved(r, d, "leaving", d.n)
      \/ (\A g \in Files : lock'[g] # c) /\ r = Ended(d.outcome)
  <2> DEFINE rewrites == /\ d.kind = "batch" /\ d.outcome = "failed"
                         /\ c \in Undoers /\ Len(d.files) > 1
             ends == ~(d.kind = "cross" /\ d.n > 1) /\ ~rewrites
  <2>1. \/ /\ d.kind = "cross" /\ d.n > 1 /\ d.n - 1 \in DOMAIN d.files
           /\ Moved(r, d, "rollback", d.n - 1)
        \/ rewrites /\ Moved(r, d, "rewrite", 1)
        \/ ends /\ (\E g \in Files : lock'[g] = c) /\ Moved(r, d, "leaving", d.n)
        \/ ends /\ (\A g \in Files : lock'[g] # c) /\ r = Ended(d.outcome)
    BY <1>5, RolledBack
  <2> HIDE DEF r
  <2> QED BY <2>1
<1> HIDE DEF e, f, w, r
<1>7. CASE (\A g \in Files : lock'[g] # c) /\ r = Ended(d.outcome)
  <2>1. Owns(c, r, lock', w, torn)
    BY <1>7, EndOwner
  <2> QED BY <1>1, <1>3, <1>4, <2>1, OneOwner, OthersKeep DEF e, f, w, r
<1>8. ASSUME r.files = e.files, r.snap = d.snap, r.at # "write",
             \A i \in DOMAIN e.files : Open(r, i, w) <=> Open(e, i, w) /\ i # e.n,
             Closing(e) => Closing(r), lock'[f] = c => Closing(r), Counted(c, r, w, torn)
      PROVE  LockInv'
  <2>1. \A g \in Files : r.snap[g] # None <=> e.snap[g] # None /\ g # Current(e)
    BY <1>2, <1>4, <1>8
  <2>2. \A g \in Files :
          IF g = Current(e) THEN lock'[g] = c => Closing(r) ELSE lock'[g] = lock[g]
    BY <1>2, <1>3, <1>8, EditConstants
  <2>3. Left(c, r, e, lock, w, lock', w)
    BY <1>8, <2>1, <2>2 DEF Left
  <2>4. Owns(c, r, lock', w, torn)
    BY <1>2, <1>8, <2>3, LeaveOwner
  <2> QED BY <1>1, <1>3, <1>4, <2>4, OneOwner, OthersKeep DEF e, f, w, r
<1>9. CASE d.kind = "cross" /\ d.n > 1 /\ Moved(r, d, "rollback", d.n - 1)
  <2>1. /\ r.files = e.files /\ r.snap = d.snap /\ r.at = "rollback" /\ r.kind = "cross"
        /\ r.n = e.n - 1
    BY <1>4, <1>5, <1>9 DEF Moved
  <2>2. \A i \in DOMAIN e.files : i <= e.n - 1 <=> i <= e.n /\ i # e.n
    BY <1>2
  <2>3. \A i \in DOMAIN e.files : Open(r, i, w) <=> Open(e, i, w) /\ i # e.n
    BY <1>1, <1>5, <1>9, <2>1, <2>2 DEF Open, e
  <2>4. Closing(r) /\ Counted(c, r, w, torn)
    BY <1>1, <1>2, <1>5, <1>9, <2>1 DEF Closing, Counted, e
  <2> QED BY <1>8, <2>1, <2>3, <2>4
<1>10. CASE d.kind = "batch" /\ d.outcome = "failed" /\ Moved(r, d, "rewrite", 1)
  <2>1. r.files = e.files /\ r.snap = d.snap /\ r.at = "rewrite" /\ r.kind = "batch"
    BY <1>5, <1>10 DEF Moved
  <2>2. \A i \in DOMAIN e.files : Open(r, i, w) <=> Open(e, i, w) /\ i # e.n
    BY <1>5, <1>10, <2>1 DEF Open
  <2>3. ~Closing(e) /\ Counted(c, r, w, torn)
    BY <1>1, <1>5, <1>10, <2>1 DEF Closing, Counted, e
  <2>4. Rollback(c)
    BY <1>4, <1>10
  <2>5. lock'[f] # c
    BY <1>2, <2>4, EditConstants DEF Rollback, Unlock, f
  <2> QED BY <1>8, <2>1, <2>2, <2>3, <2>5
<1>11. CASE ~(d.kind = "cross" /\ d.n > 1) /\ Moved(r, d, "leaving", d.n)
  <2>1. /\ r.files = e.files /\ r.snap = d.snap /\ r.at = "leaving" /\ r.kind = e.kind
        /\ r.n = e.n
    BY <1>4, <1>5, <1>11 DEF Moved
  <2>2. \A i \in DOMAIN e.files : Open(r, i, w) <=> Open(e, i, w) /\ i # e.n
    <3>1. e.kind = "cross" => e.n = 1 /\ \A i \in DOMAIN e.files : ~(i < e.n) /\ (i <= e.n => i = e.n)
      BY <1>2, <1>4, <1>5, <1>11
    <3> QED BY <1>1, <1>2, <2>1, <3>1 DEF Open, e
  <2>3. Closing(r) /\ Counted(c, r, w, torn)
    BY <1>1, <1>2, <2>1 DEF Closing, Counted, e
  <2> QED BY <1>8, <2>1, <2>2, <2>3
<1> QED BY <1>6, <1>7, <1>9, <1>10, <1>11

\* A call commits its current file, whose lock file was its own.
LEMMA CommitLocks ==
    ASSUME TypeInv, LockInv, NEW c \in Callers, CommitFile(c) \/ CommitOne(c)
    PROVE  LockInv'
<1> DEFINE e == call[c]
           f == Here(c)
           s == [e.snap EXCEPT ![f] = None]
           d == [e EXCEPT !.snap = s]
           w == committed[c]
           v == w \cup {f}
<1>1. Active(c) /\ e.at = "commit"
  BY DEF CommitFile, CommitOne, CrossAt, At, Active
<1>2. /\ e \in Calls /\ Planned(e) /\ e.n \in DOMAIN e.files /\ f = Current(e) /\ f \in Files
      /\ Len(e.files) \in Nat /\ DOMAIN e.files = 1..Len(e.files)
      /\ e.kind \in {"batch", "cross"} /\ lock \in [Files -> Callers \cup {None}]
      /\ e.snap \in [Files -> Contents \cup {None}] /\ Owns(c, e, lock, w, torn)
      /\ Counted(c, e, w, torn)
  BY <1>1, Held
<1>3. s \in [Files -> Contents \cup {None}]
  BY <1>2
<1>4. d \in Calls /\ d.n = e.n /\ d.files = e.files /\ d.kind = e.kind /\ d.snap = s
      /\ d.at = e.at
  <2> HIDE DEF s, e
  <2> QED BY <1>2, <1>3 DEF Calls
<1>5. /\ lock' = [lock EXCEPT ![f] = None] /\ torn' = torn
      /\ committed' = [committed EXCEPT ![c] = v]
  BY DEF CommitFile, CommitOne, Commit, Unlock
<1>6. committed'[c] = v /\ \A b \in Callers \ {c} : committed'[b] = committed[b]
  BY <1>5 DEF TypeInv, TypeOK
<1>7. \A p \in {"enter", "commit", "push"} : p \in Points
  BY DEF Points
<1>8. PICK r : /\ call' = [call EXCEPT ![c] = r]
               /\ \/ r = Ended("ok") /\ (e.kind = "cross" => e.n = Len(e.files))
                  \/ e.kind = "batch" /\ Moved(r, d, "push", d.n)
                  \/ e.kind = "batch" /\ Moved(r, d, "enter", d.n + 1)
                  \/ e.kind = "cross" /\ e.n = Len(e.files) /\ Moved(r, d, "push", 1)
                  \/ e.kind = "cross" /\ e.n # Len(e.files) /\ Moved(r, d, "commit", d.n + 1)
  <2>1. CASE CommitFile(c)
    <3> DEFINE r == IF c \in Undoers THEN [d EXCEPT !.at = "push"]
                    ELSE NextFile(d, "enter", Ended("ok"))
    <3>1. e.kind = "batch" /\ call' = [call EXCEPT ![c] = r]
      BY <2>1 DEF CommitFile, Continue
    <3> HIDE DEF d, e
    <3>2. Moved([d EXCEPT !.at = "push"], d, "push", d.n)
      BY <1>4, <1>7, Moves
    <3>3. /\ d.n = Len(d.files) => NextFile(d, "enter", Ended("ok")) = Ended("ok")
          /\ d.n # Len(d.files) => Moved(NextFile(d, "enter", Ended("ok")), d, "enter", d.n + 1)
      BY <1>4, <1>7, Turns
    <3>4. r = Ended("ok") \/ Moved(r, d, "push", d.n) \/ Moved(r, d, "enter", d.n + 1)
      BY <3>2, <3>3
    <3> HIDE DEF r
    <3> QED BY <3>1, <3>4
  <2>2. CASE CommitOne(c)
    <3> DEFINE b == Back(d, "push")
               o == IF c \in Undoers THEN b ELSE Ended("ok")
               r == NextFile(d, "commit", o)
    <3>1. e.kind = "cross" /\ call' = [call EXCEPT ![c] = r]
      BY <2>2 DEF CommitOne, CrossAt, Continue
    <3> HIDE DEF d, e
    <3>2. Moved(b, d, "push", 1)
      BY <1>4, <1>7, Turns
    <3> HIDE DEF b
    <3>3. /\ d.n = Len(d.files) => r = o
          /\ d.n # Len(d.files) => Moved(r, d, "commit", d.n + 1)
      BY <1>4, <1>7, Turns
    <3> HIDE DEF r
    <3> QED BY <1>4, <3>1, <3>2, <3>3
  <2> QED BY <2>1, <2>2
<1> HIDE DEF d, e, f, w
<1>9. /\ \A g \in Files, a \in Callers \ {c} : lock'[g] = a => lock[g] = a
      /\ torn = {} => \A g \in Files, a \in Callers \ {c} : lock[g] = a => lock'[g] = a
  BY <1>1, <1>5, OthersKeep DEF e, f
<1> HIDE DEF s, v
<1>10. ASSUME Owns(c, r, lock', v, torn) PROVE LockInv'
  <2>1. /\ call' = [call EXCEPT ![c] = r] /\ torn' = torn
        /\ Owns(c, r, lock', committed'[c], torn')
    BY <1>5, <1>6, <1>8, <1>10
  <2> QED BY <1>6, <1>9, <2>1, OneOwner
<1>11. CASE r = Ended("ok") /\ (e.kind = "cross" => e.n = Len(e.files))
  <2>1. \A i \in DOMAIN e.files : Open(e, i, w) => i = e.n
    <3>1. e.kind = "cross" => \A i \in DOMAIN e.files : i >= e.n => i = e.n
      BY <1>2, <1>11
    <3> QED BY <1>1, <3>1 DEF Open, e
  <2>2. \A g \in Files : lock'[g] # c
    <3>1. \A g \in Files : g \in Holding(e, w) => g = f
      BY <1>2, <2>1 DEF Holding, Current
    <3>2. \A g \in Files : lock[g] = c => g = f
      BY <1>1, <1>2, <3>1 DEF Owns, Closing, e
    <3> QED BY <1>2, <1>5, <3>2, EditConstants
  <2>3. Owns(c, r, lock', v, torn)
    BY <1>11, <2>2, EndOwner
  <2> QED BY <1>10, <2>3
<1>12. ASSUME r.files = e.files, r.snap = s, r.at # "write",
              \A i \in DOMAIN e.files : Open(r, i, v) <=> Open(e, i, w) /\ i # e.n,
              Counted(c, r, v, torn)
       PROVE  LockInv'
  <2>1. \A g \in Files : r.snap[g] # None <=> e.snap[g] # None /\ g # Current(e)
    BY <1>2, <1>12 DEF s
  <2>2. \A g \in Files :
          IF g = Current(e) THEN lock'[g] = c => Closing(r) ELSE lock'[g] = lock[g]
    BY <1>2, <1>5, EditConstants
  <2>3. ~Closing(e)
    BY <1>1 DEF Closing, e
  <2>4. Left(c, r, e, lock, w, lock', v)
    BY <1>12, <2>1, <2>2, <2>3 DEF Left
  <2>5. Owns(c, r, lock', v, torn)
    BY <1>2, <1>12, <2>4, LeaveOwner
  <2> QED BY <1>10, <2>5
<1>13. CASE e.kind = "batch" /\ (Moved(r, d, "push", d.n) \/ Moved(r, d, "enter", d.n + 1))
  <2>1. r.files = e.files /\ r.snap = s /\ r.kind = "batch" /\ r.at \in {"push", "enter"}
    BY <1>4, <1>13 DEF Moved
  <2>2. \A i \in DOMAIN e.files : Open(r, i, v) <=> Open(e, i, w) /\ i # e.n
    BY <1>13, <2>1 DEF Open
  <2>3. Counted(c, r, v, torn)
    BY <2>1 DEF Counted
  <2> QED BY <1>12, <2>1, <2>2, <2>3
<1>14. CASE e.kind = "cross" /\ e.n = Len(e.files) /\ Moved(r, d, "push", 1)
  <2>1. r.files = e.files /\ r.snap = s /\ r.kind = "cross" /\ r.at = "push"
    BY <1>4, <1>14 DEF Moved
  <2>2. \A i \in DOMAIN e.files : i >= e.n => i = e.n
    BY <1>2, <1>14
  <2>3. \A i \in DOMAIN e.files : Open(r, i, v) <=> Open(e, i, w) /\ i # e.n
    BY <1>1, <1>14, <2>1, <2>2 DEF Open, e
  <2>4. Counted(c, r, v, torn)
    BY <2>1 DEF Counted
  <2> QED BY <1>12, <2>1, <2>3, <2>4
<1>15. CASE e.kind = "cross" /\ e.n # Len(e.files) /\ Moved(r, d, "commit", d.n + 1)
  <2>1. r.files = e.files /\ r.snap = s /\ r.kind = "cross" /\ r.at = "commit" /\ r.n = e.n + 1
    BY <1>4, <1>15 DEF Moved
  <2>2. \A i \in DOMAIN e.files :
          /\ i >= e.n + 1 <=> i >= e.n /\ i # e.n
          /\ i < e.n + 1 <=> i < e.n \/ i = e.n
    BY <1>2
  <2>3. \A i \in DOMAIN e.files : Open(r, i, v) <=> Open(e, i, w) /\ i # e.n
    BY <1>1, <1>15, <2>1, <2>2 DEF Open, e
  <2>4. Counted(c, r, v, torn)
    <3>1. \A i \in DOMAIN e.files : e.files[i] \in w <=> i < e.n
      BY <1>1, <1>2, <1>15 DEF Counted, e
    <3>2. \A i \in DOMAIN e.files : e.files[i] = f <=> i = e.n
      BY <1>2 DEF Planned, Current
    <3> QED BY <2>1, <2>2, <3>1, <3>2 DEF Counted, v
  <2> QED BY <1>12, <2>1, <2>3, <2>4
<1> QED BY <1>8, <1>11, <1>13, <1>14, <1>15

\* A call that fails or is refused stays inside the files it is to roll back.
LEMMA AwayLocks ==
    ASSUME TypeInv, LockInv, NEW c \in Callers,
           Refused(c) \/ OpFails(c) \/ EditFails(c) \/ CommitFails(c)
    PROVE  LockInv'
<1> DEFINE e == call[c]
           w == committed[c]
<1>1. /\ Active(c) /\ e.at \notin {"leaving", "rollback"} /\ lock' = lock
      /\ torn \subseteq torn' /\ committed' = committed
  BY DEF Refused, OpFails, EditFails, CommitFails, CrossAt, At, Active
<1>2. /\ e \in Calls /\ e.n \in DOMAIN e.files /\ Len(e.files) \in Nat
      /\ DOMAIN e.files = 1..Len(e.files) /\ e.kind \in {"batch", "cross"}
      /\ Counted(c, e, w, torn) /\ (e.at = "write" => e.kind = "batch")
  BY <1>1, Held DEF Owns
<1>3. CASE Refused(c) /\ ~(e.kind = "cross" /\ e.n > 1)
  <2>1. e.at = "enter" /\ call' = [call EXCEPT ![c] = Ended("raised")]
    BY <1>3 DEF Refused, At, End, Continue
  <2>2. \A i \in DOMAIN e.files : ~Open(e, i, w)
    BY <1>2, <1>3, <2>1 DEF Open
  <2> QED BY <1>1, <2>1, <2>2, StaysLocks
<1>4. CASE Refused(c) /\ e.kind = "cross" /\ e.n > 1
  <2> DEFINE r == [e EXCEPT !.at = "rollback", !.n = @ - 1, !.outcome = "raised"]
  <2>1. e.at = "enter" /\ call' = [call EXCEPT ![c] = r]
    BY <1>4 DEF Refused, At, Continue
  <2> HIDE DEF e, w
  <2>2. /\ r.files = e.files /\ r.snap = e.snap /\ r.at = "rollback" /\ r.kind = e.kind
        /\ r.n = e.n - 1
    BY <1>2 DEF Calls
  <2> HIDE DEF r
  <2>3. \A i \in DOMAIN e.files : i <= e.n - 1 <=> i < e.n
    BY <1>2
  <2>4. w = {}
    BY <1>2, <1>4, <2>1 DEF Counted
  <2>5. \A i \in DOMAIN e.files : Open(r, i, w) <=> Open(e, i, w)
    BY <1>4, <2>1, <2>2, <2>3, <2>4 DEF Open
  <2>6. Counted(c, r, w, torn')
    BY <2>2, <2>4 DEF Counted
  <2> QED BY <1>1, <2>1, <2>2, <2>5, <2>6, StaysLocks DEF e, w
<1>5. CASE OpFails(c) \/ EditFails(c) \/ CommitFails(c)
  <2>1. PICK o : call' = [call EXCEPT ![c] = Abandoned(e, o)]
    BY <1>5 DEF OpFails, EditFails, CommitFails, Continue
  <2>2. e.at \in {"apply", "writing", "write", "commit"}
    BY <1>5 DEF OpFails, EditFails, CommitFails, CrossAt, At
  <2>3. e.at = "commit" /\ e.kind = "cross" /\ w # {} => c \in torn'
    BY <1>5 DEF OpFails, EditFails, CommitFails, CrossAt, At
  <2> DEFINE r == Abandoned(e, o)
  <2> HIDE DEF e, w
  <2>4. /\ r.files = e.files /\ r.snap = e.snap /\ r.at = "rollback" /\ r.kind = e.kind
        /\ r.n = IF e.kind = "cross" THEN Len(e.files) ELSE e.n
    BY <1>2 DEF Abandoned, Calls
  <2> HIDE DEF r
  <2>5. CASE e.kind = "batch"
    <3>1. \A i \in DOMAIN e.files : Open(r, i, w) <=> Open(e, i, w)
      BY <2>2, <2>4, <2>5 DEF Open
    <3>2. Counted(c, r, w, torn')
      BY <2>4, <2>5 DEF Counted
    <3> QED BY <1>1, <2>1, <2>4, <3>1, <3>2, StaysLocks DEF e, r, w
  <2>6. CASE e.kind = "cross"
    <3>1. \A i \in DOMAIN e.files : i <= Len(e.files) /\ (i >= e.n <=> ~(i < e.n))
      BY <1>2
    <3>2. \/ e.at \in {"apply", "writing"} /\ w = {}
          \/ e.at = "commit" /\ \A i \in DOMAIN e.files : e.files[i] \in w <=> i < e.n
      BY <1>2, <2>2, <2>6 DEF Counted
    <3>3. \A i \in DOMAIN e.files : Open(r, i, w) <=> Open(e, i, w)
      BY <2>4, <2>6, <3>1, <3>2 DEF Open
    <3>4. Counted(c, r, w, torn')
      BY <2>3, <2>4, <3>2 DEF Counted
    <3> QED BY <1>1, <2>1, <2>4, <3>3, <3>4, StaysLocks DEF e, r, w
  <2> QED BY <1>2, <2>5, <2>6
<1> QED BY <1>3, <1>4, <1>5

\* An OSError while a file is entered, and what comes of it.
LEMMA RaiseLocks ==
    ASSUME TypeInv, LockInv, NEW c \in Callers, OpenFails(c) \/ Collect(c)
    PROVE  LockInv'
<1> DEFINE e == call[c]
           w == committed[c]
<1>1. Active(c) /\ torn' = torn /\ committed' = committed
  BY DEF OpenFails, Collect, At, Active
<1>2. /\ e \in Calls /\ Here(c) \in Files /\ lock \in [Files -> Callers \cup {None}]
      /\ Owns(c, e, lock, w, torn) /\ Counted(c, e, w, torn)
  BY <1>1, Held
<1>3. CASE OpenFails(c)
  <2> DEFINE r == [e EXCEPT !.at = "leaving", !.outcome = "raised"]
  <2>1. /\ e.at = "enter" /\ call' = [call EXCEPT ![c] = r]
        /\ lock[Here(c)] = None
        /\ lock' = lock \/ lock' = [lock EXCEPT ![Here(c)] = c]
    BY <1>3 DEF OpenFails, At, Continue
  <2> HIDE DEF e, w
  <2>2. r.at = "leaving" /\ r.kind = e.kind /\ r.n = e.n /\ r.files = e.files /\ r.snap = e.snap
    BY <1>2 DEF Calls
  <2> HIDE DEF r
  <2>3. Holding(r, w) = Holding(e, w)
    BY <2>1, <2>2 DEF Holding, Open
  <2>4. \A f \in Files : lock[f] = c => lock'[f] = c
    BY <1>2, <2>1
  <2>5. Counted(c, r, w, torn)
    BY <1>2, <2>1, <2>2 DEF Counted
  <2>6. Owns(c, r, lock', w, torn)
    BY <1>2, <2>2, <2>3, <2>4, <2>5 DEF Owns, Closing
  <2>7. /\ \A f \in Files, b \in Callers \ {c} : lock'[f] = b => lock[f] = b
        /\ \A f \in Files, b \in Callers \ {c} : lock[f] = b => lock'[f] = b
    BY <1>2, <2>1, EditConstants
  <2> QED BY <1>1, <2>1, <2>6, <2>7, OneOwner DEF w
<1>4. CASE Collect(c)
  <2>1. /\ call' = [call EXCEPT ![c] = Ended(e.outcome)]
        /\ lock' = [f \in Files |-> IF lock[f] = c THEN None ELSE lock[f]]
    BY <1>4 DEF Collect, End, Continue
  <2>2. \A f \in Files : lock'[f] # c
    BY <1>2, <2>1, EditConstants
  <2>3. Owns(c, Ended(e.outcome), lock', w, torn)
    BY <2>2, EndOwner
  <2>4. /\ \A f \in Files, b \in Callers \ {c} : lock'[f] = b => lock[f] = b
        /\ \A f \in Files, b \in Callers \ {c} : lock[f] = b => lock'[f] = b
    BY <1>2, <2>1, EditConstants
  <2> QED BY <1>1, <2>1, <2>3, <2>4, OneOwner
<1> QED BY <1>3, <1>4

\* The operations of a batch.
LEMMA OpLocks ==
    ASSUME TypeInv, LockInv, NEW c \in Callers, ApplyToObject(c) \/ ApplyRaw(c)
    PROVE  LockInv'
<1> DEFINE e == call[c]
<1>1. /\ Active(c) /\ e.at = "apply" /\ e.kind = "batch" /\ lock' = lock /\ torn' = torn
      /\ committed' = committed
  BY DEF ApplyToObject, ApplyRaw, BatchOp, At, Active
<1>2. e \in Calls
  BY <1>1, Held
<1>3. PICK d, v : /\ call' = [call EXCEPT ![c] = NextOp(d, v)]
                  /\ d = e \/ \E o : d = [e EXCEPT !.object = o]
  <2>1. CASE ApplyRaw(c)
    BY <2>1 DEF ApplyRaw, Continue
  <2>2. CASE ApplyToObject(c)
    <3> DEFINE o == [e.object EXCEPT ![Here(c)] = IF e.ir = None THEN @ \cup {Edit(c)} ELSE @]
    <3>1. call' = [call EXCEPT ![c] = NextOp([e EXCEPT !.object = o], disk[Here(c)])]
      BY <2>2 DEF ApplyToObject, Continue
    <3> HIDE DEF o
    <3> QED BY <3>1
  <2> QED BY <2>1, <2>2
<1> HIDE DEF e
<1>4. /\ d.at = e.at /\ d.kind = e.kind /\ d.n = e.n /\ d.files = e.files /\ d.snap = e.snap
  BY <1>2, <1>3 DEF Calls
<1> DEFINE r == NextOp(d, v)
<1>5. /\ r.at \in {"apply", "write"} /\ r.kind = "batch" /\ r.n = e.n /\ r.files = e.files
      /\ r.snap = e.snap
  <2>1. CASE d = e
    BY <1>1, <1>2, <2>1 DEF NextOp, Calls
  <2>2. CASE \E o : d = [e EXCEPT !.object = o]
    BY <1>1, <1>2, <1>4, <2>2 DEF NextOp, Calls
  <2> QED BY <1>3, <2>1, <2>2
<1> HIDE DEF r
<1>6. \A i \in DOMAIN r.files : Open(r, i, committed[c]) <=> Open(e, i, committed[c])
  BY <1>1, <1>5 DEF Open
<1>7. Counted(c, r, committed[c], torn')
  BY <1>5 DEF Counted
<1> QED BY <1>1, <1>3, <1>5, <1>6, <1>7, StaysLocks DEF e, r

\* A file is written.
LEMMA WriteLocks ==
    ASSUME TypeInv, LockInv, NEW c \in Callers, Serialize(c) \/ FinishWriting(c)
    PROVE  LockInv'
<1> DEFINE e == call[c]
           q == [e EXCEPT !.at = "commit"]
           w == [e EXCEPT !.at = "writing"]
           b == Back(e, "commit")
           m == NextFile(e, "apply", b)
<1>1. /\ Active(c) /\ e.at \in {"write", "writing"} /\ lock' = lock /\ torn' = torn
      /\ committed' = committed
  BY DEF Serialize, FinishWriting, At, Active
<1>2. /\ e \in Calls /\ e.n \in DOMAIN e.files /\ Len(e.files) \in Nat
      /\ DOMAIN e.files = 1..Len(e.files) /\ e.kind \in {"batch", "cross"}
      /\ Owns(c, e, lock, committed[c], torn)
  BY <1>1, Held
<1>3. e.at = "write" => e.kind = "batch"
  BY <1>2 DEF Owns
<1>4. /\ Serialize(c) => call' = [call EXCEPT ![c] = q] \/ call' = [call EXCEPT ![c] = w]
      /\ FinishWriting(c) /\ e.kind = "batch" => call' = [call EXCEPT ![c] = q]
      /\ FinishWriting(c) /\ e.kind # "batch" => call' = [call EXCEPT ![c] = m]
      /\ Serialize(c) => e.at = "write"
      /\ FinishWriting(c) => e.at = "writing"
  BY DEF Serialize, FinishWriting, Go, Continue, At, TypeInv, TypeOK
<1> HIDE DEF e
<1>5. \A p \in {"commit", "writing", "apply"} : p \in Points
  BY DEF Points
<1>6. Moved(q, e, "commit", e.n) /\ Moved(w, e, "writing", e.n)
  BY <1>2, <1>5, Moves
<1>7. /\ Moved(b, e, "commit", 1)
      /\ e.n = Len(e.files) => m = b
      /\ e.n # Len(e.files) => Moved(m, e, "apply", e.n + 1)
  BY <1>2, <1>5, Turns
<1> HIDE DEF q, w, b, m
<1>8. PICK r : /\ call' = [call EXCEPT ![c] = r]
               /\ \/ r = q \/ r = w
                  \/ FinishWriting(c) /\ e.kind = "cross" /\ (r = b \/ r = m)
               /\ FinishWriting(c) /\ e.kind = "cross" => r = b \/ r = m
  BY <1>2, <1>4, <1>7
<1>9. r.files = e.files /\ r.snap = e.snap /\ r.kind = e.kind /\ r.at # "write"
  BY <1>6, <1>7, <1>8 DEF Moved
<1>10. \A i \in DOMAIN e.files : Open(r, i, committed[c]) <=> Open(e, i, committed[c])
  <2>1. CASE e.kind = "cross" /\ FinishWriting(c)
    <3>1. e.at = "writing" /\ \A i \in DOMAIN e.files : Open(e, i, committed[c])
      BY <1>4, <2>1 DEF Open
    <3>2. \A i \in DOMAIN e.files : i >= 1
      BY <1>2
    <3>3. r = b \/ Moved(r, e, "apply", e.n + 1)
      BY <1>7, <1>8, <2>1
    <3>4. \A i \in DOMAIN e.files : Open(r, i, committed[c])
      BY <1>7, <1>9, <2>1, <3>2, <3>3 DEF Open, Moved
    <3> QED BY <3>1, <3>4
  <2>2. CASE e.kind = "batch"
    <3>1. r.at \in {"commit", "writing"} /\ r.n = e.n /\ r.kind = "batch"
      BY <1>6, <1>8, <2>2 DEF Moved
    <3> QED BY <1>1, <2>2, <3>1 DEF Open
  <2>3. CASE e.kind = "cross" /\ ~FinishWriting(c)
    <3>1. e.at = "write"
      BY <1>4, <2>3
    <3> QED BY <1>3, <2>3, <3>1
  <2> QED BY <1>2, <2>1, <2>2, <2>3
<1>11. Counted(c, r, committed[c], torn')
  <2>1. CASE e.kind = "cross" /\ FinishWriting(c)
    <3>1. committed[c] = {} /\ \A i \in DOMAIN e.files : ~(i < 1)
      BY <1>2, <1>4, <2>1 DEF Owns, Counted
    <3>2. r.at = "apply" \/ (r.at = "commit" /\ r.n = 1)
      BY <1>7, <1>8, <2>1 DEF Moved
    <3> QED BY <1>9, <3>1, <3>2 DEF Counted
  <2>2. CASE e.kind = "batch"
    BY <1>9, <2>2 DEF Counted
  <2>3. CASE e.kind = "cross" /\ ~FinishWriting(c)
    BY <1>3, <1>4, <2>3
  <2> QED BY <1>2, <2>1, <2>2, <2>3
<1> QED BY <1>1, <1>8, <1>9, <1>10, <1>11, StaysLocks DEF e

\* A cross-file operation edits its next file, inside all of them.
LEMMA EditLocks ==
    ASSUME TypeInv, LockInv, NEW c \in Callers, EditFile(c)
    PROVE  LockInv'
<1> DEFINE e == call[c]
           f == Here(c)
           v == e.object[f] \cup {Edit(c)}
           o == [e.object EXCEPT ![f] = v]
           u == e.dirty \cup {f}
           d == [e EXCEPT !.object = o, !.dirty = u]
<1>1. /\ Active(c) /\ e.at = "apply" /\ e.kind = "cross" /\ lock' = lock /\ torn' = torn
      /\ committed' = committed
  BY DEF EditFile, CrossAt, At, Active
<1>2. /\ e \in Calls /\ e.n \in DOMAIN e.files /\ Len(e.files) \in Nat
      /\ DOMAIN e.files = 1..Len(e.files) /\ f \in Files
      /\ Counted(c, e, committed[c], torn)
  BY <1>1, Held
<1>3. v \in Contents
  <2>1. e.object[f] \in SUBSET Edits /\ Edit(c) \in Edits
    BY <1>1, Parsed DEF Ready
  <2> QED BY <2>1 DEF Contents
<1>4. o \in [Files -> Contents \cup {None}] /\ u \in SUBSET Files
  BY <1>2, <1>3 DEF Calls
<1>5. d = [e EXCEPT !.object[f] = @ \cup {Edit(c)}, !.dirty = @ \cup {f}]
  BY <1>2 DEF Calls
<1> HIDE DEF d
<1>6. PICK g \in {e, d} :
        \/ call' = [call EXCEPT ![c] = NextFile(g, "apply", Back(g, "commit"))]
        \/ call' = [call EXCEPT ![c] = [g EXCEPT !.at = "writing"]]
  BY <1>5 DEF EditFile, Continue
<1>7. d \in Calls /\ d.at = e.at /\ d.n = e.n /\ d.files = e.files /\ d.kind = e.kind
      /\ d.snap = e.snap
  <2> HIDE DEF e, o, u
  <2> QED BY <1>2, <1>4 DEF Calls, d
<1> HIDE DEF e, f, v, o, u
<1>8. g \in Calls /\ g.at = e.at /\ g.n = e.n /\ g.files = e.files /\ g.kind = e.kind
      /\ g.snap = e.snap
  BY <1>2, <1>6, <1>7
<1>9. \A p \in {"commit", "writing", "apply"} : p \in Points
  BY DEF Points
<1> DEFINE w == [g EXCEPT !.at = "writing"]
           b == Back(g, "commit")
           m == NextFile(g, "apply", b)
<1>10. Moved(w, g, "writing", g.n)
  BY <1>8, <1>9, Moves
<1>11. /\ Moved(b, g, "commit", 1)
       /\ g.n = Len(g.files) => m = b
       /\ g.n # Len(g.files) => Moved(m, g, "apply", g.n + 1)
  BY <1>8, <1>9, Turns
<1> HIDE DEF w, m
<1>12. PICK r : call' = [call EXCEPT ![c] = r] /\ (r = w \/ r = m)
  BY <1>6 DEF w, m
<1> HIDE DEF b
<1>13. /\ r.files = e.files /\ r.snap = e.snap /\ r.kind = "cross"
       /\ r.at \in {"writing", "apply"} \/ (r.at = "commit" /\ r.n = 1)
  BY <1>1, <1>8, <1>10, <1>11, <1>12 DEF Moved
<1>14. \A i \in DOMAIN e.files : i >= 1
  BY <1>2
<1>15. \A i \in DOMAIN r.files : Open(r, i, committed[c]) <=> Open(e, i, committed[c])
  BY <1>1, <1>13, <1>14 DEF Open
<1>16. r.at # "write"
  BY <1>13
<1>17. Counted(c, r, committed[c], torn')
  <2>1. committed[c] = {}
    BY <1>1, <1>2 DEF Counted
  <2>2. \A i \in DOMAIN e.files : ~(i < 1)
    BY <1>2
  <2> QED BY <1>13, <2>1, <2>2 DEF Counted
<1> QED BY <1>1, <1>12, <1>13, <1>15, <1>16, <1>17, StaysLocks DEF e

\* What is done outside of the transactions.
LEMMA OutsideLocks ==
    ASSUME TypeInv, LockInv, NEW c \in Callers,
           Rewrite(c) \/ PushFile(c) \/ PushOne(c) \/ ReadBackFails(c)
    PROVE  LockInv'
<1> DEFINE e == call[c]
           w == committed[c]
<1>1. /\ Active(c) /\ e.at \in {"rewrite", "push"} /\ lock' = lock /\ torn' = torn
      /\ committed' = committed /\ (PushFile(c) => e.kind = "batch")
  BY DEF Rewrite, PushFile, PushOne, ReadBackFails, CrossAt, At, Active
<1>2. e \in Calls /\ e.n \in DOMAIN e.files
  BY <1>1, Held
<1>3. \A i \in DOMAIN e.files : ~Open(e, i, w)
  BY <1>1 DEF Open
<1>4. CASE ReadBackFails(c)
  <2>1. call' = [call EXCEPT ![c] = Ended("raised")]
    BY <1>4 DEF ReadBackFails, End, Continue
  <2> QED BY <1>1, <1>3, <2>1, StaysLocks
<1>5. CASE ~ReadBackFails(c)
  <2>1. PICK p \in {"rewrite", "enter", "push"}, o \in {"ok", "failed"} :
          /\ call' = [call EXCEPT ![c] = NextFile(e, p, Ended(o))]
          /\ p = "enter" => e.kind = "batch"
    BY <1>1, <1>5 DEF Rewrite, PushFile, PushOne, Continue
  <2>2. p \in Points
    BY DEF Points
  <2> HIDE DEF e, w
  <2> DEFINE r == NextFile(e, p, Ended(o))
  <2>3. r = Ended(o) \/ Moved(r, e, p, e.n + 1)
    BY <1>2, <2>2, Turns
  <2> HIDE DEF r
  <2>4. CASE r = Ended(o)
    BY <1>1, <1>3, <2>1, <2>4, StaysLocks DEF e, r, w
  <2>5. CASE Moved(r, e, p, e.n + 1)
    <3>1. /\ r.files = e.files /\ r.snap = e.snap /\ r.at = p /\ r.kind = e.kind
      BY <2>5 DEF Moved
    <3>2. \A i \in DOMAIN r.files : Open(r, i, w) <=> Open(e, i, w)
      BY <1>3, <2>1, <3>1 DEF Open
    <3>3. Counted(c, r, w, torn')
      BY <2>1, <3>1 DEF Counted
    <3> QED BY <1>1, <2>1, <3>1, <3>2, <3>3, StaysLocks DEF e, r, w
  <2> QED BY <2>3, <2>4, <2>5
<1> QED BY <1>4, <1>5

\* Nobody holds a lock at first, and every step keeps the locks in order.
LEMMA InitLocks == Init => LockInv
<1> SUFFICES ASSUME Init, NEW c \in Callers PROVE Owns(c, Idle, lock, {}, torn)
  BY DEF Init, LockInv
<1>1. \A f \in Files : lock[f] # c
  BY EditConstants DEF Init
<1>2. Idle.at = "idle" /\ Idle.snap = Nothing /\ Idle.kind = "batch"
  BY DEF Idle
<1>3. Counted(c, Idle, {}, torn)
  BY <1>2 DEF Counted
<1> QED BY <1>1, <1>2, <1>3, EmptyOwner DEF Open, Nothing

LEMMA NextLocks == TypeInv /\ LockInv /\ [Next]_vars => LockInv'
<1> SUFFICES ASSUME TypeInv, LockInv, [Next]_vars PROVE LockInv'
  OBVIOUS
<1>1. CASE UNCHANGED vars
  BY <1>1 DEF vars, LockInv
<1>2. ASSUME NEW c \in Callers, ExecuteBatch(c) \/ ExecuteCrossFile(c) PROVE LockInv'
  BY <1>2, BeginLocks
<1>3. ASSUME NEW c \in Callers, Step(c) PROVE LockInv'
  BY <1>3, ReadLocks, EnterLocks, RollbackLocks, CommitLocks, AwayLocks, RaiseLocks,
     OpLocks, WriteLocks, EditLocks, OutsideLocks DEF Step
<1> QED BY <1>1, <1>2, <1>3 DEF Next

\* Whoever is inside the transaction of a file owns its lock file, for any callers that
\* take any files in any orders, as long as nobody rolls back what is committed.
THEOREM LocksAreRespected == Spec => []LocksRespected
<1>1. LockInv => LocksRespected
  BY DEF LockInv, Owns, LocksRespected, Inside
<1> QED BY <1>1, InitType, NextType, InitLocks, NextLocks, PTL DEF Spec

\* A call that is over owns no lock file, whether it succeeded, failed, was refused
\* halfway through its files, or failed to roll one of them back.
THEOREM LocksAreReturned == Spec => []LocksReturned
<1>1. LockInv => LocksReturned
  <2> SUFFICES ASSUME LockInv, NEW c \in Callers, NEW f \in Files, lock[f] = c, ~Active(c)
               PROVE  FALSE
    BY DEF LocksReturned
  <2>1. /\ Owns(c, call[c], lock, committed[c], torn)
        /\ call[c].at \in {"idle", "done"}
    BY DEF LockInv, Active
  <2>2. /\ ~Closing(call[c])
        /\ \A i \in DOMAIN call[c].files : ~Open(call[c], i, committed[c])
    BY <2>1 DEF Open, Closing
  <2> QED BY <2>1, <2>2, FreeOwner
<1> QED BY <1>1, InitType, NextType, InitLocks, NextLocks, PTL DEF Spec

-----------------------------------------------------------------------------
(***************************************************************************)
(* All or nothing.                                                          *)
(*                                                                         *)
(* CrossFileAllOrNothing and FailedOpUndone speak of the last step of a     *)
(* call.  What makes it right is that on the way there each file that is    *)
(* not committed, and did not fail to be restored, is either as it was when *)
(* the call began or is open with a snapshot of that.                       *)
(***************************************************************************)

\* v is the content of the files, b what it was when d began, w what d has committed
\* and u what could not be restored.
Recoverable(d, v, b, w, u) ==
    \A f \in Files \ (w \cup u) :
        IF d.snap[f] = None THEN v[f] = b[f] ELSE d.snap[f] = b[f]

Same(v, b, lost) == \A f \in Files \ lost : v[f] = b[f]

\* A cross-file operation does not touch a file until it has entered all of them.
CrossSafe(d, v, b, w, u) ==
    /\ d.at # "rewrite"
    /\ d.at \in {"parse", "capture", "enter", "leaving"} => Same(v, b, w \cup u)

\* A batch has committed only files it got past; with an undo stack it knows what all
\* of them were, and goes back to that if an operation fails.
BatchSafe(c, d, v, b, w, u) ==
    /\ d.at \in {"parse", "capture"} => v = b /\ w = {}
    /\ c \in Undoers =>
          \A i \in DOMAIN d.files :
              d.at # "parse" /\ (i < d.n \/ d.at # "capture") =>
                  d.pre[d.files[i]] = b[d.files[i]]
    /\ \A f \in w : \E i \in DOMAIN d.files :
          d.files[i] = f /\ (i < d.n \/ (d.at = "push" /\ i = d.n) \/ d.at = "rewrite")
    /\ d.at = "leaving" /\ d.outcome = "failed" /\ c \in Undoers => w = {}
    /\ d.at = "rewrite" =>
          \A i \in DOMAIN d.files :
              i < d.n => v[d.files[i]] = b[d.files[i]] \/ d.files[i] \in u

Safe(c, d, v, b, w, u) ==
    /\ Recoverable(d, v, b, w, u)
    /\ IF d.kind = "cross" THEN CrossSafe(d, v, b, w, u) ELSE BatchSafe(c, d, v, b, w, u)

\* The inductive invariant behind the two: a call that was alone when it began, and
\* still is, can be undone.
UndoableInv ==
    \A c \in Callers : Active(c) /\ Alone(c) =>
        /\ \A a \in Callers \ {c} : ~Active(a)
        /\ Safe(c, call[c], disk, before[c], committed[c], unrestored)

\* What d leaves when it ends so: the two action properties, of one call.
Result(c, d, o, v, b, w, u, lost) ==
    o \in {"failed", "raised"} =>
        IF d.kind = "cross"
        THEN Same(v, b, w \cup u) /\ (w # {} => c \in lost \/ d.at = "push")
        ELSE \A f \in Files : v[f] # b[f] =>
                f \in u \/ (f \in w /\ (o = "raised" \/ c \notin Undoers))

AllOrNothing ==
    \A c \in Callers, o \in {"failed", "raised"} :
        Alone(c) /\ Ends(c, o) =>
            Result(c, call[c], o, disk', before[c], committed[c], unrestored', torn)

\* What is known of a call that is alone.
LEMMA Aware ==
    ASSUME TypeInv, LockInv, UndoableInv, NEW c \in Callers, Active(c), Alone(c)
    PROVE  /\ call[c] \in Calls /\ call[c].kind \in {"batch", "cross"}
           /\ Len(call[c].files) \in Nat /\ DOMAIN call[c].files = 1..Len(call[c].files)
           /\ call[c].n \in 1..Len(call[c].files)
           /\ \A i \in DOMAIN call[c].files : call[c].files[i] \in Files
           /\ Here(c) = call[c].files[call[c].n] /\ Here(c) \in Files
           /\ before[c] \in [Files -> Contents] /\ disk \in [Files -> Contents]
           /\ call[c].snap \in [Files -> Contents \cup {None}]
           /\ call[c].pre \in [Files -> Contents \cup {None}]
           /\ Safe(c, call[c], disk, before[c], committed[c], unrestored)
           /\ Counted(c, call[c], committed[c], torn)
           /\ None \notin Contents
<1>1. /\ call[c] \in Calls /\ call[c].kind \in {"batch", "cross"}
      /\ Len(call[c].files) \in Nat /\ DOMAIN call[c].files = 1..Len(call[c].files)
      /\ call[c].n \in 1..Len(call[c].files) /\ Here(c) \in Files
      /\ Here(c) = call[c].files[call[c].n] /\ Counted(c, call[c], committed[c], torn)
      /\ call[c].snap \in [Files -> Contents \cup {None}]
  BY Held DEF Current
<1>2. \A i \in 1..Len(call[c].files) : call[c].files[i] \in Files
  <2>1. call[c].files \in Seq(Files)
    BY <1>1 DEF Calls
  <2> QED BY <2>1, ElementOfSeq
<1>3. None \notin Contents
  BY DistinctContents DEF Contents
<1>4. before[c] \in [Files -> Contents] /\ disk \in [Files -> Contents]
  BY DEF Alone, TypeInv, TypeOK
<1>5. call[c].pre \in [Files -> Contents \cup {None}]
  BY <1>1 DEF Calls
<1>6. Safe(c, call[c], disk, before[c], committed[c], unrestored)
  BY DEF UndoableInv
<1> QED BY <1>1, <1>2, <1>3, <1>4, <1>5, <1>6

\* Where a call has which file open.
LEMMA OpenHere ==
    ASSUME TypeInv, LockInv, NEW c \in Callers, Active(c)
    PROVE  /\ call[c].at \in {"apply", "write", "writing", "commit"} => Inside(c, Here(c))
           /\ call[c].at = "enter" => ~Inside(c, Here(c))
           /\ \/ call[c].at \in {"parse", "capture", "push", "rewrite"}
              \/ call[c].kind = "batch" /\ call[c].at \in {"enter", "leaving"}
              => \A f \in Files : call[c].snap[f] = None
           /\ /\ call[c].at = "rollback"
              /\ call[c].kind = "batch" \/ ~(call[c].n > 1)
              => \A f \in Files : call[c].snap[f] # None => f = Here(c)
<1> DEFINE e == call[c]
           w == committed[c]
<1>1. /\ Planned(e) /\ e.kind \in {"batch", "cross"} /\ e.n \in DOMAIN e.files
      /\ Here(c) = e.files[e.n] /\ Here(c) \in Files
      /\ Len(e.files) \in Nat /\ DOMAIN e.files = 1..Len(e.files)
      /\ Owns(c, e, lock, w, torn)
  BY Held DEF Current
<1>2. /\ \A f \in Files : e.snap[f] # None <=> f \in Holding(e, w)
      /\ e.at = "write" => e.kind = "batch"
  BY <1>1 DEF Owns
<1>3. e.n >= e.n /\ ~(e.n < e.n)
  BY <1>1
<1>4. Here(c) \in Holding(e, w) <=> Open(e, e.n, w)
  BY <1>1, HoldsAt
<1>5. Inside(c, Here(c)) <=> Open(e, e.n, w)
  BY <1>1, <1>2, <1>4 DEF Inside
<1>6. \A f \in Files : e.snap[f] # None => \E i \in DOMAIN e.files : f = e.files[i] /\ Open(e, i, w)
  BY <1>2 DEF Holding
<1>7. ~(e.n > 1) => \A i \in DOMAIN e.files : i <= e.n => i = e.n
  BY <1>1
<1> HIDE DEF e, w
<1>8. e.at \in {"apply", "write", "writing", "commit"} => Open(e, e.n, w)
  BY <1>1, <1>2, <1>3 DEF Open
<1>9. e.at = "enter" => ~Open(e, e.n, w)
  BY <1>3 DEF Open
<1>10. \/ e.at \in {"parse", "capture", "push", "rewrite"}
       \/ e.kind = "batch" /\ e.at \in {"enter", "leaving"}
       => \A i \in DOMAIN e.files : ~Open(e, i, w)
  BY DEF Open
<1>11. e.at = "rollback" /\ (e.kind = "batch" \/ ~(e.n > 1))
       => \A i \in DOMAIN e.files : Open(e, i, w) => i = e.n
  BY <1>7 DEF Open
<1> QED BY <1>1, <1>5, <1>6, <1>8, <1>9, <1>10, <1>11 DEF e

\* What a call comes to: it goes on and can be undone, or it is over and left what it
\* should.
Carried(c, d, r, v, b, w, x, u, lost) ==
    \/ r.at \notin {"idle", "done"} /\ Safe(c, r, v, b, x, u)
    \/ \E o : r = Ended(o) /\ Result(c, d, o, v, b, w, u, lost)

\* The step of one call.
LEMMA OneUndoable ==
    ASSUME TypeInv, UndoableInv, NEW c \in Callers, Active(c), NEW r,
           call' = [call EXCEPT ![c] = r], before' = before,
           Alone(c) => Carried(c, call[c], r, disk', before[c], committed[c], committed'[c],
                               unrestored', torn)
    PROVE  UndoableInv' /\ AllOrNothing
<1>1. call'[c] = r /\ \A a \in Callers \ {c} : call'[a] = call[a]
  BY DEF TypeInv, TypeOK
<1>2. \A o : Ended(o).at = "done" /\ Ended(o).outcome = o
  BY DEF Ended, Idle
<1>3. \A a \in Callers \ {c} : ~(Active(a) /\ Alone(a))
  BY DEF UndoableInv
<1>4. UndoableInv'
  <2> SUFFICES ASSUME NEW a \in Callers, Active(a)', Alone(a)'
               PROVE  /\ \A x \in Callers \ {a} : ~Active(x)'
                      /\ Safe(a, call'[a], disk', before'[a], committed'[a], unrestored')
    BY DEF UndoableInv
  <2>1. a = c
    BY <1>1, <1>3 DEF Active, Alone
  <2>2. \A x \in Callers \ {c} : ~Active(x)
    BY <2>1 DEF UndoableInv, Alone
  <2>3. Safe(c, r, disk', before[c], committed'[c], unrestored')
    BY <1>1, <1>2, <2>1 DEF Carried, Active, Alone
  <2> QED BY <1>1, <2>1, <2>2, <2>3 DEF Active
<1>5. AllOrNothing
  <2> SUFFICES ASSUME NEW a \in Callers, NEW o \in {"failed", "raised"}, Alone(a), Ends(a, o)
               PROVE  Result(a, call[a], o, disk', before[a], committed[a], unrestored', torn)
    BY DEF AllOrNothing
  <2>1. a = c /\ r.at = "done" /\ r.outcome = o
    BY <1>1 DEF Ends, Active
  <2>2. PICK p : /\ r = Ended(p)
                 /\ Result(c, call[c], p, disk', before[c], committed[c], unrestored', torn)
    BY <2>1 DEF Carried
  <2>3. p = o
    BY <1>2, <2>1, <2>2
  <2> QED BY <2>1, <2>2, <2>3
<1> QED BY <1>4, <1>5

\* A call that begins when nothing else is on.
LEMMA BeginUndoable ==
    ASSUME TypeInv, UndoableInv, NEW c \in Callers, ExecuteBatch(c) \/ ExecuteCrossFile(c)
    PROVE  UndoableInv' /\ AllOrNothing
<1>1. PICK kind, files, ops : Begin(c, kind, files, ops)
  BY DEF ExecuteBatch, ExecuteCrossFile
<1> DEFINE r == [Idle EXCEPT !.at = "parse", !.kind = kind, !.n = 1, !.k = 1,
                             !.files = files, !.ops = ops]
<1>2. /\ call[c] = Idle /\ call' = [call EXCEPT ![c] = r] /\ disk' = disk
      /\ before' = [d \in Callers |-> IF Quiet /\ d = c THEN disk ELSE None]
      /\ committed' = [committed EXCEPT ![c] = {}]
  BY <1>1 DEF Begin
<1>3. Idle.at = "idle" /\ r.at = "parse" /\ r.snap = Nothing /\ \A f \in Files : Nothing[f] = None
  BY DEF Idle, Nothing
<1> HIDE DEF r
<1>4. call'[c] = r /\ committed'[c] = {} /\ \A a \in Callers \ {c} : call'[a] = call[a]
  BY <1>2 DEF TypeInv, TypeOK
<1>5. AllOrNothing
  BY <1>2, <1>3, <1>4 DEF AllOrNothing, Ends, Active
<1>6. ASSUME NEW a \in Callers, Alone(a)' PROVE a = c /\ Quiet /\ before'[c] = disk
  BY <1>2, <1>6 DEF Alone
<1>7. Quiet => \A a \in Callers \ {c} : ~Active(a)'
  BY <1>4 DEF Quiet, Active
<1>8. \A u : Safe(c, r, disk', disk, {}, u)
  BY <1>2, <1>3 DEF Safe, Recoverable, CrossSafe, BatchSafe, Same
<1> QED BY <1>4, <1>5, <1>6, <1>7, <1>8 DEF UndoableInv

\* A step of a call that keeps its snapshots, writes at most the file it is at, and that
\* only inside its transaction.
LEMMA GoesOn ==
    ASSUME TypeInv, LockInv, UndoableInv, NEW c \in Callers, Active(c), NEW r,
           call' = [call EXCEPT ![c] = r], before' = before,
           committed' = committed, unrestored' = unrestored,
           \/ disk' = disk
           \/ /\ call[c].at \in {"apply", "write", "writing"}
              /\ \E v : disk' = [disk EXCEPT ![Here(c)] = v],
           call[c].at \in {"enter", "apply", "write", "writing", "commit"},
           r.at \in {"apply", "write", "writing", "commit", "rollback"}
               \/ (r.at = "leaving" /\ r.outcome = "raised" /\ call[c].at = "enter"),
           r.kind = call[c].kind, r.files = call[c].files, r.snap = call[c].snap,
           r.pre = call[c].pre, r.kind = "batch" => r.n = call[c].n
    PROVE  UndoableInv' /\ AllOrNothing
<1> DEFINE e == call[c]
           b == before[c]
           w == committed[c]
           f == Here(c)
<1>1. ASSUME Alone(c)
      PROVE  Carried(c, e, r, disk', b, w, committed'[c], unrestored', torn)
  <2>1. /\ Safe(c, e, disk, b, w, unrestored) /\ e.kind \in {"batch", "cross"}
        /\ f \in Files /\ disk \in [Files -> Contents]
    BY <1>1, Aware
  <2>2. /\ \A g \in Files \ {f} : disk'[g] = disk[g]
        /\ disk' # disk => e.snap[f] # None
    BY <2>1, OpenHere DEF Inside
  <2> HIDE DEF f
  <2>3. Recoverable(r, disk', b, w, unrestored)
    <3> SUFFICES ASSUME NEW g \in Files \ (w \cup unrestored)
                 PROVE  IF e.snap[g] = None THEN disk'[g] = b[g] ELSE e.snap[g] = b[g]
      BY DEF Recoverable
    <3>1. IF e.snap[g] = None THEN disk[g] = b[g] ELSE e.snap[g] = b[g]
      BY <2>1 DEF Safe, Recoverable
    <3>2. e.snap[g] = None => disk'[g] = disk[g]
      BY <2>2
    <3> QED BY <3>1, <3>2
  <2>4. CASE e.kind = "cross"
    <3>1. CrossSafe(e, disk, b, w, unrestored)
      BY <2>1, <2>4 DEF Safe
    <3>2. r.at = "leaving" => disk' = disk /\ e.at = "enter"
      OBVIOUS
    <3>3. r.at \notin {"parse", "capture", "enter", "rewrite", "idle", "done"}
      OBVIOUS
    <3>4. CrossSafe(r, disk', b, w, unrestored)
      BY <3>1, <3>2, <3>3 DEF CrossSafe
    <3> QED BY <2>3, <2>4, <3>3, <3>4 DEF Carried, Safe
  <2>5. CASE e.kind = "batch"
    <3>1. BatchSafe(c, e, disk, b, w, unrestored)
      BY <2>1, <2>5 DEF Safe
    <3>2. /\ r.at \notin {"parse", "capture", "push", "rewrite", "idle", "done"}
          /\ e.at \notin {"parse", "capture", "push", "rewrite"}
          /\ r.at = "leaving" => r.outcome # "failed"
      OBVIOUS
    <3>3. r.kind = "batch" /\ r.n = e.n /\ r.files = e.files /\ r.pre = e.pre
      BY <2>5
    <3> HIDE DEF e, b, w
    <3>4. BatchSafe(c, r, disk', b, w, unrestored)
      BY <3>1, <3>2, <3>3 DEF BatchSafe
    <3> QED BY <2>3, <3>2, <3>3, <3>4 DEF Carried, Safe, w
  <2> QED BY <2>1, <2>4, <2>5
<1> QED BY <1>1, OneUndoable

\* Parsing and reading change no file.
LEMMA ReadUndoable ==
    ASSUME TypeInv, LockInv, UndoableInv, NEW c \in Callers, Parse(c) \/ Capture(c)
    PROVE  UndoableInv' /\ AllOrNothing
<1> DEFINE e == call[c]
           b == before[c]
           w == committed[c]
           f == Here(c)
<1>1. /\ Active(c) /\ e.at \in {"parse", "capture"}
      /\ disk' = disk /\ before' = before /\ committed' = committed
      /\ unrestored' = unrestored
  BY DEF Parse, Capture, At, Active
<1>2. e \in Calls /\ f \in Files /\ disk[f] \in Contents
  BY <1>1, Known
<1>3. \A p \in {"parse", "capture", "enter"} : p \in Points
  BY DEF Points
  \* What the two have in common.
<1>4. ASSUME Alone(c), NEW r, r.kind = e.kind, r.files = e.files, r.snap = e.snap,
             r.at \in {"parse", "capture", "enter"},
             e.kind = "batch" /\ c \in Undoers =>
                 /\ e.at = "parse" => r.at = "parse" \/ (r.at = "capture" /\ r.n = 1)
                 /\ e.at = "capture" =>
                       /\ (r.at = "capture" /\ r.n = e.n + 1) \/ e.n = Len(e.files)
                       /\ \A i \in DOMAIN e.files :
                             i < e.n \/ i = e.n => r.pre[e.files[i]] = b[e.files[i]]
      PROVE  Carried(c, e, r, disk', b, w, committed'[c], unrestored', torn)
  <2>1. /\ Safe(c, e, disk, b, w, unrestored) /\ e.kind \in {"batch", "cross"}
        /\ Len(e.files) \in Nat /\ DOMAIN e.files = 1..Len(e.files)
        /\ e.n \in 1..Len(e.files)
    BY <1>1, <1>4, Aware
  <2>2. Recoverable(r, disk, b, w, unrestored)
    BY <1>4, <2>1 DEF Safe, Recoverable
  <2>3. CASE e.kind = "cross"
    <3>1. CrossSafe(r, disk, b, w, unrestored)
      BY <1>1, <1>4, <2>1, <2>3 DEF Safe, CrossSafe
    <3> QED BY <1>1, <1>4, <2>2, <2>3, <3>1 DEF Carried, Safe
  <2>4. CASE e.kind = "batch"
    <3>1. disk = b /\ w = {}
      BY <1>1, <2>1, <2>4 DEF Safe, BatchSafe
    <3>2. \A i \in DOMAIN e.files :
             ~(i < 1) /\ (i < e.n + 1 <=> i < e.n \/ i = e.n)
             /\ (e.n = Len(e.files) => i < e.n \/ i = e.n)
      BY <2>1
    <3>3. ASSUME c \in Undoers, NEW i \in DOMAIN r.files, r.at # "parse",
                 i < r.n \/ r.at # "capture"
          PROVE  r.pre[r.files[i]] = b[r.files[i]]
      <4>1. e.at = "capture"
        BY <1>1, <1>4, <2>4, <3>2, <3>3
      <4>2. i < e.n \/ i = e.n
        BY <1>4, <2>4, <3>2, <3>3, <4>1
      <4> QED BY <1>4, <2>4, <3>3, <4>1, <4>2
    <3>4. BatchSafe(c, r, disk, b, w, unrestored)
      BY <1>4, <3>1, <3>3 DEF BatchSafe
    <3> QED BY <1>1, <1>4, <2>2, <2>4, <3>4 DEF Carried, Safe
  <2> QED BY <2>1, <2>3, <2>4
<1>5. CASE Parse(c)
  <2> DEFINE o == [e.object EXCEPT ![f] = disk[f]]
             d == [e EXCEPT !.object = o]
             q == IF c \in Undoers THEN "capture" ELSE "enter"
             r == NextFile(d, "parse", Back(d, q))
  <2>1. o \in [Files -> Contents \cup {None}]
    BY <1>2 DEF Calls
  <2>2. d \in Calls /\ d.at = e.at /\ d.n = e.n /\ d.files = e.files /\ d.kind = e.kind
        /\ d.snap = e.snap
    BY <1>2, <2>1 DEF Calls
  <2>3. call' = [call EXCEPT ![c] = r] /\ e.at = "parse"
    BY <1>5 DEF Parse, Continue, At
  <2> HIDE DEF d, q, o
  <2>4. Moved(r, d, "parse", e.n + 1) \/ Moved(r, d, q, 1)
    BY <1>3, <2>2, Turns DEF q
  <2> HIDE DEF r
  <2>5. /\ r.files = e.files /\ r.kind = e.kind /\ r.snap = e.snap
        /\ r.at = "parse" \/ (r.at = "capture" /\ r.n = 1)
           \/ (r.at = "enter" /\ c \notin Undoers)
    BY <2>2, <2>4 DEF Moved, q
  <2> QED BY <1>1, <1>4, <2>3, <2>5, OneUndoable
<1>6. CASE Capture(c)
  <2> DEFINE p == [e.pre EXCEPT ![f] = disk[f]]
             d == [e EXCEPT !.pre = p]
             r == NextFile(d, "capture", Back(d, "enter"))
  <2>1. p \in [Files -> Contents \cup {None}]
    BY <1>2 DEF Calls
  <2>2. d \in Calls /\ d.at = e.at /\ d.n = e.n /\ d.files = e.files /\ d.kind = e.kind
        /\ d.snap = e.snap /\ d.pre = p
    BY <1>2, <2>1 DEF Calls
  <2>3. call' = [call EXCEPT ![c] = r] /\ e.at = "capture"
    BY <1>6 DEF Capture, Continue, At
  <2> HIDE DEF d, p
  <2>4. \/ Moved(r, d, "capture", e.n + 1)
        \/ Moved(r, d, "enter", 1) /\ e.n = Len(e.files)
    BY <1>3, <2>2, Turns
  <2> HIDE DEF r
  <2>5. /\ r.files = e.files /\ r.kind = e.kind /\ r.snap = e.snap /\ r.pre = p
        /\ \/ r.at = "capture" /\ r.n = e.n + 1
           \/ r.at = "enter" /\ e.n = Len(e.files)
    BY <2>2, <2>4 DEF Moved
  <2>6. ASSUME Alone(c), e.kind = "batch", c \in Undoers, NEW i \in DOMAIN e.files,
               i < e.n \/ i = e.n
        PROVE  p[e.files[i]] = b[e.files[i]]
    <3>1. /\ Safe(c, e, disk, b, w, unrestored) /\ e.files[i] \in Files
          /\ e.pre \in [Files -> Contents \cup {None}] /\ f = e.files[e.n]
      BY <1>1, <2>6, Aware
    <3>2. BatchSafe(c, e, disk, b, w, unrestored)
      BY <2>6, <3>1 DEF Safe
    <3>3. i < e.n => e.pre[e.files[i]] = b[e.files[i]]
      BY <2>3, <2>6, <3>2 DEF BatchSafe
    <3>4. disk = b
      BY <2>3, <3>2 DEF BatchSafe
    <3> QED BY <2>6, <3>1, <3>3, <3>4 DEF p
  <2>7. ASSUME Alone(c)
        PROVE  Carried(c, e, r, disk', b, w, committed'[c], unrestored', torn)
    <3> HIDE DEF e, b
    <3> QED BY <1>4, <2>3, <2>5, <2>6, <2>7
  <2> QED BY <1>1, <2>3, <2>7, OneUndoable
<1> QED BY <1>5, <1>6

\* A file is entered: its snapshot is what it was.
LEMMA EnterUndoable ==
    ASSUME TypeInv, LockInv, UndoableInv, NEW c \in Callers, Enter(c)
    PROVE  UndoableInv' /\ AllOrNothing
<1> DEFINE e == call[c]
           b == before[c]
           w == committed[c]
           f == Here(c)
           s == [e.snap EXCEPT ![f] = disk[f]]
           d == [e EXCEPT !.snap = s]
           x == NextFile(d, "enter", Back(d, "apply"))
           y == [d EXCEPT !.at = "apply", !.k = 1, !.ir = None]
           r == IF d.kind = "cross" THEN x ELSE y
<1>1. /\ Active(c) /\ e.at = "enter"
      /\ disk' = disk /\ before' = before /\ committed' = committed
      /\ unrestored' = unrestored
      /\ call' = [call EXCEPT ![c] = r]
  BY DEF Enter, At, Active, Continue
<1>2. e \in Calls /\ f \in Files /\ disk[f] \in Contents
  BY <1>1, Known
<1>3. \A p \in {"enter", "apply"} : p \in Points
  BY DEF Points
<1>4. s \in [Files -> Contents \cup {None}]
  BY <1>2 DEF Calls
<1> HIDE DEF s, e
<1>5. d \in Calls /\ d.at = e.at /\ d.n = e.n /\ d.files = e.files /\ d.kind = e.kind
      /\ d.snap = s /\ d.pre = e.pre
  BY <1>2, <1>4 DEF Calls
<1>6. /\ r.files = e.files /\ r.kind = e.kind /\ r.snap = s /\ r.pre = e.pre
      /\ r.at \in {"enter", "apply"}
      /\ e.kind # "cross" => r.at = "apply" /\ r.n = e.n
  <2>1. CASE d.kind = "cross"
    <3>1. Moved(r, d, "enter", d.n + 1) \/ Moved(r, d, "apply", 1)
      BY <1>3, <1>5, <2>1, Turns
    <3> QED BY <1>5, <2>1, <3>1 DEF Moved
  <2>2. CASE d.kind # "cross"
    <3> HIDE DEF d
    <3> QED BY <1>5, <2>2 DEF Calls
  <2> QED BY <2>1, <2>2
<1> HIDE DEF d, r
<1>7. ASSUME Alone(c)
      PROVE  Carried(c, e, r, disk', b, w, committed'[c], unrestored', torn)
  <2>1. /\ Safe(c, e, disk, b, w, unrestored) /\ e.kind \in {"batch", "cross"}
        /\ e.snap \in [Files -> Contents \cup {None}] /\ None \notin Contents
    BY <1>1, <1>7, Aware DEF e
  <2>2. e.snap[f] = None
    BY <1>1, OpenHere DEF Inside, e
  <2>3. Recoverable(r, disk, b, w, unrestored)
    <3> HIDE DEF b, w, f
    <3> SUFFICES ASSUME NEW g \in Files \ (w \cup unrestored)
                 PROVE  IF s[g] = None THEN disk[g] = b[g] ELSE s[g] = b[g]
      BY <1>6 DEF Recoverable
    <3>1. IF e.snap[g] = None THEN disk[g] = b[g] ELSE e.snap[g] = b[g]
      BY <2>1 DEF Safe, Recoverable
    <3> QED BY <1>2, <2>1, <2>2, <3>1 DEF s
  <2>4. CASE e.kind = "cross"
    <3>1. CrossSafe(r, disk, b, w, unrestored)
      BY <1>1, <1>6, <2>1, <2>4 DEF Safe, CrossSafe
    <3> QED BY <1>1, <1>6, <2>3, <2>4, <3>1 DEF Carried, Safe
  <2>5. CASE e.kind = "batch"
    <3>1. BatchSafe(c, e, disk, b, w, unrestored)
      BY <2>1, <2>5 DEF Safe
    <3>2. r.at = "apply" /\ r.n = e.n
      BY <1>6, <2>5
    <3> HIDE DEF b, w
    <3>3. BatchSafe(c, r, disk, b, w, unrestored)
      BY <1>1, <1>6, <3>1, <3>2 DEF BatchSafe
    <3> QED BY <1>1, <1>6, <2>3, <2>5, <3>3 DEF Carried, Safe, w
  <2> QED BY <2>1, <2>4, <2>5
<1> QED BY <1>1, <1>7, OneUndoable DEF e

\* What ends without a roll back has nothing open, or has touched nothing.
LEMMA EndUndoable ==
    ASSUME TypeInv, LockInv, UndoableInv, NEW c \in Callers, Active(c),
           Reject(c) \/ Collect(c) \/ ReadBackFails(c) \/ (Refused(c) /\ End(c, "raised"))
    PROVE  UndoableInv' /\ AllOrNothing
<1> DEFINE e == call[c]
           b == before[c]
           w == committed[c]
<1>1. /\ disk' = disk /\ before' = before /\ committed' = committed
      /\ unrestored' = unrestored
      /\ e.at \in {"parse", "capture", "enter", "leaving", "push"}
  BY DEF Reject, Collect, ReadBackFails, Refused, CrossAt, At
<1>2. PICK o : /\ call' = [call EXCEPT ![c] = Ended(o)]
               /\ e.at \in {"parse", "capture"} \/ o = "raised"
                  \/ (e.at = "leaving" /\ o = e.outcome)
  BY DEF Reject, Collect, ReadBackFails, End, Continue, CrossAt, At
<1>3. ASSUME Alone(c)
      PROVE  Carried(c, e, Ended(o), disk', b, w, committed'[c], unrestored', torn)
  <2>1. /\ Safe(c, e, disk, b, w, unrestored) /\ e.kind \in {"batch", "cross"}
        /\ Counted(c, e, w, torn)
    BY <1>3, Aware
  <2>2. CASE e.kind = "cross"
    <3>1. Same(disk, b, w \cup unrestored)
      <4>1. CASE e.at = "push"
        <5>1. \A f \in Files : e.snap[f] = None
          BY <4>1, OpenHere
        <5> QED BY <2>1, <5>1 DEF Safe, Recoverable, Same
      <4>2. CASE e.at # "push"
        BY <1>1, <2>1, <2>2, <4>2 DEF Safe, CrossSafe
      <4> QED BY <4>1, <4>2
    <3>2. w # {} => c \in torn \/ e.at = "push"
      BY <1>1, <2>1, <2>2 DEF Counted
    <3> HIDE DEF e, b, w
    <3>3. Result(c, e, o, disk, b, w, unrestored, torn)
      BY <2>2, <3>1, <3>2 DEF Result
    <3> QED BY <1>1, <3>3 DEF Carried
  <2>3. CASE e.kind = "batch"
    <3>1. BatchSafe(c, e, disk, b, w, unrestored) /\ Recoverable(e, disk, b, w, unrestored)
      BY <2>1, <2>3 DEF Safe
    <3>2. \A f \in Files : e.snap[f] = None
      BY <1>1, <2>3, OpenHere
    <3>3. \A f \in Files : disk[f] # b[f] => f \in w \cup unrestored
      BY <3>1, <3>2 DEF Recoverable
    <3>4. o = "failed" /\ c \in Undoers => w = {}
      BY <1>2, <3>1 DEF BatchSafe
    <3> HIDE DEF e, b, w
    <3>5. Result(c, e, o, disk, b, w, unrestored, torn)
      BY <2>3, <3>3, <3>4 DEF Result
    <3> QED BY <1>1, <3>5 DEF Carried
  <2> QED BY <2>1, <2>2, <2>3
<1> QED BY <1>1, <1>2, <1>3, OneUndoable

\* A call that raises while it enters, works in or commits a file leaves it as it is.
LEMMA FailUndoable ==
    ASSUME TypeInv, LockInv, UndoableInv, NEW c \in Callers,
           Refused(c) \/ OpenFails(c) \/ OpFails(c) \/ EditFails(c) \/ CommitFails(c)
    PROVE  UndoableInv' /\ AllOrNothing
<1> DEFINE e == call[c]
<1>1. /\ Active(c) /\ disk' = disk /\ before' = before /\ committed' = committed
      /\ unrestored' = unrestored
      /\ e.at \in {"enter", "apply", "write", "writing", "commit"}
  BY DEF Refused, OpenFails, OpFails, EditFails, CommitFails, CrossAt, At, Active
<1>2. e \in Calls
  BY <1>1, Known
<1>3. CASE Refused(c) /\ ~(e.kind = "cross" /\ e.n > 1)
  <2>1. End(c, "raised")
    BY <1>3 DEF Refused
  <2> QED BY <1>1, <1>3, <2>1, EndUndoable
<1>4. CASE ~(Refused(c) /\ ~(e.kind = "cross" /\ e.n > 1))
  <2>1. PICK r : /\ call' = [call EXCEPT ![c] = r]
                 /\ \/ /\ OpenFails(c) /\ r = [e EXCEPT !.at = "leaving", !.outcome = "raised"]
                    \/ /\ Refused(c) /\ e.kind = "cross"
                       /\ r = [e EXCEPT !.at = "rollback", !.n = @ - 1, !.outcome = "raised"]
                    \/ \E o : r = Abandoned(e, o)
    BY <1>4 DEF Refused, OpenFails, OpFails, EditFails, CommitFails, Continue
  <2>2. OpenFails(c) => e.at = "enter"
    BY DEF OpenFails, At
  <2> HIDE DEF e
  <2>3. /\ r.kind = e.kind /\ r.files = e.files /\ r.snap = e.snap /\ r.pre = e.pre
        /\ r.kind = "batch" => r.n = e.n
        /\ \/ r.at = "rollback"
           \/ r.at = "leaving" /\ r.outcome = "raised" /\ OpenFails(c)
    <3>1. CASE r = [e EXCEPT !.at = "leaving", !.outcome = "raised"] /\ OpenFails(c)
      BY <1>2, <3>1 DEF Calls
    <3>2. CASE /\ r = [e EXCEPT !.at = "rollback", !.n = @ - 1, !.outcome = "raised"]
               /\ e.kind = "cross"
      BY <1>2, <3>2 DEF Calls
    <3>3. CASE \E o : r = Abandoned(e, o)
      BY <1>2, <3>3 DEF Abandoned, Calls
    <3> QED BY <2>1, <3>1, <3>2, <3>3
  <2> QED BY <1>1, <2>1, <2>2, <2>3, GoesOn DEF e
<1> QED BY <1>3, <1>4

\* An operation of a batch.
LEMMA OpUndoable ==
    ASSUME TypeInv, LockInv, UndoableInv, NEW c \in Callers, ApplyToObject(c) \/ ApplyRaw(c)
    PROVE  UndoableInv' /\ AllOrNothing
<1> DEFINE e == call[c]
<1>1. /\ Active(c) /\ e.at = "apply" /\ e.kind = "batch" /\ before' = before
      /\ committed' = committed /\ unrestored' = unrestored
  BY DEF ApplyToObject, ApplyRaw, BatchOp, At, Active
<1>2. e \in Calls
  BY <1>1, Known
<1>3. disk' = disk \/ \E v : disk' = [disk EXCEPT ![Here(c)] = v]
  BY DEF ApplyToObject, ApplyRaw, Write
<1>4. PICK d, v : /\ call' = [call EXCEPT ![c] = NextOp(d, v)]
                  /\ d = e \/ \E o : d = [e EXCEPT !.object = o]
  <2>1. CASE ApplyRaw(c)
    BY <2>1 DEF ApplyRaw, Continue
  <2>2. CASE ApplyToObject(c)
    <3> DEFINE o == [e.object EXCEPT ![Here(c)] = IF e.ir = None THEN @ \cup {Edit(c)} ELSE @]
    <3>1. call' = [call EXCEPT ![c] = NextOp([e EXCEPT !.object = o], disk[Here(c)])]
      BY <2>2 DEF ApplyToObject, Continue
    <3> HIDE DEF o
    <3> QED BY <3>1
  <2> QED BY <2>1, <2>2
<1> HIDE DEF e
<1> DEFINE r == NextOp(d, v)
<1>5. /\ r.at \in {"apply", "write"} /\ r.kind = e.kind /\ r.n = e.n /\ r.files = e.files
      /\ r.snap = e.snap /\ r.pre = e.pre
  <2>1. CASE d = e
    BY <1>1, <1>2, <2>1 DEF NextOp, Calls
  <2>2. CASE \E o : d = [e EXCEPT !.object = o]
    BY <1>1, <1>2, <2>2 DEF NextOp, Calls
  <2> QED BY <1>4, <2>1, <2>2
<1> HIDE DEF r
<1> QED BY <1>1, <1>3, <1>4, <1>5, GoesOn DEF e, r

\* A file is written.
LEMMA WriteUndoable ==
    ASSUME TypeInv, LockInv, UndoableInv, NEW c \in Callers, Serialize(c) \/ FinishWriting(c)
    PROVE  UndoableInv' /\ AllOrNothing
<1> DEFINE e == call[c]
           q == [e EXCEPT !.at = "commit"]
           w == [e EXCEPT !.at = "writing"]
           b == Back(e, "commit")
           m == NextFile(e, "apply", b)
<1>1. /\ Active(c) /\ e.at \in {"write", "writing"} /\ before' = before
      /\ committed' = committed /\ unrestored' = unrestored
  BY DEF Serialize, FinishWriting, At, Active
<1>2. e \in Calls /\ e.kind \in {"batch", "cross"}
  BY <1>1, Known DEF Calls
<1>3. disk' = disk \/ \E v : disk' = [disk EXCEPT ![Here(c)] = v]
  BY DEF Serialize, FinishWriting, Write
<1>4. \/ call' = [call EXCEPT ![c] = q] \/ call' = [call EXCEPT ![c] = w]
      \/ e.kind = "cross" /\ call' = [call EXCEPT ![c] = m]
  BY <1>2 DEF Serialize, FinishWriting, Go, Continue, TypeInv, TypeOK
<1> HIDE DEF e
<1>5. \A p \in {"commit", "writing", "apply"} : p \in Points
  BY DEF Points
<1>6. Moved(q, e, "commit", e.n) /\ Moved(w, e, "writing", e.n)
  BY <1>2, <1>5, Moves
<1>7. Moved(b, e, "commit", 1) /\ (m = b \/ Moved(m, e, "apply", e.n + 1))
  BY <1>2, <1>5, Turns
<1> HIDE DEF q, w, b, m
<1>8. PICK r : /\ call' = [call EXCEPT ![c] = r]
               /\ r = q \/ r = w \/ (r = m /\ e.kind = "cross")
  BY <1>4
<1>9. /\ r.kind = e.kind /\ r.files = e.files /\ r.snap = e.snap /\ r.pre = e.pre
      /\ r.at \in {"writing", "commit", "apply"} /\ (r.kind = "batch" => r.n = e.n)
  BY <1>6, <1>7, <1>8 DEF Moved
<1> QED BY <1>1, <1>3, <1>8, <1>9, GoesOn DEF e

\* A cross-file operation edits a file.
LEMMA EditUndoable ==
    ASSUME TypeInv, LockInv, UndoableInv, NEW c \in Callers, EditFile(c)
    PROVE  UndoableInv' /\ AllOrNothing
<1> DEFINE e == call[c]
           f == Here(c)
           v == e.object[f] \cup {Edit(c)}
           o == [e.object EXCEPT ![f] = v]
           u == e.dirty \cup {f}
           d == [e EXCEPT !.object = o, !.dirty = u]
<1>1. /\ Active(c) /\ e.at = "apply" /\ e.kind = "cross" /\ before' = before
      /\ committed' = committed /\ unrestored' = unrestored
  BY DEF EditFile, CrossAt, At, Active
<1>2. e \in Calls /\ f \in Files
  BY <1>1, Known
<1>3. v \in Contents
  <2>1. e.object[f] \in SUBSET Edits /\ Edit(c) \in Edits
    BY <1>1, Parsed DEF Ready
  <2> QED BY <2>1 DEF Contents
<1>4. o \in [Files -> Contents \cup {None}] /\ u \in SUBSET Files
  BY <1>2, <1>3 DEF Calls
<1>5. d = [e EXCEPT !.object[f] = @ \cup {Edit(c)}, !.dirty = @ \cup {f}]
  BY <1>2 DEF Calls
<1>6. disk' = disk \/ \E x : disk' = [disk EXCEPT ![f] = x]
  BY DEF EditFile, Write
<1> HIDE DEF d
<1>7. PICK g \in {e, d} :
        \/ call' = [call EXCEPT ![c] = NextFile(g, "apply", Back(g, "commit"))]
        \/ call' = [call EXCEPT ![c] = [g EXCEPT !.at = "writing"]]
  BY <1>5 DEF EditFile, Continue
<1>8. d \in Calls /\ d.files = e.files /\ d.kind = e.kind /\ d.snap = e.snap /\ d.pre = e.pre
  <2> HIDE DEF e, o, u
  <2> QED BY <1>2, <1>4 DEF Calls, d
<1> HIDE DEF e, f, v, o, u
<1>9. g \in Calls /\ g.files = e.files /\ g.kind = e.kind /\ g.snap = e.snap /\ g.pre = e.pre
  BY <1>2, <1>7, <1>8
<1>10. \A p \in {"commit", "writing", "apply"} : p \in Points
  BY DEF Points
<1> DEFINE x == [g EXCEPT !.at = "writing"]
           y == Back(g, "commit")
           m == NextFile(g, "apply", y)
<1>11. Moved(x, g, "writing", g.n)
  BY <1>9, <1>10, Moves
<1>12. Moved(y, g, "commit", 1) /\ (m = y \/ Moved(m, g, "apply", g.n + 1))
  BY <1>9, <1>10, Turns
<1> HIDE DEF x, m
<1>13. PICK r : call' = [call EXCEPT ![c] = r] /\ (r = x \/ r = m)
  BY <1>7 DEF x, m
<1> HIDE DEF y
<1>14. /\ r.files = e.files /\ r.snap = e.snap /\ r.kind = e.kind /\ r.pre = e.pre
       /\ r.at \in {"writing", "apply", "commit"}
  BY <1>9, <1>11, <1>12, <1>13 DEF Moved
<1> QED BY <1>1, <1>6, <1>13, <1>14, GoesOn DEF e, f

\* A file is committed.
LEMMA CommitUndoable ==
    ASSUME TypeInv, LockInv, UndoableInv, NEW c \in Callers, CommitFile(c) \/ CommitOne(c)
    PROVE  UndoableInv' /\ AllOrNothing
<1> DEFINE e == call[c]
           b == before[c]
           w == committed[c]
           f == Here(c)
           s == [e.snap EXCEPT ![f] = None]
           d == [e EXCEPT !.snap = s]
           x == w \cup {f}
<1>1. /\ Active(c) /\ e.at = "commit" /\ disk' = disk /\ before' = before
      /\ unrestored' = unrestored /\ committed' = [committed EXCEPT ![c] = x]
  BY DEF CommitFile, CommitOne, Commit, CrossAt, At, Active
<1>2. /\ e \in Calls /\ e.n \in DOMAIN e.files /\ f = e.files[e.n] /\ f \in Files
      /\ Len(e.files) \in Nat /\ DOMAIN e.files = 1..Len(e.files)
  BY <1>1, Held DEF Current
<1>3. s \in [Files -> Contents \cup {None}]
  BY <1>2 DEF Calls
<1>4. d \in Calls /\ d.n = e.n /\ d.files = e.files /\ d.kind = e.kind /\ d.snap = s
      /\ d.pre = e.pre
  <2> HIDE DEF s, e
  <2> QED BY <1>2, <1>3 DEF Calls
<1>5. committed'[c] = x
  BY <1>1 DEF TypeInv, TypeOK
<1>6. \A p \in {"enter", "commit", "push"} : p \in Points
  BY DEF Points
<1> HIDE DEF e
<1>7. PICK r : /\ call' = [call EXCEPT ![c] = r]
               /\ \/ r = Ended("ok")
                  \/ Moved(r, d, "push", d.n)
                  \/ e.kind = "batch" /\ Moved(r, d, "enter", d.n + 1)
                  \/ e.kind = "cross" /\ Moved(r, d, "push", 1)
                  \/ e.kind = "cross" /\ Moved(r, d, "commit", d.n + 1)
  <2>1. CASE CommitFile(c)
    <3> DEFINE r == IF c \in Undoers THEN [d EXCEPT !.at = "push"]
                    ELSE NextFile(d, "enter", Ended("ok"))
    <3>1. e.kind = "batch" /\ call' = [call EXCEPT ![c] = r]
      BY <2>1 DEF CommitFile, Continue, e
    <3> HIDE DEF d
    <3>2. Moved([d EXCEPT !.at = "push"], d, "push", d.n)
      BY <1>4, <1>6, Moves
    <3>3. \/ NextFile(d, "enter", Ended("ok")) = Ended("ok")
          \/ Moved(NextFile(d, "enter", Ended("ok")), d, "enter", d.n + 1)
      BY <1>4, <1>6, Turns
    <3>4. r = Ended("ok") \/ Moved(r, d, "push", d.n) \/ Moved(r, d, "enter", d.n + 1)
      BY <3>2, <3>3
    <3> HIDE DEF r
    <3> QED BY <3>1, <3>4
  <2>2. CASE CommitOne(c)
    <3> DEFINE y == Back(d, "push")
               o == IF c \in Undoers THEN y ELSE Ended("ok")
               r == NextFile(d, "commit", o)
    <3>1. e.kind = "cross" /\ call' = [call EXCEPT ![c] = r]
      BY <2>2 DEF CommitOne, CrossAt, Continue, e
    <3> HIDE DEF d
    <3>2. Moved(y, d, "push", 1)
      BY <1>4, <1>6, Turns
    <3> HIDE DEF y
    <3>3. r = o \/ Moved(r, d, "commit", d.n + 1)
      BY <1>4, <1>6, Turns
    <3> HIDE DEF r
    <3> QED BY <3>1, <3>2, <3>3
  <2> QED BY <2>1, <2>2
<1> HIDE DEF d, s
<1>8. ASSUME Alone(c) PROVE Carried(c, e, r, disk', b, w, x, unrestored', torn)
  <2>1. /\ Safe(c, e, disk, b, w, unrestored) /\ e.kind \in {"batch", "cross"}
        /\ e.snap \in [Files -> Contents \cup {None}]
    BY <1>1, <1>8, Aware DEF e
  <2>2. CASE r = Ended("ok")
    BY <2>2 DEF Carried, Result
  <2>3. CASE r # Ended("ok")
    <3>1. /\ r.kind = e.kind /\ r.files = e.files /\ r.pre = e.pre /\ r.snap = s
          /\ \/ r.at = "push" /\ (e.kind = "batch" => r.n = e.n)
             \/ r.at = "enter" /\ e.kind = "batch" /\ r.n = e.n + 1
             \/ r.at = "commit" /\ e.kind = "cross"
      BY <1>4, <1>7, <2>1, <2>3 DEF Moved
    <3>2. Recoverable(r, disk, b, x, unrestored)
      <4> HIDE DEF b, w, f
      <4> SUFFICES ASSUME NEW g \in Files \ (x \cup unrestored)
                   PROVE  IF s[g] = None THEN disk[g] = b[g] ELSE s[g] = b[g]
        BY <3>1 DEF Recoverable
      <4>1. IF e.snap[g] = None THEN disk[g] = b[g] ELSE e.snap[g] = b[g]
        BY <2>1 DEF Safe, Recoverable
      <4>2. s[g] = e.snap[g]
        BY <2>1 DEF s
      <4> QED BY <4>1, <4>2
    <3>3. CASE e.kind = "cross"
      <4>1. CrossSafe(r, disk, b, x, unrestored)
        BY <3>1, <3>3 DEF CrossSafe
      <4> QED BY <1>1, <3>1, <3>2, <3>3, <4>1 DEF Carried, Safe
    <3>4. CASE e.kind = "batch"
      <4>1. BatchSafe(c, e, disk, b, w, unrestored)
        BY <2>1, <3>4 DEF Safe
      <4>2. \A i \in DOMAIN e.files : i < e.n => i < e.n + 1
        BY <1>2
      <4>3. e.n < e.n + 1
        BY <1>2
      <4>4. \A g \in x : \E i \in DOMAIN e.files :
               e.files[i] = g /\ (i < r.n \/ (r.at = "push" /\ i = r.n) \/ r.at = "rewrite")
        <5> SUFFICES ASSUME NEW g \in x
                     PROVE  \E i \in DOMAIN e.files : e.files[i] = g
                               /\ (i < r.n \/ (r.at = "push" /\ i = r.n) \/ r.at = "rewrite")
          OBVIOUS
        <5>1. CASE g = f
          BY <1>2, <3>1, <3>4, <4>3, <5>1
        <5>2. CASE g \in w
          <6>1. PICK i \in DOMAIN e.files : e.files[i] = g /\ i < e.n
            BY <1>1, <4>1, <5>2 DEF BatchSafe, e
          <6>2. i < r.n
            BY <3>1, <3>4, <4>2, <6>1
          <6> QED BY <6>1, <6>2
        <5> QED BY <5>1, <5>2
      <4>5. c \in Undoers => \A i \in DOMAIN e.files : e.pre[e.files[i]] = b[e.files[i]]
        BY <1>1, <4>1 DEF BatchSafe, e
      <4>6. BatchSafe(c, r, disk, b, x, unrestored)
        <5>1. r.at \in {"push", "enter"}
          BY <3>1, <3>4
        <5> HIDE DEF b, w, x
        <5> QED BY <3>1, <4>4, <4>5, <5>1 DEF BatchSafe
      <4> QED BY <1>1, <3>1, <3>2, <3>4, <4>6 DEF Carried, Safe
    <3> QED BY <2>1, <3>3, <3>4
  <2> QED BY <2>2, <2>3
<1> QED BY <1>1, <1>5, <1>7, <1>8, OneUndoable DEF e

\* The undo entry of a file is pushed; a call that ends so has succeeded.
LEMMA PushUndoable ==
    ASSUME TypeInv, LockInv, UndoableInv, NEW c \in Callers, PushFile(c) \/ PushOne(c)
    PROVE  UndoableInv' /\ AllOrNothing
<1> DEFINE e == call[c]
           b == before[c]
           w == committed[c]
<1>1. /\ Active(c) /\ e.at = "push" /\ disk' = disk /\ before' = before
      /\ unrestored' = unrestored /\ committed' = committed
  BY DEF PushFile, PushOne, CrossAt, At, Active
<1>2. /\ e \in Calls /\ Len(e.files) \in Nat /\ DOMAIN e.files = 1..Len(e.files)
      /\ e.n \in DOMAIN e.files
  BY <1>1, Held
<1>3. PICK p \in {"enter", "push"} :
        /\ call' = [call EXCEPT ![c] = NextFile(e, p, Ended("ok"))]
        /\ e.kind = "cross" <=> p = "push"
  BY DEF PushFile, PushOne, CrossAt, Continue
<1>4. p \in Points
  BY DEF Points
<1> DEFINE r == NextFile(e, p, Ended("ok"))
<1> HIDE DEF e
<1>5. r = Ended("ok") \/ Moved(r, e, p, e.n + 1)
  BY <1>2, <1>4, Turns
<1> HIDE DEF r
<1>6. ASSUME Alone(c)
      PROVE  Carried(c, e, r, disk', b, w, committed'[c], unrestored', torn)
  <2>1. Safe(c, e, disk, b, w, unrestored) /\ e.kind \in {"batch", "cross"}
    BY <1>1, <1>6, Aware DEF e
  <2>2. CASE r = Ended("ok")
    BY <2>2 DEF Carried, Result
  <2>3. CASE Moved(r, e, p, e.n + 1)
    <3>1. /\ r.kind = e.kind /\ r.files = e.files /\ r.pre = e.pre /\ r.snap = e.snap
          /\ r.at = p /\ r.n = e.n + 1
      BY <2>3 DEF Moved
    <3>2. Recoverable(r, disk, b, w, unrestored)
      BY <2>1, <3>1 DEF Safe, Recoverable
    <3>3. CASE e.kind = "cross"
      <4>1. CrossSafe(r, disk, b, w, unrestored)
        BY <1>3, <3>1, <3>3 DEF CrossSafe
      <4> QED BY <1>1, <1>3, <3>1, <3>2, <3>3, <4>1 DEF Carried, Safe
    <3>4. CASE e.kind = "batch"
      <4>1. BatchSafe(c, e, disk, b, w, unrestored)
        BY <2>1, <3>4 DEF Safe
      <4>2. \A i \in DOMAIN e.files : i < e.n \/ i = e.n => i < e.n + 1
        BY <1>2
      <4>3. r.at = "enter" /\ e.at = "push"
        BY <1>1, <1>3, <3>1, <3>4 DEF e
      <4> HIDE DEF b, w
      <4>4. BatchSafe(c, r, disk, b, w, unrestored)
        BY <3>1, <4>1, <4>2, <4>3 DEF BatchSafe
      <4> QED BY <1>1, <3>1, <3>2, <3>4, <4>3, <4>4 DEF Carried, Safe, w
    <3> QED BY <2>1, <3>3, <3>4
  <2> QED BY <1>5, <2>2, <2>3
<1> QED BY <1>1, <1>3, <1>6, OneUndoable DEF e, r

\* What happens to the files when one is given back what it was, or is not.
LEMMA GivenBack ==
    ASSUME TypeInv, LockInv, UndoableInv, NEW c \in Callers, Active(c), Alone(c),
           NEW w, NEW v, disk' = [disk EXCEPT ![Here(c)] = v],
           unrestored' = unrestored \cup {Here(c)} \/ (v = w /\ unrestored' = unrestored)
    PROVE  /\ \A g \in Files \ {Here(c)} : disk'[g] = disk[g] /\ (g \in unrestored' <=> g \in unrestored)
           /\ Here(c) \notin unrestored' => disk'[Here(c)] = w
           /\ unrestored \subseteq unrestored'
BY Aware

\* A file is rolled back: it is what it was, or could not be restored.
LEMMA RollbackUndoable ==
    ASSUME TypeInv, LockInv, UndoableInv, NEW c \in Callers, Rollback(c) \/ RollbackFails(c)
    PROVE  UndoableInv' /\ AllOrNothing
<1> DEFINE e == call[c]
           b == before[c]
           w == committed[c]
           f == Here(c)
           u == unrestored'
<1>1. /\ Active(c) /\ e.at = "rollback" /\ before' = before /\ committed' = committed
  BY DEF Rollback, RollbackFails, At, Active
<1>2. PICK d \in Calls :
        /\ call' = [call EXCEPT ![c] = AfterRollback(c, d, lock')]
        /\ Alike(d, e) /\ d.at = "rollback" /\ d.n = e.n
        /\ d.snap = [e.snap EXCEPT ![f] = None]
  BY Closed
<1> DEFINE r == AfterRollback(c, d, lock')
           Writes == /\ d.kind = "batch" /\ d.outcome = "failed"
                     /\ c \in Undoers /\ Len(d.files) > 1
           Over == ~(d.kind = "cross" /\ d.n > 1) /\ ~Writes
<1>3. /\ d \in Calls /\ Placed(d) /\ d.at = "rollback"
      /\ d.files = e.files /\ d.kind = e.kind /\ d.pre = e.pre
  BY <1>1, <1>2, Held DEF Placed, Alike
<1>4. \/ d.kind = "cross" /\ d.n > 1 /\ Moved(r, d, "rollback", d.n - 1)
      \/ Writes /\ Moved(r, d, "rewrite", 1)
      \/ Over /\ Moved(r, d, "leaving", d.n)
      \/ Over /\ r = Ended(d.outcome)
  <2>1. \/ /\ d.kind = "cross" /\ d.n > 1 /\ d.n - 1 \in DOMAIN d.files
           /\ Moved(r, d, "rollback", d.n - 1)
        \/ Writes /\ Moved(r, d, "rewrite", 1)
        \/ Over /\ (\E g \in Files : lock'[g] = c) /\ Moved(r, d, "leaving", d.n)
        \/ Over /\ (\A g \in Files : lock'[g] # c) /\ r = Ended(d.outcome)
    BY <1>3, RolledBack
  <2> HIDE DEF r
  <2> QED BY <2>1
<1> HIDE DEF r
<1>5. ASSUME Alone(c) PROVE Carried(c, e, r, disk', b, w, committed'[c], u, torn)
  <2>1. /\ Safe(c, e, disk, b, w, unrestored) /\ e.kind \in {"batch", "cross"}
        /\ Len(e.files) \in Nat /\ DOMAIN e.files = 1..Len(e.files)
        /\ e.n \in 1..Len(e.files) /\ f \in Files
        /\ e.snap \in [Files -> Contents \cup {None}] /\ Counted(c, e, w, torn)
        /\ disk \in [Files -> Contents]
    BY <1>1, <1>5, Aware
  <2>2. /\ \A g \in Files \ {f} : disk'[g] = disk[g] /\ (g \in u <=> g \in unrestored)
        /\ f \notin u => disk'[f] = IF e.snap[f] = None THEN disk[f] ELSE e.snap[f]
        /\ unrestored \subseteq u
    <3> DEFINE old == IF e.snap[f] = None THEN disk[f] ELSE e.snap[f]
    <3>1. PICK v : /\ disk' = [disk EXCEPT ![f] = v]
                   /\ u = unrestored \cup {f} \/ (v = old /\ u = unrestored)
      <4>1. disk = [disk EXCEPT ![f] = disk[f]]
        BY <2>1
      <4> QED BY <1>5, <4>1
              DEF Rollback, RollbackFails, Restored, Inside, GiveUp, Alone, Write
    <3> HIDE DEF old
    <3>2. /\ \A g \in Files \ {f} : disk'[g] = disk[g] /\ (g \in u <=> g \in unrestored)
          /\ f \notin u => disk'[f] = old
          /\ unrestored \subseteq u
      BY <1>1, <1>5, <3>1, GivenBack
    <3> QED BY <3>2 DEF old
  <2> HIDE DEF e, b, w, f, u
  <2>3. Recoverable(d, disk', b, w, u)
    <3> SUFFICES ASSUME NEW g \in Files \ (w \cup u)
                 PROVE  IF d.snap[g] = None THEN disk'[g] = b[g] ELSE d.snap[g] = b[g]
      BY DEF Recoverable
    <3>1. IF e.snap[g] = None THEN disk[g] = b[g] ELSE e.snap[g] = b[g]
      BY <2>1, <2>2 DEF Safe, Recoverable
    <3>2. CASE g = f
      BY <1>2, <2>1, <2>2, <3>1, <3>2
    <3>3. CASE g # f
      BY <1>2, <2>1, <2>2, <3>1, <3>3
    <3> QED BY <3>2, <3>3
  <2>4. ~(d.kind = "cross" /\ d.n > 1) => Same(disk', b, w \cup u)
    <3>1. SUFFICES ASSUME ~(d.kind = "cross" /\ d.n > 1), NEW g \in Files
                   PROVE  d.snap[g] = None
      BY <2>3 DEF Recoverable, Same
    <3>2. e.snap[g] # None => g = f
      BY <1>1, <1>2, <1>3, <2>1, <3>1, OpenHere DEF e, f
    <3> QED BY <1>2, <2>1, <3>2
  <2>5. ASSUME r.kind = d.kind, r.files = d.files, r.snap = d.snap, r.pre = d.pre,
               r.outcome = d.outcome
        PROVE  Recoverable(r, disk', b, w, u)
    BY <2>3, <2>5 DEF Recoverable
  <2>6. CASE d.kind = "cross"
    <3>1. CASE d.n > 1 /\ Moved(r, d, "rollback", d.n - 1)
      BY <1>1, <2>5, <2>6, <3>1 DEF Carried, Safe, CrossSafe, Moved, w
    <3>2. CASE Over /\ Moved(r, d, "leaving", d.n)
      BY <1>1, <2>4, <2>5, <2>6, <3>2 DEF Carried, Safe, CrossSafe, Moved, w
    <3>3. CASE Over /\ r = Ended(d.outcome)
      <4>1. w # {} => c \in torn
        BY <1>1, <1>3, <2>1, <2>6 DEF Counted, e
      <4>2. Result(c, e, d.outcome, disk', b, w, u, torn)
        BY <1>3, <2>4, <2>6, <3>3, <4>1 DEF Result
      <4> QED BY <3>3, <4>2 DEF Carried
    <3> QED BY <1>4, <2>6, <3>1, <3>2, <3>3
  <2>7. CASE d.kind = "batch"
    <3>1. BatchSafe(c, e, disk, b, w, unrestored)
      BY <1>3, <2>1, <2>7 DEF Safe
    <3>2. /\ \A g \in w : \E i \in DOMAIN e.files : e.files[i] = g /\ i < e.n
          /\ c \in Undoers => \A i \in DOMAIN e.files : e.pre[e.files[i]] = b[e.files[i]]
      BY <1>1, <3>1 DEF BatchSafe, e
    <3>3. Over /\ d.outcome = "failed" /\ c \in Undoers => w = {}
      <4> SUFFICES ASSUME c \in Undoers, ~(Len(e.files) > 1) PROVE w = {}
        BY <1>3, <2>7
      <4>1. \A i \in DOMAIN e.files : ~(i < e.n)
        BY <2>1
      <4> QED BY <3>2, <4>1
    <3>4. \A i \in DOMAIN e.files : ~(i < 1)
      BY <2>1
    <3>5. CASE Writes /\ Moved(r, d, "rewrite", 1)
      <4>1. /\ r.at = "rewrite" /\ r.n = 1 /\ r.kind = "batch" /\ r.files = e.files
            /\ r.pre = e.pre
        BY <1>3, <2>7, <3>5 DEF Moved
      <4>2. BatchSafe(c, r, disk', b, w, u)
        BY <3>2, <3>4, <4>1 DEF BatchSafe
      <4> QED BY <1>1, <2>5, <3>5, <4>1, <4>2 DEF Carried, Safe, Moved, w
    <3>6. CASE Over /\ Moved(r, d, "leaving", d.n)
      <4>1. /\ r.at = "leaving" /\ r.n = e.n /\ r.kind = "batch" /\ r.files = e.files
            /\ r.pre = e.pre /\ r.outcome = d.outcome
        BY <1>2, <1>3, <2>7, <3>6 DEF Moved
      <4>2. BatchSafe(c, r, disk', b, w, u)
        BY <3>2, <3>3, <3>6, <4>1 DEF BatchSafe
      <4> QED BY <1>1, <2>5, <3>6, <4>1, <4>2 DEF Carried, Safe, Moved, w
    <3>7. CASE Over /\ r = Ended(d.outcome)
      <4>1. Result(c, e, d.outcome, disk', b, w, u, torn)
        BY <1>3, <2>4, <2>7, <3>3, <3>7 DEF Result, Same
      <4> QED BY <3>7, <4>1 DEF Carried
    <3> QED BY <1>4, <2>7, <3>5, <3>6, <3>7
  <2> QED BY <1>3, <2>1, <2>6, <2>7
<1> QED BY <1>1, <1>2, <1>5, OneUndoable DEF r

\* After a failed operation the files get back, one by one, what was read of them, but
\* those that cannot be written.
LEMMA RewriteUndoable ==
    ASSUME TypeInv, LockInv, UndoableInv, NEW c \in Callers, Rewrite(c)
    PROVE  UndoableInv' /\ AllOrNothing
<1> DEFINE e == call[c]
           b == before[c]
           w == committed[c]
           f == Here(c)
           u == unrestored'
           r == NextFile(e, "rewrite", Ended("failed"))
<1>1. /\ Active(c) /\ e.at = "rewrite" /\ before' = before /\ committed' = committed
      /\ call' = [call EXCEPT ![c] = r]
  BY DEF Rewrite, Continue, At, Active
<1>2. /\ e \in Calls /\ Formed(c, e) /\ e.n \in DOMAIN e.files
  BY <1>1, Known DEF Formed, Placed, Active
<1>3. \/ r = Ended("failed") /\ e.n = Len(e.files)
      \/ Moved(r, e, "rewrite", e.n + 1)
  <2>1. "rewrite" \in Points
    BY DEF Points
  <2> HIDE DEF e
  <2> QED BY <1>2, <2>1, Turns
<1> HIDE DEF r
<1>4. ASSUME Alone(c) PROVE Carried(c, e, r, disk', b, w, committed'[c], u, torn)
  <2>1. /\ Safe(c, e, disk, b, w, unrestored) /\ e.kind \in {"batch", "cross"}
        /\ Len(e.files) \in Nat /\ DOMAIN e.files = 1..Len(e.files)
        /\ e.n \in 1..Len(e.files) /\ f = e.files[e.n] /\ f \in Files
        /\ \A i \in DOMAIN e.files : e.files[i] \in Files
    BY <1>1, <1>4, Aware
  <2>2. BatchSafe(c, e, disk, b, w, unrestored) /\ e.kind = "batch" /\ c \in Undoers
    BY <1>1, <1>2, <2>1 DEF Safe, CrossSafe, Formed, Prepared
  <2>3. /\ \A g \in Files \ {f} : disk'[g] = disk[g] /\ (g \in u <=> g \in unrestored)
        /\ f \notin u => disk'[f] = e.pre[f]
        /\ unrestored \subseteq u
    <3>1. PICK v : /\ disk' = [disk EXCEPT ![f] = v]
                   /\ u = unrestored \cup {f} \/ (v = e.pre[f] /\ u = unrestored)
      BY <1>4 DEF Rewrite, GiveUp, Alone, Write
    <3> QED BY <1>1, <1>4, <3>1, GivenBack
  <2>4. \A g \in Files : e.snap[g] = None
    BY <1>1, OpenHere
  <2> HIDE DEF b, w, f, u
  <2>5. \A i \in DOMAIN e.files : e.pre[e.files[i]] = b[e.files[i]]
    BY <1>1, <2>2 DEF BatchSafe
  <2>6. \A i \in DOMAIN e.files :
           i < e.n \/ i = e.n => disk'[e.files[i]] = b[e.files[i]] \/ e.files[i] \in u
    <3> SUFFICES ASSUME NEW i \in DOMAIN e.files, i < e.n \/ i = e.n
                 PROVE  disk'[e.files[i]] = b[e.files[i]] \/ e.files[i] \in u
      OBVIOUS
    <3>1. CASE e.files[i] = f
      <4>1. e.pre[f] = b[f]
        BY <2>5, <3>1
      <4> QED BY <2>3, <3>1, <4>1
    <3>2. CASE e.files[i] # f
      <4>1. disk[e.files[i]] = b[e.files[i]] \/ e.files[i] \in unrestored
        BY <1>1, <2>1, <2>2, <3>2 DEF BatchSafe
      <4> QED BY <2>1, <2>3, <3>2, <4>1
    <3> QED BY <3>1, <3>2
  <2>7. \A g \in Files \ (w \cup u) : disk'[g] = b[g]
    <3> SUFFICES ASSUME NEW g \in Files \ (w \cup u) PROVE disk'[g] = b[g]
      OBVIOUS
    <3>1. g # f => disk[g] = b[g]
      BY <2>1, <2>3, <2>4 DEF Safe, Recoverable
    <3>2. CASE g = f
      BY <2>1, <2>3, <2>5, <3>2
    <3>3. CASE g # f
      BY <2>3, <3>1, <3>3
    <3> QED BY <3>2, <3>3
  <2> HIDE DEF e
  <2>8. CASE r = Ended("failed") /\ e.n = Len(e.files)
    <3>1. \A i \in DOMAIN e.files : i < e.n \/ i = e.n
      BY <2>1, <2>8
    <3>2. \A g \in w : disk'[g] = b[g] \/ g \in u
      BY <2>2, <2>6, <3>1 DEF BatchSafe
    <3>3. Result(c, e, "failed", disk', b, w, u, torn)
      BY <2>2, <2>7, <3>2 DEF Result
    <3> QED BY <2>8, <3>3 DEF Carried
  <2>9. CASE Moved(r, e, "rewrite", e.n + 1)
    <3>1. /\ r.at = "rewrite" /\ r.n = e.n + 1 /\ r.files = e.files /\ r.kind = "batch"
          /\ r.pre = e.pre /\ r.snap = e.snap
      BY <2>2, <2>9 DEF Moved
    <3>2. \A i \in DOMAIN e.files : i < e.n + 1 => i < e.n \/ i = e.n
      BY <2>1
    <3>3. \A g \in w : \E i \in DOMAIN e.files : e.files[i] = g
      BY <2>2 DEF BatchSafe
    <3>4. BatchSafe(c, r, disk', b, w, u)
      BY <2>5, <2>6, <3>1, <3>2, <3>3 DEF BatchSafe
    <3>5. Recoverable(r, disk', b, w, u)
      BY <2>4, <2>7, <3>1 DEF Recoverable
    <3> QED BY <1>1, <3>1, <3>4, <3>5 DEF Carried, Safe, w
  <2> QED BY <1>3, <2>8, <2>9 DEF e
<1> QED BY <1>1, <1>4, OneUndoable

\* Nothing is on at first, and every step keeps what can be undone.
LEMMA InitUndoable == Init => UndoableInv
BY DEF Init, UndoableInv, Alone

LEMMA NextUndoable ==
    TypeInv /\ LockInv /\ UndoableInv /\ [Next]_vars => UndoableInv' /\ AllOrNothing
<1> SUFFICES ASSUME TypeInv, LockInv, UndoableInv, [Next]_vars
             PROVE  UndoableInv' /\ AllOrNothing
  OBVIOUS
<1>1. CASE UNCHANGED vars
  <2>1. /\ disk' = disk /\ call' = call /\ before' = before /\ committed' = committed
        /\ unrestored' = unrestored
    BY <1>1 DEF vars
  <2>2. UndoableInv'
    BY <2>1 DEF UndoableInv, Active, Alone
  <2> QED BY <2>1, <2>2 DEF AllOrNothing, Ends, Active
<1>2. ASSUME NEW c \in Callers, ExecuteBatch(c) \/ ExecuteCrossFile(c)
      PROVE  UndoableInv' /\ AllOrNothing
  BY <1>2, BeginUndoable
<1>3. ASSUME NEW c \in Callers, Step(c) PROVE UndoableInv' /\ AllOrNothing
  <2>1. Reject(c) \/ Collect(c) \/ ReadBackFails(c) => Active(c)
    BY DEF Reject, Collect, ReadBackFails, CrossAt, At, Active
  <2> QED BY <1>3, <2>1, ReadUndoable, EnterUndoable, EndUndoable, FailUndoable, OpUndoable,
             WriteUndoable, EditUndoable, CommitUndoable, PushUndoable, RollbackUndoable,
             RewriteUndoable DEF Step
<1> QED BY <1>1, <1>2, <1>3 DEF Next

\* A cross-file operation on any number of files that fails or raises, whichever of its
\* steps failed, leaves every file as it was but those it had committed by then and those
\* whose own roll back failed; and it had committed some only if the commit of another
\* failed, or the read-back after the last.
THEOREM CrossFileIsAllOrNothing == Spec => CrossFileAllOrNothing
<1>1. AllOrNothing =>
        \A c \in Callers :
            Cross(c) /\ Alone(c) /\ Fails(c) =>
                /\ \A f \in Files :
                      disk'[f] # before[c][f] => f \in committed[c] \cup unrestored'
                /\ committed[c] # {} => c \in torn \/ At(c, "push")
  BY DEF AllOrNothing, Result, Same, Fails, Cross, At
<1>2. TypeInv /\ LockInv /\ UndoableInv /\ [Next]_vars =>
        [\A c \in Callers :
            Cross(c) /\ Alone(c) /\ Fails(c) =>
                /\ \A f \in Files :
                      disk'[f] # before[c][f] => f \in committed[c] \cup unrestored'
                /\ committed[c] # {} => c \in torn \/ At(c, "push")]_vars
  BY <1>1, NextUndoable
<1> QED BY <1>2, InitType, NextType, InitLocks, NextLocks, InitUndoable, NextUndoable, PTL
        DEF Spec, CrossFileAllOrNothing

\* A batch of any number of operations on any number of files that fails or raises leaves
\* every file as it was but those it could not give their content back; what it has
\* committed stays if there is no undo stack, or if it was not an operation that failed.
THEOREM FailedOpIsUndone == Spec => FailedOpUndone
<1>1. TypeInv /\ AllOrNothing =>
        \A c \in Callers :
            ~Cross(c) /\ Alone(c) /\ Fails(c) =>
                \A f \in Files :
                    disk'[f] # before[c][f] =>
                        \/ f \in unrestored'
                        \/ f \in committed[c] /\ (Ends(c, "raised") \/ c \notin Undoers)
  BY DEF AllOrNothing, Result, Fails, Cross
<1>2. TypeInv /\ LockInv /\ UndoableInv /\ [Next]_vars =>
        [\A c \in Callers :
            ~Cross(c) /\ Alone(c) /\ Fails(c) =>
                \A f \in Files :
                    disk'[f] # before[c][f] =>
                        \/ f \in unrestored'
                        \/ f \in committed[c] /\ (Ends(c, "raised") \/ c \notin Undoers)]_vars
  BY <1>1, NextUndoable
<1> QED BY <1>2, InitType, NextType, InitLocks, NextLocks, InitUndoable, NextUndoable, PTL
        DEF Spec, FailedOpUndone

-----------------------------------------------------------------------------
(***************************************************************************)
(* What a call that succeeds leaves.                                        *)
(*                                                                         *)
(* SuccessKept and EntriesTellTheStep speak of the end of a call, too.  On  *)
(* the way there, what it has parsed holds what the file held, and the edit *)
(* once it is made; so does the file once it is written; and the last undo  *)
(* entry of a file it got past tells what became of it.                     *)
(***************************************************************************)

\* The files that d does not name are as they were.
Untouched(d, v, b) ==
    \A f \in Files : (\A i \in DOMAIN d.files : d.files[i] # f) => v[f] = b[f]

\* w is a content that c may leave in its i-th file.
Sound(c, d, i, b, w) ==
    /\ b[d.files[i]] \subseteq w
    /\ d.kind = "cross" /\ d.files[i] \in d.dirty => <<c, 1>> \in w
    /\ d.kind # "cross" /\ d.ops[d.files[i]][1] = "object" => <<c, 1>> \in w

\* The last entry of f takes it from what it was to what it is.
Told(f, v, b, p) ==
    v[f] # b[f] =>
        p[f] # <<>> /\ p[f][Len(p[f])] = [pre |-> b[f], post |-> v[f]]

\* The contents read for the undo stack.
PreRead(c, d, b) ==
    c \in Undoers =>
        \A i \in DOMAIN d.files :
            d.at # "parse" /\ (i < d.n \/ d.at # "capture") => d.pre[d.files[i]] = b[d.files[i]]

CrossKept(c, d, v, b, p) ==
    /\ d.at # "write" /\ Untouched(d, v, b) /\ PreRead(c, d, b)
    /\ d.at \in {"parse", "capture", "enter"} => v = b /\ d.dirty = {}
    /\ d.at = "writing" => d.files[d.n] \in d.dirty
    /\ \A i \in DOMAIN d.files :
         /\ d.at # "parse" \/ i < d.n => Sound(c, d, i, b, d.object[d.files[i]])
         /\ d.at \in {"apply", "commit", "push"} \/ (d.at = "writing" /\ i # d.n) =>
                Sound(c, d, i, b, v[d.files[i]])
         /\ d.files[i] \notin d.dirty => v[d.files[i]] = b[d.files[i]]
         /\ d.at = "push" /\ i < d.n => Told(d.files[i], v, b, p)

BatchKept(c, d, v, b, p) ==
    /\ Untouched(d, v, b) /\ PreRead(c, d, b)
    /\ d.at \in {"parse", "capture"} => v = b
    /\ d.at = "apply" /\ d.ir = None => d.k = 1
    /\ (d.at = "apply" /\ d.ir # None) \/ d.at \in {"write", "writing"} =>
           Sound(c, d, d.n, b, d.object[d.files[d.n]])
    /\ d.at \in {"commit", "push"} => Sound(c, d, d.n, b, v[d.files[d.n]])
    /\ \A i \in DOMAIN d.files :
         /\ d.at # "parse" \/ i < d.n => b[d.files[i]] \subseteq d.object[d.files[i]]
         /\ d.at \notin {"parse", "capture"} /\ i < d.n =>
                /\ Sound(c, d, i, b, v[d.files[i]])
                /\ c \in Undoers => Told(d.files[i], v, b, p)
         /\ i > d.n \/ (i = d.n /\ d.at = "enter") => v[d.files[i]] = b[d.files[i]]

\* A call that has failed does not succeed any more.
Kept(c, d, v, b, p) ==
    /\ d.at \in {"leaving", "rollback"} => d.outcome # "ok"
    /\ d.at \notin {"leaving", "rollback", "rewrite"} =>
           IF d.kind = "cross" THEN CrossKept(c, d, v, b, p) ELSE BatchKept(c, d, v, b, p)

\* The inductive invariant behind the two.
KeptInv == \A c \in Callers : Active(c) /\ Alone(c) => Kept(c, call[c], disk, before[c], pushed)

\* The two action properties, of one step.
Successful(c, d, v, b, p) ==
    /\ \A i \in DOMAIN d.files : Sound(c, d, i, b, v[d.files[i]])
    /\ c \in Undoers => \A f \in Files : Told(f, v, b, p)

OnceSuccessful ==
    \A c \in Callers :
        Alone(c) /\ Ends(c, "ok") => Successful(c, call[c], disk', before[c], pushed')

\* What a call comes to: it goes on and keeps what it has, or it is over, and if it
\* has succeeded then as it should.
Continued(c, d, r, v, b, p) ==
    \/ r.at \notin {"idle", "done"} /\ Kept(c, r, v, b, p)
    \/ \E o : r = Ended(o) /\ (o = "ok" => Successful(c, d, v, b, p))

\* What is known of it.
LEMMA Keeps ==
    ASSUME TypeInv, LockInv, UndoableInv, KeptInv, NEW c \in Callers, Active(c), Alone(c)
    PROVE  /\ Kept(c, call[c], disk, before[c], pushed)
           /\ call[c] \in Calls /\ Planned(call[c])
           /\ call[c].kind \in {"batch", "cross"}
           /\ Len(call[c].files) \in Nat /\ DOMAIN call[c].files = 1..Len(call[c].files)
           /\ call[c].n \in 1..Len(call[c].files)
           /\ \A i \in 1..Len(call[c].files) : call[c].files[i] \in Files
           /\ \A i, j \in 1..Len(call[c].files) : call[c].files[i] = call[c].files[j] => i = j
           /\ Here(c) = call[c].files[call[c].n] /\ Here(c) \in Files
           /\ before[c] \in [Files -> Contents] /\ disk \in [Files -> Contents]
           /\ call[c].object \in [Files -> Contents \cup {None}]
           /\ call[c].pre \in [Files -> Contents \cup {None}]
           /\ DOMAIN pushed = Files
           /\ pushed \in [Files -> Seq([pre : Contents, post : Contents])]
<1>1. Planned(call[c])
  BY Held
<1>2. /\ \A i \in 1..Len(call[c].files) : call[c].files[i] \in Files
      /\ DOMAIN call[c].files = 1..Len(call[c].files)
  BY Aware
<1>3. \A i, j \in 1..Len(call[c].files) : call[c].files[i] = call[c].files[j] => i = j
  BY <1>1, <1>2 DEF Planned
<1> QED BY <1>1, <1>2, <1>3, Aware, Known DEF KeptInv, TypeInv, TypeOK

\* The step of one call.
LEMMA OneKept ==
    ASSUME TypeInv, LockInv, UndoableInv, KeptInv, NEW c \in Callers, Active(c), NEW r,
           call' = [call EXCEPT ![c] = r], before' = before,
           Alone(c) => Continued(c, call[c], r, disk', before[c], pushed')
    PROVE  KeptInv' /\ OnceSuccessful
<1>1. call'[c] = r /\ \A a \in Callers \ {c} : call'[a] = call[a]
  BY DEF TypeInv, TypeOK
<1>2. \A o : Ended(o).at = "done" /\ Ended(o).outcome = o
  BY DEF Ended, Idle
<1>3. KeptInv'
  <2> SUFFICES ASSUME NEW a \in Callers, Active(a)', Alone(a)'
               PROVE  Kept(a, call'[a], disk', before'[a], pushed')
    BY DEF KeptInv
  <2>1. Alone(a)
    BY DEF Alone
  <2>2. a = c
    BY <1>1, <2>1 DEF UndoableInv, Active
  <2> QED BY <1>1, <1>2, <2>1, <2>2 DEF Continued, Active
<1>4. OnceSuccessful
  <2> SUFFICES ASSUME NEW a \in Callers, Alone(a), Ends(a, "ok")
               PROVE  Successful(a, call[a], disk', before[a], pushed')
    BY DEF OnceSuccessful
  <2>1. a = c /\ r.at = "done" /\ r.outcome = "ok"
    BY <1>1 DEF Ends, Active
  <2> QED BY <1>2, <2>1 DEF Continued
<1> QED BY <1>3, <1>4

\* A call that begins when nothing else is on.
LEMMA BeginKept ==
    ASSUME TypeInv, LockInv, UndoableInv, KeptInv, NEW c \in Callers,
           ExecuteBatch(c) \/ ExecuteCrossFile(c)
    PROVE  KeptInv' /\ OnceSuccessful
<1>1. PICK kind, files, ops : Begin(c, kind, files, ops)
      /\ DOMAIN files \subseteq Nat \ {0}
  <2>1. ASSUME NEW files \in Orders PROVE DOMAIN files \subseteq Nat \ {0}
    BY EditConstants, FS_CardinalityType DEF Orders
  <2>2. CASE ExecuteBatch(c)
    <3>1. PICK files \in Orders : \E ops \in Batches(files) : Begin(c, "batch", files, ops)
      BY <2>2 DEF ExecuteBatch
    <3> QED BY <2>1, <3>1
  <2>3. CASE ExecuteCrossFile(c)
    BY <2>1, <2>3 DEF ExecuteCrossFile
  <2> QED BY <2>2, <2>3
<1> DEFINE r == [Idle EXCEPT !.at = "parse", !.kind = kind, !.n = 1, !.k = 1,
                             !.files = files, !.ops = ops]
<1>2. /\ call[c] = Idle /\ call' = [call EXCEPT ![c] = r] /\ disk' = disk
      /\ before' = [d \in Callers |-> IF Quiet /\ d = c THEN disk ELSE None]
  BY <1>1 DEF Begin
<1>3. Idle.at = "idle" /\ r.at = "parse" /\ r.dirty = {} /\ r.n = 1 /\ r.files = files
  BY DEF Idle
<1> HIDE DEF r
<1>4. call'[c] = r /\ \A a \in Callers \ {c} : call'[a] = call[a]
  BY <1>2 DEF TypeInv, TypeOK
<1>5. OnceSuccessful
  BY <1>2, <1>3, <1>4 DEF OnceSuccessful, Ends, Active
<1>6. ASSUME NEW a \in Callers, Alone(a)' PROVE a = c /\ before'[c] = disk
  BY <1>2, <1>6 DEF Alone
<1>7. \A i \in DOMAIN r.files : ~(i < r.n)
  BY <1>1, <1>3
<1>8. \A p : Kept(c, r, disk', disk, p)
  BY <1>2, <1>3, <1>7 DEF Kept, CrossKept, BatchKept, PreRead, Untouched
<1> QED BY <1>4, <1>5, <1>6, <1>8 DEF KeptInv

\* A call that fails does not come to succeed.
LEMMA FailKept ==
    ASSUME TypeInv, LockInv, UndoableInv, KeptInv, NEW c \in Callers,
           \/ Reject(c) \/ Refused(c) \/ OpenFails(c) \/ Collect(c) \/ Rollback(c)
           \/ RollbackFails(c) \/ OpFails(c) \/ EditFails(c) \/ CommitFails(c)
           \/ Rewrite(c) \/ ReadBackFails(c)
    PROVE  KeptInv' /\ OnceSuccessful
<1> DEFINE e == call[c]
           m == e.n - 1
           Fallen(r, o) == r = Ended(o) \/ r.at = "rewrite"
                          \/ (r.at \in {"leaving", "rollback"} /\ r.outcome = o)
<1>1. Active(c) /\ before' = before
  BY DEF Reject, Refused, OpenFails, Collect, Rollback, RollbackFails, OpFails, EditFails,
         CommitFails, Rewrite, ReadBackFails, CrossAt, At, Active
<1>2. e \in Calls
  BY <1>1, Known
<1>3. CASE Rollback(c) \/ RollbackFails(c)
  <2>1. PICK d \in Calls :
          /\ call' = [call EXCEPT ![c] = AfterRollback(c, d, lock')]
          /\ Alike(d, e) /\ d.at = "rollback" /\ d.n = e.n
          /\ d.outcome = e.outcome \/ d.outcome = "raised"
    BY <1>3, Closed
  <2>2. e.at = "rollback" /\ e.n \in DOMAIN e.files
    BY <1>1, <1>3, Held DEF Rollback, RollbackFails, At
  <2> DEFINE r == AfterRollback(c, d, lock')
  <2>3. d \in Calls /\ Placed(d) /\ d.at = "rollback"
    BY <2>1, <2>2 DEF Alike, Placed
  <2>4. Fallen(r, d.outcome)
    <3>1. \/ \E p \in {"rollback", "rewrite", "leaving"} : \E i : Moved(r, d, p, i)
          \/ r = Ended(d.outcome)
      BY <2>3, RolledBack
    <3> HIDE DEF r
    <3> QED BY <3>1 DEF Moved
  <2> HIDE DEF r
  <2>5. ASSUME Alone(c) PROVE d.outcome # "ok"
    BY <1>1, <2>1, <2>2, <2>5, Keeps DEF Kept
  <2>6. Alone(c) => Continued(c, e, r, disk', before[c], pushed')
    BY <2>4, <2>5 DEF Continued, Kept
  <2> QED BY <1>1, <2>1, <2>6, OneKept DEF r
<1>4. CASE ~(Rollback(c) \/ RollbackFails(c))
  <2>1. PICK r, o : /\ call' = [call EXCEPT ![c] = r]
                    /\ \/ r = Ended(o)
                       \/ r = [e EXCEPT !.at = "leaving", !.outcome = o]
                       \/ r = [e EXCEPT !.at = "rollback", !.n = m, !.outcome = o]
                       \/ r = Abandoned(e, o)
                       \/ r = [e EXCEPT !.at = "rewrite", !.n = e.n + 1]
                    /\ o \in {"failed", "raised"} \/ (o = e.outcome /\ e.at = "leaving")
    <3>1. CASE Reject(c) \/ ReadBackFails(c)
      BY <3>1 DEF Reject, ReadBackFails, End, Continue
    <3>2. CASE Refused(c)
      BY <3>2 DEF Refused, End, Continue
    <3>3. CASE OpenFails(c)
      BY <3>3 DEF OpenFails, Continue
    <3>4. CASE Collect(c)
      BY <3>4 DEF Collect, End, Continue, At
    <3>5. CASE OpFails(c) \/ EditFails(c) \/ CommitFails(c)
      BY <3>5 DEF OpFails, EditFails, CommitFails, Continue
    <3>6. CASE Rewrite(c)
      BY <3>6 DEF Rewrite, Continue, NextFile
    <3> QED BY <1>4, <3>1, <3>2, <3>3, <3>4, <3>5, <3>6
  <2>2. ASSUME Alone(c) PROVE o # "ok"
    BY <1>1, <2>1, <2>2, Keeps DEF Kept
  <2> HIDE DEF e, m
  <2>3. Fallen(r, o)
    <3>1. CASE r = Abandoned(e, o)
      BY <1>2, <3>1 DEF Abandoned, Calls
    <3>2. CASE r = [e EXCEPT !.at = "leaving", !.outcome = o]
      BY <1>2, <3>2 DEF Calls
    <3>3. CASE r = [e EXCEPT !.at = "rollback", !.n = m, !.outcome = o]
      BY <1>2, <3>3 DEF Calls
    <3>4. CASE r = [e EXCEPT !.at = "rewrite", !.n = e.n + 1]
      BY <1>2, <3>4 DEF Calls
    <3> QED BY <2>1, <3>1, <3>2, <3>3, <3>4
  <2>4. Alone(c) => Continued(c, e, r, disk', before[c], pushed')
    BY <2>2, <2>3 DEF Continued, Kept
  <2> QED BY <1>1, <2>1, <2>4, OneKept DEF e
<1> QED BY <1>3, <1>4

\* What is parsed, and what is read, is what the files were.
LEMMA ReadKept ==
    ASSUME TypeInv, LockInv, UndoableInv, KeptInv, NEW c \in Callers, Parse(c) \/ Capture(c)
    PROVE  KeptInv' /\ OnceSuccessful
<1> DEFINE e == call[c]
           b == before[c]
           f == Here(c)
<1>1. /\ Active(c) /\ e.at \in {"parse", "capture"}
      /\ disk' = disk /\ before' = before /\ pushed' = pushed
  BY DEF Parse, Capture, At, Active
<1>2. e \in Calls /\ f \in Files /\ disk[f] \in Contents
  BY <1>1, Known
<1>3. \A q \in {"parse", "capture", "enter"} : q \in Points
  BY DEF Points
<1>4. ASSUME Alone(c)
      PROVE  /\ Kept(c, e, disk, b, pushed) /\ DOMAIN e.files = 1..Len(e.files)
             /\ Len(e.files) \in Nat /\ e.n \in 1..Len(e.files) /\ f = e.files[e.n]
             /\ \A i \in 1..Len(e.files) : e.files[i] \in Files
             /\ e.object \in [Files -> Contents \cup {None}]
             /\ e.pre \in [Files -> Contents \cup {None}] /\ e.kind \in {"batch", "cross"}
             /\ disk = b /\ (e.kind = "cross" => e.dirty = {})
  <2>1. /\ Kept(c, e, disk, b, pushed) /\ DOMAIN e.files = 1..Len(e.files)
        /\ Len(e.files) \in Nat /\ e.n \in 1..Len(e.files) /\ f = e.files[e.n]
        /\ \A i \in 1..Len(e.files) : e.files[i] \in Files
        /\ e.object \in [Files -> Contents \cup {None}]
        /\ e.pre \in [Files -> Contents \cup {None}] /\ e.kind \in {"batch", "cross"}
    BY <1>1, <1>4, Keeps
  <2> HIDE DEF e, b
  <2> QED BY <1>1, <2>1 DEF Kept, CrossKept, BatchKept
<1>5. CASE Parse(c)
  <2> DEFINE o == [e.object EXCEPT ![f] = disk[f]]
             d == [e EXCEPT !.object = o]
             q == IF c \in Undoers THEN "capture" ELSE "enter"
             r == NextFile(d, "parse", Back(d, q))
  <2>1. o \in [Files -> Contents \cup {None}]
    BY <1>2 DEF Calls
  <2>2. /\ d \in Calls /\ d.at = e.at /\ d.n = e.n /\ d.files = e.files /\ d.kind = e.kind
        /\ d.pre = e.pre /\ d.dirty = e.dirty /\ d.object = o /\ d.ops = e.ops
    BY <1>2, <2>1 DEF Calls
  <2>3. call' = [call EXCEPT ![c] = r] /\ e.at = "parse"
    BY <1>5 DEF Parse, Continue, At
  <2> HIDE DEF d, q, o
  <2>4. \/ Moved(r, d, "parse", e.n + 1)
        \/ Moved(r, d, q, 1) /\ e.n = Len(e.files)
    BY <1>3, <2>2, Turns DEF q
  <2>5. r.dirty = e.dirty
    BY <2>2, <2>4 DEF Moved
  <2> HIDE DEF r
  <2>6. ASSUME Alone(c) PROVE Continued(c, e, r, disk', b, pushed')
    <3>1. /\ r.files = e.files /\ r.kind = e.kind /\ r.object = o /\ r.ops = e.ops
          /\ \/ r.at = "parse" /\ r.n = e.n + 1
             \/ r.at = "capture" /\ r.n = 1 /\ e.n = Len(e.files)
             \/ r.at = "enter" /\ r.n = 1 /\ c \notin Undoers /\ e.n = Len(e.files)
      BY <2>2, <2>4 DEF Moved, q
    <3> USE <1>4, <2>6
    <3>2. \A i \in 1..Len(e.files) :
             /\ ~(i < 1) /\ (i < e.n + 1 <=> i < e.n \/ i = e.n)
             /\ i < Len(e.files) \/ i = Len(e.files)
      OBVIOUS
    <3>3. \A i \in DOMAIN e.files : r.at # "parse" \/ i < r.n => i < e.n \/ i = e.n
      BY <3>1, <3>2
    <3> HIDE DEF e, b
    <3>4. \A i \in DOMAIN e.files : i < e.n => b[e.files[i]] \subseteq e.object[e.files[i]]
      BY <2>3 DEF Kept, CrossKept, BatchKept, Sound
    <3>5. \A i \in DOMAIN e.files : i < e.n \/ i = e.n => b[e.files[i]] \subseteq o[e.files[i]]
      <4> SUFFICES ASSUME NEW i \in 1..Len(e.files), i < e.n \/ i = e.n
                   PROVE  b[e.files[i]] \subseteq o[e.files[i]]
        OBVIOUS
      <4>1. CASE e.files[i] = f
        BY <4>1 DEF o
      <4>2. CASE e.files[i] # f
        <5>1. i < e.n /\ o[e.files[i]] = e.object[e.files[i]]
          BY <4>2 DEF o
        <5> QED BY <3>4, <5>1
      <4> QED BY <4>1, <4>2
    <3>6. Untouched(r, disk, b) /\ PreRead(c, r, b)
      BY <3>1, <3>2 DEF Untouched, PreRead
    <3>7. \A i \in DOMAIN r.files :
             r.at # "parse" \/ i < r.n => b[r.files[i]] \subseteq r.object[r.files[i]]
      BY <3>1, <3>3, <3>5
    <3>8. CASE e.kind = "cross"
      BY <1>1, <2>5, <3>1, <3>6, <3>7, <3>8 DEF Continued, Kept, CrossKept, Sound
    <3>9. CASE e.kind # "cross"
      BY <1>1, <3>1, <3>2, <3>6, <3>7, <3>9 DEF Continued, Kept, BatchKept
    <3> QED BY <3>8, <3>9
  <2> QED BY <1>1, <2>3, <2>6, OneKept
<1>6. CASE Capture(c)
  <2> DEFINE p == [e.pre EXCEPT ![f] = disk[f]]
             d == [e EXCEPT !.pre = p]
             r == NextFile(d, "capture", Back(d, "enter"))
  <2>1. p \in [Files -> Contents \cup {None}]
    BY <1>2 DEF Calls
  <2>2. /\ d \in Calls /\ d.at = e.at /\ d.n = e.n /\ d.files = e.files /\ d.kind = e.kind
        /\ d.pre = p /\ d.dirty = e.dirty /\ d.object = e.object /\ d.ops = e.ops
    BY <1>2, <2>1 DEF Calls
  <2>3. call' = [call EXCEPT ![c] = r] /\ e.at = "capture"
    BY <1>6 DEF Capture, Continue, At
  <2> HIDE DEF d, p
  <2>4. \/ Moved(r, d, "capture", e.n + 1)
        \/ Moved(r, d, "enter", 1) /\ e.n = Len(e.files)
    BY <1>3, <2>2, Turns
  <2>5. r.dirty = e.dirty
    BY <2>2, <2>4 DEF Moved
  <2> HIDE DEF r
  <2>6. ASSUME Alone(c) PROVE Continued(c, e, r, disk', b, pushed')
    <3>1. /\ r.files = e.files /\ r.kind = e.kind /\ r.object = e.object /\ r.ops = e.ops
          /\ r.pre = p
          /\ \/ r.at = "capture" /\ r.n = e.n + 1
             \/ r.at = "enter" /\ r.n = 1 /\ e.n = Len(e.files)
      BY <2>2, <2>4 DEF Moved
    <3> USE <1>4, <2>6
    <3>2. \A i \in 1..Len(e.files) :
             /\ ~(i < 1) /\ (i < e.n + 1 <=> i < e.n \/ i = e.n)
             /\ i < Len(e.files) \/ i = Len(e.files)
      OBVIOUS
    <3>3. \A i \in DOMAIN e.files : i < r.n \/ r.at # "capture" => i < e.n \/ i = e.n
      BY <3>1, <3>2
    <3> HIDE DEF e, b
    <3>4. c \in Undoers => \A i \in DOMAIN e.files : i < e.n => e.pre[e.files[i]] = b[e.files[i]]
      BY <2>3 DEF Kept, CrossKept, BatchKept, PreRead
    <3>5. c \in Undoers => \A i \in DOMAIN e.files :
             i < e.n \/ i = e.n => p[e.files[i]] = b[e.files[i]]
      <4> SUFFICES ASSUME c \in Undoers, NEW i \in 1..Len(e.files), i < e.n \/ i = e.n
                   PROVE  p[e.files[i]] = b[e.files[i]]
        OBVIOUS
      <4>1. CASE e.files[i] = f
        BY <4>1 DEF p
      <4>2. CASE e.files[i] # f
        <5>1. i < e.n /\ p[e.files[i]] = e.pre[e.files[i]]
          BY <4>2 DEF p
        <5> QED BY <3>4, <5>1
      <4> QED BY <4>1, <4>2
    <3>6. Untouched(r, disk, b) /\ PreRead(c, r, b)
      BY <3>1, <3>3, <3>5 DEF Untouched, PreRead
    <3>7. CASE e.kind = "cross"
      <4>1. CrossKept(c, e, disk, b, pushed)
        BY <2>3, <3>7 DEF Kept
      <4>2. CrossKept(c, r, disk, b, pushed)
        BY <2>3, <2>5, <3>1, <3>6, <3>7, <4>1 DEF CrossKept, Sound
      <4> QED BY <1>1, <3>1, <3>7, <4>2 DEF Continued, Kept
    <3>8. CASE e.kind # "cross"
      <4>1. BatchKept(c, e, disk, b, pushed)
        BY <2>3, <3>8 DEF Kept
      <4>2. BatchKept(c, r, disk, b, pushed)
        BY <2>3, <3>1, <3>2, <3>6, <4>1 DEF BatchKept
      <4> QED BY <1>1, <3>1, <3>8, <4>2 DEF Continued, Kept
    <3> QED BY <3>7, <3>8
  <2> QED BY <1>1, <2>3, <2>6, OneKept
<1> QED BY <1>5, <1>6

\* What is sound for a call depends on its files, its kind and what it has edited.
LEMMA SameSound ==
    ASSUME NEW c, NEW b, NEW d, NEW r, r.files = d.files, r.kind = d.kind, r.ops = d.ops,
           r.kind = "cross" => r.dirty = d.dirty
    PROVE  \A i, w : Sound(c, r, i, b, w) <=> Sound(c, d, i, b, w)
BY DEF Sound

\* What is written to the file at which a call is leaves its other files as they are.
LEMMA Elsewhere ==
    ASSUME TypeInv, LockInv, UndoableInv, KeptInv, NEW c \in Callers, Active(c), Alone(c),
           NEW v, disk' = disk \/ disk' = [disk EXCEPT ![Here(c)] = v]
    PROVE  /\ Untouched(call[c], disk, before[c]) => Untouched(call[c], disk', before[c])
           /\ \A i \in DOMAIN call[c].files :
                  i # call[c].n => disk'[call[c].files[i]] = disk[call[c].files[i]]
           /\ disk' # disk => disk'[Here(c)] = v
<1> DEFINE e == call[c]
           f == Here(c)
<1>1. /\ DOMAIN e.files = 1..Len(e.files) /\ e.n \in 1..Len(e.files) /\ f = e.files[e.n]
      /\ \A i \in 1..Len(e.files) : e.files[i] \in Files
      /\ \A i, j \in 1..Len(e.files) : e.files[i] = e.files[j] => i = j
      /\ disk \in [Files -> Contents] /\ f \in Files
  BY Keeps
<1>2. (\A g \in Files \ {f} : disk'[g] = disk[g]) /\ (disk' # disk => disk'[f] = v)
  BY <1>1
<1> HIDE DEF e, f
<1>3. \A i \in DOMAIN e.files : i # e.n => e.files[i] \in Files \ {f}
  BY <1>1
<1>4. Untouched(e, disk, before[c]) => Untouched(e, disk', before[c])
  BY <1>1, <1>2 DEF Untouched
<1> QED BY <1>2, <1>3, <1>4 DEF e, f

\* A file is entered with what was parsed of it, and it is what was read.
LEMMA EnterKept ==
    ASSUME TypeInv, LockInv, UndoableInv, KeptInv, NEW c \in Callers, Enter(c)
    PROVE  KeptInv' /\ OnceSuccessful
<1> DEFINE e == call[c]
           b == before[c]
           f == Here(c)
           s == [e.snap EXCEPT ![f] = disk[f]]
           d == [e EXCEPT !.snap = s]
           x == NextFile(d, "enter", Back(d, "apply"))
           y == [d EXCEPT !.at = "apply", !.k = 1, !.ir = None]
           r == IF d.kind = "cross" THEN x ELSE y
<1>1. /\ Active(c) /\ e.at = "enter"
      /\ disk' = disk /\ before' = before /\ pushed' = pushed
      /\ call' = [call EXCEPT ![c] = r]
  BY DEF Enter, At, Active, Continue
<1>2. e \in Calls /\ f \in Files /\ disk[f] \in Contents
  BY <1>1, Known
<1>3. \A p \in {"enter", "apply"} : p \in Points
  BY DEF Points
<1>4. s \in [Files -> Contents \cup {None}]
  BY <1>2 DEF Calls
<1> HIDE DEF s, e
<1>5. /\ d \in Calls /\ d.at = e.at /\ d.n = e.n /\ d.files = e.files /\ d.kind = e.kind
      /\ d.pre = e.pre /\ d.ops = e.ops /\ d.object = e.object /\ d.dirty = e.dirty
  BY <1>2, <1>4 DEF Calls
<1>6. /\ r.files = e.files /\ r.kind = e.kind /\ r.pre = e.pre /\ r.ops = e.ops
      /\ r.object = e.object /\ r.dirty = e.dirty
      /\ \/ e.kind = "cross" /\ r.at \in {"enter", "apply"}
         \/ /\ e.kind # "cross" /\ r.at = "apply" /\ r.n = e.n /\ r.k = 1
            /\ r.ir = None
  <2>1. CASE d.kind = "cross"
    <3>1. Moved(r, d, "enter", e.n + 1) \/ Moved(r, d, "apply", 1)
      BY <1>3, <1>5, <2>1, Turns
    <3>2. r.dirty = e.dirty
      <4> HIDE DEF d
      <4> QED BY <1>5, <3>1 DEF Moved
    <3> HIDE DEF r, d
    <3> QED BY <1>5, <2>1, <3>1, <3>2 DEF Moved
  <2>2. CASE d.kind # "cross"
    <3> HIDE DEF d
    <3> QED BY <1>5, <2>2 DEF Calls
  <2> QED BY <2>1, <2>2
<1> HIDE DEF d, r
<1>7. ASSUME Alone(c) PROVE Continued(c, e, r, disk', b, pushed')
  <2>1. /\ Kept(c, e, disk, b, pushed) /\ DOMAIN e.files = 1..Len(e.files)
        /\ Len(e.files) \in Nat /\ e.n \in 1..Len(e.files)
    BY <1>1, <1>7, Keeps DEF e
  <2> HIDE DEF b
  <2>2. CASE e.kind = "cross"
    <3>1. CrossKept(c, e, disk, b, pushed)
      BY <1>1, <2>1, <2>2 DEF Kept
    <3>2. CrossKept(c, r, disk, b, pushed)
      BY <1>1, <1>6, <2>2, <3>1 DEF CrossKept, PreRead, Untouched, Sound
    <3> QED BY <1>1, <1>6, <2>2, <3>2 DEF Continued, Kept
  <2>3. CASE e.kind # "cross"
    <3>1. BatchKept(c, e, disk, b, pushed)
      BY <1>1, <2>1, <2>3 DEF Kept
    <3>2. BatchKept(c, r, disk, b, pushed)
      <4>1. \A i, w : Sound(c, r, i, b, w) <=> Sound(c, e, i, b, w)
        BY <1>6, SameSound
      <4>2. Untouched(r, disk, b) /\ PreRead(c, r, b)
        BY <1>1, <1>6, <3>1 DEF BatchKept, Untouched, PreRead
      <4> QED BY <1>1, <1>6, <2>1, <2>3, <3>1, <4>1, <4>2 DEF BatchKept
    <3> QED BY <1>1, <1>6, <2>3, <3>2 DEF Continued, Kept
  <2> QED BY <2>2, <2>3
<1> QED BY <1>1, <1>7, OneKept DEF e

\* An operation of a batch: the first, if it is one of the objects, stays in the parse
\* result, which is what will be serialized.
LEMMA OpContinued ==
    ASSUME TypeInv, LockInv, UndoableInv, KeptInv, NEW c \in Callers, Active(c), Alone(c),
           call[c].at = "apply", call[c].kind = "batch", pushed' = pushed,
           NEW v, disk' = disk \/ disk' = [disk EXCEPT ![Here(c)] = v],
           NEW r, r.at \in {"apply", "write"}, r.ir # None,
           r.kind = call[c].kind, r.files = call[c].files, r.pre = call[c].pre,
           r.ops = call[c].ops, r.n = call[c].n,
           \A g \in Files : call[c].object[g] \subseteq r.object[g],
           call[c].ir = None /\ call[c].ops[Here(c)][1] = "object" =>
               <<c, 1>> \in r.object[Here(c)]
    PROVE  Continued(c, call[c], r, disk', before[c], pushed')
<1> DEFINE e == call[c]
           b == before[c]
           f == Here(c)
<1>1. /\ Kept(c, e, disk, b, pushed) /\ DOMAIN e.files = 1..Len(e.files)
      /\ Len(e.files) \in Nat /\ e.n \in 1..Len(e.files) /\ f = e.files[e.n]
      /\ \A i \in 1..Len(e.files) : e.files[i] \in Files
  BY Keeps
<1>2. /\ Untouched(e, disk, b) => Untouched(e, disk', b)
      /\ \A i \in DOMAIN e.files : i # e.n => disk'[e.files[i]] = disk[e.files[i]]
  BY Elsewhere
<1>3. /\ e.at = "apply" /\ e.kind = "batch" /\ r.kind = e.kind /\ r.files = e.files
      /\ r.pre = e.pre /\ r.ops = e.ops /\ r.n = e.n
      /\ \A g \in Files : e.object[g] \subseteq r.object[g]
      /\ e.ir = None /\ e.ops[f][1] = "object" => <<c, 1>> \in r.object[f]
  OBVIOUS
<1> HIDE DEF e, b, f
<1>4. BatchKept(c, e, disk, b, pushed)
  BY <1>1, <1>3 DEF Kept
<1>5. \A i, w : Sound(c, r, i, b, w) <=> Sound(c, e, i, b, w)
  BY <1>3, SameSound
<1>6. Untouched(r, disk', b) /\ PreRead(c, r, b)
  BY <1>2, <1>3, <1>4 DEF BatchKept, Untouched, PreRead
<1>7. \A i \in DOMAIN e.files : b[e.files[i]] \subseteq r.object[e.files[i]]
  BY <1>1, <1>3, <1>4 DEF BatchKept
<1>8. Sound(c, e, e.n, b, r.object[f])
  <2>1. CASE e.ir = None
    BY <1>1, <1>3, <1>7, <2>1 DEF Sound
  <2>2. CASE e.ir # None
    <3>1. Sound(c, e, e.n, b, e.object[f]) /\ e.object[f] \subseteq r.object[f]
      BY <1>1, <1>3, <1>4, <2>2 DEF BatchKept
    <3> QED BY <1>3, <3>1 DEF Sound
  <2> QED BY <2>1, <2>2
<1>9. \A i \in DOMAIN e.files : i < e.n =>
         /\ Sound(c, e, i, b, disk'[e.files[i]])
         /\ c \in Undoers => Told(e.files[i], disk', b, pushed)
  <2> SUFFICES ASSUME NEW i \in DOMAIN e.files, i < e.n
               PROVE  /\ Sound(c, e, i, b, disk'[e.files[i]])
                      /\ c \in Undoers => Told(e.files[i], disk', b, pushed)
    OBVIOUS
  <2>1. disk'[e.files[i]] = disk[e.files[i]]
    BY <1>1, <1>2
  <2>2. /\ Sound(c, e, i, b, disk[e.files[i]])
        /\ c \in Undoers => Told(e.files[i], disk, b, pushed)
    BY <1>3, <1>4 DEF BatchKept
  <2> QED BY <2>1, <2>2 DEF Told
<1>10. \A i \in DOMAIN e.files : i > e.n => disk'[e.files[i]] = b[e.files[i]]
  <2>1. \A i \in DOMAIN e.files : i > e.n => disk[e.files[i]] = b[e.files[i]] /\ i # e.n
    BY <1>1, <1>4 DEF BatchKept
  <2> QED BY <1>2, <2>1
<1>11. BatchKept(c, r, disk', b, pushed')
  BY <1>1, <1>3, <1>5, <1>6, <1>7, <1>8, <1>9, <1>10 DEF BatchKept
<1> QED BY <1>3, <1>11 DEF Continued, Kept, e, b

LEMMA OpKept ==
    ASSUME TypeInv, LockInv, UndoableInv, KeptInv, NEW c \in Callers, ApplyToObject(c) \/ ApplyRaw(c)
    PROVE  KeptInv' /\ OnceSuccessful
<1> DEFINE e == call[c]
           f == Here(c)
<1>1. /\ Active(c) /\ e.at = "apply" /\ e.kind = "batch"
      /\ before' = before /\ pushed' = pushed
  BY DEF ApplyToObject, ApplyRaw, BatchOp, At, Active
<1>2. /\ e \in Calls /\ f \in Files /\ disk[f] \in Contents
      /\ f = e.files[e.n] /\ Formed(c, e)
  BY <1>1, Known DEF Here
<1>3. PICK v : disk' = disk \/ disk' = [disk EXCEPT ![f] = v]
  BY DEF ApplyToObject, ApplyRaw, Write
<1>4. e.object[f] \in SUBSET Edits /\ Edit(c) \in Edits
  BY <1>1, Parsed DEF Ready
<1>5. Alone(c) /\ e.ir = None => e.k = 1
  BY <1>1, Keeps DEF Kept, BatchKept
<1>6. ASSUME NEW d, NEW w, w # None, call' = [call EXCEPT ![c] = NextOp(d, w)],
             d \in Calls, d.at = e.at, d.n = e.n, d.files = e.files, d.kind = e.kind,
             d.pre = e.pre, d.ops = e.ops,
             \A g \in Files : e.object[g] \subseteq d.object[g],
             Alone(c) /\ e.ir = None /\ e.ops[f][1] = "object" => <<c, 1>> \in d.object[f]
      PROVE  KeptInv' /\ OnceSuccessful
  <2> DEFINE r == NextOp(d, w)
  <2>1. /\ r.at \in {"apply", "write"} /\ r.ir = w /\ r.kind = d.kind /\ r.files = d.files
        /\ r.pre = d.pre /\ r.ops = d.ops /\ r.n = d.n /\ r.object = d.object
    <3> HIDE DEF e, f
    <3> QED BY <1>1, <1>6 DEF NextOp, Calls
  <2> HIDE DEF r
  <2>2. Alone(c) => Continued(c, e, r, disk', before[c], pushed')
    BY <1>1, <1>3, <1>6, <2>1, OpContinued
  <2> QED BY <1>1, <1>6, <2>2, OneKept DEF r
<1>7. CASE ApplyRaw(c)
  <2>1. PICK w : /\ call' = [call EXCEPT ![c] = NextOp(e, w)]
                 /\ w = (IF e.ir = None THEN e.object[f] ELSE e.ir) \cup {Edit(c)}
    BY <1>7 DEF ApplyRaw, Continue
  <2>2. e.ops[f][e.k] = "raw"
    BY <1>7 DEF ApplyRaw, BatchOp
  <2>3. f \in Boards
    <3>1. e.k \in DOMAIN e.ops[f]
      BY <1>1, <1>2 DEF Formed, Planned, Current
    <3> QED BY <1>2, <2>2, <3>1 DEF Formed, Planned
  <2>4. e.ir = None \/ e.ir \in SUBSET Edits
    <3>1. e.ir # Partial
      BY <1>1, <1>2, <2>3 DEF Formed, Complete, Current
    <3> QED BY <1>2, <3>1 DEF Calls, Contents
  <2>5. w # None
    <3>1. w \in SUBSET Edits
      BY <1>4, <2>1, <2>4
    <3> QED BY <3>1, DistinctContents
  <2>6. Alone(c) /\ e.ir = None => e.ops[f][1] # "object"
    BY <1>5, <2>2
  <2> QED BY <1>2, <1>6, <2>1, <2>5, <2>6
<1>8. CASE ApplyToObject(c)
  <2> DEFINE u == IF e.ir = None THEN e.object[f] \cup {Edit(c)} ELSE e.object[f]
             o == [e.object EXCEPT ![f] = u]
             d == [e EXCEPT !.object = o]
  <2>1. call' = [call EXCEPT ![c] = NextOp(d, disk[f])]
    BY <1>8 DEF ApplyToObject, Continue
  <2>2. u \in Contents /\ e.object[f] \subseteq u
        /\ (Alone(c) /\ e.ir = None => <<c, 1>> \in u)
    BY <1>4, <1>5 DEF Contents, Edit
  <2> HIDE DEF u, f
  <2>3. /\ o \in [Files -> Contents \cup {None}] /\ o[f] = u
        /\ \A g \in Files : e.object[g] \subseteq o[g]
    BY <1>2, <2>2 DEF Calls
  <2> HIDE DEF o, e
  <2>4. /\ d \in Calls /\ d.at = e.at /\ d.n = e.n /\ d.files = e.files /\ d.kind = e.kind
        /\ d.pre = e.pre /\ d.ops = e.ops /\ d.object = o
    BY <1>2, <2>3 DEF Calls
  <2>5. disk[f] # None
    BY <1>2, ContentTypes
  <2> HIDE DEF d
  <2> QED BY <1>6, <2>1, <2>2, <2>3, <2>4, <2>5 DEF e, f
<1> QED BY <1>7, <1>8

\* A batch writes the parse result to its file.
LEMMA BatchWritten ==
    ASSUME TypeInv, LockInv, UndoableInv, KeptInv, NEW c \in Callers, Active(c), Alone(c),
           call[c].at \in {"write", "writing"}, call[c].kind = "batch", pushed' = pushed,
           NEW v, disk' = disk \/ disk' = [disk EXCEPT ![Here(c)] = v],
           NEW r, r.kind = call[c].kind, r.files = call[c].files, r.pre = call[c].pre,
           r.ops = call[c].ops, r.n = call[c].n, r.object = call[c].object,
           r.at = "writing" \/ (r.at = "commit" /\ disk'[Here(c)] = r.object[Here(c)])
    PROVE  Continued(c, call[c], r, disk', before[c], pushed')
<1> DEFINE e == call[c]
           b == before[c]
           f == Here(c)
<1>1. /\ Kept(c, e, disk, b, pushed) /\ DOMAIN e.files = 1..Len(e.files)
      /\ Len(e.files) \in Nat /\ e.n \in 1..Len(e.files) /\ f = e.files[e.n]
  BY Keeps
<1>2. /\ Untouched(e, disk, b) => Untouched(e, disk', b)
      /\ \A i \in DOMAIN e.files : i # e.n => disk'[e.files[i]] = disk[e.files[i]]
  BY Elsewhere
<1>3. /\ e.at \in {"write", "writing"} /\ e.kind = "batch" /\ r.kind = e.kind
      /\ r.files = e.files /\ r.pre = e.pre /\ r.ops = e.ops /\ r.n = e.n
      /\ r.object = e.object
      /\ r.at = "writing" \/ (r.at = "commit" /\ disk'[f] = e.object[f])
  OBVIOUS
<1> HIDE DEF e, b, f
<1>4. BatchKept(c, e, disk, b, pushed)
  BY <1>1, <1>3 DEF Kept
<1>5. \A i, w : Sound(c, r, i, b, w) <=> Sound(c, e, i, b, w)
  BY <1>3, SameSound
<1>6. Untouched(r, disk', b) /\ PreRead(c, r, b)
  BY <1>2, <1>3, <1>4 DEF BatchKept, Untouched, PreRead
<1>7. Sound(c, e, e.n, b, e.object[f])
  BY <1>1, <1>3, <1>4 DEF BatchKept
<1>8. \A i \in DOMAIN e.files : i < e.n =>
         /\ Sound(c, e, i, b, disk'[e.files[i]])
         /\ c \in Undoers => Told(e.files[i], disk', b, pushed)
  <2> SUFFICES ASSUME NEW i \in DOMAIN e.files, i < e.n
               PROVE  /\ Sound(c, e, i, b, disk'[e.files[i]])
                      /\ c \in Undoers => Told(e.files[i], disk', b, pushed)
    OBVIOUS
  <2>1. disk'[e.files[i]] = disk[e.files[i]]
    BY <1>1, <1>2
  <2>2. /\ Sound(c, e, i, b, disk[e.files[i]])
        /\ c \in Undoers => Told(e.files[i], disk, b, pushed)
    BY <1>3, <1>4 DEF BatchKept
  <2> QED BY <2>1, <2>2 DEF Told
<1>9. \A i \in DOMAIN e.files : /\ i > e.n => disk'[e.files[i]] = b[e.files[i]]
                                /\ b[e.files[i]] \subseteq e.object[e.files[i]]
  <2>1. \A i \in DOMAIN e.files : i > e.n => disk[e.files[i]] = b[e.files[i]] /\ i # e.n
    BY <1>1, <1>4 DEF BatchKept
  <2>2. \A i \in DOMAIN e.files : b[e.files[i]] \subseteq e.object[e.files[i]]
    BY <1>3, <1>4 DEF BatchKept
  <2> QED BY <1>2, <2>1, <2>2
<1>10. BatchKept(c, r, disk', b, pushed')
  BY <1>1, <1>3, <1>5, <1>6, <1>7, <1>8, <1>9 DEF BatchKept
<1> QED BY <1>3, <1>10 DEF Continued, Kept, e, b

\* A cross-file operation leaves its file, or edits it and writes it.
LEMMA CrossWritten ==
    ASSUME TypeInv, LockInv, UndoableInv, KeptInv, NEW c \in Callers, Active(c), Alone(c),
           call[c].at \in {"apply", "writing"}, call[c].kind = "cross", pushed' = pushed,
           NEW v, disk' = disk \/ disk' = [disk EXCEPT ![Here(c)] = v],
           NEW r, r.kind = call[c].kind, r.files = call[c].files, r.pre = call[c].pre,
           r.ops = call[c].ops,
           \/ r.dirty = call[c].dirty /\ r.object = call[c].object
           \/ /\ r.dirty = call[c].dirty \cup {Here(c)}
              /\ \A g \in Files : call[c].object[g] \subseteq r.object[g]
              /\ <<c, 1>> \in r.object[Here(c)],
           \/ r.at = "writing" /\ r.n = call[c].n /\ Here(c) \in r.dirty
           \/ /\ r.at \in {"apply", "commit"}
              /\ disk'[Here(c)] = r.object[Here(c)]
              /\ Here(c) \in r.dirty \/ call[c].at = "writing"
           \/ /\ r.at \in {"apply", "commit"} /\ call[c].at = "apply"
              /\ disk' = disk /\ r.dirty = call[c].dirty
    PROVE  Continued(c, call[c], r, disk', before[c], pushed')
<1> DEFINE e == call[c]
           b == before[c]
           f == Here(c)
<1>1. /\ Kept(c, e, disk, b, pushed) /\ DOMAIN e.files = 1..Len(e.files)
      /\ Len(e.files) \in Nat /\ e.n \in 1..Len(e.files) /\ f = e.files[e.n]
      /\ \A i \in 1..Len(e.files) : e.files[i] \in Files
      /\ \A i, j \in 1..Len(e.files) : e.files[i] = e.files[j] => i = j
  BY Keeps
<1>2. /\ Untouched(e, disk, b) => Untouched(e, disk', b)
      /\ \A i \in DOMAIN e.files : i # e.n => disk'[e.files[i]] = disk[e.files[i]]
  BY Elsewhere
<1>3. /\ e.at \in {"apply", "writing"} /\ e.kind = "cross" /\ r.kind = e.kind
      /\ r.files = e.files /\ r.pre = e.pre /\ r.ops = e.ops
      /\ \/ r.dirty = e.dirty /\ r.object = e.object
         \/ /\ r.dirty = e.dirty \cup {f}
            /\ \A g \in Files : e.object[g] \subseteq r.object[g]
            /\ <<c, 1>> \in r.object[f]
      /\ \/ r.at = "writing" /\ r.n = e.n /\ f \in r.dirty
         \/ /\ r.at \in {"apply", "commit"} /\ disk'[f] = r.object[f]
            /\ f \in r.dirty \/ e.at = "writing"
         \/ /\ r.at \in {"apply", "commit"} /\ e.at = "apply"
            /\ disk' = disk /\ r.dirty = e.dirty
  OBVIOUS
<1> HIDE DEF e, b, f
<1>4. CrossKept(c, e, disk, b, pushed)
  BY <1>1, <1>3 DEF Kept
<1>5. Untouched(r, disk', b) /\ PreRead(c, r, b)
  BY <1>2, <1>3, <1>4 DEF CrossKept, Untouched, PreRead
<1>6. e.dirty \subseteq r.dirty /\ r.dirty \subseteq e.dirty \cup {f}
  BY <1>3
<1>7. \A i \in DOMAIN e.files : i # e.n =>
         /\ e.files[i] # f /\ (e.files[i] \in r.dirty <=> e.files[i] \in e.dirty)
  BY <1>1, <1>6
<1>8. \A i \in DOMAIN e.files : Sound(c, r, i, b, r.object[e.files[i]])
  <2>1. \A i \in DOMAIN e.files : Sound(c, e, i, b, e.object[e.files[i]])
    BY <1>3, <1>4 DEF CrossKept
  <2>2. CASE r.dirty = e.dirty /\ r.object = e.object
    <3>1. \A i, w : Sound(c, r, i, b, w) <=> Sound(c, e, i, b, w)
      BY <1>3, <2>2, SameSound
    <3> QED BY <2>1, <2>2, <3>1
  <2>3. CASE /\ r.dirty = e.dirty \cup {f}
             /\ \A g \in Files : e.object[g] \subseteq r.object[g]
             /\ <<c, 1>> \in r.object[f]
    BY <1>1, <1>3, <2>1, <2>3 DEF Sound
  <2> QED BY <1>3, <2>2, <2>3
<1>9. \A i \in DOMAIN e.files : i # e.n =>
         /\ Sound(c, r, i, b, disk'[e.files[i]])
         /\ e.files[i] \notin r.dirty => disk'[e.files[i]] = b[e.files[i]]
  <2>1. \A i \in DOMAIN e.files : i # e.n => Sound(c, e, i, b, disk[e.files[i]])
    BY <1>3, <1>4 DEF CrossKept
  <2>2. \A i \in DOMAIN e.files :
           e.files[i] \notin e.dirty => disk[e.files[i]] = b[e.files[i]]
    BY <1>4 DEF CrossKept
  <2> QED BY <1>2, <1>3, <1>7, <2>1, <2>2 DEF Sound
<1>10. e.at = "writing" => f \in r.dirty
  BY <1>1, <1>4, <1>6 DEF CrossKept
<1>11. r.at # "writing" => Sound(c, r, e.n, b, disk'[f])
  <2>1. CASE disk'[f] = r.object[f]
    BY <1>1, <1>8, <2>1
  <2>2. CASE e.at = "apply" /\ disk' = disk /\ r.dirty = e.dirty
    <3>1. Sound(c, e, e.n, b, disk[f])
      BY <1>1, <1>4, <2>2 DEF CrossKept
    <3> QED BY <1>3, <2>2, <3>1 DEF Sound
  <2> QED BY <1>3, <2>1, <2>2
<1>12. f \notin r.dirty => disk'[f] = b[f]
  <2>1. f \notin r.dirty => disk' = disk
    BY <1>3, <1>10
  <2> QED BY <1>1, <1>4, <1>6, <2>1 DEF CrossKept
<1>13. /\ r.at \in {"apply", "commit", "writing"}
       /\ r.at = "writing" => r.n = e.n /\ f \in r.dirty
  BY <1>3
<1>14. \A i \in DOMAIN r.files :
          /\ Sound(c, r, i, b, r.object[r.files[i]])
          /\ r.at \in {"apply", "commit", "push"} \/ (r.at = "writing" /\ i # r.n) =>
                 Sound(c, r, i, b, disk'[r.files[i]])
          /\ r.files[i] \notin r.dirty => disk'[r.files[i]] = b[r.files[i]]
  BY <1>1, <1>3, <1>8, <1>9, <1>11, <1>12, <1>13
<1>15. CrossKept(c, r, disk', b, pushed')
  BY <1>1, <1>3, <1>5, <1>13, <1>14 DEF CrossKept
<1> QED BY <1>3, <1>13, <1>15 DEF Continued, Kept, e, b

LEMMA SerializeKept ==
    ASSUME TypeInv, LockInv, UndoableInv, KeptInv, NEW c \in Callers, Serialize(c) \/ FinishWriting(c)
    PROVE  KeptInv' /\ OnceSuccessful
<1> DEFINE e == call[c]
           f == Here(c)
           q == [e EXCEPT !.at = "commit"]
           w == [e EXCEPT !.at = "writing"]
           x == Back(e, "commit")
           m == NextFile(e, "apply", x)
<1>1. /\ Active(c) /\ e.at \in {"write", "writing"} /\ before' = before /\ pushed' = pushed
  BY DEF Serialize, FinishWriting, At, Active
<1>2. /\ e \in Calls /\ e.kind \in {"batch", "cross"} /\ f \in Files
      /\ disk \in [Files -> Contents]
  BY <1>1, Known DEF Calls, TypeInv, TypeOK
<1>3. PICK v :
         /\ disk' = [disk EXCEPT ![f] = v]
         /\ \/ v = e.object[f] /\ call' = [call EXCEPT ![c] = q]
            \/ e.at = "write" /\ call' = [call EXCEPT ![c] = w]
            \/ /\ v = e.object[f] /\ e.kind = "cross" /\ e.at = "writing"
               /\ call' = [call EXCEPT ![c] = m]
         /\ e.kind = "cross" => e.at = "write" \/ call' = [call EXCEPT ![c] = m]
  BY <1>2 DEF Serialize, FinishWriting, Go, Continue, Write, At, TypeInv, TypeOK
<1>4. disk'[f] = v
  BY <1>2, <1>3
<1> HIDE DEF e
<1>5. \A p \in {"commit", "writing", "apply"} : p \in Points
  BY DEF Points
<1>6. Moved(q, e, "commit", e.n) /\ Moved(w, e, "writing", e.n)
  BY <1>2, <1>5, Moves
<1>7. Moved(x, e, "commit", 1) /\ (m = x \/ Moved(m, e, "apply", e.n + 1))
  BY <1>2, <1>5, Turns
<1>8. m.dirty = e.dirty
  BY <1>7 DEF Moved
<1> HIDE DEF q, w, x, m
<1>9. CASE e.kind = "batch"
  <2>1. PICK r : /\ call' = [call EXCEPT ![c] = r]
                 /\ r = w \/ (r = q /\ v = e.object[f])
    BY <1>3, <1>9
  <2>2. /\ r.kind = e.kind /\ r.files = e.files /\ r.pre = e.pre /\ r.ops = e.ops
        /\ r.n = e.n /\ r.object = e.object
        /\ r.at = "writing" \/ (r.at = "commit" /\ disk'[f] = e.object[f])
    BY <1>4, <1>6, <2>1 DEF Moved
  <2>3. Alone(c) => Continued(c, call[c], r, disk', before[c], pushed')
    BY <1>1, <1>3, <1>9, <2>2, BatchWritten DEF e
  <2> QED BY <1>1, <2>1, <2>3, OneKept
<1>10. CASE e.kind = "cross" /\ e.at = "write"
  <2>1. ~Alone(c)
    BY <1>1, <1>10, Keeps DEF Kept, CrossKept, e
  <2>2. \E r : call' = [call EXCEPT ![c] = r]
    BY <1>3
  <2> QED BY <1>1, <2>1, <2>2, OneKept
<1>11. CASE e.kind = "cross" /\ e.at = "writing"
  <2>1. call' = [call EXCEPT ![c] = m]
    BY <1>3, <1>11
  <2>2. v = e.object[f]
    <3>1. q # w /\ m # w
      <4>1. q.at = "commit" /\ w.at = "writing" /\ m.at # "writing"
        BY <1>6, <1>7 DEF Moved
      <4> QED BY <4>1
    <3> QED BY <1>3, <1>11
  <2>3. /\ m.kind = e.kind /\ m.files = e.files /\ m.pre = e.pre /\ m.ops = e.ops
        /\ m.object = e.object /\ m.at \in {"apply", "commit"}
    BY <1>7 DEF Moved
  <2>4. Alone(c) => Continued(c, call[c], m, disk', before[c], pushed')
    BY <1>1, <1>3, <1>4, <1>8, <1>11, <2>2, <2>3, CrossWritten DEF e
  <2> QED BY <1>1, <2>1, <2>4, OneKept
<1> QED BY <1>1, <1>2, <1>9, <1>10, <1>11 DEF e

LEMMA EditKept ==
    ASSUME TypeInv, LockInv, UndoableInv, KeptInv, NEW c \in Callers, EditFile(c)
    PROVE  KeptInv' /\ OnceSuccessful
<1> DEFINE e == call[c]
           f == Here(c)
           v == e.object[f] \cup {Edit(c)}
           o == [e.object EXCEPT ![f] = v]
           u == e.dirty \cup {f}
           d == [e EXCEPT !.object = o, !.dirty = u]
<1>1. /\ Active(c) /\ e.at = "apply" /\ e.kind = "cross"
      /\ before' = before /\ pushed' = pushed
  BY DEF EditFile, CrossAt, At, Active
<1>2. /\ e \in Calls /\ f \in Files /\ Formed(c, e) /\ disk \in [Files -> Contents]
  BY <1>1, Known DEF TypeInv, TypeOK
<1>3. v \in Contents /\ <<c, 1>> \in v /\ e.object[f] \subseteq v
  <2>1. e.object[f] \in SUBSET Edits /\ Edit(c) \in Edits
    BY <1>1, Parsed DEF Ready
  <2>2. Edit(c) = <<c, 1>>
    BY <1>1, <1>2 DEF Edit, Formed, Planned
  <2> QED BY <2>1, <2>2 DEF Contents
<1> HIDE DEF v
<1>4. /\ o \in [Files -> Contents \cup {None}] /\ u \in SUBSET Files
      /\ o[f] = v /\ \A g \in Files : e.object[g] \subseteq o[g]
  BY <1>2, <1>3 DEF Calls
<1>5. d = [e EXCEPT !.object[f] = @ \cup {Edit(c)}, !.dirty = @ \cup {f}]
  BY <1>2 DEF Calls, v
<1> HIDE DEF d
<1>6. PICK g \in {e, d} :
        \/ /\ call' = [call EXCEPT ![c] = NextFile(g, "apply", Back(g, "commit"))]
           /\ (g = e /\ disk' = disk) \/ (g = d /\ disk' = [disk EXCEPT ![f] = d.object[f]])
        \/ /\ call' = [call EXCEPT ![c] = [g EXCEPT !.at = "writing"]]
           /\ g = d /\ disk' = [disk EXCEPT ![f] = Partial]
  BY <1>5 DEF EditFile, Continue, Write
<1>7. /\ d \in Calls /\ d.at = e.at /\ d.n = e.n /\ d.files = e.files /\ d.kind = e.kind
      /\ d.pre = e.pre /\ d.ops = e.ops /\ d.object = o /\ d.dirty = u
  <2> HIDE DEF e, o, u
  <2> QED BY <1>2, <1>4 DEF Calls, d
<1>8. f \in u
  OBVIOUS
<1> HIDE DEF e, f, o, u
<1>9. /\ g \in Calls /\ g.n = e.n /\ g.files = e.files /\ g.kind = e.kind
      /\ g.pre = e.pre /\ g.ops = e.ops
  BY <1>2, <1>6, <1>7
<1>10. \A p \in {"commit", "writing", "apply"} : p \in Points
  BY DEF Points
<1> DEFINE x == [g EXCEPT !.at = "writing"]
           y == Back(g, "commit")
           m == NextFile(g, "apply", y)
<1>11. Moved(x, g, "writing", g.n)
  BY <1>9, <1>10, Moves
<1>12. Moved(y, g, "commit", 1) /\ (m = y \/ Moved(m, g, "apply", g.n + 1))
  BY <1>9, <1>10, Turns
<1>13. x.dirty = g.dirty /\ m.dirty = g.dirty
  BY <1>11, <1>12 DEF Moved
<1> HIDE DEF x
<1>14. PICK r, z :
          /\ call' = [call EXCEPT ![c] = r]
          /\ disk' = disk \/ disk' = [disk EXCEPT ![f] = z]
          /\ \/ r = m /\ g = e /\ disk' = disk
             \/ r = m /\ g = d /\ disk' = [disk EXCEPT ![f] = o[f]]
             \/ r = x /\ g = d
  <2>1. CASE /\ call' = [call EXCEPT ![c] = m]
             /\ (g = e /\ disk' = disk) \/ (g = d /\ disk' = [disk EXCEPT ![f] = d.object[f]])
    BY <1>7, <2>1
  <2>2. CASE /\ call' = [call EXCEPT ![c] = x]
             /\ g = d /\ disk' = [disk EXCEPT ![f] = Partial]
    BY <2>2
  <2> QED BY <1>6, <2>1, <2>2 DEF x
<1> HIDE DEF m, y
<1>15. /\ r.files = e.files /\ r.kind = e.kind /\ r.pre = e.pre /\ r.ops = e.ops
       /\ r.object = g.object /\ r.dirty = g.dirty
       /\ r = x => r.at = "writing" /\ r.n = e.n
       /\ r = m => r.at \in {"apply", "commit"}
  BY <1>9, <1>11, <1>12, <1>13, <1>14 DEF Moved
<1>16. \/ r.dirty = e.dirty /\ r.object = e.object
       \/ /\ r.dirty = e.dirty \cup {f}
          /\ \A h \in Files : e.object[h] \subseteq r.object[h]
          /\ <<c, 1>> \in r.object[f]
  <2>1. u = e.dirty \cup {f}
    BY DEF u
  <2> QED BY <1>3, <1>4, <1>6, <1>7, <1>15, <2>1
<1>17. \/ r.at = "writing" /\ r.n = e.n /\ f \in r.dirty
       \/ /\ r.at \in {"apply", "commit"} /\ disk'[f] = r.object[f]
          /\ f \in r.dirty \/ e.at = "writing"
       \/ /\ r.at \in {"apply", "commit"} /\ e.at = "apply"
          /\ disk' = disk /\ r.dirty = e.dirty
  <2>1. CASE r = m /\ g = e /\ disk' = disk
    BY <1>1, <1>15, <2>1 DEF e
  <2>2. CASE r = m /\ g = d /\ disk' = [disk EXCEPT ![f] = o[f]]
    BY <1>2, <1>7, <1>8, <1>15, <2>2
  <2>3. CASE r = x /\ g = d
    BY <1>7, <1>8, <1>15, <2>3
  <2> QED BY <1>14, <2>1, <2>2, <2>3
<1>18. Alone(c) => Continued(c, call[c], r, disk', before[c], pushed')
  BY <1>1, <1>14, <1>15, <1>16, <1>17, CrossWritten DEF e, f
<1> QED BY <1>1, <1>14, <1>18, OneKept

\* A file is left behind, committed, or its entry pushed.
LEMMA LeaveContinued ==
    ASSUME TypeInv, LockInv, UndoableInv, KeptInv, NEW c \in Callers, Active(c), Alone(c),
           call[c].at \in {"commit", "push"}, disk' = disk,
           \A g \in Files \ {Here(c)} : pushed'[g] = pushed[g],
           NEW passed \in BOOLEAN,
           passed /\ c \in Undoers => Told(Here(c), disk, before[c], pushed'),
           NEW r,
           \/ /\ r = Ended("ok") /\ call[c].n = Len(call[c].files)
              /\ c \in Undoers => call[c].at = "push" /\ passed
           \/ /\ r.kind = call[c].kind /\ r.files = call[c].files /\ r.pre = call[c].pre
              /\ r.ops = call[c].ops /\ r.object = call[c].object
              /\ r.kind = "cross" => r.dirty = call[c].dirty
              /\ \/ /\ r.kind = "batch" /\ r.at = "push" /\ r.n = call[c].n
                 \/ /\ r.kind = "batch" /\ r.at = "enter" /\ r.n = call[c].n + 1
                    /\ passed
                 \/ /\ r.kind = "cross" /\ r.at = call[c].at /\ r.n = call[c].n + 1
                    /\ r.at = "push" => passed
                 \/ /\ r.kind = "cross" /\ r.at = "push" /\ r.n = 1
    PROVE  Continued(c, call[c], r, disk', before[c], pushed')
<1> DEFINE e == call[c]
           b == before[c]
           f == Here(c)
<1>1. /\ Kept(c, e, disk, b, pushed) /\ DOMAIN e.files = 1..Len(e.files)
      /\ Len(e.files) \in Nat /\ e.n \in 1..Len(e.files) /\ f = e.files[e.n]
      /\ \A i \in 1..Len(e.files) : e.files[i] \in Files
      /\ \A i, j \in 1..Len(e.files) : e.files[i] = e.files[j] => i = j
      /\ e.kind \in {"batch", "cross"}
  BY Keeps
<1>2. /\ e.at \in {"commit", "push"}
      /\ \A g \in Files \ {f} : pushed'[g] = pushed[g]
      /\ passed /\ c \in Undoers => Told(f, disk, b, pushed')
      /\ \/ /\ r = Ended("ok") /\ e.n = Len(e.files)
            /\ c \in Undoers => e.at = "push" /\ passed
         \/ /\ r.kind = e.kind /\ r.files = e.files /\ r.pre = e.pre
            /\ r.ops = e.ops /\ r.object = e.object
            /\ r.kind = "cross" => r.dirty = e.dirty
            /\ \/ /\ r.kind = "batch" /\ r.at = "push" /\ r.n = e.n
               \/ /\ r.kind = "batch" /\ r.at = "enter" /\ r.n = e.n + 1 /\ passed
               \/ /\ r.kind = "cross" /\ r.at = e.at /\ r.n = e.n + 1
                  /\ r.at = "push" => passed
               \/ /\ r.kind = "cross" /\ r.at = "push" /\ r.n = 1
  OBVIOUS
<1>12. e.at = "push" => c \in Undoers
  BY Known DEF Formed, Prepared
<1> HIDE DEF e, b, f
<1>3. \A i \in DOMAIN e.files :
         /\ i < e.n + 1 <=> i < e.n \/ i = e.n
         /\ ~(i < 1) /\ (i < e.n => i # e.n) /\ (i >= e.n + 1 => i > e.n)
         /\ i < e.n \/ i = e.n \/ i > e.n
         /\ e.n = Len(e.files) => i < e.n \/ i = e.n
         /\ i > e.n + 1 \/ i = e.n + 1 => i > e.n
  BY <1>1
<1>4. \A i \in DOMAIN e.files : i < e.n => pushed'[e.files[i]] = pushed[e.files[i]]
  BY <1>1, <1>2, <1>3
<1>5. Untouched(e, disk, b) /\ PreRead(c, e, b)
  BY <1>1, <1>2 DEF Kept, CrossKept, BatchKept
<1>6. \A i \in DOMAIN e.files :
         i < e.n \/ i = e.n => Sound(c, e, i, b, disk[e.files[i]])
  <2>1. CASE e.kind = "cross"
    BY <1>1, <1>2, <2>1 DEF Kept, CrossKept
  <2>2. CASE e.kind = "batch"
    BY <1>1, <1>2, <2>2 DEF Kept, BatchKept
  <2> QED BY <1>1, <2>1, <2>2
<1>7. e.at = "push" \/ e.kind = "batch" => \A i \in DOMAIN e.files :
         i < e.n /\ c \in Undoers => Told(e.files[i], disk, b, pushed')
  <2> SUFFICES ASSUME e.at = "push" \/ e.kind = "batch", NEW i \in DOMAIN e.files,
                      i < e.n, c \in Undoers
               PROVE  Told(e.files[i], disk, b, pushed')
    OBVIOUS
  <2>1. CASE e.kind = "cross"
    <3>1. Told(e.files[i], disk, b, pushed)
      BY <1>1, <2>1 DEF Kept, CrossKept
    <3> QED BY <1>4, <3>1 DEF Told
  <2>2. CASE e.kind = "batch"
    <3>1. Told(e.files[i], disk, b, pushed)
      BY <1>1, <1>2, <2>2 DEF Kept, BatchKept
    <3> QED BY <1>4, <3>1 DEF Told
  <2> QED BY <1>1, <2>1, <2>2
<1>8. CASE /\ r = Ended("ok") /\ e.n = Len(e.files)
           /\ c \in Undoers => e.at = "push" /\ passed
  <2>1. \A i \in DOMAIN e.files : i < e.n \/ i = e.n
    BY <1>3, <1>8
  <2>2. c \in Undoers => \A i \in DOMAIN e.files : Told(e.files[i], disk, b, pushed')
    BY <1>1, <1>2, <1>7, <1>8, <2>1
  <2>3. c \in Undoers => \A g \in Files : Told(g, disk, b, pushed')
    BY <1>5, <2>2 DEF Untouched, Told
  <2>4. Successful(c, e, disk, b, pushed')
    BY <1>6, <2>1, <2>3 DEF Successful
  <2> QED BY <1>8, <2>4 DEF Continued, e, b
<1>9. CASE r.kind = "batch" /\ r.kind = e.kind /\ r # Ended("ok")
  <2>1. BatchKept(c, e, disk, b, pushed)
    BY <1>1, <1>2, <1>9 DEF Kept
  <2>2. /\ r.files = e.files /\ r.pre = e.pre /\ r.ops = e.ops /\ r.object = e.object
        /\ \/ r.at = "push" /\ r.n = e.n
           \/ r.at = "enter" /\ r.n = e.n + 1 /\ passed
    BY <1>2, <1>9
  <2>3. \A i, w : Sound(c, r, i, b, w) <=> Sound(c, e, i, b, w)
    BY <1>9, <2>2, SameSound
  <2>4. Untouched(r, disk, b) /\ PreRead(c, r, b)
    BY <1>2, <1>5, <2>2 DEF Untouched, PreRead
  <2>5. \A i \in DOMAIN e.files : i < r.n =>
           /\ Sound(c, e, i, b, disk[e.files[i]])
           /\ c \in Undoers => Told(e.files[i], disk, b, pushed')
    <3> SUFFICES ASSUME NEW i \in DOMAIN e.files, i < r.n
                 PROVE  /\ Sound(c, e, i, b, disk[e.files[i]])
                        /\ c \in Undoers => Told(e.files[i], disk, b, pushed')
      OBVIOUS
    <3>1. i < e.n \/ (i = e.n /\ passed)
      BY <1>3, <2>2
    <3> QED BY <1>1, <1>2, <1>6, <1>7, <1>9, <3>1
  <2>6. \A i \in DOMAIN e.files :
           i > r.n \/ (i = r.n /\ r.at = "enter") => disk[e.files[i]] = b[e.files[i]]
    <3>1. \A i \in DOMAIN e.files : i > e.n => disk[e.files[i]] = b[e.files[i]]
      BY <2>1 DEF BatchKept
    <3>2. \A i \in DOMAIN e.files : i > r.n \/ (i = r.n /\ r.at = "enter") => i > e.n
      BY <1>3, <2>2
    <3> QED BY <3>1, <3>2
  <2>7. r.at = "push" => Sound(c, e, r.n, b, disk[e.files[r.n]])
    BY <1>1, <1>6, <2>2
  <2>8. \A i \in DOMAIN e.files : b[e.files[i]] \subseteq e.object[e.files[i]]
    BY <1>2, <2>1 DEF BatchKept
  <2>9. BatchKept(c, r, disk, b, pushed')
    BY <2>2, <2>3, <2>4, <2>5, <2>6, <2>7, <2>8 DEF BatchKept
  <2> QED BY <1>9, <2>2, <2>9 DEF Continued, Kept, e, b
<1>10. CASE r.kind = "cross" /\ r.kind = e.kind /\ r # Ended("ok")
  <2>1. CrossKept(c, e, disk, b, pushed)
    BY <1>1, <1>2, <1>10 DEF Kept
  <2>2. /\ r.files = e.files /\ r.pre = e.pre /\ r.ops = e.ops /\ r.object = e.object
        /\ r.dirty = e.dirty
        /\ \/ r.at = e.at /\ r.n = e.n + 1 /\ (r.at = "push" => passed)
           \/ r.at = "push" /\ r.n = 1
    BY <1>2, <1>10
  <2>3. \A i, w : Sound(c, r, i, b, w) <=> Sound(c, e, i, b, w)
    BY <1>10, <2>2, SameSound
  <2>4. Untouched(r, disk, b) /\ PreRead(c, r, b)
    BY <1>2, <1>5, <2>2 DEF Untouched, PreRead
  <2>5. r.at \in {"commit", "push"}
    BY <1>2, <2>2
  <2>6. \A i \in DOMAIN e.files : r.at = "push" /\ i < r.n => Told(e.files[i], disk, b, pushed')
    <3> SUFFICES ASSUME NEW i \in DOMAIN e.files, r.at = "push", i < r.n
                 PROVE  Told(e.files[i], disk, b, pushed')
      OBVIOUS
    <3>1. e.at = "push" /\ passed /\ (i < e.n \/ i = e.n)
      BY <1>3, <2>2
    <3>2. c \in Undoers
      BY <1>12, <3>1
    <3> QED BY <1>1, <1>2, <1>7, <3>1, <3>2
  <2>7. CrossKept(c, r, disk, b, pushed')
    BY <1>2, <2>1, <2>2, <2>3, <2>4, <2>5, <2>6 DEF CrossKept
  <2> QED BY <1>10, <2>5, <2>7 DEF Continued, Kept, e, b
<1>11. r = Ended("ok") \/ (r.kind = e.kind /\ r.kind \in {"batch", "cross"})
  BY <1>1, <1>2
<1>13. \/ /\ r = Ended("ok") /\ e.n = Len(e.files)
          /\ c \in Undoers => e.at = "push" /\ passed
       \/ r # Ended("ok")
  <2>1. Ended("ok").at = "done"
    BY DEF Ended, Idle
  <2> QED BY <1>2, <2>1
<1> QED BY <1>8, <1>9, <1>10, <1>11, <1>13

LEMMA CommitKept ==
    ASSUME TypeInv, LockInv, UndoableInv, KeptInv, NEW c \in Callers, CommitFile(c) \/ CommitOne(c)
    PROVE  KeptInv' /\ OnceSuccessful
<1> DEFINE e == call[c]
           s == [e.snap EXCEPT ![Here(c)] = None]
           d == [e EXCEPT !.snap = s]
<1>1. /\ Active(c) /\ e.at = "commit" /\ disk' = disk /\ before' = before
      /\ pushed' = pushed /\ e.kind = IF CommitFile(c) THEN "batch" ELSE "cross"
  BY DEF CommitFile, CommitOne, CrossAt, At, Active
<1>2. e \in Calls /\ Here(c) \in Files
  BY <1>1, Known
<1>3. s \in [Files -> Contents \cup {None}]
  BY <1>2 DEF Calls
<1>4. d = [e EXCEPT !.snap[Here(c)] = None]
  OBVIOUS
<1> HIDE DEF s
<1>5. /\ d \in Calls /\ d.at = e.at /\ d.n = e.n /\ d.files = e.files /\ d.kind = e.kind
      /\ d.pre = e.pre /\ d.ops = e.ops /\ d.object = e.object /\ d.dirty = e.dirty
  <2> HIDE DEF e
  <2> QED BY <1>2, <1>3 DEF Calls
<1> HIDE DEF d
<1>6. \A p \in {"enter", "commit", "push"} : p \in Points
  BY DEF Points
<1> DEFINE p == IF CommitFile(c) THEN "enter" ELSE "commit"
           o == IF c \in Undoers THEN Back(d, "push") ELSE Ended("ok")
           x == [d EXCEPT !.at = "push"]
           m == NextFile(d, p, o)
<1>7. IF CommitFile(c) /\ c \in Undoers THEN call' = [call EXCEPT ![c] = x]
      ELSE call' = [call EXCEPT ![c] = m]
  BY <1>4 DEF CommitFile, CommitOne, Continue
<1>8. /\ Moved(x, d, "push", e.n)
      /\ Moved(Back(d, "push"), d, "push", 1)
      /\ d.n = Len(d.files) => m = o
      /\ d.n # Len(d.files) => Moved(m, d, p, d.n + 1)
  <2>1. p \in Points
    BY <1>6
  <2>2. d \in Calls /\ d.n \in Nat /\ d.n = e.n
    BY <1>5 DEF Calls
  <2> HIDE DEF p, o, e
  <2>3. Moved(x, d, "push", e.n) /\ Moved(Back(d, "push"), d, "push", 1)
    BY <1>6, <2>2, Turns, Moves
  <2>4. /\ d.n = Len(d.files) => m = o
        /\ d.n # Len(d.files) => Moved(m, d, p, d.n + 1)
    BY <2>1, <2>2, Turns
  <2> QED BY <2>3, <2>4
<1> HIDE DEF x, m, e
<1>9. PICK r :
         /\ call' = [call EXCEPT ![c] = r]
         /\ \/ r = Ended("ok") /\ e.n = Len(e.files) /\ c \notin Undoers
            \/ /\ r.kind = e.kind /\ r.files = e.files /\ r.pre = e.pre
               /\ r.ops = e.ops /\ r.object = e.object
               /\ r.kind = "cross" => r.dirty = e.dirty
               /\ \/ r.kind = "batch" /\ r.at = "push" /\ r.n = e.n
                  \/ r.kind = "batch" /\ r.at = "enter" /\ r.n = e.n + 1 /\ c \notin Undoers
                  \/ r.kind = "cross" /\ r.at = "commit" /\ r.n = e.n + 1
                  \/ r.kind = "cross" /\ r.at = "push" /\ r.n = 1
  <2>1. CASE CommitFile(c) /\ c \in Undoers
    BY <1>1, <1>5, <1>7, <1>8, <2>1 DEF Moved
  <2>2. CASE ~(CommitFile(c) /\ c \in Undoers) /\ d.n # Len(d.files)
    <3>1. Moved(m, d, p, d.n + 1) /\ call' = [call EXCEPT ![c] = m]
      BY <1>7, <1>8, <2>2
    <3>2. /\ m.kind = e.kind /\ m.files = e.files /\ m.pre = e.pre /\ m.ops = e.ops
          /\ m.object = e.object /\ m.at = p /\ m.n = e.n + 1 /\ m.dirty = e.dirty
      BY <1>5, <3>1 DEF Moved
    <3> QED BY <1>1, <2>2, <3>1, <3>2
  <2>3. CASE ~(CommitFile(c) /\ c \in Undoers) /\ d.n = Len(d.files)
    BY <1>1, <1>5, <1>7, <1>8, <2>3 DEF Moved
  <2> QED BY <2>1, <2>2, <2>3
<1>10. ASSUME Alone(c) PROVE Continued(c, call[c], r, disk', before[c], pushed')
  <2> DEFINE passed == c \notin Undoers
  <2>1. passed \in BOOLEAN /\ (passed => c \notin Undoers)
        /\ (passed /\ c \in Undoers => Told(Here(c), disk, before[c], pushed'))
    OBVIOUS
  <2>2. \/ /\ r = Ended("ok") /\ e.n = Len(e.files)
           /\ c \in Undoers => e.at = "push" /\ passed
        \/ /\ r.kind = e.kind /\ r.files = e.files /\ r.pre = e.pre
           /\ r.ops = e.ops /\ r.object = e.object
           /\ r.kind = "cross" => r.dirty = e.dirty
           /\ \/ r.kind = "batch" /\ r.at = "push" /\ r.n = e.n
              \/ r.kind = "batch" /\ r.at = "enter" /\ r.n = e.n + 1 /\ passed
              \/ /\ r.kind = "cross" /\ r.at = e.at /\ r.n = e.n + 1
                 /\ r.at = "push" => passed
              \/ r.kind = "cross" /\ r.at = "push" /\ r.n = 1
    BY <1>1, <1>9 DEF e
  <2> HIDE DEF passed
  <2>3. /\ call[c].at \in {"commit", "push"}
        /\ \A g \in Files \ {Here(c)} : pushed'[g] = pushed[g]
    BY <1>1 DEF e
  <2> QED BY <1>1, <1>10, <2>1, <2>2, <2>3, LeaveContinued DEF e
<1> QED BY <1>1, <1>9, <1>10, OneKept

\* The entry that is pushed has what was read before and what the file holds now.
LEMMA PushKept ==
    ASSUME TypeInv, LockInv, UndoableInv, KeptInv, NEW c \in Callers, PushFile(c) \/ PushOne(c)
    PROVE  KeptInv' /\ OnceSuccessful
<1> DEFINE e == call[c]
           f == Here(c)
           b == before[c]
           t == [pre |-> e.pre[f], post |-> disk[f]]
           p == IF PushFile(c) THEN "enter" ELSE "push"
           m == NextFile(e, p, Ended("ok"))
<1>1. /\ Active(c) /\ e.at = "push" /\ disk' = disk /\ before' = before
      /\ e.kind = IF PushFile(c) THEN "batch" ELSE "cross"
      /\ call' = [call EXCEPT ![c] = m]
      /\ \/ pushed' = [pushed EXCEPT ![f] = Append(pushed[f], t)]
         \/ pushed' = pushed /\ e.kind = "cross" /\ f \notin e.dirty
  <2>1. CASE PushFile(c)
    BY <2>1 DEF PushFile, At, Active, Continue
  <2>2. CASE PushOne(c) /\ ~PushFile(c)
    BY <2>2 DEF PushOne, CrossAt, At, Active, Continue
  <2> QED BY <2>1, <2>2
<1>2. e \in Calls /\ f \in Files
  BY <1>1, Known
<1>3. p \in Points
  BY DEF Points
<1> HIDE DEF e, m
<1>4. /\ e.n = Len(e.files) => m = Ended("ok")
      /\ e.n # Len(e.files) => Moved(m, e, p, e.n + 1) /\ m.dirty = e.dirty
  <2>1. Moved(m, e, p, e.n + 1) => m.at # "done"
    BY DEF Moved
  <2>2. Ended("ok").at = "done"
    BY DEF Ended, Idle
  <2> QED BY <1>2, <1>3, <2>1, <2>2, Turns DEF m, Moved
<1>5. ASSUME Alone(c) PROVE Continued(c, e, m, disk', b, pushed')
  <2>1. /\ Kept(c, e, disk, b, pushed) /\ DOMAIN e.files = 1..Len(e.files)
        /\ e.n \in 1..Len(e.files) /\ f = e.files[e.n]
        /\ pushed \in [Files -> Seq([pre : Contents, post : Contents])]
        /\ DOMAIN pushed = Files
    BY <1>1, <1>5, Keeps DEF e
  <2> DEFINE S == pushed[f]
  <2>2. S \in Seq([pre : Contents, post : Contents])
    BY <1>2, <2>1
  <2>3. c \in Undoers => e.pre[f] = b[f]
    BY <1>1, <2>1 DEF Kept, CrossKept, BatchKept, PreRead
  <2>4. f \notin e.dirty /\ e.kind = "cross" => disk[f] = b[f]
    BY <1>1, <2>1 DEF Kept, CrossKept
  <2>5. c \in Undoers
    BY <1>1, Known DEF Formed, Prepared, e
  <2>6. t \in [pre : Contents, post : Contents]
    BY <1>2, <1>5, <2>3, <2>5 DEF TypeInv, TypeOK, Alone
  <2>7. Append(S, t) # <<>> /\ Append(S, t)[Len(Append(S, t))] = t
    <3> HIDE DEF S, t
    <3> QED BY <2>2, <2>6, AppendProperties
  <2>8. Told(f, disk, b, pushed')
    <3>1. CASE pushed' = [pushed EXCEPT ![f] = Append(pushed[f], t)]
      <4>1. pushed'[f] = Append(S, t)
        BY <1>2, <2>1, <3>1
      <4> QED BY <2>3, <2>5, <2>7, <4>1 DEF Told
    <3>2. CASE pushed' = pushed /\ e.kind = "cross" /\ f \notin e.dirty
      BY <2>4, <3>2 DEF Told
    <3> QED BY <1>1, <3>1, <3>2
  <2>9. \A g \in Files \ {f} : pushed'[g] = pushed[g]
    <3> HIDE DEF t
    <3> QED BY <1>1, <2>1
  <2>10. \/ m = Ended("ok") /\ e.n = Len(e.files)
         \/ /\ m.kind = e.kind /\ m.files = e.files /\ m.pre = e.pre
            /\ m.ops = e.ops /\ m.object = e.object /\ m.dirty = e.dirty
            /\ \/ m.kind = "batch" /\ m.at = "enter" /\ m.n = e.n + 1
               \/ m.kind = "cross" /\ m.at = e.at /\ m.n = e.n + 1
    BY <1>1, <1>4 DEF Moved
  <2> DEFINE passed == TRUE
  <2>11. passed \in BOOLEAN /\ (passed /\ c \in Undoers => Told(f, disk, b, pushed'))
         /\ passed
    BY <2>8
  <2> HIDE DEF passed
  <2>12. \/ /\ m = Ended("ok") /\ e.n = Len(e.files)
            /\ c \in Undoers => e.at = "push" /\ passed
         \/ /\ m.kind = e.kind /\ m.files = e.files /\ m.pre = e.pre
            /\ m.ops = e.ops /\ m.object = e.object
            /\ m.kind = "cross" => m.dirty = e.dirty
            /\ \/ m.kind = "batch" /\ m.at = "push" /\ m.n = e.n
               \/ m.kind = "batch" /\ m.at = "enter" /\ m.n = e.n + 1 /\ passed
               \/ /\ m.kind = "cross" /\ m.at = e.at /\ m.n = e.n + 1
                  /\ m.at = "push" => passed
               \/ m.kind = "cross" /\ m.at = "push" /\ m.n = 1
    BY <1>1, <2>10, <2>11
  <2> QED BY <1>1, <1>5, <2>9, <2>11, <2>12, LeaveContinued DEF e
<1> QED BY <1>1, <1>5, OneKept DEF e

\* Nothing is on at first, and every step keeps what a call has.
LEMMA InitKept == Init => KeptInv
BY DEF Init, KeptInv, Alone

LEMMA NextKept ==
    TypeInv /\ LockInv /\ UndoableInv /\ KeptInv /\ [Next]_vars => KeptInv' /\ [OnceSuccessful]_vars
<1> SUFFICES ASSUME TypeInv, LockInv, UndoableInv, KeptInv, [Next]_vars
             PROVE  KeptInv' /\ [OnceSuccessful]_vars
  OBVIOUS
<1>1. CASE UNCHANGED vars
  BY <1>1 DEF vars, KeptInv, Active, Alone
<1>2. ASSUME NEW c \in Callers, ExecuteBatch(c) \/ ExecuteCrossFile(c)
      PROVE  KeptInv' /\ OnceSuccessful
  BY <1>2, BeginKept
<1>3. ASSUME NEW c \in Callers, Step(c) PROVE KeptInv' /\ OnceSuccessful
  BY <1>3, FailKept, ReadKept, EnterKept, OpKept, SerializeKept, EditKept, CommitKept,
     PushKept DEF Step
<1> QED BY <1>1, <1>2, <1>3 DEF Next

\* A call that succeeds loses nothing that its files held; a cross-file operation has
\* made each of its edits, a batch the first of each file if it is one of the objects.
THEOREM SuccessIsKept == Spec => SuccessKept
<1>1. OnceSuccessful =>
        \A c \in Callers :
            Alone(c) /\ Ends(c, "ok") =>
                \A i \in DOMAIN call[c].files :
                    LET f == call[c].files[i] IN
                    /\ before[c][f] \subseteq disk'[f]
                    /\ Cross(c) /\ f \in call[c].dirty => <<c, 1>> \in disk'[f]
                    /\ ~Cross(c) /\ call[c].ops[f][1] = "object" => <<c, 1>> \in disk'[f]
  BY DEF OnceSuccessful, Successful, Sound, Cross
<1>2. TypeInv /\ LockInv /\ UndoableInv /\ KeptInv /\ [Next]_vars =>
        [\A c \in Callers :
            Alone(c) /\ Ends(c, "ok") =>
                \A i \in DOMAIN call[c].files :
                    LET f == call[c].files[i] IN
                    /\ before[c][f] \subseteq disk'[f]
                    /\ Cross(c) /\ f \in call[c].dirty => <<c, 1>> \in disk'[f]
                    /\ ~Cross(c) /\ call[c].ops[f][1] = "object" => <<c, 1>> \in disk'[f]]_vars
  BY <1>1, NextKept
<1> QED BY <1>2, InitType, NextType, InitLocks, NextLocks, InitUndoable, NextUndoable,
           InitKept, NextKept, PTL DEF Spec, SuccessKept

\* A call with an undo stack that succeeds has pushed, for each file that it changed, an
\* entry from what the file was to what it is.
THEOREM EntriesDoTellTheStep == Spec => EntriesTellTheStep
<1>1. OnceSuccessful =>
        \A c \in Undoers :
            Alone(c) /\ Ends(c, "ok") =>
                \A f \in Files :
                    disk'[f] # before[c][f] =>
                        /\ pushed'[f] # <<>>
                        /\ pushed'[f][Len(pushed'[f])] = [pre |-> before[c][f], post |-> disk'[f]]
  BY EditConstants DEF OnceSuccessful, Successful, Told
<1>2. TypeInv /\ LockInv /\ UndoableInv /\ KeptInv /\ [Next]_vars =>
        [\A c \in Undoers :
            Alone(c) /\ Ends(c, "ok") =>
                \A f \in Files :
                    disk'[f] # before[c][f] =>
                        /\ pushed'[f] # <<>>
                        /\ pushed'[f][Len(pushed'[f])] = [pre |-> before[c][f], post |-> disk'[f]]]_vars
  BY <1>1, NextKept
<1> QED BY <1>2, InitType, NextType, InitLocks, NextLocks, InitUndoable, NextUndoable,
           InitKept, NextKept, PTL DEF Spec, EntriesTellTheStep

-----------------------------------------------------------------------------
(***************************************************************************)
(* Calls go on.                                                             *)
(***************************************************************************)

\* The stages of a call, from the first to the last.
LEMMA Stages ==
    /\ \A kind \in {"batch", "cross"} :
         /\ Stage(kind, "parse") = 11 /\ Stage(kind, "capture") = 10
         /\ Stage(kind, "enter") = 9 /\ Stage(kind, "rollback") = 3
         /\ Stage(kind, "rewrite") = 2 /\ Stage(kind, "leaving") = 1
         /\ Stage(kind, "done") = 0
    /\ \A point \in {"apply", "write", "writing", "commit", "push"} :
         Stage("batch", point) = 9
    /\ Stage("cross", "apply") = 8 /\ Stage("cross", "writing") = 8
    /\ Stage("cross", "write") = 8
    /\ Stage("cross", "commit") = 5 /\ Stage("cross", "push") = 4
<1>1. /\ Rank.parse = 11 /\ Rank.capture = 10 /\ Rank.enter = 9 /\ Rank.apply = 8
      /\ Rank.write = 7 /\ Rank.writing = 6 /\ Rank.commit = 5 /\ Rank.push = 4
      /\ Rank.rollback = 3 /\ Rank.rewrite = 2 /\ Rank.leaving = 1 /\ Rank.done = 0
  BY DEF Rank
<1>2. \A kind \in {"batch", "cross"} :
         /\ Stage(kind, "parse") = 11 /\ Stage(kind, "capture") = 10
         /\ Stage(kind, "enter") = 9 /\ Stage(kind, "rollback") = 3
         /\ Stage(kind, "rewrite") = 2 /\ Stage(kind, "leaving") = 1
         /\ Stage(kind, "done") = 0
  BY <1>1 DEF Stage
<1>3. \A point \in {"apply", "write", "writing", "commit", "push"} :
         Stage("batch", point) = 9
  BY <1>1 DEF Stage
<1>4. /\ Stage("cross", "apply") = 8 /\ Stage("cross", "writing") = 8
      /\ Stage("cross", "write") = 8
      /\ Stage("cross", "commit") = 5 /\ Stage("cross", "push") = 4
  BY <1>1 DEF Stage
<1> QED BY <1>2, <1>3, <1>4

\* Tuples are compared place by place.
LEMMA BelowAt ==
    ASSUME NEW a1, NEW a2, NEW a3, NEW a4, NEW b1, NEW b2, NEW b3, NEW b4
    PROVE  /\ a1 < b1 => Below(<<a1, a2, a3, a4>>, <<b1, b2, b3, b4>>)
           /\ a1 = b1 /\ a2 < b2 => Below(<<a1, a2, a3, a4>>, <<b1, b2, b3, b4>>)
           /\ a1 = b1 /\ a2 = b2 /\ a3 < b3 => Below(<<a1, a2, a3, a4>>, <<b1, b2, b3, b4>>)
           /\ a1 = b1 /\ a2 = b2 /\ a3 = b3 /\ a4 < b4
                  => Below(<<a1, a2, a3, a4>>, <<b1, b2, b3, b4>>)
<1> DEFINE a == <<a1, a2, a3, a4>>  b == <<b1, b2, b3, b4>>
<1>1. /\ a[1] = a1 /\ a[2] = a2 /\ a[3] = a3 /\ a[4] = a4
      /\ b[1] = b1 /\ b[2] = b2 /\ b[3] = b3 /\ b[4] = b4
      /\ 1 \in DOMAIN a /\ 2 \in DOMAIN a /\ 3 \in DOMAIN a /\ 4 \in DOMAIN a
  OBVIOUS
<1> HIDE DEF a, b
<1>2. a1 < b1 => Below(a, b)
  <2>1. \A i \in 1..(1 - 1) : FALSE
    OBVIOUS
  <2> QED BY <1>1, <2>1 DEF Below
<1>3. a1 = b1 /\ a2 < b2 => Below(a, b)
  <2>1. \A i \in 1..(2 - 1) : i = 1
    OBVIOUS
  <2> QED BY <1>1, <2>1 DEF Below
<1>4. a1 = b1 /\ a2 = b2 /\ a3 < b3 => Below(a, b)
  <2>1. \A i \in 1..(3 - 1) : i = 1 \/ i = 2
    OBVIOUS
  <2> QED BY <1>1, <2>1 DEF Below
<1>5. a1 = b1 /\ a2 = b2 /\ a3 = b3 /\ a4 < b4 => Below(a, b)
  <2>1. \A i \in 1..(4 - 1) : i = 1 \/ i = 2 \/ i = 3
    OBVIOUS
  <2> QED BY <1>1, <2>1 DEF Below
<1> QED BY <1>2, <1>3, <1>4, <1>5 DEF a, b

\* The four ways to be nearer the end.
LEMMA Nearer ==
    ASSUME NEW d, NEW e
    PROVE  /\ Stage(e.kind, e.at) < Stage(d.kind, d.at) => Below(ToGo(e), ToGo(d))
           /\ Stage(e.kind, e.at) = Stage(d.kind, d.at) =>
                /\ FilesToGo(e) < FilesToGo(d) => Below(ToGo(e), ToGo(d))
                /\ FilesToGo(e) = FilesToGo(d) =>
                     /\ Rank[e.at] < Rank[d.at] => Below(ToGo(e), ToGo(d))
                     /\ Rank[e.at] = Rank[d.at] /\ OpsToGo(e) < OpsToGo(d)
                            => Below(ToGo(e), ToGo(d))
<1>1. PICK e1, e2, e3, e4 : /\ ToGo(e) = <<e1, e2, e3, e4>>
                            /\ e1 = Stage(e.kind, e.at) /\ e2 = FilesToGo(e)
                            /\ e3 = Rank[e.at] /\ e4 = OpsToGo(e)
  BY DEF ToGo
<1>2. PICK d1, d2, d3, d4 : /\ ToGo(d) = <<d1, d2, d3, d4>>
                            /\ d1 = Stage(d.kind, d.at) /\ d2 = FilesToGo(d)
                            /\ d3 = Rank[d.at] /\ d4 = OpsToGo(d)
  BY DEF ToGo
<1>3. /\ e1 < d1 => Below(ToGo(e), ToGo(d))
      /\ e1 = d1 /\ e2 < d2 => Below(ToGo(e), ToGo(d))
      /\ e1 = d1 /\ e2 = d2 /\ e3 < d3 => Below(ToGo(e), ToGo(d))
      /\ e1 = d1 /\ e2 = d2 /\ e3 = d3 /\ e4 < d4 => Below(ToGo(e), ToGo(d))
  BY <1>1, <1>2, BelowAt
<1> QED BY <1>1, <1>2, <1>3

\* The parts of a call that say where it is.
Where == {"at", "n", "kind", "files"}

\* On to the next file of the same stage, or to a later stage.
LEMMA FileOn ==
    ASSUME NEW d, NEW e, Where \subseteq DOMAIN e,
           e.n = d.n, e.files = d.files, e.kind = d.kind,
           Len(d.files) \in Nat, d.n \in 1..Len(d.files),
           NEW point, point # "rollback", d.at # "rollback",
           Stage(d.kind, point) = Stage(d.kind, d.at),
           NEW o, Stage(o.kind, o.at) < Stage(d.kind, d.at)
    PROVE  Below(ToGo(NextFile(e, point, o)), ToGo(d))
<1>1. CASE e.n = Len(e.files)
  <2>1. NextFile(e, point, o) = o
    BY <1>1 DEF NextFile
  <2> QED BY <2>1, Nearer
<1>2. CASE e.n # Len(e.files)
  <2> DEFINE r == [e EXCEPT !.at = point, !.n = @ + 1]
  <2>1. NextFile(e, point, o) = r
    BY <1>2 DEF NextFile
  <2>2. r.at = point /\ r.n = d.n + 1 /\ r.kind = d.kind /\ r.files = d.files
    BY DEF Where
  <2> HIDE DEF r
  <2>3. FilesToGo(r) < FilesToGo(d)
    BY <1>2, <2>2 DEF FilesToGo
  <2>4. Stage(r.kind, r.at) = Stage(d.kind, d.at)
    BY <2>2
  <2> QED BY <2>1, <2>3, <2>4, Nearer
<1> QED BY <1>1, <1>2

\* A call back at its first file.
LEMMA Later ==
    ASSUME NEW e, Where \subseteq DOMAIN e, NEW point
    PROVE  Back(e, point).at = point /\ Back(e, point).kind = e.kind
BY DEF Where, Back

\* A call that is over has come to the last stage.
LEMMA LastStage ==
    ASSUME NEW outcome
    PROVE  Stage(Ended(outcome).kind, Ended(outcome).at) = 0
<1> DEFINE r == Ended(outcome)
<1>1. r.at = "done" /\ r.kind = "batch"
  BY DEF Ended, Idle
<1> HIDE DEF r
<1>2. Stage(r.kind, r.at) = 0
  BY <1>1, Stages
<1> QED BY <1>2 DEF r

\* What is known of a call that is on, and of its next step.
LEMMA Steps ==
    ASSUME TypeInv, NEW c \in Callers, Active(c)
    PROVE  /\ call[c] \in Calls /\ Placed(call[c]) /\ Planned(call[c])
           /\ Where \subseteq DOMAIN call[c]
           /\ Len(call[c].files) \in Nat /\ call[c].n \in 1..Len(call[c].files)
           /\ call[c].kind \in {"batch", "cross"}
           /\ Here(c) = Current(call[c])
           /\ \A r : Continue(c, r) => call'[c] = r
           /\ \A point : Go(c, point) => call'[c] = [call[c] EXCEPT !.at = point]
<1>1. call[c] \in Calls /\ Formed(c, call[c]) /\ Here(c) = Current(call[c])
  BY Known
<1>2. Len(call[c].files) \in Nat /\ call[c].n \in 1..Len(call[c].files)
  BY <1>1, PlaceTypes DEF Formed, Active
<1>3. Where \subseteq DOMAIN call[c] /\ call[c].kind \in {"batch", "cross"}
  BY <1>1 DEF Where, Calls
<1>4. c \in DOMAIN call
  BY DEF TypeInv, TypeOK
<1> QED BY <1>1, <1>2, <1>3, <1>4 DEF Formed, Continue, Go

\* The call is over.
LEMMA OverNearer ==
    ASSUME TypeInv, NEW c \in Callers, Active(c), NEW outcome, call'[c] = Ended(outcome)
    PROVE  Below(ToGo(call'[c]), ToGo(call[c]))
<1>1. call[c].at \in Points \ {"idle", "done"} /\ call[c].kind \in {"batch", "cross"}
  BY Steps DEF Active, Calls
<1>2. Stage(call'[c].kind, call'[c].at) = 0
  BY LastStage
<1>3. Stage(call[c].kind, call[c].at) > 0
  <2>1. CASE call[c].kind = "batch"
    BY <1>1, <2>1, Stages DEF Points
  <2>2. CASE call[c].kind = "cross"
    BY <1>1, <2>2, Stages DEF Points
  <2> QED BY <1>1, <2>1, <2>2
<1> QED BY <1>2, <1>3, Nearer

\* A file read: Parse and Capture.
LEMMA ReadNearer ==
    ASSUME TypeInv, NEW c \in Callers, Parse(c) \/ Capture(c)
    PROVE  Below(ToGo(call'[c]), ToGo(call[c]))
<1> DEFINE d == call[c]
           f == Here(c)
<1>0. Active(c)
  BY DEF Active, At, Parse, Capture
<1>1. /\ d \in Calls /\ Where \subseteq DOMAIN d /\ Len(d.files) \in Nat
      /\ d.n \in 1..Len(d.files) /\ d.kind \in {"batch", "cross"}
      /\ \A r : Continue(c, r) => call'[c] = r
  BY <1>0, Steps
<1>2. CASE Parse(c)
  <2> DEFINE e == [d EXCEPT !.object[f] = disk[f]]
             q == IF c \in Undoers THEN "capture" ELSE "enter"
             o == Back(e, q)
  <2>1. d.at = "parse" /\ Continue(c, NextFile(e, "parse", o))
    BY <1>2 DEF Parse, At
  <2>2. Where \subseteq DOMAIN e /\ e.n = d.n /\ e.files = d.files /\ e.kind = d.kind
    BY <1>1 DEF Where
  <2>3. q \in {"capture", "enter"}
    OBVIOUS
  <2> HIDE DEF e, d, q
  <2>4. o.at = q /\ o.kind = d.kind
    BY <2>2, Later
  <2>5. Stage(o.kind, o.at) < Stage(d.kind, d.at)
    BY <1>1, <2>1, <2>3, <2>4, Stages
  <2> HIDE DEF o
  <2>6. Below(ToGo(NextFile(e, "parse", o)), ToGo(d))
    BY <1>1, <2>1, <2>2, <2>5, FileOn
  <2>7. call'[c] = NextFile(e, "parse", o)
    BY <1>1, <2>1
  <2> QED BY <2>6, <2>7 DEF d
<1>3. CASE Capture(c)
  <2> DEFINE e == [d EXCEPT !.pre[f] = disk[f]]
             o == Back(e, "enter")
  <2>1. d.at = "capture" /\ Continue(c, NextFile(e, "capture", o))
    BY <1>3 DEF Capture, At
  <2>2. Where \subseteq DOMAIN e /\ e.n = d.n /\ e.files = d.files /\ e.kind = d.kind
    BY <1>1 DEF Where
  <2> HIDE DEF e, d
  <2>3. o.at = "enter" /\ o.kind = d.kind
    BY <2>2, Later
  <2>4. Stage(o.kind, o.at) < Stage(d.kind, d.at)
    BY <1>1, <2>1, <2>3, Stages
  <2> HIDE DEF o
  <2>5. Below(ToGo(NextFile(e, "capture", o)), ToGo(d))
    BY <1>1, <2>1, <2>2, <2>4, FileOn
  <2>6. call'[c] = NextFile(e, "capture", o)
    BY <1>1, <2>1
  <2> QED BY <2>5, <2>6 DEF d
<1> QED BY <1>2, <1>3

\* Whatever goes wrong leads to the end, or to the stages before it.
LEMMA FailNearer ==
    ASSUME TypeInv, NEW c \in Callers,
           Reject(c) \/ Refused(c) \/ OpenFails(c) \/ Collect(c) \/ OpFails(c)
               \/ EditFails(c) \/ CommitFails(c) \/ ReadBackFails(c)
    PROVE  Below(ToGo(call'[c]), ToGo(call[c]))
<1> DEFINE d == call[c]
<1>0. Active(c)
  BY DEF Active, At, CrossAt, Reject, Refused, OpenFails, Collect, OpFails, EditFails,
         CommitFails, ReadBackFails
<1>1. /\ d \in Calls /\ Where \subseteq DOMAIN d /\ d.kind \in {"batch", "cross"}
      /\ \A r : Continue(c, r) => call'[c] = r
  BY <1>0, Steps
<1>2. ASSUME NEW outcome, End(c, outcome)
      PROVE  Below(ToGo(call'[c]), ToGo(call[c]))
  BY <1>0, <1>1, <1>2, OverNearer DEF End
<1>3. CASE Reject(c) \/ Collect(c) \/ ReadBackFails(c)
  BY <1>2, <1>3 DEF Reject, Collect, ReadBackFails
<1>4. ASSUME NEW outcome, Continue(c, Abandoned(d, outcome)),
             d.at \in {"apply", "write", "writing", "commit"}
      PROVE  Below(ToGo(call'[c]), ToGo(call[c]))
  <2>1. Abandoned(d, outcome).at = "rollback" /\ Abandoned(d, outcome).kind = d.kind
    BY <1>1 DEF Abandoned, Calls
  <2>2. call'[c] = Abandoned(d, outcome)
    BY <1>1, <1>4
  <2>3. Stage(call'[c].kind, call'[c].at) = 3
    BY <1>1, <2>1, <2>2, Stages
  <2>4. Stage(d.kind, d.at) > 3
    <3>1. CASE d.kind = "batch"
      BY <1>4, <3>1, Stages
    <3>2. CASE d.kind = "cross"
      BY <1>4, <3>2, Stages
    <3> QED BY <1>1, <3>1, <3>2
  <2> QED BY <2>3, <2>4, Nearer
<1>5. CASE Refused(c)
  <2>1. CASE End(c, "raised")
    BY <1>2, <2>1
  <2>2. CASE ~End(c, "raised")
    <3> DEFINE r == [d EXCEPT !.at = "rollback", !.n = @ - 1, !.outcome = "raised"]
    <3>1. d.at = "enter" /\ Continue(c, r)
      BY <1>5, <2>2 DEF Refused, At
    <3>2. r.at = "rollback" /\ r.kind = d.kind
      BY <1>1 DEF Where
    <3> HIDE DEF r
    <3>3. call'[c] = r
      BY <1>1, <3>1
    <3>4. Stage(r.kind, r.at) < Stage(d.kind, d.at)
      BY <1>1, <3>1, <3>2, Stages
    <3> QED BY <3>3, <3>4, Nearer
  <2> QED BY <2>1, <2>2
<1>6. CASE OpenFails(c)
  <2>1. d.at = "enter" /\ call'[c] = [d EXCEPT !.at = "leaving", !.outcome = "raised"]
    BY <1>1, <1>6 DEF OpenFails, At
  <2>2. call'[c].at = "leaving" /\ call'[c].kind = d.kind
    BY <1>1, <2>1 DEF Where
  <2>3. Stage(call'[c].kind, call'[c].at) < Stage(d.kind, d.at)
    BY <1>1, <2>1, <2>2, Stages
  <2> QED BY <2>3, Nearer
<1>7. CASE OpFails(c)
  BY <1>1, <1>4, <1>7 DEF OpFails, At
<1>8. CASE EditFails(c)
  BY <1>1, <1>4, <1>8 DEF EditFails, At, CrossAt
<1>9. CASE CommitFails(c)
  <2>1. d.at = "commit" /\ \E outcome : Continue(c, Abandoned(d, outcome))
    BY <1>9 DEF CommitFails, At
  <2> QED BY <1>4, <2>1
<1> QED BY <1>3, <1>5, <1>6, <1>7, <1>8, <1>9

\* Inside a file of a batch, and when its transaction is entered.
LEMMA EnterNearer ==
    ASSUME TypeInv, NEW c \in Callers, Enter(c)
    PROVE  Below(ToGo(call'[c]), ToGo(call[c]))
<1> DEFINE d == call[c]
           e == [d EXCEPT !.snap[Here(c)] = disk[Here(c)]]
<1>0. Active(c) /\ d.at = "enter"
  BY DEF Active, At, Enter
<1>1. /\ d \in Calls /\ Where \subseteq DOMAIN d /\ Len(d.files) \in Nat
      /\ d.n \in 1..Len(d.files) /\ d.kind \in {"batch", "cross"}
      /\ \A r : Continue(c, r) => call'[c] = r
  BY <1>0, Steps
<1>2. Continue(c, IF e.kind = "cross" THEN NextFile(e, "enter", Back(e, "apply"))
                  ELSE [e EXCEPT !.at = "apply", !.k = 1, !.ir = None])
  BY DEF Enter
<1>3. Where \subseteq DOMAIN e /\ e.n = d.n /\ e.files = d.files /\ e.kind = d.kind
  BY <1>1 DEF Where
<1> HIDE DEF e, d
<1>4. CASE d.kind = "cross"
  <2>1. call'[c] = NextFile(e, "enter", Back(e, "apply"))
    BY <1>1, <1>2, <1>3, <1>4
  <2>2. Stage(Back(e, "apply").kind, Back(e, "apply").at) < Stage(d.kind, d.at)
    BY <1>0, <1>3, <1>4, Later, Stages
  <2>3. Below(ToGo(NextFile(e, "enter", Back(e, "apply"))), ToGo(d))
    BY <1>0, <1>1, <1>3, <2>2, FileOn
  <2> QED BY <2>1, <2>3 DEF d
<1>5. CASE d.kind = "batch"
  <2> DEFINE r == [e EXCEPT !.at = "apply", !.k = 1, !.ir = None]
  <2>1. call'[c] = r
    BY <1>1, <1>2, <1>3, <1>5
  <2>2. r.at = "apply" /\ r.kind = d.kind /\ r.n = d.n /\ r.files = d.files
    BY <1>3 DEF Where
  <2> HIDE DEF r
  <2>3. Stage(r.kind, r.at) = Stage(d.kind, d.at)
    BY <1>0, <1>5, <2>2, Stages
  <2>4. FilesToGo(r) = FilesToGo(d)
    BY <1>0, <2>2 DEF FilesToGo
  <2>5. Rank[r.at] < Rank[d.at]
    BY <1>0, <2>2 DEF Rank
  <2> QED BY <2>1, <2>3, <2>4, <2>5, Nearer DEF d
<1> QED BY <1>1, <1>4, <1>5

\* One file rolled back.
LEMMA RollbackNearer ==
    ASSUME TypeInv, NEW c \in Callers, Rollback(c) \/ RollbackFails(c)
    PROVE  Below(ToGo(call'[c]), ToGo(call[c]))
<1> DEFINE e == call[c]
<1>0. Active(c) /\ e.at = "rollback"
  BY DEF Active, At, Rollback, RollbackFails
<1>1. e.n \in 1..Len(e.files) /\ Len(e.files) \in Nat /\ Placed(e)
      /\ e.kind \in {"batch", "cross"}
  BY <1>0, Steps
<1>2. PICK d \in Calls :
        /\ call' = [call EXCEPT ![c] = AfterRollback(c, d, lock')]
        /\ Alike(d, e) /\ d.at = "rollback" /\ d.n = e.n
  BY Closed
<1>3. d \in Calls /\ Placed(d) /\ d.at = "rollback" /\ d.files = e.files /\ d.kind = e.kind
  BY <1>0, <1>1, <1>2 DEF Alike, Placed
<1> DEFINE r == AfterRollback(c, d, lock')
<1>4. \/ Moved(r, d, "rollback", d.n - 1)
      \/ \E p \in {"rewrite", "leaving"} : \E i : Moved(r, d, p, i)
      \/ r = Ended(d.outcome)
  <2>1. LET rewrites == /\ d.kind = "batch" /\ d.outcome = "failed"
                        /\ c \in Undoers /\ Len(d.files) > 1
            ends == ~(d.kind = "cross" /\ d.n > 1) /\ ~rewrites
        IN  \/ /\ d.kind = "cross" /\ d.n > 1 /\ d.n - 1 \in DOMAIN d.files
               /\ Moved(r, d, "rollback", d.n - 1)
            \/ rewrites /\ Moved(r, d, "rewrite", 1)
            \/ ends /\ (\E g \in Files : lock'[g] = c) /\ Moved(r, d, "leaving", d.n)
            \/ ends /\ (\A g \in Files : lock'[g] # c) /\ r = Ended(d.outcome)
    BY <1>3, RolledBack
  <2> HIDE DEF r, e
  <2> QED BY <2>1
<1>5. call'[c] = r
  BY <1>2 DEF TypeInv, TypeOK
<1> HIDE DEF r, e
<1>6. CASE Moved(r, d, "rollback", d.n - 1)
  <2>1. r.at = "rollback" /\ r.kind = e.kind /\ r.n = e.n - 1
    BY <1>2, <1>3, <1>6 DEF Moved
  <2>2. FilesToGo(r) < FilesToGo(e)
    BY <1>0, <1>1, <2>1 DEF FilesToGo
  <2>3. Stage(r.kind, r.at) = Stage(e.kind, e.at)
    BY <1>0, <2>1
  <2> QED BY <1>5, <2>2, <2>3, Nearer DEF e
<1>7. CASE \E p \in {"rewrite", "leaving"} : \E i : Moved(r, d, p, i)
  <2>1. r.at \in {"rewrite", "leaving"} /\ r.kind = e.kind
    BY <1>3, <1>7 DEF Moved
  <2>2. Stage(r.kind, r.at) < Stage(e.kind, e.at)
    BY <1>0, <1>1, <2>1, Stages
  <2> QED BY <1>5, <2>2, Nearer DEF e
<1>8. CASE r = Ended(d.outcome)
  BY <1>0, <1>5, <1>8, OverNearer
<1> QED BY <1>4, <1>6, <1>7, <1>8

\* The same file, further on in a batch or in the writing of it.
LEMMA PointNearer ==
    ASSUME NEW d, NEW r, r.kind = d.kind, r.n = d.n, r.files = d.files,
           d.kind \in {"batch", "cross"},
           \/ <<d.at, r.at>> \in {<<"write", "writing">>, <<"write", "commit">>}
           \/ d.kind = "batch" /\ <<d.at, r.at>> \in {<<"apply", "write">>,
                                        <<"writing", "commit">>, <<"commit", "push">>}
           \/ d.kind = "cross" /\ <<d.at, r.at>> \in {<<"apply", "writing">>}
    PROVE  Below(ToGo(r), ToGo(d))
<1>1. FilesToGo(r) = FilesToGo(d)
  BY DEF FilesToGo
<1>2. Rank[r.at] < Rank[d.at]
  BY DEF Rank
<1>3. CASE d.kind = "batch"
  <2>1. Stage(r.kind, r.at) = Stage(d.kind, d.at)
    BY <1>3, Stages
  <2> QED BY <1>1, <1>2, <2>1, Nearer
<1>4. CASE d.kind = "cross"
  <2>1. \/ Stage(r.kind, r.at) = Stage(d.kind, d.at)
        \/ Stage(r.kind, r.at) < Stage(d.kind, d.at)
    BY <1>4, Stages
  <2> QED BY <1>1, <1>2, <2>1, Nearer
<1> QED BY <1>3, <1>4

\* An operation of a batch.
LEMMA OpNearer ==
    ASSUME TypeInv, NEW c \in Callers, ApplyToObject(c) \/ ApplyRaw(c)
    PROVE  Below(ToGo(call'[c]), ToGo(call[c]))
<1> DEFINE d == call[c]
           f == Here(c)
<1>0. Active(c) /\ d.at = "apply" /\ d.kind = "batch"
  BY DEF Active, At, ApplyToObject, ApplyRaw, BatchOp
<1>1. /\ d \in Calls /\ Planned(d) /\ Where \subseteq DOMAIN d
      /\ d.n \in 1..Len(d.files) /\ Len(d.files) \in Nat /\ f = d.files[d.n]
      /\ \A r : Continue(c, r) => call'[c] = r
  BY <1>0, Steps DEF Current
<1>2. PICK e, v : /\ Continue(c, NextOp(e, v)) /\ DOMAIN e = DOMAIN d
                  /\ e.n = d.n /\ e.files = d.files /\ e.kind = d.kind /\ e.at = d.at
                  /\ e.ops = d.ops /\ e.k = d.k
  <2>1. CASE ApplyToObject(c)
    <3> DEFINE e == [d EXCEPT !.object[f] = IF d.ir = None THEN @ \cup {Edit(c)} ELSE @]
    <3>1. Continue(c, NextOp(e, disk[f]))
      BY <2>1 DEF ApplyToObject
    <3>2. /\ DOMAIN e = DOMAIN d /\ e.n = d.n /\ e.files = d.files /\ e.kind = d.kind
          /\ e.at = d.at /\ e.ops = d.ops /\ e.k = d.k
      BY <1>1 DEF Calls
    <3> HIDE DEF e
    <3> QED BY <3>1, <3>2
  <2>2. CASE ApplyRaw(c)
    BY <2>2 DEF ApplyRaw
  <2> QED BY <2>1, <2>2
<1>3. /\ d.ops[f] \in Plans /\ d.k \in DOMAIN d.ops[f]
  BY <1>0, <1>1, PlaceTypes DEF Planned, Current
<1>4. Len(d.ops[f]) \in Nat /\ d.k \in 1..Len(d.ops[f])
  BY <1>3, PlanTypes
<1>5. {"at", "n", "kind", "files", "k", "ops", "ir"} \subseteq DOMAIN e
  BY <1>1, <1>2 DEF Calls
<1> HIDE DEF d, f
<1>6. CASE e.k = Len(e.ops[e.files[e.n]])
  <2> DEFINE r == [e EXCEPT !.at = "write", !.ir = v]
  <2>1. call'[c] = r
    BY <1>1, <1>2, <1>6 DEF NextOp
  <2>2. r.at = "write" /\ r.kind = d.kind /\ r.n = d.n /\ r.files = d.files
    BY <1>2, <1>5
  <2> HIDE DEF r
  <2> QED BY <1>0, <2>1, <2>2, PointNearer DEF d
<1>7. CASE e.k # Len(e.ops[e.files[e.n]])
  <2> DEFINE r == [e EXCEPT !.k = @ + 1, !.ir = v]
  <2>1. call'[c] = r
    BY <1>1, <1>2, <1>7 DEF NextOp
  <2>2. /\ r.at = "apply" /\ r.kind = d.kind /\ r.n = d.n /\ r.files = d.files
        /\ r.ops = d.ops /\ r.k = d.k + 1
    BY <1>0, <1>2, <1>5
  <2> HIDE DEF r
  <2>3. /\ Stage(r.kind, r.at) = Stage(d.kind, d.at) /\ FilesToGo(r) = FilesToGo(d)
        /\ Rank[r.at] = Rank[d.at]
    BY <1>0, <2>2 DEF FilesToGo
  <2>4. OpsToGo(r) = Len(d.ops[f]) - (d.k + 1) /\ OpsToGo(d) = Len(d.ops[f]) - d.k
    BY <1>0, <1>1, <2>2 DEF OpsToGo
  <2>5. OpsToGo(r) < OpsToGo(d)
    BY <1>4, <2>4
  <2> QED BY <2>1, <2>3, <2>5, Nearer DEF d
<1> QED BY <1>6, <1>7

\* A file written, committed and recorded, of a batch and of a cross-file operation.
LEMMA WriteNearer ==
    ASSUME TypeInv, NEW c \in Callers,
           Serialize(c) \/ FinishWriting(c) \/ CommitFile(c) \/ PushFile(c) \/ Rewrite(c)
               \/ EditFile(c) \/ CommitOne(c) \/ PushOne(c)
    PROVE  Below(ToGo(call'[c]), ToGo(call[c]))
<1> DEFINE d == call[c]
           f == Here(c)
<1>0. Active(c)
  BY DEF Active, At, CrossAt, Serialize, FinishWriting, CommitFile, PushFile, Rewrite,
         EditFile, CommitOne, PushOne
<1>1. /\ d \in Calls /\ Where \subseteq DOMAIN d
      /\ d.n \in 1..Len(d.files) /\ Len(d.files) \in Nat /\ d.kind \in {"batch", "cross"}
      /\ \A r : Continue(c, r) => call'[c] = r
      /\ \A point : Go(c, point) => call'[c] = [d EXCEPT !.at = point]
  BY <1>0, Steps
<1>2. ASSUME NEW e, Where \subseteq DOMAIN e, e.n = d.n, e.files = d.files,
             e.kind = d.kind, NEW point \in {"writing", "commit", "push"},
             call'[c] = [e EXCEPT !.at = point],
             \/ <<d.at, point>> \in {<<"write", "writing">>, <<"write", "commit">>}
             \/ d.kind = "batch" /\ <<d.at, point>> \in {<<"writing", "commit">>,
                                                         <<"commit", "push">>}
             \/ d.kind = "cross" /\ <<d.at, point>> \in {<<"apply", "writing">>}
      PROVE  Below(ToGo(call'[c]), ToGo(d))
  <2> DEFINE r == [e EXCEPT !.at = point]
  <2>1. r.at = point /\ r.kind = d.kind /\ r.n = d.n /\ r.files = d.files
    BY <1>2 DEF Where
  <2> HIDE DEF r, d
  <2>2. Below(ToGo(r), ToGo(d))
    BY <1>1, <1>2, <2>1, PointNearer
  <2> QED BY <1>2, <2>2 DEF r
<1>3. ASSUME NEW e, Where \subseteq DOMAIN e, e.n = d.n, e.files = d.files,
             e.kind = d.kind, NEW point, point # "rollback", d.at # "rollback",
             Stage(d.kind, point) = Stage(d.kind, d.at),
             NEW o, Stage(o.kind, o.at) < Stage(d.kind, d.at),
             Continue(c, NextFile(e, point, o))
      PROVE  Below(ToGo(call'[c]), ToGo(d))
  <2>1. call'[c] = NextFile(e, point, o)
    BY <1>1, <1>3
  <2> HIDE DEF d
  <2>2. Below(ToGo(NextFile(e, point, o)), ToGo(d))
    BY <1>1, <1>3, FileOn
  <2> QED BY <2>1, <2>2
\* The end of the call, or the next stage, comes after all that has been.
<1>4. ASSUME NEW outcome, d.at \in {"commit", "push", "rewrite"}
      PROVE  Stage(Ended(outcome).kind, Ended(outcome).at) < Stage(d.kind, d.at)
  <2>1. Stage(Ended(outcome).kind, Ended(outcome).at) = 0
    BY LastStage
  <2>2. CASE d.kind = "batch"
    BY <1>4, <2>1, <2>2, Stages
  <2>3. CASE d.kind = "cross"
    BY <1>4, <2>1, <2>3, Stages
  <2> QED BY <1>1, <2>2, <2>3
<1>5. ASSUME NEW e, Where \subseteq DOMAIN e, e.kind = d.kind, d.kind = "cross",
             NEW point, \/ d.at \in {"apply", "writing"} /\ point = "commit"
                        \/ d.at = "commit" /\ point = "push"
      PROVE  Stage(Back(e, point).kind, Back(e, point).at) < Stage(d.kind, d.at)
  BY <1>5, Later, Stages
<1>6. CASE Serialize(c)
  <2>1. d.at = "write" /\ (Go(c, "commit") \/ Go(c, "writing"))
    BY <1>6 DEF Serialize, At
  <2> QED BY <1>1, <1>2, <2>1
<1>7. CASE FinishWriting(c)
  <2>1. d.at = "writing"
    BY <1>7 DEF FinishWriting, At
  <2>2. CASE d.kind = "batch"
    <3>1. Go(c, "commit")
      BY <1>7, <2>2 DEF FinishWriting
    <3> QED BY <1>1, <1>2, <2>1, <2>2, <3>1
  <2>3. CASE d.kind = "cross"
    <3>1. Continue(c, NextFile(d, "apply", Back(d, "commit")))
      BY <1>7, <2>3 DEF FinishWriting
    <3>2. Stage(Back(d, "commit").kind, Back(d, "commit").at) < Stage(d.kind, d.at)
      BY <1>1, <1>5, <2>1, <2>3
    <3>3. Stage(d.kind, "apply") = Stage(d.kind, d.at)
      BY <2>1, <2>3, Stages
    <3> HIDE DEF d
    <3> QED BY <1>1, <1>3, <2>1, <3>1, <3>2, <3>3 DEF d
  <2> QED BY <1>1, <2>2, <2>3
<1>8. CASE CommitFile(c)
  <2> DEFINE e == [d EXCEPT !.snap[f] = None]
  <2>1. d.at = "commit" /\ d.kind = "batch"
    BY <1>8 DEF CommitFile, At
  <2>2. Where \subseteq DOMAIN e /\ e.n = d.n /\ e.files = d.files /\ e.kind = d.kind
    BY <1>1 DEF Where
  <2>3. \/ Continue(c, [e EXCEPT !.at = "push"])
        \/ Continue(c, NextFile(e, "enter", Ended("ok")))
    BY <1>8 DEF CommitFile
  <2>4. Stage(d.kind, "enter") = Stage(d.kind, d.at)
    BY <2>1, Stages
  <2> HIDE DEF e
  <2>5. CASE Continue(c, [e EXCEPT !.at = "push"])
    BY <1>1, <1>2, <2>1, <2>2, <2>5
  <2>6. CASE Continue(c, NextFile(e, "enter", Ended("ok")))
    BY <1>3, <1>4, <2>1, <2>2, <2>4, <2>6
  <2> QED BY <2>3, <2>5, <2>6
<1>9. CASE PushFile(c)
  <2>1. d.at = "push" /\ d.kind = "batch" /\ Continue(c, NextFile(d, "enter", Ended("ok")))
    BY <1>9 DEF PushFile, At
  <2>2. Stage(d.kind, "enter") = Stage(d.kind, d.at)
    BY <2>1, Stages
  <2> QED BY <1>1, <1>3, <1>4, <2>1, <2>2
<1>10. CASE Rewrite(c)
  <2>1. d.at = "rewrite" /\ Continue(c, NextFile(d, "rewrite", Ended("failed")))
    BY <1>10 DEF Rewrite, At
  <2> QED BY <1>1, <1>3, <1>4, <2>1
<1>11. CASE EditFile(c)
  <2> DEFINE e == [d EXCEPT !.object[f] = @ \cup {Edit(c)}, !.dirty = @ \cup {f}]
  <2>1. d.at = "apply" /\ d.kind = "cross"
    BY <1>11 DEF EditFile, At, CrossAt
  <2>2. Where \subseteq DOMAIN e /\ e.n = d.n /\ e.files = d.files /\ e.kind = d.kind
    BY <1>1 DEF Where
  <2>3. \/ Continue(c, NextFile(d, "apply", Back(d, "commit")))
        \/ Continue(c, NextFile(e, "apply", Back(e, "commit")))
        \/ Continue(c, [e EXCEPT !.at = "writing"])
    BY <1>11 DEF EditFile
  <2>4. ASSUME NEW x, Where \subseteq DOMAIN x, x.n = d.n, x.files = d.files,
               x.kind = d.kind, Continue(c, NextFile(x, "apply", Back(x, "commit")))
        PROVE  Below(ToGo(call'[c]), ToGo(d))
    <3>1. Stage(Back(x, "commit").kind, Back(x, "commit").at) < Stage(d.kind, d.at)
      BY <1>5, <2>1, <2>4
    <3>2. Stage(d.kind, "apply") = Stage(d.kind, d.at)
      BY <2>1
    <3> QED BY <1>3, <2>1, <2>4, <3>1, <3>2
  <2> HIDE DEF e
  <2>5. CASE Continue(c, NextFile(d, "apply", Back(d, "commit")))
    BY <1>1, <2>4, <2>5
  <2>6. CASE Continue(c, NextFile(e, "apply", Back(e, "commit")))
    BY <2>2, <2>4, <2>6
  <2>7. CASE Continue(c, [e EXCEPT !.at = "writing"])
    BY <1>1, <1>2, <2>1, <2>2, <2>7
  <2> QED BY <2>3, <2>5, <2>6, <2>7
<1>12. CASE CommitOne(c)
  <2> DEFINE e == [d EXCEPT !.snap[f] = None]
             o == IF c \in Undoers THEN Back(e, "push") ELSE Ended("ok")
  <2>1. d.at = "commit" /\ d.kind = "cross"
    BY <1>12 DEF CommitOne, At, CrossAt
  <2>2. Where \subseteq DOMAIN e /\ e.n = d.n /\ e.files = d.files /\ e.kind = d.kind
    BY <1>1 DEF Where
  <2>3. Continue(c, NextFile(e, "commit", o))
    BY <1>12 DEF CommitOne
  <2> HIDE DEF e
  <2>4. Stage(o.kind, o.at) < Stage(d.kind, d.at)
    BY <1>4, <1>5, <2>1, <2>2
  <2> HIDE DEF o
  <2> QED BY <1>3, <2>1, <2>2, <2>3, <2>4
<1>13. CASE PushOne(c)
  <2>1. d.at = "push" /\ d.kind = "cross" /\ Continue(c, NextFile(d, "push", Ended("ok")))
    BY <1>13 DEF PushOne, At, CrossAt
  <2> QED BY <1>1, <1>3, <1>4, <2>1
<1> QED BY <1>6, <1>7, <1>8, <1>9, <1>10, <1>11, <1>12, <1>13

\* A step of a call, whichever.
LEMMA StepNearer ==
    ASSUME TypeInv, NEW c \in Callers, Step(c)
    PROVE  Below(ToGo(call'[c]), ToGo(call[c]))
BY ReadNearer, FailNearer, EnterNearer, RollbackNearer, OpNearer, WriteNearer DEF Step

\* Nobody moves another's call, and nobody begins one that is on.
LEMMA OthersStay ==
    ASSUME TypeInv, [Next]_vars, NEW c \in Callers, Active(c), ~Step(c)
    PROVE  call'[c] = call[c]
<1>1. CASE UNCHANGED vars
  BY <1>1 DEF vars
<1>2. ASSUME NEW e \in Callers, ExecuteBatch(e) \/ ExecuteCrossFile(e)
      PROVE  call'[c] = call[c]
  <2>1. PICK r : call[e] = Idle /\ call' = [call EXCEPT ![e] = r]
    BY <1>2 DEF ExecuteBatch, ExecuteCrossFile, Begin
  <2>2. e # c
    BY <2>1 DEF Active, Idle
  <2> QED BY <2>1, <2>2
<1>3. ASSUME NEW e \in Callers, Step(e) PROVE call'[c] = call[c]
  <2>1. e # c
    BY <1>3
  <2>2. \E r : call' = [call EXCEPT ![e] = r]
    <3>1. ASSUME NEW point, Go(e, point) PROVE \E r : call' = [call EXCEPT ![e] = r]
      BY <3>1 DEF Go
    <3>2. ASSUME NEW d, Continue(e, d) PROVE \E r : call' = [call EXCEPT ![e] = r]
      BY <3>2 DEF Continue
    <3>3. ASSUME NEW outcome, End(e, outcome) PROVE \E r : call' = [call EXCEPT ![e] = r]
      BY <3>2, <3>3 DEF End
    <3>4. CASE Parse(e) \/ Capture(e) \/ Enter(e) \/ Rollback(e) \/ ApplyToObject(e)
               \/ ApplyRaw(e) \/ OpFails(e) \/ CommitFile(e) \/ PushFile(e) \/ Rewrite(e)
               \/ EditFails(e) \/ CommitOne(e) \/ PushOne(e) \/ CommitFails(e)
               \/ RollbackFails(e) \/ OpenFails(e)
      BY <3>2, <3>4 DEF Parse, Capture, Enter, Rollback, ApplyToObject, ApplyRaw, OpFails,
             CommitFile, PushFile, Rewrite, EditFails, CommitOne, PushOne, CommitFails,
             RollbackFails, OpenFails
    <3>5. CASE Reject(e) \/ Collect(e) \/ ReadBackFails(e)
      BY <3>3, <3>5 DEF Reject, Collect, ReadBackFails
    <3>6. CASE Refused(e)
      BY <3>2, <3>3, <3>6 DEF Refused
    <3>7. CASE Serialize(e)
      BY <3>1, <3>7 DEF Serialize
    <3>8. CASE FinishWriting(e) \/ EditFile(e)
      BY <3>1, <3>2, <3>8 DEF FinishWriting, EditFile
    <3> QED BY <1>3, <3>4, <3>5, <3>6, <3>7, <3>8 DEF Step
  <2> QED BY <2>1, <2>2
<1> QED BY <1>1, <1>2, <1>3 DEF Next

(***************************************************************************)
(* Every step of a call takes it nearer its end, whatever fails and whoever *)
(* else is at work, and nothing else moves it: with four numbers, from the  *)
(* stage of the call down to the operations on one file, that only go down. *)
(***************************************************************************)
THEOREM CallsDoGoOn == Spec => CallsGoOn
<1>1. TypeInv /\ [Next]_vars =>
          [\A c \in Callers :
              IF Step(c) THEN Below(ToGo(call'[c]), ToGo(call[c]))
              ELSE Active(c) => call'[c] = call[c]]_vars
  BY StepNearer, OthersStay
<1> QED BY <1>1, InitType, NextType, PTL DEF Spec, CallsGoOn

\* What is left of a call that is on is a tuple of numbers.
LEMMA ToGoType ==
    ASSUME TypeInv, NEW c \in Callers, Active(c)
    PROVE  ToGo(call[c]) \in [1..4 -> Nat]
<1> DEFINE d == call[c]
<1>1. /\ d \in Calls /\ Placed(d) /\ Planned(d) /\ Len(d.files) \in Nat
      /\ d.n \in 1..Len(d.files) /\ d.kind \in {"batch", "cross"}
  BY Steps
<1>2. d.at \in Points \ {"idle", "done"}
  BY <1>1 DEF Active, Calls
<1>3. FilesToGo(d) \in Nat
  BY <1>1 DEF FilesToGo
<1>4. Rank[d.at] \in Nat
  BY <1>2 DEF Rank, Points
<1>5. Stage(d.kind, d.at) \in Nat
  <2>1. CASE d.kind = "batch"
    BY <1>2, <2>1, Stages DEF Points
  <2>2. CASE d.kind = "cross"
    BY <1>2, <2>2, Stages DEF Points
  <2> QED BY <1>1, <2>1, <2>2
<1>6. OpsToGo(d) \in Nat
  <2>1. CASE d.at = "apply"
    <3> DEFINE s == d.ops[Current(d)]
    <3>1. s \in Plans
      BY <1>1, <1>2, PlaceTypes DEF Planned, Current
    <3>2. Len(s) \in Nat /\ DOMAIN s = 1..Len(s) /\ 1 \in DOMAIN s
      BY <3>1, PlanTypes
    <3>3. d.k \in DOMAIN s
      BY <1>1, <2>1, <3>2 DEF Planned
    <3>4. OpsToGo(d) = Len(s) - d.k
      BY <2>1 DEF OpsToGo, Current
    <3> HIDE DEF s
    <3> QED BY <3>2, <3>3, <3>4
  <2>2. CASE d.at # "apply"
    BY <2>2 DEF OpsToGo
  <2> QED BY <2>1, <2>2
<1> HIDE DEF d
<1>7. ToGo(d) \in [1..4 -> Nat]
  BY <1>3, <1>4, <1>5, <1>6 DEF ToGo
<1> QED BY <1>7 DEF d

(***************************************************************************)
(* The four numbers are natural numbers as long as the call is on, so that  *)
(* they cannot go down for ever.                                            *)
(***************************************************************************)
THEOREM CallsAreFinite ==
    Spec => [](\A c \in Callers : Active(c) => ToGo(call[c]) \in [1..4 -> Nat])
<1>1. TypeInv => \A c \in Callers : Active(c) => ToGo(call[c]) \in [1..4 -> Nat]
  BY ToGoType
<1> QED BY <1>1, InitType, NextType, PTL DEF Spec
=============================================================================
