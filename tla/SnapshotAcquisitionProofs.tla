---------------------- MODULE SnapshotAcquisitionProofs ----------------------
(***************************************************************************)
(* The acquisition of a workbook, for workbooks of any length, any number  *)
(* of saves, and a clock that need not move at all: what is lent was the   *)
(* workbook at one moment; no wrong read goes unnoticed and nobody's file  *)
(* is removed by mistake; nobody is blamed without a cause. Each of the    *)
(* three has an invariant and a part of this module.                       *)
(*                                                                         *)
(* What is lent was the workbook at one moment: a block value that has     *)
(* left its place in the workbook never comes back. When the first pass is *)
(* over, either the copy is the workbook of that moment, or one of its     *)
(* blocks has left its place; the second pass then finds something else    *)
(* there, and the digests differ.                                          *)
(***************************************************************************)
EXTENDS SnapshotAcquisition, SequenceTheorems, TLAPS

\* Block value v is in place p of the workbook.
Live(p, v) == path # None /\ p \in DOMAIN file[path].blocks /\ file[path].blocks[p] = v

FileInv ==
    /\ written \in Nat
    /\ file \in [Inode -> [blocks : Seq(Nat), mtime : Nat]]
    /\ path \in Inode \cup {None} /\ handle \in Inode \cup {None}
    /\ \A i \in Inode : \A p \in DOMAIN file[i].blocks : file[i].blocks[p] <= written

CopyInv ==
    /\ copied \in Seq(Nat) /\ reread \in Seq(Nat)
    /\ \A p \in DOMAIN copied : copied[p] <= written
    /\ pc \in {"create", "copy", "endCopy", "reread"} => handle # None
    /\ pc \in {"observe", "observeAgain", "mkdir", "anchor", "checkDir", "openSource",
               "create"} => copied = <<>>
    /\ pc \in {"observe", "observeAgain", "mkdir", "anchor", "checkDir", "openSource",
               "create", "copy", "endCopy", "reopenSource"} => reread = <<>>

\* The window holds what the path shows.
ShownInv ==
    SourceInUse /\ pc \notin {"observe", "observeAgain"} /\ path # None
        => file[path].blocks \in window

\* Nothing of a workbook that was replaced under the handle is left.
DetachedInv ==
    handle # None /\ handle # path =>
        /\ \A p \in DOMAIN file[handle].blocks : ~Live(p, file[handle].blocks[p])
        /\ pc \in {"copy", "endCopy"} => \A p \in DOMAIN copied : ~Live(p, copied[p])

\* Block p of the copy is gone, and the second pass has seen or will see it.
Betrayed(p) ==
    /\ p \in DOMAIN copied
    /\ ~Live(p, copied[p])
    /\ p \in DOMAIN reread => reread[p] # copied[p]
    /\ handle # None /\ p \in DOMAIN file[handle].blocks
        => file[handle].blocks[p] # copied[p]

Settled == copied \in window \/ copied = <<>>

PassInv ==
    /\ pc \in {"reopenSource", "reread", "observeAfter"} =>
         Settled \/ \E p \in Nat : Betrayed(p)
    /\ pc \in {"rehash", "zip"} => Settled
    /\ pc \in {"prePromote", "promote", "attest", "lent"} => copied \in window

IInv == FileInv /\ CopyInv /\ ShownInv /\ DetachedInv /\ PassInv

sourceSide == <<file, path, written, window, pc, observed, handle, copied, reread>>

\* Where the source does not matter any more, and nothing is lent yet or still.
Aside == {"verify", "verifyBytes", "take", "look", "lookAgain", "remove", "restore", "ended"}

-----------------------------------------------------------------------------
\* At first nothing is copied and the path shows an inode.
LEMMA InitIInv == Init => IInv
<1> SUFFICES ASSUME Init PROVE IInv
  OBVIOUS
<1>1. FileInv
  <2>1. PICK n \in 1..MaxBlocks :
          file = [i \in Inode |-> [blocks |-> [b \in 1..n |-> 0], mtime |-> 0]]
    BY DEF Init
  <2>2. n \in Nat
    BY SnapshotAssumption
  <2>3. [b \in 1..n |-> 0] \in Seq(Nat)
    BY <2>2
  <2>4. file \in [Inode -> [blocks : Seq(Nat), mtime : Nat]]
    BY <2>1, <2>3
  <2>5. \A i \in Inode : \A p \in DOMAIN file[i].blocks : file[i].blocks[p] <= written
    BY <2>1 DEF Init
  <2> QED BY <2>4, <2>5 DEF Init, FileInv
<1>2. CopyInv
  BY DEF Init, CopyInv
<1>3. ShownInv /\ DetachedInv /\ PassInv
  BY DEF Init, ShownInv, DetachedInv, PassInv
<1> QED BY <1>1, <1>2, <1>3 DEF IInv

\* A step that touches nothing the invariant speaks of.
LEMMA SameSide == IInv /\ UNCHANGED sourceSide => IInv'
<1> SUFFICES ASSUME IInv, UNCHANGED sourceSide PROVE IInv'
  OBVIOUS
<1> USE DEF sourceSide, IInv
<1>1. FileInv' /\ CopyInv'
  BY DEF FileInv, CopyInv
<1>2. ShownInv' /\ DetachedInv'
  BY DEF ShownInv, DetachedInv, SourceInUse, Live
<1>3. PassInv'
  BY DEF PassInv, Settled, Betrayed, Live
<1> QED BY <1>1, <1>2, <1>3

\* A step that leaves the passes for good.
LEMMA StepAside ==
  ASSUME IInv, UNCHANGED <<file, path, written, window, copied, reread>>,
         handle' \in {handle, None}, pc' \in Aside
  PROVE  IInv'
<1> USE DEF IInv, Aside
<1>1. FileInv' /\ CopyInv'
  BY DEF FileInv, CopyInv
<1>2. ShownInv' /\ PassInv'
  BY DEF ShownInv, PassInv, SourceInUse
<1>3. DetachedInv'
  BY DEF DetachedInv, Live
<1> QED BY <1>1, <1>2, <1>3

-----------------------------------------------------------------------------
(* The saver. *)

\* A sequence without its last element.
LEMMA ShorterSequence ==
  ASSUME NEW s \in Seq(Nat)
  PROVE  LET t == SubSeq(s, 1, Len(s) - 1)
         IN  /\ t \in Seq(Nat)
             /\ \A p \in DOMAIN t : p \in DOMAIN s /\ t[p] = s[p]
<1> DEFINE n == Len(s) - 1
<1> DEFINE t == SubSeq(s, 1, n)
<1>1. n \in Int /\ \A i \in 1..n : s[i] \in Nat
  OBVIOUS
<1>2. /\ t \in Seq(Nat)
      /\ Len(t) = IF 1 <= n THEN n - 1 + 1 ELSE 0
      /\ \A i \in 1..(n - 1 + 1) : t[i] = s[1 + i - 1]
  <2> HIDE DEF n
  <2> QED BY <1>1, SubSeqProperties
<1>3. DOMAIN t = 1..Len(t) /\ DOMAIN s = 1..Len(s)
  <2> HIDE DEF t, n
  <2> QED BY <1>2
<1>4. ASSUME NEW p \in DOMAIN t PROVE p \in DOMAIN s /\ t[p] = s[p]
  <2> HIDE DEF t, n
  <2>1. p \in Nat /\ 1 <= p /\ p <= n
    BY <1>1, <1>2, <1>3
  <2>2. t[p] = s[1 + p - 1]
    BY <1>1, <1>2, <2>1
  <2>3. 1 + p - 1 = p /\ p \in 1..Len(s)
    BY <2>1 DEF n
  <2> QED BY <1>3, <2>2, <2>3
<1> QED BY <1>2, <1>4

Saving == WriteInPlace \/ Replace \/ Remove

\* A save leaves the acquisition where it is.
LEMMA SaverKeepsPasses ==
  ASSUME Saving
  PROVE  /\ UNCHANGED <<pc, handle, copied, reread>>
         /\ written' = written + 1
         /\ window \subseteq window'
         /\ path' # None => file'[path'].blocks \in window'
         /\ SourceInUse
BY DEF Saving, WriteInPlace, Replace, Remove, Writes, passes

\* Blocks stay in their place or are fresh, and only the file at the path is
\* written to.
LEMMA SaverWritesFresh ==
  ASSUME FileInv, Saving
  PROVE  /\ FileInv'
         /\ \A p, v : Live(p, v)' => v = written + 1 \/ (path' = path /\ Live(p, v))
         /\ handle # None /\ (handle # path \/ path' # path) => file'[handle] = file[handle]
<1> USE DEF FileInv
<1>0. written' = written + 1 /\ handle' = handle
  BY SaverKeepsPasses
<1>1. CASE WriteInPlace
  <2>1. PICK blocks \in {[file[path].blocks EXCEPT ![b] = written + 1] :
                           b \in DOMAIN file[path].blocks}
                        \cup {Append(file[path].blocks, written + 1)}
                        \cup {SubSeq(file[path].blocks, 1, Len(file[path].blocks) - 1)},
             mtime \in {file[path].mtime, written + 1} :
             file' = [file EXCEPT ![path] = [blocks |-> blocks, mtime |-> mtime]]
    BY <1>1 DEF WriteInPlace
  <2>2. path \in Inode /\ path' = path
    BY <1>1 DEF WriteInPlace
  <2> DEFINE old == file[path].blocks
  <2>3. old \in Seq(Nat) /\ file[path].mtime \in Nat
    BY <2>2
  <2>4. /\ blocks \in Seq(Nat)
        /\ \A p \in DOMAIN blocks :
             blocks[p] = written + 1 \/ (p \in DOMAIN old /\ blocks[p] = old[p])
    <3>1. CASE \E b \in DOMAIN old : blocks = [old EXCEPT ![b] = written + 1]
      BY <2>3, <3>1
    <3>2. CASE blocks = Append(old, written + 1)
      BY <2>3, <3>2
    <3>3. CASE blocks = SubSeq(old, 1, Len(old) - 1)
      BY <2>3, <3>3, ShorterSequence
    <3> QED BY <2>1, <3>1, <3>2, <3>3
  <2>5. ASSUME NEW p \in DOMAIN blocks PROVE blocks[p] <= written + 1
    <3>1. p \in DOMAIN old => old[p] <= written
      BY <2>2
    <3>2. p \in DOMAIN old => old[p] \in Nat
      BY <2>3
    <3>3. blocks[p] = written + 1 \/ (p \in DOMAIN old /\ blocks[p] = old[p])
      BY <2>4
    <3> HIDE DEF old
    <3> QED BY <3>1, <3>2, <3>3
  <2>6. file' \in [Inode -> [blocks : Seq(Nat), mtime : Nat]]
    BY <2>1, <2>2, <2>3, <2>4
  <2>7. \A i \in Inode : file'[i].blocks = IF i = path THEN blocks ELSE file[i].blocks
    BY <2>1, <2>2
  <2>8. \A i \in Inode : \A p \in DOMAIN file'[i].blocks : file'[i].blocks[p] <= written + 1
    <3> SUFFICES ASSUME NEW i \in Inode, NEW p \in DOMAIN file'[i].blocks
                 PROVE  file'[i].blocks[p] <= written + 1
      OBVIOUS
    <3>1. CASE i = path
      BY <2>5, <2>7, <3>1
    <3>2. CASE i # path
      <4>1. file[i].blocks \in Seq(Nat) /\ p \in DOMAIN file[i].blocks
        BY <2>7, <3>2
      <4>2. file[i].blocks[p] \in Nat /\ file[i].blocks[p] <= written
        BY <4>1
      <4> QED BY <2>7, <3>2, <4>2
    <3> QED BY <3>1, <3>2
  <2>9. FileInv'
    BY <1>0, <2>2, <2>6, <2>8
  <2>10. \A p, v : Live(p, v)' => v = written + 1 \/ Live(p, v)
    BY <2>2, <2>4, <2>7, SnapshotAssumption DEF Live
  <2>11. handle # None /\ handle # path => file'[handle] = file[handle]
    BY <2>1
  <2> QED BY <2>2, <2>9, <2>10, <2>11
<1>2. CASE Replace
  <2>1. PICK i \in Inode \ {path, handle}, n \in 1..MaxBlocks, mtime \in 0..(written + 1) :
          /\ path' = i
          /\ file' = [file EXCEPT ![i] = [blocks |-> [b \in 1..n |-> written + 1],
                                          mtime |-> mtime]]
    BY <1>2 DEF Replace
  <2>2. [b \in 1..n |-> written + 1] \in Seq(Nat) /\ mtime \in Nat
    BY SnapshotAssumption
  <2>3. file' \in [Inode -> [blocks : Seq(Nat), mtime : Nat]]
    BY <2>1, <2>2
  <2>4. \A j \in Inode :
          file'[j].blocks = IF j = i THEN [b \in 1..n |-> written + 1] ELSE file[j].blocks
    BY <2>1
  <2>5. \A j \in Inode : \A p \in DOMAIN file'[j].blocks : file'[j].blocks[p] <= written + 1
    <3> SUFFICES ASSUME NEW j \in Inode, NEW p \in DOMAIN file'[j].blocks
                 PROVE  file'[j].blocks[p] <= written + 1
      OBVIOUS
    <3>1. CASE j = i
      BY <2>4, <3>1
    <3>2. CASE j # i
      <4>1. file[j].blocks \in Seq(Nat) /\ p \in DOMAIN file[j].blocks
        BY <2>4, <3>2
      <4>2. file[j].blocks[p] \in Nat /\ file[j].blocks[p] <= written
        BY <4>1
      <4> QED BY <2>4, <3>2, <4>2
    <3> QED BY <3>1, <3>2
  <2>6. FileInv'
    BY <1>0, <2>1, <2>3, <2>5
  <2>7. \A p, v : Live(p, v)' => v = written + 1
    BY <2>1, <2>4 DEF Live
  <2>8. handle # None => file'[handle] = file[handle]
    BY <2>1
  <2> QED BY <2>6, <2>7, <2>8
<1>3. CASE Remove
  BY <1>0, <1>3 DEF Remove, Live
<1> QED BY <1>1, <1>2, <1>3 DEF Saving

\* What has left its place stays away.
LEMMA GoneStaysGone ==
  ASSUME FileInv, Saving
  PROVE  \A p : \A v \in Nat : v <= written /\ ~Live(p, v) => ~Live(p, v)'
BY SaverWritesFresh DEF FileInv

\* A save at any moment keeps the invariant.
LEMMA SaverKeeps == IInv /\ Saving => IInv'
<1> SUFFICES ASSUME IInv, Saving PROVE IInv'
  OBVIOUS
<1> USE DEF IInv
<1>0. /\ UNCHANGED <<pc, handle, copied, reread>> /\ written' = written + 1
      /\ window \subseteq window' /\ (path' # None => file'[path'].blocks \in window')
      /\ written \in Nat
  BY SaverKeepsPasses DEF FileInv
<1>1. FileInv'
  BY SaverWritesFresh
<1>2. \A p \in DOMAIN copied : copied[p] \in Nat /\ copied[p] <= written
  BY DEF CopyInv
<1>3. CopyInv'
  <2>1. \A p \in DOMAIN copied : copied[p] <= written + 1
    BY <1>0, <1>2
  <2> QED BY <1>0, <2>1 DEF CopyInv
<1>4. ShownInv'
  BY <1>0 DEF ShownInv
<1>5. DetachedInv'
  <2> SUFFICES ASSUME handle # None, handle # path'
               PROVE  /\ \A p \in DOMAIN file'[handle].blocks :
                           ~Live(p, file[handle].blocks[p])'
                      /\ pc \in {"copy", "endCopy"} =>
                           \A p \in DOMAIN copied : ~Live(p, copied[p])'
    BY <1>0 DEF DetachedInv, Live
  <2>1. handle \in Inode /\ file'[handle] = file[handle]
    BY SaverWritesFresh DEF FileInv
  <2>2. \A p \in DOMAIN file[handle].blocks :
          file[handle].blocks[p] \in Nat /\ file[handle].blocks[p] <= written
    BY <2>1 DEF FileInv
  <2>3. CASE handle = path
    <3>1. \A p, v : Live(p, v)' => v = written + 1
      BY <2>3, SaverWritesFresh
    <3> QED BY <1>0, <1>2, <2>1, <2>2, <3>1
  <2>4. CASE handle # path
    <3>1. ASSUME NEW p \in DOMAIN file[handle].blocks
          PROVE  ~Live(p, file[handle].blocks[p])'
      <4>1. PICK v \in Nat : v = file[handle].blocks[p] /\ v <= written
        BY <2>2
      <4>2. ~Live(p, v)'
        BY <2>4, <4>1, GoneStaysGone DEF DetachedInv
      <4> QED BY <1>0, <2>1, <4>1, <4>2
    <3>2. ASSUME pc \in {"copy", "endCopy"}, NEW p \in DOMAIN copied
          PROVE  ~Live(p, copied[p])'
      <4>1. PICK v \in Nat : v = copied[p] /\ v <= written
        BY <1>2
      <4>2. ~Live(p, v)'
        BY <2>4, <3>2, <4>1, GoneStaysGone DEF DetachedInv
      <4> QED BY <1>0, <4>1, <4>2
    <3> QED BY <2>1, <3>1, <3>2
  <2> QED BY <2>3, <2>4
<1>6. ASSUME NEW p \in Nat, Betrayed(p) PROVE Betrayed(p)'
  <2>1. p \in DOMAIN copied /\ ~Live(p, copied[p])
    BY <1>6 DEF Betrayed
  <2>2. ~Live(p, copied[p])'
    <3>1. PICK v \in Nat : v = copied[p] /\ v <= written
      BY <1>2, <2>1
    <3>2. ~Live(p, v)'
      BY <2>1, <3>1, GoneStaysGone
    <3> QED BY <1>0, <3>1, <3>2
  <2>3. ASSUME handle # None, p \in DOMAIN file'[handle].blocks
        PROVE  file'[handle].blocks[p] # copied[p]
    <3>1. CASE handle = path /\ path' = path
      BY <1>0, <2>2, <2>3, <3>1 DEF Live
    <3>2. CASE handle # path \/ path' # path
      BY <1>6, <2>3, <3>2, SaverWritesFresh DEF Betrayed
    <3> QED BY <3>1, <3>2
  <2> QED BY <1>0, <1>6, <2>2, <2>3 DEF Betrayed
<1>7. PassInv'
  BY <1>0, <1>6 DEF PassInv, Settled
<1> QED BY <1>1, <1>3, <1>4, <1>5, <1>7

-----------------------------------------------------------------------------
(* The acquisition. *)

\* Giving up leaves the passes.
LEMMA GivingUp ==
  ASSUME IInv, UNCHANGED <<file, path, written, window, copied, reread>>,
         (\E kind \in Kind : GiveUp(kind)) \/ Refuse
  PROVE  IInv'
BY StepAside DEF GiveUp, Refuse, Aside

\* From the observations to the open source: nothing is copied yet, and the
\* window begins with what the second observation saw.
LEMMA ObservingKeeps ==
  ASSUME IInv,
         Observe \/ ObserveAgain \/ MakeLease \/ Anchor \/ CheckDir
           \/ OpenSource("openSource", "create") \/ CreateCandidate
  PROVE  IInv'
<1> USE DEF IInv
<1>1. CASE Observe
  <2>1. CASE Refuse
    BY <1>1, <2>1, GivingUp DEF Observe, source
  <2>2. CASE ~Refuse
    <3>1. /\ pc = "observe" /\ pc' = "observeAgain" /\ handle' = handle
          /\ UNCHANGED <<file, path, written, window, copied, reread>>
      BY <1>1, <2>2 DEF Observe, source
    <3>2. FileInv' /\ CopyInv'
      BY <3>1 DEF FileInv, CopyInv
    <3>3. ShownInv' /\ DetachedInv' /\ PassInv'
      BY <3>1 DEF ShownInv, DetachedInv, PassInv, Live
    <3> QED BY <3>2, <3>3
  <2> QED BY <2>1, <2>2
<1>2. CASE ObserveAgain
  <2>1. CASE Refuse /\ window' = window
    BY <1>2, <2>1, GivingUp DEF ObserveAgain, source
  <2>2. CASE ~(Refuse /\ window' = window)
    <3>1. /\ pc = "observeAgain" /\ pc' = "mkdir" /\ handle' = handle
          /\ window' = {file[path].blocks}
          /\ UNCHANGED <<file, path, written, copied, reread>>
      BY <1>2, <2>2 DEF ObserveAgain, source
    <3>2. FileInv' /\ CopyInv'
      BY <3>1 DEF FileInv, CopyInv
    <3>3. ShownInv' /\ DetachedInv' /\ PassInv'
      BY <3>1 DEF ShownInv, DetachedInv, PassInv, Live
    <3> QED BY <3>2, <3>3
  <2> QED BY <2>1, <2>2
<1>3. ASSUME UNCHANGED <<file, path, written, window, copied, reread>>,
             pc \in {"mkdir", "anchor", "checkDir", "openSource", "create"},
             \/ /\ handle' = handle
                /\ pc' \in {"anchor", "checkDir", "openSource"}
             \/ handle' = path /\ path \in Inode /\ pc' = "create"
             \/ handle' = handle /\ handle # None /\ pc = "create" /\ pc' = "copy"
      PROVE  IInv'
  <2>1. FileInv'
    BY <1>3 DEF FileInv
  <2>2. CopyInv' /\ ShownInv' /\ PassInv'
    BY <1>3, SnapshotAssumption DEF CopyInv, ShownInv, PassInv, SourceInUse
  <2>3. DetachedInv'
    BY <1>3 DEF DetachedInv, CopyInv, Live
  <2> QED BY <2>1, <2>2, <2>3
<1>4. CASE MakeLease
  BY <1>3, <1>4 DEF MakeLease, UnchangedByPass, source
<1>5. CASE Anchor
  BY <1>3, <1>5, GivingUp DEF Anchor, UnchangedByPass, source, Kind
<1>6. CASE CheckDir
  BY <1>3, <1>6, GivingUp DEF CheckDir, UnchangedByPass, source, Kind
<1>7. CASE OpenSource("openSource", "create")
  <2>1. CASE GiveUp("notReady")
    BY <1>7, <2>1, GivingUp DEF OpenSource, UnchangedByPass, source, Kind
  <2>2. CASE AsObserved(path) /\ pc' = "create" /\ handle' = path
    BY <1>3, <1>7, <2>2 DEF OpenSource, UnchangedByPass, source, AsObserved, FileInv
  <2> QED BY <1>7, <2>1, <2>2 DEF OpenSource
<1>8. CASE CreateCandidate
  <2>1. CASE GiveUp("storage")
    BY <1>8, <2>1, GivingUp DEF CreateCandidate, source, Kind
  <2>2. CASE pc' = "copy" /\ handle' = handle
    BY <1>3, <1>8, <2>2 DEF CreateCandidate, source, CopyInv
  <2> QED BY <1>8, <2>1, <2>2 DEF CreateCandidate
<1> QED BY <1>1, <1>2, <1>4, <1>5, <1>6, <1>7, <1>8

\* The first pass.  When it ends, the copy is what the path shows, or one of its
\* blocks is gone.
LEMMA CopyingKeeps ==
  ASSUME IInv, CopyChunk \/ EndCopy \/ OpenSource("reopenSource", "reread")
  PROVE  IInv'
<1> USE DEF IInv
<1>1. CASE CopyChunk /\ pc' = pc
  <2>1. /\ pc = "copy" /\ handle # None /\ handle \in Inode
        /\ copied' = Append(copied, file[handle].blocks[Len(copied) + 1])
        /\ Len(copied) < Len(file[handle].blocks)
        /\ UNCHANGED <<file, path, written, window, reread, handle, pc>>
    <3>1. pc = "copy" /\ Len(copied) < Len(file[handle].blocks)
      BY <1>1 DEF CopyChunk
    <3>2. handle # None /\ handle \in Inode
      BY <3>1 DEF CopyInv, FileInv
    <3>3. /\ copied' = Append(copied, file[handle].blocks[Len(copied) + 1])
          /\ UNCHANGED <<file, path, written, window, reread, handle, pc>>
      BY <1>1, <3>1 DEF CopyChunk, UnchangedByPass, source
    <3> QED BY <3>1, <3>2, <3>3
  <2> DEFINE blocks == file[handle].blocks
  <2> DEFINE n == Len(copied)
  <2>2. /\ blocks \in Seq(Nat) /\ copied \in Seq(Nat) /\ n + 1 \in DOMAIN blocks
        /\ \A p \in DOMAIN blocks : blocks[p] <= written
    BY <2>1 DEF FileInv, CopyInv
  <2>3. blocks[n + 1] \in Nat /\ blocks[n + 1] <= written
    BY <2>2
  <2>4. /\ copied' \in Seq(Nat)
        /\ \A p \in DOMAIN copied' : (p = n + 1 /\ copied'[p] = blocks[n + 1])
                                     \/ (p \in DOMAIN copied /\ copied'[p] = copied[p])
    <3>1. \A x \in Nat : /\ Append(copied, x) \in Seq(Nat)
                         /\ \A p \in DOMAIN Append(copied, x) :
                              (p = Len(copied) + 1 /\ Append(copied, x)[p] = x)
                              \/ (p \in DOMAIN copied /\ Append(copied, x)[p] = copied[p])
      BY <2>2
    <3> QED BY <2>1, <2>3, <3>1
  <2>5. FileInv'
    BY <2>1 DEF FileInv
  <2>6. CopyInv'
    <3>1. \A p \in DOMAIN copied' : copied'[p] <= written
      BY <2>3, <2>4 DEF CopyInv
    <3> QED BY <2>1, <2>4, <3>1 DEF CopyInv
  <2>7. ShownInv' /\ PassInv'
    BY <2>1 DEF ShownInv, PassInv, SourceInUse
  <2>8. DetachedInv'
    <3> SUFFICES ASSUME handle # path, NEW p \in DOMAIN copied'
                 PROVE  ~Live(p, copied'[p])
      BY <2>1 DEF DetachedInv, Live
    <3>1. \A q \in DOMAIN blocks : ~Live(q, blocks[q])
      BY <2>1 DEF DetachedInv
    <3>2. \A q \in DOMAIN copied : ~Live(q, copied[q])
      BY <2>1 DEF DetachedInv
    <3> QED BY <2>2, <2>4, <3>1, <3>2
  <2> QED BY <2>5, <2>6, <2>7, <2>8
<1>2. CASE CopyChunk /\ pc' # pc
  <2>1. /\ pc = "copy" /\ pc' = "endCopy"
        /\ UNCHANGED <<file, path, written, window, copied, reread, handle>>
    BY <1>2 DEF CopyChunk, UnchangedByPass, source
  <2>2. FileInv' /\ CopyInv'
    BY <2>1 DEF FileInv, CopyInv
  <2>3. ShownInv' /\ DetachedInv' /\ PassInv'
    BY <2>1 DEF ShownInv, DetachedInv, PassInv, SourceInUse, Live
  <2> QED BY <2>2, <2>3
<1>3. CASE EndCopy
  <2>1. CASE GiveUp("notReady")
    BY <1>3, <2>1, GivingUp DEF EndCopy, UnchangedByPass, source, Kind
  <2>2. CASE ~GiveUp("notReady")
    <3>1. /\ pc = "endCopy" /\ pc' = "reopenSource" /\ handle' = None
          /\ Len(copied) = Len(file[handle].blocks)
          /\ handle \in Inode /\ handle # None
          /\ UNCHANGED <<file, path, written, window, copied, reread>>
      <4>1. /\ pc = "endCopy" /\ pc' = "reopenSource" /\ handle' = None
            /\ AsObserved(handle) /\ Len(copied) = observed.size
            /\ UNCHANGED <<file, path, written, window, copied, reread>>
        BY <1>3, <2>2 DEF EndCopy, UnchangedByPass, source
      <4>2. handle \in Inode /\ handle # None
        BY <4>1 DEF CopyInv, FileInv
      <4>3. Stat(handle).size = Len(file[handle].blocks) /\ Stat(handle) = observed
        BY <4>1 DEF AsObserved, Stat
      <4> QED BY <4>1, <4>2, <4>3
    <3>2. FileInv' /\ CopyInv'
      BY <3>1 DEF FileInv, CopyInv
    <3>3. ShownInv' /\ DetachedInv'
      BY <3>1 DEF ShownInv, DetachedInv, SourceInUse
    <3>4. copied \in Seq(Nat) /\ file[handle].blocks \in Seq(Nat) /\ reread = <<>>
      BY <3>1 DEF CopyInv, FileInv
    <3>5. CASE copied = <<>>
      BY <3>1, <3>2, <3>3, <3>5 DEF PassInv, Settled
    <3>6. CASE \E p \in DOMAIN copied : ~Live(p, copied[p])
      <4>1. PICK p \in DOMAIN copied : ~Live(p, copied[p])
        BY <3>6
      <4>2. p \in Nat /\ p \notin DOMAIN reread
        BY <3>4
      <4>3. Betrayed(p)'
        BY <3>1, <4>1, <4>2 DEF Betrayed, Live
      <4> QED BY <3>1, <3>2, <3>3, <4>2, <4>3 DEF PassInv
    <3>7. CASE copied # <<>> /\ \A p \in DOMAIN copied : Live(p, copied[p])
      <4>1. 1 \in DOMAIN copied
        BY <3>4, <3>7
      <4>2. handle = path
        BY <3>1, <3>7, <4>1 DEF DetachedInv
      <4>3. \A p \in DOMAIN copied : file[handle].blocks[p] = copied[p]
        BY <3>7, <4>2 DEF Live
      <4>4. file[handle].blocks = copied
        BY <3>1, <3>4, <4>3
      <4>5. copied \in window
        BY <3>1, <4>2, <4>4 DEF ShownInv, SourceInUse
      <4> QED BY <3>1, <3>2, <3>3, <4>5 DEF PassInv, Settled
    <3> QED BY <3>2, <3>3, <3>5, <3>6, <3>7
  <2> QED BY <2>1, <2>2
<1>4. CASE OpenSource("reopenSource", "reread")
  <2>1. CASE GiveUp("notReady")
    BY <1>4, <2>1, GivingUp DEF OpenSource, UnchangedByPass, source, Kind
  <2>2. CASE ~GiveUp("notReady")
    <3>1. /\ pc = "reopenSource" /\ pc' = "reread" /\ handle' = path
          /\ path # None /\ path \in Inode
          /\ UNCHANGED <<file, path, written, window, copied, reread>>
      BY <1>4, <2>2 DEF OpenSource, UnchangedByPass, source, AsObserved, FileInv
    <3>2. FileInv' /\ CopyInv'
      BY <3>1 DEF FileInv, CopyInv
    <3>3. ShownInv' /\ DetachedInv'
      BY <3>1 DEF ShownInv, DetachedInv, SourceInUse
    <3>4. ASSUME NEW p \in Nat, Betrayed(p) PROVE Betrayed(p)'
      BY <3>1, <3>4 DEF Betrayed, Live
    <3>5. PassInv'
      BY <3>1, <3>4 DEF PassInv, Settled
    <3> QED BY <3>2, <3>3, <3>5
  <2> QED BY <2>1, <2>2
<1> QED BY <1>1, <1>2, <1>3, <1>4

\* The second pass: a block that was gone is found to differ.
LEMMA RereadingKeeps == ASSUME IInv, RereadChunk \/ ObserveAfter PROVE IInv'
<1> USE DEF IInv
<1>1. CASE RereadChunk /\ pc' = pc
  <2>1. /\ pc = "reread" /\ handle # None /\ handle \in Inode
        /\ reread' = Append(reread, file[handle].blocks[Len(reread) + 1])
        /\ Len(reread) < Len(file[handle].blocks)
        /\ UNCHANGED <<file, path, written, window, copied, handle, pc>>
    <3>1. pc = "reread" /\ Len(reread) < Len(file[handle].blocks)
      BY <1>1 DEF RereadChunk, GiveUp
    <3>2. handle # None /\ handle \in Inode
      BY <3>1 DEF CopyInv, FileInv
    <3>3. /\ reread' = Append(reread, file[handle].blocks[Len(reread) + 1])
          /\ UNCHANGED <<file, path, written, window, copied, handle, pc>>
      BY <1>1, <3>1 DEF RereadChunk, UnchangedByPass, source
    <3> QED BY <3>1, <3>2, <3>3
  <2> DEFINE blocks == file[handle].blocks
  <2> DEFINE n == Len(reread)
  <2>2. blocks \in Seq(Nat) /\ reread \in Seq(Nat) /\ n + 1 \in DOMAIN blocks
    BY <2>1 DEF FileInv, CopyInv
  <2>3. /\ reread' \in Seq(Nat)
        /\ \A p \in DOMAIN reread' : (p = n + 1 /\ reread'[p] = blocks[n + 1])
                                     \/ (p \in DOMAIN reread /\ reread'[p] = reread[p])
    <3>1. \A x \in Nat : /\ Append(reread, x) \in Seq(Nat)
                         /\ \A p \in DOMAIN Append(reread, x) :
                              (p = Len(reread) + 1 /\ Append(reread, x)[p] = x)
                              \/ (p \in DOMAIN reread /\ Append(reread, x)[p] = reread[p])
      BY <2>2
    <3> QED BY <2>1, <2>2, <3>1
  <2>4. FileInv' /\ CopyInv'
    BY <2>1, <2>3 DEF FileInv, CopyInv
  <2>5. ShownInv' /\ DetachedInv'
    BY <2>1 DEF ShownInv, DetachedInv, SourceInUse, Live
  <2>6. ASSUME NEW p \in Nat, Betrayed(p) PROVE Betrayed(p)'
    <3>1. p \in DOMAIN reread' => reread'[p] # copied[p]
      BY <2>1, <2>2, <2>3, <2>6 DEF Betrayed
    <3> QED BY <2>1, <2>6, <3>1 DEF Betrayed, Live
  <2>7. PassInv'
    BY <2>1, <2>6 DEF PassInv, Settled
  <2> QED BY <2>4, <2>5, <2>7
<1>2. CASE RereadChunk /\ pc' # pc
  <2>1. CASE GiveUp("notReady") /\ reread' = reread
    BY <1>2, <2>1, GivingUp DEF RereadChunk, UnchangedByPass, source, Kind
  <2>2. CASE ~(GiveUp("notReady") /\ reread' = reread)
    <3>1. /\ pc = "reread" /\ pc' = "observeAfter" /\ handle' = None
          /\ UNCHANGED <<file, path, written, window, copied, reread>>
      BY <1>2, <2>2 DEF RereadChunk, UnchangedByPass, source
    <3>2. FileInv' /\ CopyInv'
      BY <3>1 DEF FileInv, CopyInv
    <3>3. ShownInv' /\ DetachedInv'
      BY <3>1 DEF ShownInv, DetachedInv, SourceInUse
    <3>4. ASSUME NEW p \in Nat, Betrayed(p) PROVE Betrayed(p)'
      BY <3>1, <3>4 DEF Betrayed, Live
    <3>5. PassInv'
      BY <3>1, <3>4 DEF PassInv, Settled
    <3> QED BY <3>2, <3>3, <3>5
  <2> QED BY <2>1, <2>2
<1>3. CASE ObserveAfter
  <2>1. CASE GiveUp("notReady")
    BY <1>3, <2>1, GivingUp DEF ObserveAfter, UnchangedByPass, source, Kind
  <2>2. CASE ~GiveUp("notReady")
    <3>1. /\ pc = "observeAfter" /\ pc' = "rehash" /\ handle' = handle
          /\ reread = copied
          /\ UNCHANGED <<file, path, written, window, copied, reread>>
      BY <1>3, <2>2 DEF ObserveAfter, UnchangedByPass, source, SameBytes
    <3>2. FileInv' /\ CopyInv'
      BY <3>1 DEF FileInv, CopyInv
    <3>3. ShownInv' /\ DetachedInv'
      BY <3>1 DEF ShownInv, DetachedInv, SourceInUse, Live
    <3>4. Settled
      BY <3>1 DEF PassInv, Betrayed
    <3>5. PassInv'
      BY <3>1, <3>4 DEF PassInv, Settled
    <3> QED BY <3>2, <3>3, <3>5
  <2> QED BY <2>1, <2>2
<1> QED BY <1>1, <1>2, <1>3
-----------------------------------------------------------------------------
(* The candidate, the loan and the cleanup. *)

\* From the verified bytes to the end of the loan nothing is copied any more.
LEMMA LendingKeeps ==
  ASSUME IInv,
         Rehash \/ ValidateZip \/ PrePromote \/ Promote \/ Attest \/ Consume \/ Return
  PROVE  IInv'
<1> USE DEF IInv
<1>1. ASSUME UNCHANGED <<file, path, written, window, copied, reread, handle>>,
             \/ pc = "rehash" /\ pc' = "zip"
             \/ pc = "zip" /\ pc' = "prePromote" /\ copied # <<>>
             \/ pc = "prePromote" /\ pc' = "promote"
             \/ pc = "promote" /\ pc' = "attest"
             \/ pc = "attest" /\ pc' = "lent"
      PROVE  IInv'
  <2>1. FileInv' /\ CopyInv'
    BY <1>1 DEF FileInv, CopyInv
  <2>2. ShownInv' /\ PassInv'
    BY <1>1 DEF ShownInv, PassInv, Settled, SourceInUse
  <2>3. DetachedInv'
    BY <1>1 DEF DetachedInv, Live
  <2> QED BY <2>1, <2>2, <2>3
<1>2. CASE Rehash
  BY <1>1, <1>2, GivingUp DEF Rehash, UnchangedByCheck, source, Kind
<1>3. CASE ValidateZip
  BY <1>1, <1>3, GivingUp DEF ValidateZip, UnchangedByCheck, source, Kind
<1>4. CASE PrePromote
  BY <1>1, <1>4, GivingUp DEF PrePromote, UnchangedByCheck, source, Kind
<1>5. CASE Promote
  BY <1>1, <1>5, GivingUp DEF Promote, UnchangedByCheck, source, Kind
<1>6. CASE Attest
  BY <1>1, <1>6, GivingUp DEF Attest, UnchangedByCheck, source, Kind
<1>7. CASE Consume
  BY <1>7, SameSide DEF Consume, source, passes, sourceSide
<1>8. CASE Return
  BY <1>8, StepAside DEF Return, UnchangedByCheck, source, Aside
<1> QED BY <1>2, <1>3, <1>4, <1>5, <1>6, <1>7, <1>8

\* Whatever becomes of the lease, and every failing call, leaves the passes.
LEMMA AsideKeeps ==
  ASSUME IInv,
         \/ VisitFile \/ VisitDirectory \/ Done
         \/ Failing \/ CandidateUnknown
         \/ Verify \/ VerifyBytes
         \/ Take \/ Look \/ LookAgain \/ RemoveCaught \/ Restore \/ CleanupFails
  PROVE  IInv'
<1>1. CASE VisitFile \/ VisitDirectory
  BY <1>1, SameSide DEF VisitFile, VisitDirectory, Visits, source, passes, sourceSide
<1>2. CASE Done
  BY <1>2, SameSide DEF Done, vars, source, passes, sourceSide
<1>3. CASE Failing
  <2>1. /\ UNCHANGED <<file, path, written, window, copied, reread>>
        /\ \E kind \in FailsAs[pc] : Refuse \/ GiveUp(kind)
    BY <1>3 DEF Failing, CallFails, source
  <2>2. FailsAs[pc] \subseteq Kind
    BY <1>3 DEF Failing, FailsAs, Kind
  <2> QED BY <2>1, <2>2, GivingUp
<1>4. CASE CandidateUnknown
  BY <1>4, GivingUp DEF CandidateUnknown, source, Kind
<1>5. CASE Verify
  BY <1>5, StepAside DEF Verify, UnchangedByCheck, source, GiveUp, Aside
<1>6. CASE VerifyBytes
  BY <1>6, StepAside DEF VerifyBytes, UnchangedByCheck, source, GiveUp, Aside
<1>7. ASSUME UNCHANGED <<source, window, passes>>,
             GoOn \/ pc' \in {"look", "lookAgain", "remove", "restore"}
      PROVE  IInv'
  BY <1>7, StepAside DEF GoOn, source, passes, Aside
<1>8. CASE Take
  BY <1>7, <1>8 DEF Take, UnchangedByCleanup
<1>9. CASE Look
  BY <1>7, <1>9 DEF Look, UnchangedByCleanup
<1>10. CASE LookAgain
  BY <1>7, <1>10 DEF LookAgain, UnchangedByCleanup
<1>11. CASE RemoveCaught
  BY <1>7, <1>11 DEF RemoveCaught, UnchangedByCleanup
<1>12. CASE Restore
  BY <1>7, <1>12 DEF Restore, UnchangedByCleanup
<1>13. CASE CleanupFails
  BY <1>7, <1>13 DEF CleanupFails
<1> QED BY <1>1, <1>2, <1>3, <1>4, <1>5, <1>6, <1>8, <1>9, <1>10, <1>11, <1>12, <1>13

\* The invariant is inductive.
LEMMA NextKeeps == IInv /\ [Next]_vars => IInv'
<1> SUFFICES ASSUME IInv, [Next]_vars PROVE IInv'
  OBVIOUS
<1>1. CASE Saving
  BY <1>1, SaverKeeps
<1>2. CASE ~Saving /\ Next
  BY <1>2, ObservingKeeps, CopyingKeeps, RereadingKeeps, LendingKeeps, AsideKeeps
     DEF Next, Saving
<1>3. CASE UNCHANGED vars
  BY <1>3, SameSide DEF vars, source, passes, sourceSide
<1> QED BY <1>1, <1>2, <1>3

\* The invariant holds in every reachable state, whatever the saver, the visitor
\* and the failing calls do: it is the argument for SnapshotIsOneMoment.
THEOREM Invariance == Spec => []IInv
<1> QED BY InitIInv, NextKeeps, PTL DEF Spec

\* What open_stable_xlsx_snapshot lends is the whole workbook as it was at one
\* moment after the second observation: two passes with equal digests are enough,
\* even if neither size nor mtime shows that a save came between.
THEOREM SnapshotIsOneMoment == Spec => []SnapshotHappened
<1>1. IInv => SnapshotHappened
  BY DEF IInv, PassInv, SnapshotHappened
<1> QED BY <1>1, Invariance, PTL

-----------------------------------------------------------------------------
(***************************************************************************)
(* What becomes of the lease, for any workbook, any saver and any number   *)
(* of visits and failing calls: what the consumer read that was not the    *)
(* snapshot is reported, what is left behind is reported, and nothing of   *)
(* somebody else is removed but in the moment between the last look and    *)
(* the call that removes.                                                  *)
(***************************************************************************)


\* Nothing was made yet; the cleanup is on its way; the two between them.
Early == {"observe", "observeAgain", "mkdir"}
Cleaning == {"take", "look", "lookAgain", "remove", "restore"}
Catching == {"look", "lookAgain", "remove"}
Checking == {"verify", "verifyBytes"}

PlaceInv ==
    /\ lease \in Dir \cup {None} /\ qdir \in Dir \cup {None}
    /\ dirToken \in Dir \cup {None} /\ owned \subseteq {"part", "final"}
    /\ entry \in [Dir -> [Name -> Held]]
    /\ target \in {"part", "final", "dir"}
    /\ late \in BOOLEAN /\ filesCleaned \in BOOLEAN /\ trouble \in Nat

\* What has happened by which step.
StageInv ==
    /\ pc \in Early => lease = None /\ \A d \in Dir, n \in Name : entry[d][n] = "nothing"
    /\ pc \notin Cleaning \cup {"ended"} => qdir = None /\ target = "part"
    /\ pc \notin Cleaning \cup Checking \cup {"ended"} => errors = {}
    /\ pc \in Checking => errors \subseteq {"consumer"}
    /\ ~filesCleaned \/ pc = "restore" => "cleanup" \in errors

\* While no cleanup error is recorded, one thing at most is in quarantine, and
\* it is the one the cleanup is at.
GoneInv ==
    "cleanup" \notin errors =>
        /\ \A d \in Dir : entry[d]["qpart"] # "nothing" => target = "part" /\ pc \in Catching
        /\ \A d \in Dir : entry[d]["qfinal"] # "nothing" => target = "final" /\ pc \in Catching
        /\ \A c, d \in Dir, n \in {"qpart", "qfinal"} :
             entry[c][n] # "nothing" /\ entry[d][n] # "nothing" => c = d
        /\ qdir # None => target = "dir" /\ pc \in Catching
        /\ target = "dir" /\ pc \in Catching => lease = None
        /\ pc = "ended" => lease = None

\* The directory somebody put in the place of ours holds no file of ours.
StrangerInv ==
    "ours" \in {lease, qdir} => \A n \in Name : entry["theirs"][n] \notin Ours

\* A wrong read is on record, or about to be found.
ReadInv ==
    /\ read = "other" =>
        \/ "integrity" \in errors
        \/ pc \in {"lent"} \cup Checking /\ At("final") \notin Intact

\* What was looked at last is what is removed, if nobody came since.
RemoveInv == pc = "remove" /\ ~late => Proven

LeaseInv == PlaceInv /\ StageInv /\ GoneInv /\ StrangerInv /\ ReadInv /\ RemoveInv


-----------------------------------------------------------------------------
LEMMA InitLease == Init => LeaseInv
<1> SUFFICES ASSUME Init PROVE LeaseInv
  OBVIOUS
<1> USE SnapshotAssumption DEF Init, Dir, Name, Held, Ours, Intact, Early, Cleaning, Catching,
    Checking
<1>1. PlaceInv
  BY DEF PlaceInv
<1>2. StageInv /\ GoneInv /\ StrangerInv
  BY DEF StageInv, GoneInv, StrangerInv
<1>3. ReadInv /\ RemoveInv
  BY DEF ReadInv, RemoveInv
<1> QED
  BY <1>1, <1>2, <1>3 DEF LeaseInv

leaseSide == <<pc, errors, filesCleaned, target, places, tokens, read, late, trouble>>

\* A step that touches nothing of the lease.
LEMMA SameLease == LeaseInv /\ UNCHANGED leaseSide => LeaseInv'
<1> SUFFICES ASSUME LeaseInv, UNCHANGED leaseSide PROVE LeaseInv'
  OBVIOUS
<1> USE DEF leaseSide, places, tokens, LeaseInv
<1>1. PlaceInv' /\ StageInv' /\ GoneInv' /\ StrangerInv'
  BY DEF PlaceInv, StageInv, GoneInv, StrangerInv
<1>2. ReadInv' /\ RemoveInv'
  BY DEF ReadInv, RemoveInv, At, Proven, Caught
<1> QED
  BY <1>1, <1>2

-----------------------------------------------------------------------------
(* Types. *)

LEMMA PutHeld ==
  ASSUME PlaceInv, lease # None, NEW n \in Name, NEW x \in Held, Put(n, x)
  PROVE  /\ entry' \in [Dir -> [Name -> Held]]
         /\ \A d \in Dir, m \in Name :
              entry'[d][m] = IF d = lease /\ m = n THEN x ELSE entry[d][m]
BY DEF PlaceInv, Put

LEMMA MoveHeld ==
  ASSUME PlaceInv, lease # None, NEW m \in Name, NEW n \in Name, m # n, MoveTo(m, n)
  PROVE  /\ entry' \in [Dir -> [Name -> Held]]
         /\ \A d \in Dir, k \in Name :
              entry'[d][k] = CASE d = lease /\ k = n -> entry[d][m]
                               [] d = lease /\ k = m -> "nothing"
                               [] OTHER -> entry[d][k]
BY DEF PlaceInv, MoveTo, Moved, Held

LEMMA VisitHeld ==
  ASSUME PlaceInv, VisitFile
  PROVE  \E d \in {lease, qdir} \ {None}, n \in Name, x \in Held \ {"own"} :
           /\ d \in Dir
           /\ entry[d][n] = "nothing" => x = "foreign" /\ n \in {"part", "final", "other"}
           /\ x \in Ours => entry[d][n] \in Intact \ {x}
           /\ entry' \in [Dir -> [Name -> Held]]
           /\ \A c \in Dir, m \in Name :
                entry'[c][m] = IF c = d /\ m = n THEN x ELSE entry[c][m]
<1>1. PICK d \in Found, n \in Name, x \in Held \ {"own"} :
        /\ entry[d][n] = "nothing" => x = "foreign" /\ n \in {"part", "final", "other"}
        /\ x \in Ours => entry[d][n] \in Intact \ {x}
        /\ entry' = [entry EXCEPT ![d][n] = x]
  BY DEF VisitFile
<1>2. d \in {lease, qdir} \ {None} /\ d \in Dir
  BY DEF Found, PlaceInv
<1>3. /\ entry' \in [Dir -> [Name -> Held]]
      /\ \A c \in Dir, m \in Name : entry'[c][m] = IF c = d /\ m = n THEN x ELSE entry[c][m]
  BY <1>1, <1>2 DEF PlaceInv
<1> QED
  BY <1>1, <1>2, <1>3

LEMMA PlaceStep == LeaseInv /\ Next => PlaceInv'
<1> SUFFICES ASSUME LeaseInv, Next PROVE PlaceInv'
  OBVIOUS
<1>1. PlaceInv
  BY DEF LeaseInv
<1>2. CASE Saving \/ Done
  BY <1>1, <1>2, SameLease DEF Saving, WriteInPlace, Replace, Remove, Writes, Done, vars,
    leaseSide, places, tokens, history, LeaseInv
<1>3. CASE VisitFile
  <2>1. entry' \in [Dir -> [Name -> Held]]
    BY <1>1, <1>3, VisitHeld
  <2> QED
    BY <1>1, <1>3, <2>1 DEF PlaceInv, VisitFile, Visits, tokens
<1>4. CASE VisitDirectory
  BY <1>1, <1>4 DEF PlaceInv, VisitDirectory, Visits, tokens, Dir
<1>5. CASE Failing
  BY <1>1, <1>5 DEF PlaceInv, Failing, CallFails, tokens, places
<1>6. CASE Observe \/ ObserveAgain \/ OpenSource("openSource", "create")
           \/ OpenSource("reopenSource", "reread")
  BY <1>1, <1>6 DEF PlaceInv, Observe, ObserveAgain, OpenSource, UnchangedByPass, tokens, places,
    history
<1>7. CASE CopyChunk \/ EndCopy \/ RereadChunk \/ ObserveAfter
  BY <1>1, <1>7 DEF PlaceInv, CopyChunk, EndCopy, RereadChunk, ObserveAfter, UnchangedByPass,
    places, history
<1>8. CASE MakeLease \/ Anchor \/ CheckDir
  BY <1>1, <1>8 DEF PlaceInv, MakeLease, Anchor, CheckDir, UnchangedByPass, places, history, Dir
<1>9. CASE CreateCandidate
  BY <1>1, <1>9, PutHeld DEF PlaceInv, CreateCandidate, history, Name, Held, Ours, Intact
<1>10. CASE CandidateUnknown
  BY <1>1, <1>10, PutHeld DEF PlaceInv, CandidateUnknown, tokens, Name, Held, Ours, Intact
<1>11. CASE Rehash \/ ValidateZip \/ PrePromote \/ Verify \/ VerifyBytes \/ Return
  BY <1>1, <1>11 DEF PlaceInv, Rehash, ValidateZip, PrePromote, Verify, VerifyBytes, Return,
    UnchangedByCheck, places
<1>12. CASE Promote
  BY <1>1, <1>12, MoveHeld DEF PlaceInv, Promote, UnchangedByCheck, At, Name
<1>13. CASE Attest
  BY <1>1, <1>13, PutHeld DEF PlaceInv, Attest, UnchangedByCheck, At, Name, Held, Ours, Intact
<1>14. CASE Consume
  BY <1>1, <1>14 DEF PlaceInv, Consume, tokens, places
<1>15. CASE Take
  BY <1>1, <1>15, MoveHeld DEF PlaceInv, Take, UnchangedByCleanup, GoOn, Following, Quarantine,
    At, Name, tokens, places
<1>16. CASE Look \/ LookAgain \/ CleanupFails
  <2>1. UNCHANGED <<places, tokens>> /\ target' \in {target, Following[target]}
        /\ trouble' \in {trouble, trouble + 1} /\ late' \in {late, FALSE}
    BY <1>16 DEF Look, LookAgain, CleanupFails, UnchangedByCleanup, GoOn, Unclean
  <2>2. filesCleaned' \in BOOLEAN
    BY <1>1, <1>16 DEF PlaceInv, Look, LookAgain, CleanupFails, Unclean
  <2>3. trouble' \in Nat
    BY <1>1, <2>1 DEF PlaceInv
  <2>4. late' \in BOOLEAN
    BY <1>1, <2>1 DEF PlaceInv
  <2>5. target' \in {"part", "final", "dir"}
    BY <1>1, <2>1 DEF PlaceInv, Following
  <2> QED
    BY <1>1, <2>1, <2>2, <2>3, <2>4, <2>5 DEF PlaceInv, tokens, places
<1>17. CASE RemoveCaught
  <2>1. UNCHANGED <<tokens, trouble, late>> /\ target' \in {target, Following[target]}
        /\ lease' = lease /\ qdir' \in {qdir, None}
    BY <1>17 DEF RemoveCaught, UnchangedByCleanup, GoOn, places
  <2>2. filesCleaned' \in BOOLEAN
    BY <1>1, <1>17 DEF PlaceInv, RemoveCaught, Unclean
  <2>3. entry' \in [Dir -> [Name -> Held]]
    BY <1>1, <1>17, PutHeld DEF PlaceInv, RemoveCaught, Caught, Quarantine, At, Name, Held, places
  <2> QED
    BY <1>1, <2>1, <2>2, <2>3 DEF PlaceInv, Following, tokens
<1>18. CASE Restore
  BY <1>1, <1>18, MoveHeld DEF PlaceInv, Restore, UnchangedByCleanup, GoOn, Following, Caught,
    Quarantine, At, Name, tokens, places
<1> QED
  BY <1>2, <1>3, <1>4, <1>5, <1>6, <1>7, <1>8, <1>9, <1>10, <1>11, <1>12, <1>13, <1>14, <1>15,
    <1>16, <1>17, <1>18 DEF Next, Saving

-----------------------------------------------------------------------------
(* The stages. *)

LEMMA StageStep == LeaseInv /\ Next => StageInv'
<1> SUFFICES ASSUME LeaseInv, Next PROVE StageInv'
  OBVIOUS
<1>1. PlaceInv /\ StageInv
  BY DEF LeaseInv
<1> USE DEF Early, Cleaning, Checking
<1>2. CASE Saving \/ Done
  BY <1>1, <1>2, SameLease DEF Saving, WriteInPlace, Replace, Remove, Writes, Done, vars,
    leaseSide, places, tokens, history, LeaseInv
<1>3. CASE VisitFile
  <2>1. pc \notin Early
    BY <1>1, <1>3, VisitHeld DEF StageInv, PlaceInv
  <2> QED
    BY <1>1, <1>3, <2>1 DEF StageInv, VisitFile, Visits
<1>4. CASE VisitDirectory
  BY <1>1, <1>4 DEF StageInv, VisitDirectory, Visits
<1>5. ASSUME NEW kind \in Kind, GiveUp(kind), UNCHANGED filesCleaned
      PROVE  StageInv'
  BY <1>1, <1>5 DEF StageInv, GiveUp
<1>6. CASE Failing
  BY <1>1, <1>5, <1>6 DEF StageInv, Failing, CallFails, FailsAs, Kind, Refuse, places
<1>7. CASE Observe \/ ObserveAgain \/ MakeLease
  BY <1>1, <1>7 DEF StageInv, Observe, ObserveAgain, MakeLease, Refuse, UnchangedByPass, places
<1>8. CASE Anchor \/ CheckDir \/ OpenSource("openSource", "create")
           \/ OpenSource("reopenSource", "reread")
  BY <1>1, <1>5, <1>8 DEF StageInv, Kind, Anchor, CheckDir, OpenSource, UnchangedByPass, places
<1>9. CASE CopyChunk \/ EndCopy \/ RereadChunk \/ ObserveAfter
  BY <1>1, <1>5, <1>9 DEF StageInv, Kind, CopyChunk, EndCopy, RereadChunk, ObserveAfter,
    UnchangedByPass, places
<1>10. CASE CreateCandidate \/ CandidateUnknown
  BY <1>1, <1>5, <1>10 DEF StageInv, Kind, CreateCandidate, CandidateUnknown
<1>11. CASE Rehash \/ ValidateZip \/ PrePromote \/ Promote \/ Attest
  BY <1>1, <1>5, <1>11 DEF StageInv, Kind, Rehash, ValidateZip, PrePromote, Promote, Attest,
    UnchangedByCheck, places
<1>12. CASE Consume \/ Return \/ Verify \/ VerifyBytes
  BY <1>1, <1>5, <1>12 DEF StageInv, Kind, Consume, Return, Verify, VerifyBytes,
    UnchangedByCheck, places
<1>13. CASE Take \/ Look \/ LookAgain \/ RemoveCaught \/ Restore \/ CleanupFails
  BY <1>1, <1>13 DEF StageInv, Take, Look, LookAgain, RemoveCaught, Restore, CleanupFails,
    GoOn, Unclean
<1> QED
  BY <1>2, <1>3, <1>4, <1>6, <1>7, <1>8, <1>9, <1>10, <1>11, <1>12, <1>13 DEF Next, Saving

-----------------------------------------------------------------------------
(* What is left. *)

\* A step outside the quarantine that only goes on to what comes next.
LEMMA NothingCaught ==
  ASSUME LeaseInv,
         pc \notin Catching, "cleanup" \in errors => "cleanup" \in errors',
         pc' = "ended" => lease' = None \/ "cleanup" \in errors',
         pc' \notin Catching,
         qdir' = qdir,
         \A d \in Dir, n \in {"qpart", "qfinal"} : entry'[d][n] = entry[d][n]
  PROVE  GoneInv'
BY DEF LeaseInv, GoneInv

LEMMA GoneStep == LeaseInv /\ Next => GoneInv'
<1> SUFFICES ASSUME LeaseInv, Next PROVE GoneInv'
  OBVIOUS
<1>1. PlaceInv /\ StageInv /\ GoneInv
  BY DEF LeaseInv
<1> USE DEF Early, Cleaning, Checking, Catching
<1>2. CASE Saving \/ Done
  BY <1>1, <1>2, SameLease DEF Saving, WriteInPlace, Replace, Remove, Writes, Done, vars,
    leaseSide, places, tokens, history, LeaseInv
<1>3. CASE VisitFile
  <2>1. \A d \in Dir, n \in {"qpart", "qfinal"} : entry[d][n] = "nothing" => entry'[d][n] = "nothing"
    BY <1>1, <1>3, VisitHeld DEF Name
  <2> QED
    BY <1>1, <1>3, <2>1 DEF GoneInv, VisitFile, Visits
<1>4. CASE VisitDirectory
  BY <1>1, <1>4 DEF GoneInv, VisitDirectory, Visits
<1>5. ASSUME NEW kind \in Kind, GiveUp(kind), pc \notin Catching, qdir' = qdir,
             \A d \in Dir, n \in {"qpart", "qfinal"} : entry'[d][n] = entry[d][n]
      PROVE  GoneInv'
  BY <1>5, NothingCaught DEF GiveUp
<1>6. CASE Failing
  <2>1. CASE pc \in {"observe", "observeAgain"}
    BY <1>1, <1>6, <2>1, NothingCaught DEF StageInv, Failing, CallFails, Refuse, places
  <2>2. CASE pc \notin {"observe", "observeAgain"}
    BY <1>5, <1>6, <2>2 DEF Failing, CallFails, FailsAs, Kind, places
  <2> QED
    BY <2>1, <2>2
<1>7. CASE Observe \/ ObserveAgain
  BY <1>1, <1>7, NothingCaught DEF StageInv, Observe, ObserveAgain, Refuse, places
<1>8. CASE MakeLease \/ Consume \/ Return
  BY <1>1, <1>8, NothingCaught DEF StageInv, MakeLease, Consume, Return, UnchangedByPass,
    UnchangedByCheck, places
<1>9. CASE Anchor \/ CheckDir \/ OpenSource("openSource", "create")
           \/ OpenSource("reopenSource", "reread")
  BY <1>1, <1>5, <1>9, NothingCaught DEF Kind, Anchor, CheckDir, OpenSource, places
<1>10. CASE CopyChunk \/ EndCopy \/ RereadChunk \/ ObserveAfter
  BY <1>1, <1>5, <1>10, NothingCaught DEF Kind, CopyChunk, EndCopy, RereadChunk, ObserveAfter, places
<1>11. CASE CreateCandidate \/ CandidateUnknown
  <2>1. \A d \in Dir, n \in {"qpart", "qfinal"} : entry'[d][n] = entry[d][n]
    BY <1>1, <1>11, PutHeld DEF CreateCandidate, CandidateUnknown, Name, Held, Ours, Intact
  <2> QED
    BY <1>5, <1>11, <2>1, NothingCaught DEF Kind, CreateCandidate, CandidateUnknown
<1>12. CASE Promote \/ Attest
  <2>1. \A d \in Dir, n \in {"qpart", "qfinal"} : entry'[d][n] = entry[d][n]
    BY <1>1, <1>12, PutHeld, MoveHeld DEF Promote, Attest, At, Name, Held, Ours, Intact
  <2> QED
    BY <1>5, <1>12, <2>1, NothingCaught DEF Kind, Promote, Attest
<1>13. CASE Rehash \/ ValidateZip \/ PrePromote \/ Verify \/ VerifyBytes
  BY <1>5, <1>13, NothingCaught DEF Kind, Rehash, ValidateZip, PrePromote, Verify, VerifyBytes, places
<1>14. CASE Take
  <2>1. CASE GoOn /\ UNCHANGED <<errors, places>> /\ (target = "dir" => ~filesCleaned \/ lease = None)
    BY <1>1, <1>14, <2>1, NothingCaught DEF Take, StageInv, GoOn, places
  <2>2. CASE target = "dir" /\ qdir' = lease /\ lease' = None /\ pc' = "look"
             /\ UNCHANGED <<errors, target, entry>>
    BY <1>1, <1>14, <2>2 DEF Take, GoneInv
  <2>3. CASE /\ target # "dir" /\ At(target) # "nothing"
             /\ MoveTo(target, Quarantine[target])
             /\ pc' = "look"
             /\ UNCHANGED <<errors, target, lease, qdir>>
    BY <1>1, <1>14, <2>3, MoveHeld DEF Take, GoneInv, PlaceInv, At, Quarantine, Name
  <2> QED
    BY <1>14, <2>1, <2>2, <2>3 DEF Take
<1>15. ASSUME Unclean PROVE GoneInv'
  BY <1>15 DEF Unclean, GoneInv
<1>16. CASE Look \/ LookAgain
  BY <1>1, <1>15, <1>16 DEF Look, LookAgain, GoneInv, places
<1>17. CASE RemoveCaught
  <2>1. CASE target # "dir" /\ Caught # "nothing" /\ Put(Quarantine[target], "nothing")
             /\ GoOn /\ UNCHANGED <<errors, lease, qdir>>
    BY <1>1, <1>17, <2>1, PutHeld DEF RemoveCaught, GoneInv, PlaceInv, Caught, GoOn, Following,
      At, Quarantine, Name, Held
  <2>2. CASE target = "dir" /\ qdir' = None /\ GoOn /\ UNCHANGED <<errors, lease, entry>>
    BY <1>1, <1>17, <2>2 DEF RemoveCaught, GoneInv, GoOn, Following
  <2> QED
    BY <1>15, <1>17, <2>1, <2>2 DEF RemoveCaught
<1>18. CASE Restore
  BY <1>1, <1>18 DEF Restore, StageInv, GoneInv
<1>19. CASE CleanupFails
  BY <1>15, <1>19 DEF CleanupFails
<1> QED
  BY <1>2, <1>3, <1>4, <1>6, <1>7, <1>8, <1>9, <1>10, <1>11, <1>12, <1>13, <1>14, <1>16, <1>17,
    <1>18, <1>19 DEF Next, Saving

-----------------------------------------------------------------------------
(* Who reads what. *)

LEMMA StrangerStep == LeaseInv /\ Next => StrangerInv'
<1> SUFFICES ASSUME LeaseInv, Next PROVE StrangerInv'
  OBVIOUS
<1>1. PlaceInv /\ StageInv /\ StrangerInv
  BY DEF LeaseInv
<1>2. CASE VisitFile
  <2>1. \A n \in Name : entry'["theirs"][n] \in Ours => entry["theirs"][n] \in Ours
    BY <1>1, <1>2, VisitHeld DEF Dir, Ours, Held
  <2> QED
    BY <1>1, <1>2, <2>1 DEF StrangerInv, VisitFile
<1>3. CASE VisitDirectory
  BY <1>1, <1>3, SnapshotAssumption DEF StrangerInv, VisitDirectory
<1>4. CASE MakeLease
  BY <1>1, <1>4 DEF StrangerInv, StageInv, MakeLease, Early, Dir, Ours, Intact
<1>5. CASE CreateCandidate \/ CandidateUnknown \/ Attest
  <2>1. UNCHANGED <<lease, qdir>> /\ qdir = None
    BY <1>1, <1>5 DEF StageInv, CreateCandidate, CandidateUnknown, Attest, Cleaning
  <2>2. entry' = entry \/ (lease # None /\ \E n \in {"part", "final"} : Put(n, "own"))
    BY <1>5 DEF CreateCandidate, CandidateUnknown, Attest, At, Intact
  <2>3. lease = "ours" => \A n \in Name : entry'["theirs"][n] = entry["theirs"][n]
    BY <1>1, <2>2, PutHeld DEF Dir, Name, Held, Ours, Intact
  <2> QED
    BY <1>1, <2>1, <2>3, SnapshotAssumption DEF StrangerInv
<1>6. CASE Promote
  BY <1>1, <1>6, MoveHeld DEF StrangerInv, PlaceInv, StageInv, Promote, At, Dir, Name, Ours,
    Intact, Cleaning
<1>7. CASE Take
  BY <1>1, <1>7, MoveHeld, SnapshotAssumption DEF StrangerInv, PlaceInv, Take, At, Quarantine, Dir,
    Name, Ours, Intact, places
<1>8. CASE RemoveCaught
  BY <1>1, <1>8, PutHeld, SnapshotAssumption DEF StrangerInv, PlaceInv, RemoveCaught, Caught, At,
    Quarantine, Dir, Name, Held, Ours, Intact, places
<1>9. CASE Restore
  BY <1>1, <1>9, MoveHeld, SnapshotAssumption DEF StrangerInv, PlaceInv, Restore, Caught, At,
    Quarantine, Dir, Name, Ours, Intact, places
<1>10. CASE UNCHANGED places
  BY <1>1, <1>10 DEF StrangerInv, places
<1>11. CASE Saving \/ Failing \/ Observe \/ ObserveAgain \/ Consume \/ CleanupFails \/ Done
  BY <1>10, <1>11 DEF Saving, WriteInPlace, Replace, Remove, Writes, Failing, CallFails, Observe,
    ObserveAgain, Consume, CleanupFails, Done, vars
<1>12. CASE Anchor \/ CheckDir \/ OpenSource("openSource", "create")
            \/ OpenSource("reopenSource", "reread")
            \/ CopyChunk \/ EndCopy \/ RereadChunk \/ ObserveAfter
  BY <1>10, <1>12 DEF Anchor, CheckDir, OpenSource, CopyChunk, EndCopy, RereadChunk, ObserveAfter
<1>13. CASE Rehash \/ ValidateZip \/ PrePromote \/ Return \/ Verify \/ VerifyBytes \/ Look \/ LookAgain
  BY <1>10, <1>13 DEF Rehash, ValidateZip, PrePromote, Return, Verify, VerifyBytes, Look, LookAgain
<1> QED
  BY <1>2, <1>3, <1>4, <1>5, <1>6, <1>7, <1>8, <1>9, <1>11, <1>12, <1>13 DEF Next, Saving

\* A copy that is not intact while somebody may still look at it stays so, until
\* the end of the lease reports it.
LEMMA SpoiltStays ==
  ASSUME LeaseInv, Next, pc \in {"lent"} \cup Checking, At("final") \notin Intact
  PROVE  \/ "integrity" \in errors'
         \/ pc' \in {"lent"} \cup Checking /\ At("final")' \notin Intact
<1>1. PlaceInv /\ StageInv /\ StrangerInv
  BY DEF LeaseInv
<1> USE DEF Checking, Cleaning
<1>2. CASE VisitFile
  BY <1>1, <1>2, VisitHeld DEF VisitFile, Visits, At, PlaceInv, Name, Ours, Intact
<1>3. CASE VisitDirectory
  <2>1. At("final")' \notin Intact \/ At("final")' = At("final")
    BY <1>1, <1>3 DEF VisitDirectory, StageInv, StrangerInv, PlaceInv, At, Dir, Name, Ours, Intact
  <2> QED
    BY <1>3, <2>1 DEF VisitDirectory, Visits
<1>4. CASE Verify \/ VerifyBytes \/ Failing
  BY <1>4 DEF Verify, VerifyBytes, Failing, CallFails, FailsAs, GiveUp, UnchangedByCheck, places, At, Intact
<1>5. CASE Consume \/ Return
  BY <1>5 DEF Consume, Return, UnchangedByCheck, places, At
<1> QED
  BY <1>2, <1>3, <1>4, <1>5 DEF Next, SourceInUse, WriteInPlace, Replace, Remove, Writes, Observe,
    ObserveAgain, MakeLease, Anchor, CheckDir, OpenSource, CreateCandidate, CandidateUnknown,
    CopyChunk, EndCopy, RereadChunk, ObserveAfter, Rehash, ValidateZip, PrePromote, Promote, Attest,
    Take, Look, LookAgain, RemoveCaught, Restore, CleanupFails, Done

LEMMA ReadStep == LeaseInv /\ Next => ReadInv'
<1> SUFFICES ASSUME LeaseInv, Next PROVE ReadInv'
  OBVIOUS
<1>1. StageInv /\ ReadInv
  BY DEF LeaseInv
<1> USE DEF Checking, Cleaning
<1>2. CASE Consume
  BY <1>1, <1>2 DEF ReadInv, Consume, places, At
<1>3. CASE ~Consume /\ "integrity" \in errors
  <2>1. pc \in Cleaning \cup {"ended"}
    BY <1>1, <1>3 DEF StageInv
  <2>2. errors \subseteq errors'
    BY <2>1 DEF Next, SourceInUse, WriteInPlace, Replace, Remove, Writes, VisitFile, VisitDirectory,
      Visits, Failing, CallFails, FailsAs, Observe, ObserveAgain, MakeLease, Anchor, CheckDir,
      OpenSource, CreateCandidate, CandidateUnknown, CopyChunk, EndCopy, RereadChunk, ObserveAfter,
      Rehash, ValidateZip, PrePromote, Promote, Attest, Consume, Return, Verify, VerifyBytes, Take,
      Look, LookAgain, RemoveCaught, Restore, CleanupFails, Unclean, Done, vars
  <2> QED
    BY <1>3, <2>2 DEF ReadInv
<1>4. CASE ~Consume /\ "integrity" \notin errors
  <2>1. read' = read
    BY <1>4 DEF Next, WriteInPlace, Replace, Remove, Writes, VisitFile, VisitDirectory,
      Visits, Failing, CallFails, Observe, ObserveAgain, MakeLease, Anchor, CheckDir,
      OpenSource, CreateCandidate, CandidateUnknown, CopyChunk, EndCopy, RereadChunk, ObserveAfter,
      Rehash, ValidateZip, PrePromote, Promote, Attest, Return, Verify, VerifyBytes, Take,
      Look, LookAgain, RemoveCaught, Restore, CleanupFails, Done, vars, history,
      UnchangedByPass, UnchangedByCheck, UnchangedByCleanup
  <2> QED
    BY <1>1, <1>4, <2>1, SpoiltStays DEF ReadInv
<1> QED
  BY <1>2, <1>3, <1>4

LEMMA RemovalStep == LeaseInv /\ Next => RemoveInv'
<1> SUFFICES ASSUME LeaseInv, Next, pc' = "remove", ~late' PROVE Proven'
  BY DEF RemoveInv
<1>1. CASE LookAgain
  BY <1>1 DEF LookAgain, GoOn, UnchangedByCleanup, tokens, places, Proven, Caught, At
<1>2. CASE Saving \/ Done
  BY <1>2, SameLease DEF Saving, WriteInPlace, Replace, Remove, Writes, Done, vars,
    leaseSide, places, tokens, history, LeaseInv, RemoveInv
<1>3. ~LookAgain /\ ~Saving /\ ~Done => FALSE
  BY DEF Next, Saving, VisitFile, VisitDirectory, Visits, Failing, CallFails, FailsAs, Observe,
    ObserveAgain, MakeLease, Anchor, CheckDir, OpenSource, CreateCandidate, CandidateUnknown,
    CopyChunk, EndCopy, RereadChunk, ObserveAfter, Rehash, ValidateZip, PrePromote, Promote,
    Attest, Consume, Return, Verify, VerifyBytes, Take, Look, RemoveCaught, Restore, CleanupFails,
    GoOn, GiveUp, Refuse
<1> QED
  BY <1>1, <1>2, <1>3

LEMMA LeaseKeeps == LeaseInv /\ [Next]_vars => LeaseInv'
<1>1. LeaseInv /\ UNCHANGED vars => LeaseInv'
  BY SameLease DEF vars, leaseSide, history
<1> QED
  BY <1>1, PlaceStep, StageStep, GoneStep, StrangerStep, ReadStep, RemovalStep DEF LeaseInv

-----------------------------------------------------------------------------
(* Theorems. *)

\* The invariant holds in every reachable state.
THEOREM LeaseInvariance == Spec => []LeaseInv
BY InitLease, LeaseKeeps, PTL DEF Spec

\* WrongReadIsReported: whoever changed the copy under its reader, by whatever
\* steps, the look at the end of the lease finds it.
THEOREM NoWrongReadPasses == Spec => []WrongReadIsReported
<1>1. LeaseInv => WrongReadIsReported
  BY DEF LeaseInv, ReadInv, WrongReadIsReported, Checking
<1> QED
  BY <1>1, LeaseInvariance, PTL

\* SilentMeansGone: a lease that ends without a cleanup error left nothing behind
\* for anybody to look after.
THEOREM SilentLeasesLeaveNothing == Spec => []SilentMeansGone
<1>1. LeaseInv => SilentMeansGone
  BY DEF LeaseInv, GoneInv, SilentMeansGone, Catching
<1> QED
  BY <1>1, LeaseInvariance, PTL

\* ForeignSurvives: what is removed was proven to be ours at the last look, so that
\* only what takes its place between that look and the call can be lost.
THEOREM OnlyOursIsRemoved == Spec => ForeignSurvives
<1>1. LeaseInv /\ [Next]_vars =>
        [RemoveStep /\ ~late => ~Lost("qpart") /\ ~Lost("qfinal")
                                /\ (qdir' # qdir => qdir = dirToken)]_vars
  <2> SUFFICES ASSUME LeaseInv, Next, RemoveStep, ~late
               PROVE  ~Lost("qpart") /\ ~Lost("qfinal") /\ (qdir' # qdir => qdir = dirToken)
    OBVIOUS
  <2>1. PlaceInv /\ pc = "remove" /\ Proven
    BY DEF LeaseInv, RemoveInv, RemoveStep
  <2>2. RemoveCaught
    BY <2>1 DEF RemoveStep, PlaceInv, Next, WriteInPlace, Replace, Remove, Writes, SourceInUse,
      VisitFile, VisitDirectory, Visits, Failing, CallFails, FailsAs,
      Observe, ObserveAgain, MakeLease, Anchor, CheckDir, OpenSource, CreateCandidate,
      CandidateUnknown, CopyChunk, EndCopy, RereadChunk, ObserveAfter, Rehash, ValidateZip,
      PrePromote, Promote, Attest, Consume, Return, Verify, VerifyBytes, Take, Look, LookAgain,
      Restore, CleanupFails, Done, vars, places, history
  <2>3. CASE target # "dir"
    <3>1. Caught \in Ours /\ lease # None /\ Caught = entry[lease][Quarantine[target]]
      BY <2>1, <2>3 DEF Proven, Caught, At, PlaceInv, Intact, Ours
    <3>2. Put(Quarantine[target], "nothing") /\ qdir' = qdir
      BY <2>2, <2>3, <3>1 DEF RemoveCaught, Ours, Intact
    <3>3. Quarantine[target] \in Name
      BY <2>1, <2>3 DEF PlaceInv, Quarantine, Name
    <3>4. \A d \in Dir, n \in Name :
            entry'[d][n] = IF d = lease /\ n = Quarantine[target] THEN "nothing" ELSE entry[d][n]
      BY <2>1, <3>1, <3>2, <3>3, PutHeld DEF Held
    <3>5. Found \subseteq Dir
      BY <2>1 DEF PlaceInv, Found
    <3>6. ASSUME NEW n \in Name PROVE ~Lost(n)
      BY <3>1, <3>4, <3>5 DEF Lost
    <3> QED
      BY <3>2, <3>6 DEF Name
  <2>4. CASE target = "dir"
    BY <2>1, <2>2, <2>4 DEF RemoveCaught, Proven, Caught, Lost, Found, PlaceInv, places
  <2> QED
    BY <2>3, <2>4
<1> QED
  BY <1>1, LeaseInvariance, PTL DEF Spec, ForeignSurvives

-----------------------------------------------------------------------------
(***************************************************************************)
(* An acquisition blames nobody without a cause: as long as nobody visits  *)
(* the lease and no call fails, a save is worth `not ready' and nothing    *)
(* worse; without a save there is no error at all.                         *)
(*                                                                         *)
(* The argument follows the lease of an undisturbed acquisition step by    *)
(* step: what is at which name, and which tokens there are; and the two    *)
(* passes over a workbook that nobody saves: both are the beginning of the *)
(* same sequence.                                                          *)
(***************************************************************************)

Bare == {"anchor", "checkDir", "openSource", "create"}
Filling == {"copy", "endCopy", "reopenSource", "reread", "observeAfter", "rehash", "zip",
            "prePromote", "promote"}
Lending == {"attest", "lent", "verify", "verifyBytes"}

\* Nobody came to the lease, and no call failed.
Undisturbed == causes \cap {"lease", "io"} = {}

\* The names in our directory that hold our file.
Filled == {n \in Name : entry["ours"][n] = "own"}

\* Every name holds our file or nothing, and the tokens cover what is held.
NamesInv ==
    /\ entry \in [Dir -> [Name -> {"own", "nothing"}]]
    /\ owned \subseteq {"part", "final"}
    /\ pc \in Early \cup Bare => Filled = {}
    /\ pc \in Filling => Filled = {"part"} /\ owned = {"part"}
    /\ pc \in Lending => Filled = {"final"} /\ owned = {"part", "final"}
    /\ pc = "take" /\ target = "part" => Filled \subseteq owned
    /\ pc = "take" /\ target = "final" => Filled \subseteq owned \cap {"final"}
    /\ pc \in Catching /\ target = "part" =>
         "part" \in owned /\ "qpart" \in Filled /\ Filled \ {"qpart"} \subseteq owned \cap {"final"}
    /\ pc \in Catching /\ target = "final" => "final" \in owned /\ Filled = {"qfinal"}
    /\ target = "dir" => Filled = {}

\* Where the directory is, and whose token was taken.
DirectoryInv ==
    /\ pc \in Early \cup Bare \cup Filling \cup Lending => target = "part" /\ qdir = None
    /\ pc \in Early => lease = None
    /\ pc \in Bare \cup Filling \cup Lending => lease = "ours"
    /\ pc \in Early \cup Bare \cup Filling \cup Lending \cup Catching \cup {"take", "ended"}
    /\ target \in {"part", "final", "dir"}
    /\ pc \notin Early \cup {"anchor", "ended"} => dirToken = "ours"
    /\ pc = "take" => lease = "ours" /\ qdir = None
    /\ pc \in Catching =>
         IF target = "dir" THEN lease = None /\ qdir = "ours" ELSE lease = "ours" /\ qdir = None

\* The errors of an undisturbed acquisition.
MildInv == filesCleaned /\ errors \subseteq {"notReady", "consumer"}

UntouchedInv == Undisturbed => NamesInv /\ DirectoryInv /\ MildInv

\* The beginning of the workbook.
Begins(s) ==
    /\ s \in Seq(Nat) /\ Len(s) <= Len(file[path].blocks)
    /\ \A i \in 1..Len(s) : s[i] = file[path].blocks[i]

\* The source of an acquisition during which nobody saves.
QuietInv ==
    /\ path \in Inode
    /\ file \in [Inode -> [blocks : Seq(Nat), mtime : Nat]]
    /\ errors \subseteq {"consumer"}
    /\ pc \in (Early \ {"observe"}) \cup Bare \cup Filling => observed = Stat(path)
    /\ pc \in {"create", "copy", "endCopy", "reread"} => handle = path
    /\ pc \in Early \cup Bare => copied = <<>> /\ reread = <<>>
    /\ pc \in {"copy", "endCopy", "reopenSource"} => reread = <<>>
    /\ pc = "copy" => Begins(copied)
    /\ pc \in {"endCopy", "reopenSource", "reread", "observeAfter"} => copied = file[path].blocks
    /\ pc = "reread" => Begins(reread)
    /\ pc = "observeAfter" => reread = file[path].blocks

SourceInv == causes = {} => QuietInv

BlameInv == UntouchedInv /\ SourceInv


-----------------------------------------------------------------------------
LEMMA InitBlame == Init => BlameInv
<1> SUFFICES ASSUME Init PROVE BlameInv
  OBVIOUS
<1>1. NamesInv
  BY DEF Init, NamesInv, Filled, Dir, Name, Early, Bare, Filling, Lending, Catching
<1>2. DirectoryInv /\ MildInv
  BY DEF Init, DirectoryInv, MildInv, Early, Bare, Filling, Lending, Catching
<1>3. QuietInv
  <2>1. PICK n \in 1..MaxBlocks :
          file = [i \in Inode |-> [blocks |-> [b \in 1..n |-> 0], mtime |-> 0]]
    BY DEF Init
  <2>2. n \in Nat
    BY SnapshotAssumption
  <2>3. [b \in 1..n |-> 0] \in Seq(Nat)
    BY <2>2
  <2>4. file \in [Inode -> [blocks : Seq(Nat), mtime : Nat]]
    BY <2>1, <2>3
  <2> QED
    BY <2>4 DEF Init, QuietInv, Early, Bare, Filling
<1> QED
  BY <1>1, <1>2, <1>3 DEF BlameInv, UntouchedInv, SourceInv

-----------------------------------------------------------------------------
(* Steps that leave the source, the lease, or both. *)

leaseOfBlame == <<entry, owned, target, qdir, lease, dirToken, filesCleaned>>
sourceOfBlame == <<path, file, errors, observed, handle, copied, reread>>

\* A disturbance ends what the invariant claims.
LEMMA Disturbed ==
  ASSUME \E c \in {"lease", "io"} : causes' = causes \cup {c} PROVE BlameInv'
BY DEF BlameInv, UntouchedInv, SourceInv, Undisturbed

\* The saver's steps leave the lease and end the quiet.
LEMMA SavingKeeps == BlameInv /\ Saving => BlameInv'
<1> SUFFICES ASSUME BlameInv, Saving PROVE BlameInv'
  OBVIOUS
<1>1. UNCHANGED <<leaseOfBlame, pc, errors>> /\ causes' = causes \cup {"source"}
  BY DEF Saving, WriteInPlace, Replace, Remove, Writes, leaseOfBlame, places, tokens
<1>2. SourceInv'
  BY <1>1 DEF SourceInv
<1>3. Undisturbed' => Undisturbed
  BY <1>1 DEF Undisturbed
<1>4. UntouchedInv'
  BY <1>1, <1>3 DEF BlameInv, UntouchedInv, leaseOfBlame, NamesInv, Filled, DirectoryInv, MildInv
<1> QED
  BY <1>2, <1>4 DEF BlameInv

\* Giving up for a reason that is the source's.
LEMMA MildGiveUp ==
  ASSUME BlameInv, GiveUp("notReady"), UNCHANGED leaseOfBlame, Undisturbed' => Undisturbed,
         pc \in (Bare \cup Filling) \ {"anchor"}
  PROVE  UntouchedInv'
<1> SUFFICES ASSUME Undisturbed PROVE NamesInv' /\ DirectoryInv' /\ MildInv'
  BY DEF UntouchedInv
<1>1. NamesInv /\ DirectoryInv /\ MildInv
  BY DEF BlameInv, UntouchedInv
<1> USE DEF Early, Bare, Filling, Lending, Catching
<1>2. NamesInv'
  BY <1>1 DEF NamesInv, DirectoryInv, GiveUp, leaseOfBlame, Filled
<1>3. DirectoryInv' /\ MildInv'
  BY <1>1 DEF DirectoryInv, MildInv, GiveUp, leaseOfBlame
<1> QED
  BY <1>2, <1>3

\* Going on within one of the stages.
LEMMA SameStage ==
  ASSUME BlameInv, UNCHANGED <<leaseOfBlame, causes, errors>>,
         \/ pc' = pc
         \/ pc = "openSource" /\ pc' = "create"
         \/ pc \in Filling /\ pc' \in Filling
         \/ pc \in Lending /\ pc' \in Lending
         \/ pc = "checkDir" /\ pc' = "openSource"
  PROVE  UntouchedInv'
<1> SUFFICES ASSUME Undisturbed PROVE NamesInv' /\ DirectoryInv' /\ MildInv'
  BY DEF UntouchedInv, Undisturbed
<1>1. NamesInv /\ DirectoryInv /\ MildInv
  BY DEF BlameInv, UntouchedInv
<1> USE DEF Early, Bare, Filling, Lending, Catching
<1>2. NamesInv'
  BY <1>1 DEF NamesInv, DirectoryInv, leaseOfBlame, Filled
<1>3. DirectoryInv' /\ MildInv'
  BY <1>1 DEF DirectoryInv, MildInv, leaseOfBlame
<1> QED
  BY <1>2, <1>3

-----------------------------------------------------------------------------
(* What the steps of an undisturbed acquisition find. *)

LEMMA Finds ==
  ASSUME BlameInv, Undisturbed
  PROVE  /\ NamesInv /\ DirectoryInv /\ MildInv
         /\ pc \in Bare => At("part") = "nothing"
         /\ pc \in Filling => At("part") = "own" /\ At("final") = "nothing"
         /\ pc \in Lending => At("final") = "own"
<1>1. NamesInv /\ DirectoryInv /\ MildInv
  BY DEF BlameInv, UntouchedInv
<1>2. "ours" \in Dir /\ "ours" # None
  BY SnapshotAssumption DEF Dir
<1> QED
  BY <1>1, <1>2 DEF NamesInv, DirectoryInv, Filled, At, Name, Bare, Filling, Lending

LEMMA FindsProof ==
  ASSUME BlameInv, Undisturbed, pc \in Catching
  PROVE  /\ Proven /\ Caught # "nothing"
         /\ target = "dir" => qdir # None /\ Empty(qdir)
         /\ target # "dir" => lease = "ours"
<1>1. NamesInv /\ DirectoryInv
  BY Finds
<1>2. "ours" \in Dir /\ "ours" # None
  BY SnapshotAssumption DEF Dir
<1>3. CASE target = "dir"
  BY <1>1, <1>2, <1>3 DEF NamesInv, DirectoryInv, Filled, Proven, Caught, Empty, Name, Catching,
    Early, Bare, Filling, Lending
<1>4. CASE target # "dir"
  <2>1. lease = "ours" /\ target \in {"part", "final"}
    BY <1>1, <1>4 DEF DirectoryInv
  <2>2. target \in owned /\ Quarantine[target] \in Filled
    BY <1>1, <2>1 DEF NamesInv, Quarantine
  <2>3. Caught = "own"
    BY <1>2, <1>4, <2>1, <2>2 DEF Caught, At, Filled
  <2> QED
    BY <1>4, <2>1, <2>2, <2>3 DEF Proven, Ours, Intact
<1> QED
  BY <1>3, <1>4

LEMMA PutFilled ==
  ASSUME NamesInv, lease = "ours", NEW n \in Name, NEW x \in {"own", "nothing"}, Put(n, x)
  PROVE  /\ entry' \in [Dir -> [Name -> {"own", "nothing"}]]
         /\ Filled' = IF x = "own" THEN Filled \cup {n} ELSE Filled \ {n}
<1>1. entry' = [entry EXCEPT !["ours"][n] = x] /\ "ours" \in Dir
  BY DEF Put, Dir
<1> QED
  BY <1>1 DEF NamesInv, Filled

LEMMA MoveFilled ==
  ASSUME NamesInv, lease = "ours", NEW m \in Filled, NEW n \in Name, m # n, MoveTo(m, n)
  PROVE  /\ entry' \in [Dir -> [Name -> {"own", "nothing"}]]
         /\ Filled' = (Filled \ {m}) \cup {n}
<1>1. /\ m \in Name /\ entry["ours"][m] = "own" /\ "ours" \in Dir
      /\ entry' = [entry EXCEPT !["ours"] = Moved(@, m, n)]
  BY DEF MoveTo, Filled, Dir
<1>2. Moved(entry["ours"], m, n) \in [Name -> {"own", "nothing"}]
      /\ \A k \in Name : Moved(entry["ours"], m, n)[k] =
           CASE k = n -> "own" [] k = m -> "nothing" [] OTHER -> entry["ours"][k]
  BY <1>1 DEF NamesInv, Moved
<1> QED
  BY <1>1, <1>2 DEF NamesInv, Filled

-----------------------------------------------------------------------------
(* The lease, step by step. *)

LEMMA AcquiringKeepsLease ==
  ASSUME BlameInv,
         \/ Observe \/ ObserveAgain \/ MakeLease \/ Anchor \/ CheckDir
         \/ OpenSource("openSource", "create") \/ CreateCandidate
         \/ CopyChunk \/ EndCopy \/ OpenSource("reopenSource", "reread")
         \/ RereadChunk \/ ObserveAfter
  PROVE  UntouchedInv'
<1> SUFFICES ASSUME Undisturbed PROVE UntouchedInv'
  BY DEF Undisturbed, UntouchedInv, Observe, ObserveAgain, MakeLease, Anchor, CheckDir, OpenSource,
    CreateCandidate, CopyChunk, EndCopy, RereadChunk, ObserveAfter, UnchangedByPass, history
<1>1. NamesInv /\ DirectoryInv /\ MildInv
  BY Finds
<1>2. "ours" \in Dir /\ "ours" # None
  BY SnapshotAssumption DEF Dir
<1> USE DEF Early, Bare, Filling, Lending, Catching
<1>3. CASE Observe \/ ObserveAgain
  <2>1. UNCHANGED leaseOfBlame /\ pc \in {"observe", "observeAgain"} /\ pc' \in {"observeAgain", "mkdir", "ended"}
        /\ errors' \in {errors, {"notReady"}}
    BY <1>3 DEF Observe, ObserveAgain, Refuse, leaseOfBlame, tokens, places
  <2>2. NamesInv' /\ DirectoryInv' /\ MildInv'
    BY <1>1, <2>1 DEF NamesInv, DirectoryInv, MildInv, leaseOfBlame, Filled
  <2> QED
    BY <2>2 DEF UntouchedInv
<1>4. CASE MakeLease
  <2>1. NamesInv'
    BY <1>1, <1>4 DEF NamesInv, DirectoryInv, MakeLease, UnchangedByPass, Filled
  <2>2. DirectoryInv' /\ MildInv'
    BY <1>1, <1>4 DEF DirectoryInv, MildInv, MakeLease, UnchangedByPass
  <2> QED
    BY <2>1, <2>2 DEF UntouchedInv
<1>5. CASE Anchor
  <2>1. dirToken' = "ours" /\ pc' = "checkDir" /\ pc = "anchor"
        /\ UNCHANGED <<entry, owned, target, qdir, lease, filesCleaned, errors>>
    BY <1>1, <1>2, <1>5 DEF DirectoryInv, Anchor, UnchangedByPass, places
  <2>2. NamesInv' /\ DirectoryInv' /\ MildInv'
    BY <1>1, <2>1 DEF NamesInv, DirectoryInv, MildInv, Filled
  <2> QED
    BY <2>2 DEF UntouchedInv
<1>6. CASE CheckDir
  <2>1. pc = "checkDir" /\ pc' = "openSource" /\ UNCHANGED <<leaseOfBlame, causes, errors>>
    BY <1>1, <1>6 DEF DirectoryInv, CheckDir, UnchangedByPass, places, leaseOfBlame, history
  <2> QED
    BY <2>1, SameStage
<1>7. CASE CreateCandidate
  <2>1. /\ pc = "create" /\ pc' = "copy" /\ Put("part", "own") /\ owned' = {"part"}
        /\ UNCHANGED <<target, qdir, lease, dirToken, filesCleaned, errors>>
    BY <1>1, <1>2, <1>7, Finds DEF DirectoryInv, CreateCandidate
  <2>2. entry' \in [Dir -> [Name -> {"own", "nothing"}]] /\ Filled' = {"part"}
    BY <1>1, <2>1, PutFilled DEF NamesInv, DirectoryInv, Name
  <2>3. NamesInv' /\ DirectoryInv' /\ MildInv'
    BY <1>1, <2>1, <2>2 DEF NamesInv, DirectoryInv, MildInv
  <2> QED
    BY <2>3 DEF UntouchedInv
<1>8. CASE OpenSource("openSource", "create") \/ OpenSource("reopenSource", "reread")
           \/ CopyChunk \/ EndCopy \/ RereadChunk \/ ObserveAfter
  <2>1. UNCHANGED <<leaseOfBlame, causes>> /\ pc \in (Bare \cup Filling) \ {"anchor"}
    BY <1>8 DEF OpenSource, CopyChunk, EndCopy, RereadChunk, ObserveAfter, UnchangedByPass, places,
      leaseOfBlame, history
  <2>2. \/ GiveUp("notReady")
        \/ /\ errors' = errors
           /\ \/ pc' = pc
              \/ pc = "openSource" /\ pc' = "create"
              \/ pc \in Filling /\ pc' \in Filling
    BY <1>8 DEF OpenSource, CopyChunk, EndCopy, RereadChunk, ObserveAfter
  <2>3. Undisturbed' => Undisturbed
    OBVIOUS
  <2> QED
    BY <2>1, <2>2, <2>3, MildGiveUp, SameStage
<1> QED
  BY <1>3, <1>4, <1>5, <1>6, <1>7, <1>8

LEMMA LendingKeepsLease ==
  ASSUME BlameInv,
         \/ Rehash \/ ValidateZip \/ PrePromote \/ Promote \/ Attest
         \/ Consume \/ Return \/ Verify \/ VerifyBytes
  PROVE  UntouchedInv'
<1> SUFFICES ASSUME Undisturbed PROVE UntouchedInv'
  BY DEF Undisturbed, UntouchedInv, Rehash, ValidateZip, PrePromote, Promote, Attest, Consume, Return,
    Verify, VerifyBytes
<1>1. NamesInv /\ DirectoryInv /\ MildInv
  BY Finds
<1> USE DEF Early, Bare, Filling, Lending, Catching
<1>2. CASE Rehash \/ PrePromote \/ Verify
  <2>1. /\ UNCHANGED <<leaseOfBlame, causes, errors>>
        /\ (pc \in Filling /\ pc' \in Filling) \/ (pc \in Lending /\ pc' \in Lending)
    BY <1>2, Finds DEF Rehash, PrePromote, Verify, UnchangedByCheck, places, leaseOfBlame, Ours, Intact
  <2> QED
    BY <2>1, SameStage
<1>3. CASE ValidateZip
  <2>1. /\ UNCHANGED leaseOfBlame /\ pc = "zip"
        /\ GiveUp("notReady") \/ (pc' = "prePromote" /\ UNCHANGED <<errors, causes>>)
    BY <1>3, Finds DEF ValidateZip, UnchangedByCheck, places, leaseOfBlame, Ours, Intact
  <2>2. Undisturbed' => Undisturbed
    OBVIOUS
  <2> QED
    BY <2>1, <2>2, SameStage, MildGiveUp
<1>4. CASE Promote
  <2>1. /\ MoveTo("part", "final") /\ owned' = owned \cup {"final"}
        /\ pc = "promote" /\ pc' = "attest"
        /\ UNCHANGED <<target, qdir, lease, dirToken, filesCleaned, errors>>
    BY <1>4, Finds DEF Promote, UnchangedByCheck
  <2>2. entry' \in [Dir -> [Name -> {"own", "nothing"}]] /\ Filled' = {"final"}
    BY <1>1, <2>1, MoveFilled DEF NamesInv, DirectoryInv, Name
  <2>3. NamesInv' /\ DirectoryInv' /\ MildInv'
    BY <1>1, <2>1, <2>2 DEF NamesInv, DirectoryInv, MildInv
  <2> QED
    BY <2>3 DEF UntouchedInv
<1>5. CASE Attest
  <2>1. /\ Put("final", "own") /\ pc = "attest" /\ pc' = "lent"
        /\ UNCHANGED <<owned, target, qdir, lease, dirToken, filesCleaned, errors>>
    BY <1>5, Finds DEF Attest, UnchangedByCheck, Ours, Intact
  <2>2. entry' \in [Dir -> [Name -> {"own", "nothing"}]] /\ Filled' = {"final"}
    BY <1>1, <2>1, PutFilled DEF NamesInv, DirectoryInv, Name
  <2>3. NamesInv' /\ DirectoryInv' /\ MildInv'
    BY <1>1, <2>1, <2>2 DEF NamesInv, DirectoryInv, MildInv
  <2> QED
    BY <2>3 DEF UntouchedInv
<1>6. CASE Consume
  BY <1>6, SameStage DEF Consume, tokens, places, leaseOfBlame
<1>7. CASE Return \/ VerifyBytes
  <2>1. /\ UNCHANGED leaseOfBlame /\ pc \in Lending
        /\ \/ pc' \in Lending /\ errors' \subseteq {"consumer"}
           \/ pc' = "take" /\ errors' = errors
    BY <1>7, Finds DEF Return, VerifyBytes, UnchangedByCheck, places, leaseOfBlame, Ours, Intact
  <2>2. NamesInv'
    BY <1>1, <2>1 DEF NamesInv, DirectoryInv, leaseOfBlame, Filled
  <2>3. DirectoryInv' /\ MildInv'
    BY <1>1, <2>1 DEF DirectoryInv, MildInv, leaseOfBlame
  <2> QED
    BY <2>2, <2>3 DEF UntouchedInv
<1> QED
  BY <1>2, <1>3, <1>4, <1>5, <1>6, <1>7

LEMMA CleaningKeepsLease ==
  ASSUME BlameInv, Take \/ Look \/ LookAgain \/ RemoveCaught \/ Restore
  PROVE  UntouchedInv' /\ (Undisturbed => errors' = errors)
<1> SUFFICES ASSUME Undisturbed PROVE UntouchedInv' /\ errors' = errors
  BY DEF Undisturbed, UntouchedInv, Take, Look, LookAgain, RemoveCaught, Restore, UnchangedByCleanup
<1>1. NamesInv /\ DirectoryInv /\ MildInv
  BY Finds
<1>2. "ours" \in Dir /\ "ours" # None
  BY SnapshotAssumption DEF Dir
<1> USE DEF Early, Bare, Filling, Lending, Catching
<1>3. CASE Take
  <2>1. pc = "take" /\ lease = "ours" /\ qdir = None /\ dirToken = "ours" /\ filesCleaned
        /\ UNCHANGED <<errors, filesCleaned, dirToken, owned>>
    BY <1>1, <1>3 DEF DirectoryInv, MildInv, Take, UnchangedByCleanup, tokens
  <2>2. CASE target = "dir"
    <3>1. qdir' = "ours" /\ lease' = None /\ pc' = "look" /\ UNCHANGED <<target, entry>>
      BY <1>2, <1>3, <2>1, <2>2 DEF Take
    <3>2. NamesInv' /\ DirectoryInv' /\ MildInv'
      BY <1>1, <2>1, <2>2, <3>1 DEF NamesInv, DirectoryInv, MildInv, Filled
    <3> QED
      BY <2>1, <3>2 DEF UntouchedInv
  <2>3. CASE target # "dir" /\ target \notin Filled
    <3>1. At(target) = "nothing" /\ target \in {"part", "final"}
      BY <1>1, <1>2, <2>1, <2>3 DEF NamesInv, DirectoryInv, Filled, At, Name
    <3>2. GoOn /\ UNCHANGED places
      BY <1>3, <2>3, <3>1 DEF Take
    <3>3. pc' = "take" /\ target' = IF target = "part" THEN "final" ELSE "dir"
      BY <3>1, <3>2 DEF GoOn, Following
    <3>4. NamesInv'
      BY <1>1, <2>1, <2>3, <3>1, <3>2, <3>3 DEF NamesInv, Filled, places
    <3>5. DirectoryInv' /\ MildInv'
      BY <1>1, <2>1, <3>2, <3>3 DEF DirectoryInv, MildInv, places
    <3> QED
      BY <2>1, <3>4, <3>5 DEF UntouchedInv
  <2>4. CASE target # "dir" /\ target \in Filled
    <3>1. At(target) = "own" /\ target \in {"part", "final"}
      BY <1>1, <1>2, <2>1, <2>4 DEF DirectoryInv, Filled, At
    <3>2. MoveTo(target, Quarantine[target]) /\ pc' = "look" /\ UNCHANGED <<target, lease, qdir>>
      BY <1>3, <2>4, <3>1 DEF Take
    <3>3. /\ entry' \in [Dir -> [Name -> {"own", "nothing"}]]
          /\ Filled' = (Filled \ {target}) \cup {Quarantine[target]}
      BY <1>1, <2>1, <2>4, <3>1, <3>2, MoveFilled DEF Quarantine, Name
    <3>4. Filled \subseteq IF target = "part" THEN owned ELSE owned \cap {"final"}
      BY <1>1, <2>1, <3>1 DEF NamesInv
    <3>5. NamesInv'
      <4>1. owned \subseteq {"part", "final"} /\ owned' = owned /\ pc' = "look" /\ target' = target
        BY <1>1, <2>1, <3>2 DEF NamesInv
      <4>2. CASE target = "part"
        <5>1. "part" \in owned' /\ "qpart" \in Filled' /\ Filled' \ {"qpart"} \subseteq owned' \cap {"final"}
          BY <2>4, <3>3, <3>4, <4>1, <4>2 DEF Quarantine
        <5> QED
          BY <3>3, <4>1, <4>2, <5>1 DEF NamesInv
      <4>3. CASE target = "final"
        <5>1. "final" \in owned' /\ Filled' = {"qfinal"}
          BY <2>4, <3>3, <3>4, <4>1, <4>3 DEF Quarantine
        <5> QED
          BY <3>3, <4>1, <4>3, <5>1 DEF NamesInv
      <4> QED
        BY <3>1, <4>2, <4>3
    <3>6. DirectoryInv' /\ MildInv'
      BY <1>1, <2>1, <3>1, <3>2 DEF DirectoryInv, MildInv
    <3> QED
      BY <2>1, <3>5, <3>6 DEF UntouchedInv
  <2> QED
    BY <2>2, <2>3, <2>4
<1>4. CASE Look \/ LookAgain
  <2>1. pc \in Catching /\ pc' \in Catching /\ UNCHANGED <<leaseOfBlame, errors>>
    BY <1>4, FindsProof DEF Look, LookAgain, UnchangedByCleanup, tokens, places, leaseOfBlame
  <2>2. NamesInv' /\ DirectoryInv' /\ MildInv'
    BY <1>1, <2>1 DEF NamesInv, DirectoryInv, MildInv, leaseOfBlame, Filled
  <2> QED
    BY <2>1, <2>2 DEF UntouchedInv
<1>5. CASE RemoveCaught
  <2>1. pc = "remove" /\ UNCHANGED <<errors, filesCleaned, dirToken, owned>> /\ GoOn
    BY <1>5, FindsProof DEF RemoveCaught, UnchangedByCleanup, tokens
  <2>2. CASE target = "dir"
    <3>1. pc' = "ended" /\ UNCHANGED <<entry, lease>> /\ target' = "dir"
      BY <1>5, <2>1, <2>2, FindsProof DEF RemoveCaught, GoOn, Following, places
    <3>2. NamesInv' /\ DirectoryInv' /\ MildInv'
      BY <1>1, <2>1, <2>2, <3>1 DEF NamesInv, DirectoryInv, MildInv, Filled
    <3> QED
      BY <2>1, <3>2 DEF UntouchedInv
  <2>3. CASE target # "dir"
    <3>1. lease = "ours" /\ qdir = None /\ target \in {"part", "final"}
      BY <1>1, <2>1, <2>3 DEF DirectoryInv
    <3>2. Put(Quarantine[target], "nothing") /\ UNCHANGED <<lease, qdir>>
      BY <1>5, <2>1, <2>3, FindsProof DEF RemoveCaught
    <3>3. /\ entry' \in [Dir -> [Name -> {"own", "nothing"}]]
          /\ Filled' = Filled \ {Quarantine[target]}
      BY <1>1, <3>1, <3>2, PutFilled DEF Quarantine, Name
    <3>4. pc' = "take" /\ target' = IF target = "part" THEN "final" ELSE "dir"
      BY <2>1, <3>1 DEF GoOn, Following
    <3>5. NamesInv' /\ DirectoryInv' /\ MildInv'
      BY <1>1, <2>1, <3>1, <3>2, <3>3, <3>4 DEF NamesInv, DirectoryInv, MildInv, Quarantine
    <3> QED
      BY <2>1, <3>5 DEF UntouchedInv
  <2> QED
    BY <2>2, <2>3
<1>6. CASE Restore
  BY <1>1, <1>6 DEF DirectoryInv, Restore
<1> QED
  BY <1>3, <1>4, <1>5, <1>6

-----------------------------------------------------------------------------
(* The passes over a workbook that nobody saves. *)

LEMMA EmptyBegins ==
  ASSUME path \in Inode, file \in [Inode -> [blocks : Seq(Nat), mtime : Nat]] PROVE Begins(<<>>)
BY DEF Begins

\* One more block of the beginning.
LEMMA LongerBegins ==
  ASSUME path \in Inode, file \in [Inode -> [blocks : Seq(Nat), mtime : Nat]],
         NEW s, Begins(s), Len(s) < Len(file[path].blocks)
  PROVE  Begins(Append(s, file[path].blocks[Len(s) + 1]))
<1> DEFINE b == file[path].blocks
           n == Len(s)
           t == Append(s, b[n + 1])
<1>1. b \in Seq(Nat) /\ s \in Seq(Nat) /\ n \in Nat /\ Len(b) \in Nat /\ n < Len(b)
  BY DEF Begins
<1>2. b[n + 1] \in Nat
  BY <1>1
<1>3. t \in Seq(Nat) /\ Len(t) = n + 1
  BY <1>1, <1>2
<1>4. \A i \in 1..(n + 1) : t[i] = b[i]
  <2> SUFFICES ASSUME NEW i \in 1..(n + 1) PROVE t[i] = b[i]
    OBVIOUS
  <2>1. CASE i = n + 1
    BY <1>1, <1>2, <2>1
  <2>2. CASE i # n + 1
    <3>1. i \in 1..n
      BY <1>1, <2>2
    <3>2. t[i] = s[i]
      BY <1>1, <1>2, <3>1
    <3> QED
      BY <3>1, <3>2 DEF Begins
  <2> QED
    BY <2>1, <2>2
<1> QED
  BY <1>1, <1>3, <1>4 DEF Begins

\* The beginning that is as long as the whole is the whole.
LEMMA WholeBegins ==
  ASSUME path \in Inode, file \in [Inode -> [blocks : Seq(Nat), mtime : Nat]],
         NEW s, Begins(s), ~(Len(s) < Len(file[path].blocks))
  PROVE  s = file[path].blocks
<1>1. file[path].blocks \in Seq(Nat) /\ s \in Seq(Nat)
  BY DEF Begins
<1>2. Len(s) = Len(file[path].blocks)
  BY <1>1 DEF Begins
<1> QED
  BY <1>1, <1>2, SeqEqual DEF Begins

LEMMA SourceStep == BlameInv /\ Next => SourceInv'
<1> SUFFICES ASSUME BlameInv, Next, causes' = {} PROVE QuietInv'
  BY DEF SourceInv
<1>1. ~Saving /\ ~VisitFile /\ ~VisitDirectory /\ ~Failing /\ ~CandidateUnknown /\ ~CleanupFails
  BY DEF Saving, WriteInPlace, Replace, Remove, Writes, VisitFile, VisitDirectory, Visits, Failing,
    CallFails, CandidateUnknown, CleanupFails
<1>2. causes = {}
  BY <1>1 DEF Next, Saving, Observe, ObserveAgain, MakeLease, Anchor, CheckDir, OpenSource,
    CreateCandidate, CopyChunk, EndCopy, RereadChunk, ObserveAfter, Rehash, ValidateZip, PrePromote,
    Promote, Attest, Consume, Return, Verify, VerifyBytes, Take, Look, LookAgain, RemoveCaught,
    Restore, Done, vars, UnchangedByPass, UnchangedByCheck, UnchangedByCleanup, history
<1>3. Undisturbed /\ QuietInv
  BY <1>2 DEF BlameInv, SourceInv, Undisturbed
<1>4. NamesInv /\ DirectoryInv
  BY <1>3, Finds
<1>5. path # None /\ "ours" # None
  BY <1>3, SnapshotAssumption DEF QuietInv
<1>6. pc \in (Early \ {"observe"}) \cup Bare \cup Filling => AsObserved(path)
  BY <1>3, <1>5 DEF QuietInv, AsObserved
<1>7. pc \in {"create", "copy", "endCopy", "reread"} => handle = path
  BY <1>3 DEF QuietInv
<1> USE DEF Early, Bare, Filling
<1>8. CASE Observe
  BY <1>3, <1>5, <1>8 DEF QuietInv, Observe, source, Stat
<1>9. CASE ObserveAgain
  BY <1>3, <1>6, <1>9 DEF QuietInv, ObserveAgain, source, Stat
<1>10. CASE MakeLease \/ Anchor \/ CheckDir
  <2>1. pc \in {"mkdir", "anchor", "checkDir"} /\ pc' \in Bare
        /\ UNCHANGED <<source, observed, copied, reread, errors>>
    BY <1>4, <1>5, <1>10 DEF DirectoryInv, MakeLease, Anchor, CheckDir, UnchangedByPass
  <2>2. pc' # "create"
    BY <1>10, <1>4, <1>5 DEF DirectoryInv, MakeLease, Anchor, CheckDir
  <2> QED
    BY <1>3, <2>1, <2>2 DEF QuietInv, source, Stat
<1>11. CASE OpenSource("openSource", "create")
  BY <1>3, <1>6, <1>11 DEF QuietInv, OpenSource, UnchangedByPass, source, Stat
<1>12. CASE CreateCandidate
  <2>1. pc = "create" /\ pc' = "copy" /\ UNCHANGED <<source, observed, handle, copied, reread, errors>>
    BY <1>3, <1>4, <1>5, <1>12, Finds DEF DirectoryInv, CreateCandidate
  <2>2. copied = <<>> /\ Begins(<<>>)
    BY <1>3, <2>1, EmptyBegins DEF QuietInv
  <2> QED
    BY <1>3, <1>7, <2>1, <2>2 DEF QuietInv, source, Stat, Begins
<1>13. CASE CopyChunk
  <2>1. UNCHANGED <<path, file, observed, handle, reread, errors>> /\ pc = "copy" /\ handle = path
        /\ Begins(copied)
    BY <1>3, <1>7, <1>13 DEF QuietInv, CopyChunk, UnchangedByPass, source
  <2>2. CASE pc' = "copy" /\ copied' = Append(copied, file[path].blocks[Len(copied) + 1])
             /\ Len(copied) < Len(file[path].blocks)
    <3>1. Begins(copied')
      BY <1>3, <2>1, <2>2, LongerBegins DEF QuietInv
    <3>2. Begins(copied)'
      BY <2>1, <3>1 DEF Begins
    <3> QED
      BY <1>3, <2>1, <2>2, <3>2 DEF QuietInv, Stat
  <2>3. CASE pc' = "endCopy" /\ copied' = copied /\ ~(Len(copied) < Len(file[path].blocks))
    <3>1. copied = file[path].blocks
      BY <1>3, <2>1, <2>3, WholeBegins DEF QuietInv
    <3> QED
      BY <1>3, <2>1, <2>3, <3>1 DEF QuietInv, Stat
  <2> QED
    BY <1>13, <2>1, <2>2, <2>3 DEF CopyChunk
<1>14. CASE EndCopy
  <2>1. Len(copied) = observed.size
    BY <1>3, <1>14 DEF QuietInv, EndCopy, Stat
  <2> QED
    BY <1>3, <1>6, <1>7, <1>14, <2>1 DEF QuietInv, EndCopy, UnchangedByPass, source, Stat
<1>15. CASE OpenSource("reopenSource", "reread")
  <2>1. /\ pc = "reopenSource" /\ pc' = "reread" /\ handle' = path
        /\ UNCHANGED <<source, observed, copied, reread, errors>>
    BY <1>6, <1>15 DEF OpenSource, UnchangedByPass
  <2>2. reread = <<>> /\ Begins(<<>>)
    BY <1>3, <2>1, EmptyBegins DEF QuietInv
  <2> QED
    BY <1>3, <2>1, <2>2 DEF QuietInv, source, Stat, Begins
<1>16. CASE RereadChunk
  <2>1. UNCHANGED <<path, file, observed, copied>> /\ pc = "reread" /\ handle = path
        /\ Begins(reread)
    BY <1>3, <1>7, <1>16 DEF QuietInv, RereadChunk, UnchangedByPass, source
  <2>2. CASE UNCHANGED <<pc, handle, errors>> /\ Len(reread) < Len(file[path].blocks)
             /\ reread' = Append(reread, file[path].blocks[Len(reread) + 1])
    <3>1. Begins(reread')
      BY <1>3, <2>1, <2>2, LongerBegins DEF QuietInv
    <3>2. Begins(reread)'
      BY <2>1, <3>1 DEF Begins
    <3> QED
      BY <1>3, <2>1, <2>2, <3>2 DEF QuietInv, Stat
  <2>3. CASE pc' = "observeAfter" /\ UNCHANGED <<reread, errors>>
             /\ ~(Len(reread) < Len(file[path].blocks))
    <3>1. reread = file[path].blocks
      BY <1>3, <2>1, <2>3, WholeBegins DEF QuietInv
    <3> QED
      BY <1>3, <2>1, <2>3, <3>1 DEF QuietInv, Stat
  <2> QED
    BY <1>6, <1>16, <2>1, <2>2, <2>3 DEF RereadChunk
<1>17. CASE ObserveAfter
  <2>1. SameBytes
    BY <1>3, <1>17 DEF QuietInv, ObserveAfter, SameBytes
  <2> QED
    BY <1>3, <1>6, <1>17, <2>1 DEF QuietInv, ObserveAfter, UnchangedByPass, source, Stat
<1>18. ASSUME UNCHANGED <<source, observed>>, errors' \subseteq {"consumer"},
              \/ pc \in Filling /\ pc' \in {"zip", "prePromote", "promote"}
              \/ pc' \notin Early \cup Bare \cup Filling
       PROVE  QuietInv'
  BY <1>3, <1>18 DEF QuietInv, source, Stat
<1>19. errors \subseteq {"consumer"}
  BY <1>3 DEF QuietInv
<1>20. CASE Rehash \/ ValidateZip \/ PrePromote \/ Promote \/ Attest
  <2>1. ValidateZip => pc = "zip" /\ pc' = "prePromote" /\ errors' = errors
    BY <1>3, Finds DEF ValidateZip, Ours, Intact
  <2> QED
    BY <1>3, <1>18, <1>19, <1>20, <2>1, Finds DEF Rehash, ValidateZip, PrePromote, Promote, Attest,
      UnchangedByCheck, Ours, Intact, Lending
<1>21. CASE Consume \/ Return \/ Verify \/ VerifyBytes
  BY <1>3, <1>18, <1>19, <1>21, Finds DEF Consume, Return, Verify, VerifyBytes, UnchangedByCheck,
    passes, Ours, Intact, Lending
<1>22. CASE Take \/ Look \/ LookAgain \/ RemoveCaught \/ Restore
  <2>1. errors' = errors
    BY <1>3, <1>22, CleaningKeepsLease
  <2> QED
    BY <1>18, <1>19, <1>22, <2>1 DEF Take, Look, LookAgain, RemoveCaught, Restore, GoOn,
      UnchangedByCleanup, passes
<1>23. CASE Done
  BY <1>18, <1>19, <1>23 DEF Done, vars, passes
<1> QED
  BY <1>1, <1>8, <1>9, <1>10, <1>11, <1>12, <1>13, <1>14, <1>15, <1>16, <1>17, <1>20, <1>21, <1>22,
    <1>23 DEF Next, Saving

LEMMA BlameKeeps == BlameInv /\ [Next]_vars => BlameInv'
<1> SUFFICES ASSUME BlameInv, [Next]_vars PROVE BlameInv'
  OBVIOUS
<1>1. CASE UNCHANGED vars
  BY <1>1 DEF vars, source, passes, places, tokens, history, BlameInv, UntouchedInv, SourceInv, Undisturbed,
    NamesInv, Filled, DirectoryInv, MildInv, QuietInv, Begins, Stat
<1>2. CASE Done
  BY <1>1, <1>2 DEF Done
<1>3. CASE Saving
  BY <1>3, SavingKeeps
<1>4. CASE VisitFile \/ VisitDirectory \/ Failing \/ CandidateUnknown \/ CleanupFails
  BY <1>4, Disturbed DEF VisitFile, VisitDirectory, Visits, Failing, CallFails, CandidateUnknown,
    CleanupFails
<1>5. CASE Next /\ UntouchedInv'
  BY <1>5, SourceStep DEF BlameInv
<1> QED
  BY <1>1, <1>2, <1>3, <1>4, <1>5, AcquiringKeepsLease, LendingKeepsLease, CleaningKeepsLease
  DEF Next, Saving

-----------------------------------------------------------------------------
(* Theorems. *)

\* The invariant holds in every reachable state.
THEOREM BlameInvariance == Spec => []BlameInv
BY InitBlame, BlameKeeps, PTL DEF Spec

\* BlameIsRight: a save alone never makes the acquisition raise what ends the
\* watch, and where nothing happens nothing is raised.
THEOREM NobodyIsBlamedWrongly == Spec => []BlameIsRight
<1>1. BlameInv => BlameIsRight
  BY DEF BlameInv, UntouchedInv, SourceInv, Undisturbed, MildInv, QuietInv, BlameIsRight
<1> QED
  BY <1>1, BlameInvariance, PTL

-----------------------------------------------------------------------------
(***************************************************************************)
(* The types.  Workbook, copy and second reading stay within MaxBlocks,    *)
(* since a pass reads a block only where the file has one; the rest is     *)
(* what the invariants of the lease say, or an enumeration.                *)
(***************************************************************************)

SizeInv ==
    /\ file \in [Inode -> [blocks : Content, mtime : 0..MaxWrites]]
    /\ path \in Inode \cup {None} /\ handle \in Inode \cup {None}
    /\ written \in 0..MaxWrites
    /\ window \subseteq Content /\ copied \in Content /\ reread \in Content

MarkInv ==
    /\ pc \in DOMAIN FailsAs \cup {"lent", "take", "look", "lookAgain", "remove",
                                   "restore", "ended"}
    /\ errors \subseteq Kind
    /\ read \in {None, "snapshot", "other"}
    /\ causes \subseteq {"source", "container", "lease", "io"}
    /\ trouble \in 0..MaxTrouble

\* A content is a sequence of blocks of at most the longest length.
LEMMA ContentMeans ==
  ASSUME NEW s
  PROVE  s \in Content <=> s \in Seq(Block) /\ Len(s) <= MaxBlocks
<1>1. ASSUME s \in Content PROVE s \in Seq(Block) /\ Len(s) <= MaxBlocks
  <2>1. PICK n \in 0..MaxBlocks : s \in [1..n -> Block]
    BY <1>1 DEF Content
  <2>2. n \in Nat /\ n <= MaxBlocks
    BY SnapshotAssumption
  <2> QED
    BY <2>1, <2>2
<1>2. ASSUME s \in Seq(Block), Len(s) <= MaxBlocks PROVE s \in Content
  <2>1. Len(s) \in 0..MaxBlocks /\ s \in [1..Len(s) -> Block]
    BY <1>2, SnapshotAssumption
  <2> QED
    BY <2>1 DEF Content
<1> QED
  BY <1>1, <1>2

\* One block more, where there is room.
LEMMA OneMore ==
  ASSUME NEW s \in Content, NEW b \in Block, Len(s) < MaxBlocks
  PROVE  Append(s, b) \in Content
<1>1. s \in Seq(Block) /\ Len(s) \in Nat /\ Len(s) + 1 <= MaxBlocks
  BY ContentMeans, SnapshotAssumption
<1>2. Append(s, b) \in Seq(Block) /\ Len(Append(s, b)) = Len(s) + 1
  BY <1>1
<1> QED
  BY <1>1, <1>2, ContentMeans

\* The first contents are some workbook of zeros.
LEMMA InitTypes == Init => SizeInv /\ MarkInv
<1> SUFFICES ASSUME Init PROVE SizeInv /\ MarkInv
  OBVIOUS
<1>1. PICK n \in 1..MaxBlocks :
        file = [i \in Inode |-> [blocks |-> [b \in 1..n |-> 0], mtime |-> 0]]
  BY DEF Init
<1>2. n \in 0..MaxBlocks /\ 0 \in 0..MaxWrites
  BY SnapshotAssumption
<1>3. [b \in 1..n |-> 0] \in Content
  BY <1>2 DEF Content, Block
<1>4. <<>> \in Content
  <2>1. <<>> \in Seq(Block) /\ Len(<<>>) <= MaxBlocks
    BY SnapshotAssumption
  <2> QED
    BY <2>1, ContentMeans
<1>5. SizeInv
  BY <1>1, <1>2, <1>3, <1>4 DEF Init, SizeInv
<1>6. MarkInv
  BY SnapshotAssumption DEF Init, MarkInv, FailsAs
<1> QED
  BY <1>5, <1>6

\* The saver keeps within the bounds, and the window shows contents only.
LEMMA SaverTypes == SizeInv /\ Saving => SizeInv'
<1> SUFFICES ASSUME SizeInv, Saving PROVE SizeInv'
  OBVIOUS
<1>1. /\ Writes /\ written + 1 \in Block /\ written' = written + 1
      /\ written \in Nat /\ Block = 0..MaxWrites
  BY SnapshotAssumption DEF Saving, WriteInPlace, Replace, Remove, Writes, SizeInv, Block
<1>2. ASSUME NEW i \in Inode, NEW c \in Content, NEW m \in 0..MaxWrites,
             file' = [file EXCEPT ![i] = [blocks |-> c, mtime |-> m]]
      PROVE  file' \in [Inode -> [blocks : Content, mtime : 0..MaxWrites]]
  BY <1>2 DEF SizeInv
<1>3. file' \in [Inode -> [blocks : Content, mtime : 0..MaxWrites]] /\ path' \in Inode \cup {None}
  <2>1. CASE WriteInPlace
    <3>1. path \in Inode /\ path' = path
      BY <2>1 DEF WriteInPlace, SizeInv
    <3> DEFINE old == file[path].blocks
               next == written + 1
    <3>2. PICK blocks \in {[old EXCEPT ![b] = next] : b \in DOMAIN old}
                          \cup {Append(old, next)} \cup {SubSeq(old, 1, Len(old) - 1)},
               mtime \in {file[path].mtime, next} :
            /\ Len(blocks) <= MaxBlocks
            /\ file' = [file EXCEPT ![path] = [blocks |-> blocks, mtime |-> mtime]]
      BY <2>1 DEF WriteInPlace
    <3>3. old \in Content /\ file[path].mtime \in 0..MaxWrites
      BY <3>1 DEF SizeInv
    <3>4. old \in Seq(Block) /\ next \in Block
      BY <1>1, <3>3, ContentMeans
    <3> HIDE DEF old, next
    <3>5. Append(old, next) \in Seq(Block)
      BY <3>4
    <3>6. \A b \in DOMAIN old : [old EXCEPT ![b] = next] \in Seq(Block)
      BY <3>4
    <3>7. SubSeq(old, 1, Len(old) - 1) \in Seq(Block)
      BY <3>4
    <3>8. blocks \in Content
      BY <3>2, <3>5, <3>6, <3>7, ContentMeans
    <3>9. mtime \in 0..MaxWrites
      BY <1>1, <3>2, <3>3 DEF next
    <3> QED
      BY <1>2, <3>1, <3>2, <3>8, <3>9
  <2>2. CASE Replace
    <3>1. PICK i \in Inode \ {path, handle}, n \in 1..MaxBlocks, mtime \in 0..(written + 1) :
            /\ path' = i
            /\ file' = [file EXCEPT ![i] = [blocks |-> [b \in 1..n |-> written + 1],
                                            mtime |-> mtime]]
      BY <2>2 DEF Replace
    <3>2. n \in 0..MaxBlocks /\ [b \in 1..n |-> written + 1] \in [1..n -> Block]
      BY <1>1, SnapshotAssumption
    <3>3. [b \in 1..n |-> written + 1] \in Content
      BY <3>2 DEF Content
    <3>4. mtime \in 0..MaxWrites
      BY <1>1, SnapshotAssumption
    <3> QED
      BY <1>2, <3>1, <3>3, <3>4
  <2>3. CASE Remove
    BY <2>3 DEF Remove, SizeInv
  <2> QED
    BY <2>1, <2>2, <2>3 DEF Saving
<1>4. window' \subseteq Content
  BY <1>1, <1>3 DEF Writes, SizeInv
<1>5. UNCHANGED <<handle, copied, reread>> /\ written' \in 0..MaxWrites
  BY <1>1 DEF Writes, passes
<1> QED
  BY <1>3, <1>4, <1>5 DEF SizeInv

\* A pass reads on where the file goes on.
LEMMA PassTypes == SizeInv /\ IInv /\ (CopyChunk \/ RereadChunk) => SizeInv'
<1> SUFFICES ASSUME SizeInv, IInv, CopyChunk \/ RereadChunk PROVE SizeInv'
  OBVIOUS
<1>1. handle \in Inode
  BY DEF IInv, CopyInv, CopyChunk, RereadChunk, SizeInv
<1> DEFINE all == file[handle].blocks
<1>2. all \in Content
  BY <1>1 DEF SizeInv
<1>3. ASSUME NEW s \in Content, Len(s) < Len(all)
      PROVE  Append(s, all[Len(s) + 1]) \in Content
  <2>1. all \in Seq(Block) /\ Len(all) <= MaxBlocks /\ s \in Seq(Block)
    BY <1>2, ContentMeans
  <2> HIDE DEF all
  <2>2. Len(s) + 1 \in DOMAIN all
    BY <1>3, <2>1
  <2>3. all[Len(s) + 1] \in Block /\ Len(s) < MaxBlocks
    BY <1>3, <2>1, <2>2, SnapshotAssumption
  <2> QED
    BY <2>3, OneMore
<1>4. copied' \in Content /\ reread' \in Content
  BY <1>3 DEF CopyChunk, RereadChunk, UnchangedByPass, SizeInv
<1>5. UNCHANGED <<file, path, written, window>> /\ handle' \in {handle, None}
  BY DEF CopyChunk, RereadChunk, UnchangedByPass, source, GiveUp
<1> HIDE DEF all
<1> QED
  BY <1>4, <1>5 DEF SizeInv

\* What the other steps do to workbook and passes.
LEMMA SizeStep == SizeInv /\ IInv /\ Next => SizeInv'
<1> SUFFICES ASSUME SizeInv, IInv, Next PROVE SizeInv'
  OBVIOUS
<1>1. CASE Saving
  BY <1>1, SaverTypes
<1>2. CASE CopyChunk \/ RereadChunk
  BY <1>2, PassTypes
<1>3. CASE ObserveAgain
  <2>1. AsObserved(path) => file[path].blocks \in Content
    BY DEF AsObserved, SizeInv
  <2> QED
    BY <1>3, <2>1 DEF ObserveAgain, Refuse, source, SizeInv
<1>4. CASE ~Saving /\ ~CopyChunk /\ ~RereadChunk /\ ~ObserveAgain
  <2>1. UNCHANGED <<file, path, written, window, copied, reread>>
    BY <1>4 DEF Next, Saving, Failing, CallFails, Observe, MakeLease, Anchor, CheckDir, OpenSource,
      CreateCandidate, CandidateUnknown, EndCopy, ObserveAfter, Rehash, ValidateZip, PrePromote,
      Promote, Attest, Consume, Return, Verify, VerifyBytes, Take, Look, LookAgain, RemoveCaught,
      Restore, CleanupFails, Done, VisitFile, VisitDirectory, Visits, UnchangedByPass,
      UnchangedByCheck, UnchangedByCleanup, source, passes, vars
  <2>2. handle' \in {handle, path, None}
    BY <1>4 DEF Next, Saving, Failing, CallFails, Observe, MakeLease, Anchor, CheckDir, OpenSource,
      CreateCandidate, CandidateUnknown, EndCopy, ObserveAfter, Rehash, ValidateZip, PrePromote,
      Promote, Attest, Consume, Return, Verify, VerifyBytes, Take, Look, LookAgain, RemoveCaught,
      Restore, CleanupFails, Done, VisitFile, VisitDirectory, Visits, UnchangedByPass,
      UnchangedByCheck, UnchangedByCleanup, passes, vars, GiveUp, Refuse
  <2> QED
    BY <2>1, <2>2 DEF SizeInv
<1> QED
  BY <1>1, <1>2, <1>3, <1>4

LEMMA MarkStep == MarkInv /\ Next => MarkInv'
<1> SUFFICES ASSUME MarkInv, Next PROVE MarkInv'
  OBVIOUS
<1> DEFINE Known == DOMAIN FailsAs \cup {"lent", "take", "look", "lookAgain", "remove", "restore",
                                        "ended"}
<1>1. pc' \in Known
  BY DEF MarkInv, FailsAs, Next, WriteInPlace, Replace, Remove, Writes, VisitFile, VisitDirectory,
    Visits, Failing, CallFails, Observe, ObserveAgain, MakeLease, Anchor, CheckDir, OpenSource,
    CreateCandidate, CandidateUnknown, CopyChunk, EndCopy, RereadChunk, ObserveAfter, Rehash,
    ValidateZip, PrePromote, Promote, Attest, Consume, Return, Verify, VerifyBytes, Take, Look,
    LookAgain, RemoveCaught, Restore, CleanupFails, Done, vars, GiveUp, Refuse, GoOn
<1>2. errors' \subseteq Kind
  <2>1. CASE Failing
    <3>1. \A kind \in FailsAs[pc] : kind \in Kind
      BY <2>1 DEF Failing, FailsAs, Kind
    <3> QED
      BY <2>1, <3>1 DEF Failing, CallFails, GiveUp, Refuse, MarkInv, Kind
  <2>2. CASE ~Failing
    BY <2>2 DEF MarkInv, Kind, Next, WriteInPlace, Replace, Remove, Writes, VisitFile,
      VisitDirectory, Visits, Observe, ObserveAgain, MakeLease, Anchor, CheckDir, OpenSource,
      CreateCandidate, CandidateUnknown, CopyChunk, EndCopy, RereadChunk, ObserveAfter, Rehash,
      ValidateZip, PrePromote, Promote, Attest, Consume, Return, Verify, VerifyBytes, Take, Look,
      LookAgain, RemoveCaught, Restore, CleanupFails, Done, vars, GiveUp, Refuse, Unclean
  <2> QED
    BY <2>1, <2>2
<1>3. read' \in {read, "snapshot", "other"}
  BY DEF Next, WriteInPlace, Replace, Remove, Writes, VisitFile, VisitDirectory,
    Visits, Failing, CallFails, Observe, ObserveAgain, MakeLease, Anchor, CheckDir, OpenSource,
    CreateCandidate, CandidateUnknown, CopyChunk, EndCopy, RereadChunk, ObserveAfter, Rehash,
    ValidateZip, PrePromote, Promote, Attest, Consume, Return, Verify, VerifyBytes, Take, Look,
    LookAgain, RemoveCaught, Restore, CleanupFails, Done, vars, history, UnchangedByPass,
    UnchangedByCheck, UnchangedByCleanup
<1>4. causes' \subseteq causes \cup {"source", "container", "lease", "io"}
  BY DEF Next, WriteInPlace, Replace, Remove, Writes, VisitFile, VisitDirectory,
    Visits, Failing, CallFails, Observe, ObserveAgain, MakeLease, Anchor, CheckDir, OpenSource,
    CreateCandidate, CandidateUnknown, CopyChunk, EndCopy, RereadChunk, ObserveAfter, Rehash,
    ValidateZip, PrePromote, Promote, Attest, Consume, Return, Verify, VerifyBytes, Take, Look,
    LookAgain, RemoveCaught, Restore, CleanupFails, Done, vars, history, UnchangedByPass,
    UnchangedByCheck, UnchangedByCleanup
<1>5. trouble' = trouble \/ (trouble < MaxTrouble /\ trouble' = trouble + 1)
  BY DEF Next, WriteInPlace, Replace, Remove, Writes, VisitFile, VisitDirectory,
    Visits, Failing, CallFails, Observe, ObserveAgain, MakeLease, Anchor, CheckDir, OpenSource,
    CreateCandidate, CandidateUnknown, CopyChunk, EndCopy, RereadChunk, ObserveAfter, Rehash,
    ValidateZip, PrePromote, Promote, Attest, Consume, Return, Verify, VerifyBytes, Take, Look,
    LookAgain, RemoveCaught, Restore, CleanupFails, Done, vars, history, UnchangedByPass,
    UnchangedByCheck, UnchangedByCleanup
<1>6. trouble' \in 0..MaxTrouble
  BY <1>5, SnapshotAssumption DEF MarkInv
<1> QED
  BY <1>1, <1>2, <1>3, <1>4, <1>6 DEF MarkInv

\* TypeOK: every variable keeps its type; no pass outgrows the longest workbook.
THEOREM SnapshotTypes == Spec => []TypeOK
<1>1. Init => SizeInv /\ MarkInv
  BY InitTypes
<1>2. SizeInv /\ MarkInv /\ IInv /\ [Next]_vars => (SizeInv /\ MarkInv)'
  <2>1. SizeInv /\ MarkInv /\ UNCHANGED vars => (SizeInv /\ MarkInv)'
    BY DEF SizeInv, MarkInv, vars, source, passes, history
  <2> QED
    BY <2>1, SizeStep, MarkStep
<1>3. SizeInv /\ MarkInv /\ LeaseInv => TypeOK
  BY DEF SizeInv, MarkInv, LeaseInv, PlaceInv, TypeOK
<1> QED
  BY <1>1, <1>2, <1>3, Invariance, LeaseInvariance, PTL DEF Spec
=============================================================================
