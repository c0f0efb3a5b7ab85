------------------------- MODULE SnapshotAcquisition -------------------------
(***************************************************************************)
(* One use of open_stable_xlsx_snapshot: it copies the workbook into a     *)
(* private lease directory while Excel may be saving it, lends the copy to *)
(* a consumer, and afterwards removes what it made and nothing else.       *)
(*                                                                         *)
(* Two outsiders interleave with it.  The saver writes the workbook in     *)
(* place, block by block, cuts it, replaces or removes it, on a file       *)
(* system whose clock may stand still between two writes and which uses    *)
(* inodes again.  The visitor (a sync client, a scanner, another program   *)
(* of the user) changes, replaces or removes what is in the lease.         *)
(*                                                                         *)
(* The source is read block by block.  The private copy is one value, and  *)
(* a pass over it is one step.  Block values are fresh with every write.   *)
(***************************************************************************)
EXTENDS Integers, Sequences, FiniteSets

CONSTANTS
    None,
    Inode,       \* the inodes of the file system of the source
    MaxBlocks,   \* bound: longest workbook, in blocks
    MaxWrites,   \* bound: what the saver does
    MaxTrouble   \* bound: what the visitor does, and calls that fail

ASSUME SnapshotAssumption ==
    /\ None \notin Inode
    /\ None \notin {"ours", "theirs", "snapshot", "other"}
    /\ MaxBlocks \in Nat \ {0} /\ MaxWrites \in Nat /\ MaxTrouble \in Nat

VARIABLES
    (* the source *)
    file,      \* per inode: its blocks and its modification time
    path,      \* the inode at source_path
    written,   \* the number of writes so far, which makes their values
    (* the acquisition *)
    pc,
    observed,  \* obs1, then obs2
    handle,    \* the inode src_f is open on
    copied,    \* what the hasher and the candidate got
    reread,    \* what _stream_hash_source got
    errors,    \* the kinds of exception to raise
    filesCleaned, \* files_cleaned_successfully
    target,    \* what the cleanup is at
    (* the lease *)
    lease,     \* the directory at lease_dir
    qdir,      \* the directory at q_dir
    entry,     \* per directory: what its names hold
    dirToken,  \* owned_lease_token: the directory it was taken from
    owned,     \* of part and final: which have a token
    (* history *)
    window,    \* the contents the path had since obs2
    read,      \* what the consumer read from the snapshot
    causes,    \* what went wrong around the acquisition
    trouble,   \* how often
    late       \* the visitor came after the last look of the cleanup

source == <<file, path, written>>
passes == <<observed, handle, copied, reread>>
tokens == <<dirToken, owned>>
places == <<lease, qdir, entry>>
history == <<read, causes, trouble, late>>
vars == <<source, window, pc, passes, errors, filesCleaned, target, places, tokens,
          history>>

Dir == {"ours", "theirs"}
Name == {"part", "final", "qpart", "qfinal", "other"}

\* Our file as it was verified, with another mtime, with other bytes.
Intact == {"own", "touched"}
Ours == Intact \cup {"spoiled"}
Held == Ours \cup {"foreign", "nothing"}

Kind == {"notReady", "storage", "integrity", "cleanup", "consumer"}
Block == 0..MaxWrites
Content == UNION {[1..n -> Block] : n \in 0..MaxBlocks}

\* What lstat and fstat tell of a file of the source.
Stat(i) == [inode |-> i, size |-> Len(file[i].blocks), mtime |-> file[i].mtime]

Init ==
    /\ path \in Inode
    /\ \E n \in 1..MaxBlocks :
         file = [i \in Inode |-> [blocks |-> [b \in 1..n |-> 0], mtime |-> 0]]
    /\ written = 0
    /\ pc = "observe" /\ observed = None /\ handle = None
    /\ copied = <<>> /\ reread = <<>>
    /\ errors = {} /\ filesCleaned = TRUE /\ target = "part"
    /\ lease = None /\ qdir = None
    /\ entry = [d \in Dir |-> [n \in Name |-> "nothing"]]
    /\ dirToken = None /\ owned = {}
    /\ window = {} /\ read = None /\ causes = {} /\ trouble = 0 /\ late = FALSE

-----------------------------------------------------------------------------
(* The saver.  What it does matters until the source is observed last. *)

SourceInUse == pc \in {"observe", "observeAgain", "mkdir", "anchor", "checkDir",
                       "openSource", "create", "copy", "endCopy", "reopenSource",
                       "reread", "observeAfter"}

Writes ==
    /\ SourceInUse
    /\ written < MaxWrites
    /\ written' = written + 1
    /\ causes' = causes \cup {"source"}
    /\ window' = window \cup {file'[i].blocks : i \in {path'} \ {None}}
    /\ UNCHANGED <<pc, passes, errors, filesCleaned, target, places, tokens,
                   read, trouble, late>>

\* A block is written over or appended, or the file is cut.
WriteInPlace ==
    /\ path # None
    /\ \E blocks \in {[file[path].blocks EXCEPT ![b] = written + 1] :
                        b \in DOMAIN file[path].blocks}
                     \cup {Append(file[path].blocks, written + 1)}
                     \cup {SubSeq(file[path].blocks, 1, Len(file[path].blocks) - 1)},
          mtime \in {file[path].mtime, written + 1} :
         /\ Len(blocks) <= MaxBlocks
         /\ file' = [file EXCEPT ![path] = [blocks |-> blocks, mtime |-> mtime]]
    /\ path' = path
    /\ Writes

\* Another file is renamed to the path.
Replace ==
    /\ \E i \in Inode \ {path, handle}, n \in 1..MaxBlocks,
          mtime \in 0..(written + 1) :
         /\ path' = i
         /\ file' = [file EXCEPT ![i] = [blocks |-> [b \in 1..n |-> written + 1],
                                         mtime |-> mtime]]
    /\ Writes

Remove ==
    /\ path # None /\ path' = None
    /\ file' = file
    /\ Writes

-----------------------------------------------------------------------------
(* The visitor.  The names in the lease cannot be guessed: it finds them    *)
(* once they are there.                                                     *)

Visits ==
    /\ pc # "ended"
    /\ trouble < MaxTrouble
    /\ trouble' = trouble + 1
    /\ causes' = causes \cup {"lease"}
    /\ late' = TRUE
    /\ UNCHANGED <<source, window, pc, passes, errors, filesCleaned, target,
                   tokens, read>>

Found == {lease, qdir} \ {None}

VisitFile ==
    /\ \E d \in Found, n \in Name, x \in Held \ {"own"} :
         /\ entry[d][n] = "nothing" => x = "foreign" /\ n \in {"part", "final", "other"}
         /\ x \in Ours => entry[d][n] \in Intact \ {x}
         /\ x # entry[d][n]
         /\ entry' = [entry EXCEPT ![d][n] = x]
    /\ UNCHANGED <<lease, qdir>>
    /\ Visits

\* The directory is moved away, with or without another in its place.
VisitDirectory ==
    /\ \/ lease # None /\ lease' \in {None, "theirs"} \ {lease, qdir} /\ qdir' = qdir
       \/ qdir # None /\ qdir' \in {None, "theirs"} \ {lease, qdir} /\ lease' = lease
    /\ entry' = entry
    /\ Visits

-----------------------------------------------------------------------------
(* Ways out. *)

\* From here on the acquisition raises, and first cleans up.
GiveUp(kind) ==
    /\ errors' = errors \cup {kind}
    /\ pc' = "take"
    /\ handle' = None

\* Before the lease there is nothing to clean.
Refuse ==
    /\ errors' = {"notReady"}
    /\ pc' = "ended"
    /\ handle' = None

\* What a failing system call is reported as.
FailsAs ==
    [observe |-> {"notReady"}, observeAgain |-> {"notReady"},
     mkdir |-> {"storage"}, anchor |-> {"storage", "cleanup"}, checkDir |-> {"storage"},
     openSource |-> {"notReady"}, create |-> {"storage"},
     copy |-> {"notReady", "storage"}, endCopy |-> {"notReady", "storage"},
     reopenSource |-> {"notReady"}, reread |-> {"notReady"}, observeAfter |-> {"notReady"},
     rehash |-> {"storage"}, zip |-> {"storage", "notReady"}, prePromote |-> {"storage"},
     promote |-> {"storage"}, attest |-> {"storage"},
     verify |-> {"integrity"}, verifyBytes |-> {"integrity"}]

CallFails ==
    /\ trouble < MaxTrouble /\ trouble' = trouble + 1
    /\ causes' = causes \cup {"io"}
    /\ \E kind \in FailsAs[pc] :
         IF pc \in {"observe", "observeAgain"} THEN Refuse ELSE GiveUp(kind)
    /\ UNCHANGED <<source, window, observed, copied, reread, filesCleaned, target,
                   tokens, places, read, late>>

Failing == pc \in DOMAIN FailsAs /\ CallFails

-----------------------------------------------------------------------------
(* Observing and copying the source. *)

\* The path leads to the inode and the metadata of the observation.
AsObserved(i) == i # None /\ Stat(i) = observed

Observe ==
    /\ pc = "observe"
    /\ \/ path = None /\ Refuse /\ observed' = observed
       \/ /\ path # None
          /\ observed' = Stat(path)
          /\ pc' = "observeAgain"
          /\ UNCHANGED <<errors, handle>>
    /\ UNCHANGED <<source, window, copied, reread, filesCleaned, target, tokens,
                   places, history>>

ObserveAgain ==
    /\ pc = "observeAgain"
    /\ \/ ~AsObserved(path) /\ Refuse /\ window' = window
       \/ /\ AsObserved(path)
          /\ window' = {file[path].blocks}
          /\ pc' = "mkdir"
          /\ UNCHANGED <<errors, handle>>
    /\ UNCHANGED <<source, observed, copied, reread, filesCleaned, target, tokens,
                   places, history>>

UnchangedByPass == <<source, window, observed, filesCleaned, target, owned, history>>

MakeLease ==
    /\ pc = "mkdir"
    /\ lease' = "ours"
    /\ pc' = "anchor"
    /\ UNCHANGED <<UnchangedByPass, handle, copied, reread, errors, dirToken, qdir, entry>>

\* The descriptor is opened on whatever the name leads to by now.
Anchor ==
    /\ pc = "anchor"
    /\ \/ lease = None /\ GiveUp("storage") /\ dirToken' = dirToken
       \/ /\ lease # None
          /\ dirToken' = lease
          /\ pc' = "checkDir"
          /\ UNCHANGED <<errors, handle>>
    /\ UNCHANGED <<UnchangedByPass, copied, reread, places>>

CheckDir ==
    /\ pc = "checkDir"
    /\ \/ lease # dirToken /\ GiveUp("storage")
       \/ lease = dirToken /\ pc' = "openSource" /\ UNCHANGED <<errors, handle>>
    /\ UNCHANGED <<UnchangedByPass, copied, reread, dirToken, places>>

\* _open_source_nofollow and the first look at the handle.
OpenSource(from, to) ==
    /\ pc = from
    /\ \/ ~AsObserved(path) /\ GiveUp("notReady")
       \/ AsObserved(path) /\ pc' = to /\ handle' = path /\ errors' = errors
    /\ UNCHANGED <<UnchangedByPass, copied, reread, dirToken, places>>

At(name) == IF lease = None THEN "nothing" ELSE entry[lease][name]

Put(name, x) == entry' = [entry EXCEPT ![lease][name] = x]

\* _atomic_move_no_replace within the lease
Moved(names, from, to) == [names EXCEPT ![to] = names[from], ![from] = "nothing"]

MoveTo(from, to) == entry' = [entry EXCEPT ![lease] = Moved(@, from, to)]

\* O_EXCL: the candidate is ours, and its token is taken from its handle.
CreateCandidate ==
    /\ pc = "create"
    /\ \/ /\ lease = None \/ At("part") # "nothing"
          /\ GiveUp("storage")
          /\ UNCHANGED <<owned, entry>>
       \/ /\ lease # None /\ At("part") = "nothing"
          /\ Put("part", "own")
          /\ owned' = {"part"}
          /\ pc' = "copy"
          /\ UNCHANGED <<errors, handle>>
    /\ UNCHANGED <<source, window, observed, filesCleaned, target, history, copied,
                   reread, dirToken, lease, qdir>>

\* The handle of the new candidate tells nothing: it stays without a token.
CandidateUnknown ==
    /\ pc = "create"
    /\ lease # None /\ At("part") = "nothing"
    /\ Put("part", "own")
    /\ GiveUp("storage")
    /\ trouble < MaxTrouble /\ trouble' = trouble + 1
    /\ causes' = causes \cup {"io"}
    /\ UNCHANGED <<source, window, observed, copied, reread, filesCleaned, target,
                   tokens, lease, qdir, read, late>>

CopyChunk ==
    /\ pc = "copy"
    /\ IF Len(copied) < Len(file[handle].blocks)
       THEN copied' = Append(copied, file[handle].blocks[Len(copied) + 1]) /\ pc' = pc
       ELSE copied' = copied /\ pc' = "endCopy"
    /\ UNCHANGED <<UnchangedByPass, handle, reread, errors, dirToken, places>>

\* The second look at the handle, and the number of bytes.
EndCopy ==
    /\ pc = "endCopy"
    /\ \/ /\ ~AsObserved(handle) \/ Len(copied) # observed.size
          /\ GiveUp("notReady")
       \/ /\ AsObserved(handle) /\ Len(copied) = observed.size
          /\ handle' = None
          /\ pc' = "reopenSource" /\ errors' = errors
    /\ UNCHANGED <<UnchangedByPass, copied, reread, dirToken, places>>

\* _stream_hash_source
RereadChunk ==
    /\ pc = "reread"
    /\ IF Len(reread) < Len(file[handle].blocks)
       THEN /\ reread' = Append(reread, file[handle].blocks[Len(reread) + 1])
            /\ UNCHANGED <<pc, handle, errors>>
       ELSE /\ reread' = reread
            /\ \/ ~AsObserved(handle) /\ GiveUp("notReady")
               \/ /\ AsObserved(handle)
                  /\ handle' = None
                  /\ pc' = "observeAfter" /\ errors' = errors
    /\ UNCHANGED <<UnchangedByPass, copied, dirToken, places>>

\* Fault: as many bytes are taken for the same bytes.
SameLength == Len(reread) = Len(copied)

SameBytes == reread = copied

\* Fault: a save during the copy is taken for damage of the copy.
ObserveDamage ==
    /\ pc = "observeAfter"
    /\ \/ ~AsObserved(path) /\ GiveUp("notReady")
       \/ AsObserved(path) /\ ~SameBytes /\ GiveUp("integrity")
       \/ AsObserved(path) /\ SameBytes /\ pc' = "rehash" /\ UNCHANGED <<errors, handle>>
    /\ UNCHANGED <<UnchangedByPass, copied, reread, dirToken, places>>

ObserveAfter ==
    /\ pc = "observeAfter"
    /\ \/ ~(AsObserved(path) /\ SameBytes) /\ GiveUp("notReady")
       \/ AsObserved(path) /\ SameBytes /\ pc' = "rehash" /\ UNCHANGED <<errors, handle>>
    /\ UNCHANGED <<UnchangedByPass, copied, reread, dirToken, places>>

-----------------------------------------------------------------------------
(* Verifying the candidate, promoting and lending it. *)

UnchangedByCheck == <<source, window, observed, copied, reread, filesCleaned, target,
                      dirToken, read, trouble, late>>

\* _stream_hash_candidate
Rehash ==
    /\ pc = "rehash"
    /\ \/ At("part") \notin Ours /\ GiveUp("storage")
       \/ At("part") = "spoiled" /\ GiveUp("integrity")
       \/ At("part") \in Intact /\ pc' = "zip" /\ UNCHANGED <<errors, handle>>
    /\ UNCHANGED <<UnchangedByCheck, owned, places, causes>>

\* What was copied may be no container: a save that is half done.
ValidateZip ==
    /\ pc = "zip"
    /\ \/ At("part") \notin Ours /\ GiveUp("storage") /\ causes' = causes
       \/ /\ At("part") \in Ours /\ GiveUp("notReady")
          /\ causes' = causes \cup {"container"}
       \/ /\ At("part") \in Ours /\ copied # <<>>
          /\ pc' = "prePromote" /\ UNCHANGED <<errors, handle, causes>>
    /\ UNCHANGED <<UnchangedByCheck, owned, places>>

PrePromote ==
    /\ pc = "prePromote"
    /\ \/ At("part") \notin Ours /\ GiveUp("storage")
       \/ At("part") \in Ours /\ pc' = "promote" /\ UNCHANGED <<errors, handle>>
    /\ UNCHANGED <<UnchangedByCheck, owned, places, causes>>

\* The token of the final file is that of the candidate, whatever was renamed.
Promote ==
    /\ pc = "promote"
    /\ \/ /\ At("part") = "nothing" \/ At("final") # "nothing"
          /\ GiveUp("storage")
          /\ UNCHANGED <<owned, entry>>
       \/ /\ At("part") # "nothing" /\ At("final") = "nothing"
          /\ MoveTo("part", "final")
          /\ owned' = owned \cup {"final"}
          /\ pc' = "attest"
          /\ UNCHANGED <<errors, handle>>
    /\ UNCHANGED <<UnchangedByCheck, lease, qdir, causes>>

\* The mtime the verified token records is the one the file has now.
Attest ==
    /\ pc = "attest"
    /\ \/ At("final") \notin Ours /\ GiveUp("storage") /\ entry' = entry
       \/ At("final") = "spoiled" /\ GiveUp("integrity") /\ entry' = entry
       \/ /\ At("final") \in Intact
          /\ Put("final", "own")
          /\ pc' = "lent"
          /\ UNCHANGED <<errors, handle>>
    /\ UNCHANGED <<UnchangedByCheck, owned, lease, qdir, causes>>

\* External: the consumer reads the snapshot, here in one go.
Consume ==
    /\ pc = "lent" /\ read = None
    /\ At("final") # "nothing"
    /\ read' = IF At("final") \in Intact THEN "snapshot" ELSE "other"
    /\ UNCHANGED <<source, window, pc, passes, errors, filesCleaned, target, tokens,
                   places, causes, trouble, late>>

\* It leaves the context, by an exception if it has one.
Return ==
    /\ pc = "lent"
    /\ errors' \in {{}, {"consumer"}}
    /\ pc' = "verify"
    /\ handle' = handle
    /\ UNCHANGED <<UnchangedByCheck, owned, places, causes>>

\* Fault: the lease is taken back without a look at it.
Trust ==
    /\ pc = "verify"
    /\ pc' = "take" /\ errors' = errors /\ handle' = handle
    /\ UNCHANGED <<UnchangedByCheck, owned, places, causes>>

\* lstat: identity, mtime, size.
Verify ==
    /\ pc = "verify"
    /\ \/ At("final") # "own" /\ GiveUp("integrity")
       \/ At("final") \in {"own", "spoiled"} /\ pc' = "verifyBytes" /\ UNCHANGED <<errors, handle>>
    /\ UNCHANGED <<UnchangedByCheck, owned, places, causes>>

\* _stream_hash_leased_snapshot
VerifyBytes ==
    /\ pc = "verifyBytes"
    /\ \/ At("final") \notin Intact /\ GiveUp("integrity")
       \/ At("final") \in Intact /\ pc' = "take" /\ UNCHANGED <<errors, handle>>
    /\ UNCHANGED <<UnchangedByCheck, owned, places, causes>>

-----------------------------------------------------------------------------
(* _cleanup_managed_artifacts: part, final and directory in turn are moved to a *)
(* name nobody knows, looked at twice, and removed if they are ours.            *)

UnchangedByCleanup == <<source, window, passes, tokens, read, causes, trouble>>

Quarantine == [part |-> "qpart", final |-> "qfinal"]

\* Where the target is while it is in quarantine.
Caught ==
    CASE target = "dir" -> IF qdir = None THEN "nothing" ELSE qdir
      [] target # "dir" -> At(Quarantine[target])

\* The token proves that what was caught is ours: for a file the inode, for
\* the final file the bytes as well.
Proven ==
    CASE target = "part"  -> "part" \in owned /\ Caught \in Ours
      [] target = "final" -> "final" \in owned /\ Caught \in Intact
      [] target = "dir"   -> dirToken # None /\ Caught = dirToken

\* Fault: the cleanup goes past the directory.
FollowingAll == [part |-> "final", final |-> "dir", dir |-> "nothing"]

Following == [part |-> "final", final |-> "dir", dir |-> "dir"]

\* The target is dealt with.
GoOn ==
    /\ target' = Following[target]
    /\ pc' = IF target = "dir" THEN "ended" ELSE "take"

\* Fault: what stays behind is not reported.
KeepQuiet ==
    /\ errors' = errors
    /\ filesCleaned' = (filesCleaned /\ target = "dir")

\* ... or not, which the caller is told.
Unclean ==
    /\ errors' = errors \cup {"cleanup"}
    /\ filesCleaned' = (filesCleaned /\ target = "dir")

Take ==
    /\ pc = "take"
    /\ late' = late
    /\ \/ /\ IF target = "dir" THEN ~filesCleaned \/ lease = None
                               ELSE At(target) = "nothing"
          /\ GoOn
          /\ UNCHANGED <<errors, filesCleaned, places>>
       \/ /\ target = "dir" /\ filesCleaned /\ lease # None
          /\ qdir' = lease /\ lease' = None
          /\ pc' = "look"
          /\ UNCHANGED <<errors, filesCleaned, target, entry>>
       \/ /\ target # "dir" /\ At(target) # "nothing"
          /\ MoveTo(target, Quarantine[target])
          /\ pc' = "look"
          /\ UNCHANGED <<errors, filesCleaned, target, lease, qdir>>
    /\ UNCHANGED UnchangedByCleanup

Look ==
    /\ pc = "look"
    /\ \/ Caught = "nothing" /\ Unclean /\ GoOn
       \/ /\ Caught # "nothing" /\ ~Proven
          /\ Unclean
          /\ pc' = "restore" /\ target' = target
       \/ /\ Proven
          /\ pc' = "lookAgain"
          /\ UNCHANGED <<errors, filesCleaned, target>>
    /\ UNCHANGED <<UnchangedByCleanup, places, late>>

\* Fault: one look is taken for enough.
LookOnce ==
    /\ pc = "lookAgain"
    /\ late' = FALSE
    /\ pc' = "remove" /\ UNCHANGED <<errors, filesCleaned, target>>
    /\ UNCHANGED <<UnchangedByCleanup, places>>

LookAgain ==
    /\ pc = "lookAgain"
    /\ late' = FALSE
    /\ \/ ~Proven /\ Unclean /\ GoOn
       \/ Proven /\ pc' = "remove" /\ UNCHANGED <<errors, filesCleaned, target>>
    /\ UNCHANGED <<UnchangedByCleanup, places>>

Empty(d) == \A n \in Name : entry[d][n] = "nothing"

\* unlink and rmdir take whatever has the name by now.
RemoveCaught ==
    /\ pc = "remove"
    /\ \/ Caught = "nothing" /\ Unclean /\ GoOn /\ UNCHANGED places
       \/ /\ target # "dir" /\ Caught # "nothing"
          /\ Put(Quarantine[target], "nothing")
          /\ GoOn
          /\ UNCHANGED <<errors, filesCleaned, lease, qdir>>
       \/ /\ target = "dir" /\ qdir # None /\ Empty(qdir)
          /\ qdir' = None
          /\ GoOn
          /\ UNCHANGED <<errors, filesCleaned, lease, entry>>
       \/ /\ target = "dir" /\ qdir # None /\ ~Empty(qdir)
          /\ Unclean
          /\ pc' = "restore"
          /\ UNCHANGED <<target, places>>
    /\ UNCHANGED <<UnchangedByCleanup, late>>

\* Back to its name if that is free; if not, it stays where it is.
Restore ==
    /\ pc = "restore"
    /\ GoOn
    /\ IF target = "dir"
       THEN /\ entry' = entry
            /\ IF qdir # None /\ lease = None
               THEN lease' = qdir /\ qdir' = None
               ELSE UNCHANGED <<lease, qdir>>
       ELSE /\ UNCHANGED <<lease, qdir>>
            /\ IF Caught # "nothing" /\ At(target) = "nothing"
               THEN MoveTo(Quarantine[target], target)
               ELSE entry' = entry
    /\ UNCHANGED <<UnchangedByCleanup, errors, filesCleaned, late>>

\* A call of the cleanup fails; what rmdir could not remove is restored.
CleanupFails ==
    /\ pc \in {"take", "look", "lookAgain", "remove", "restore"}
    /\ pc = "take" => IF target = "dir" THEN filesCleaned /\ lease # None
                                        ELSE At(target) # "nothing"
    /\ trouble < MaxTrouble /\ trouble' = trouble + 1
    /\ causes' = causes \cup {"io"}
    /\ Unclean
    /\ IF pc = "remove" /\ target = "dir"
       THEN pc' = "restore" /\ target' = target
       ELSE GoOn
    /\ UNCHANGED <<source, window, passes, tokens, read, places, late>>

Done == pc = "ended" /\ UNCHANGED vars

Next ==
    \/ WriteInPlace \/ Replace \/ Remove
    \/ VisitFile \/ VisitDirectory
    \/ Failing
    \/ Observe \/ ObserveAgain
    \/ MakeLease \/ Anchor \/ CheckDir
    \/ OpenSource("openSource", "create")
    \/ CreateCandidate \/ CandidateUnknown \/ CopyChunk \/ EndCopy
    \/ OpenSource("reopenSource", "reread") \/ RereadChunk \/ ObserveAfter
    \/ Rehash \/ ValidateZip \/ PrePromote \/ Promote \/ Attest
    \/ Consume \/ Return \/ Verify \/ VerifyBytes
    \/ Take \/ Look \/ LookAgain \/ RemoveCaught \/ Restore \/ CleanupFails
    \/ Done

Spec == Init /\ [][Next]_vars

-----------------------------------------------------------------------------
(* Properties *)

\* Every variable has its type.
TypeOK ==
    /\ file \in [Inode -> [blocks : Content, mtime : 0..MaxWrites]]
    /\ path \in Inode \cup {None} /\ handle \in Inode \cup {None}
    /\ written \in 0..MaxWrites
    /\ window \subseteq Content /\ copied \in Content /\ reread \in Content
    /\ pc \in DOMAIN FailsAs \cup {"lent", "take", "look", "lookAgain", "remove",
                                   "restore", "ended"}
    /\ errors \subseteq Kind /\ filesCleaned \in BOOLEAN /\ late \in BOOLEAN
    /\ target \in {"part", "final", "dir"}
    /\ lease \in Dir \cup {None} /\ qdir \in Dir \cup {None}
    /\ entry \in [Dir -> [Name -> Held]]
    /\ dirToken \in Dir \cup {None} /\ owned \subseteq {"part", "final"}
    /\ read \in {None, "snapshot", "other"}
    /\ causes \subseteq {"source", "container", "lease", "io"}
    /\ trouble \in 0..MaxTrouble

\* What is lent was the whole content of the workbook at one moment after the
\* second observation: never the beginning of one save and the end of another,
\* even where size and mtime do not tell the saves apart.
SnapshotHappened == pc = "lent" => copied \in window

\* A consumer that read anything but the snapshot learns it by an error, if
\* only after the fact.
WrongReadIsReported == pc = "ended" /\ read = "other" => "integrity" \in errors

\* A lease that ends without a cleanup error leaves nothing of ours at its
\* names and nothing in quarantine: nobody has to look after it again.
SilentMeansGone ==
    pc = "ended" /\ "cleanup" \notin errors =>
        /\ lease \notin {"ours", dirToken} \ {None}
        /\ qdir = None
        /\ \A d \in Dir : entry[d]["qpart"] = "nothing" /\ entry[d]["qfinal"] = "nothing"

\* A save during the acquisition, however it falls, is never worse than `not
\* ready': only what happens to the lease or to a call may raise an error the
\* watch does not survive.  And without any cause there is no error.
BlameIsRight ==
    /\ causes \cap {"lease", "io"} = {} => errors \subseteq {"notReady", "consumer"}
    /\ causes = {} => errors \subseteq {"consumer"}

Lost(name) == \E d \in Found : entry[d][name] \notin Ours \cup {"nothing"}
                               /\ entry'[d][name] = "nothing"

\* The cleanup removes a file of somebody else, or a directory other than the
\* one it anchored, only if it took the place after the second look.
RemoveStep == pc = "remove" /\ (entry' # entry \/ qdir' # qdir) /\ trouble' = trouble

ForeignSurvives ==
    [][RemoveStep /\ ~late => ~Lost("qpart") /\ ~Lost("qfinal")
                              /\ (qdir' # qdir => qdir = dirToken)]_vars
=============================================================================
