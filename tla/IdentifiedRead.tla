---------------------------- MODULE IdentifiedRead ----------------------------
(***************************************************************************)
(* One attempt to read a workbook with its identity: the driver asks       *)
(* read_identified_xlsx_source, which acquires a snapshot, opens the copy  *)
(* as an archive, reads the marker and the four sheets through that one    *)
(* archive, closes it, and lets the lease end before it returns.  The      *)
(* driver then sorts what was raised into success, retry, rejection and    *)
(* fault.                                                                  *)
(*                                                                         *)
(* The lease and its two outsiders, saver and visitor, are those of        *)
(* SnapshotAcquisition, whose consumer is replaced by the reader in        *)
(* detail: it reads the copy several times, through one open handle, while *)
(* the visitor goes on.                                                    *)
(***************************************************************************)
EXTENDS Integers, Sequences, FiniteSets

CONSTANTS None, Inode, MaxBlocks, MaxWrites, MaxTrouble

\* As for the lease alone.
ASSUME ReadAssumption ==
    /\ None \notin Inode
    /\ None \notin {"ours", "theirs", "snapshot", "other"}
    /\ MaxBlocks \in Nat \ {0} /\ MaxWrites \in Nat /\ MaxTrouble \in Nat

VARIABLES
    (* the acquisition *)
    file, path, written, pc, observed, handle, copied, reread, errors,
    filesCleaned, target, lease, qdir, entry, dirToken, owned, window, read,
    causes, trouble, late,
    (* the reader in the lease *)
    stage,     \* where it is in its package
    zip,       \* what the archive is open on
    seen,      \* history: what its reads were of
    raised     \* the kinds of exception it leaves the lease with

Lease == INSTANCE SnapshotAcquisition

leaseVars == <<file, path, written, pc, observed, handle, copied, reread, errors,
               filesCleaned, target, lease, qdir, entry, dirToken, owned, window,
               read, causes, trouble, late>>
unbudgeted == <<file, path, written, pc, observed, handle, copied, reread, errors,
                filesCleaned, target, lease, qdir, entry, dirToken, owned, window,
                read, late>>
readerVars == <<stage, zip, seen, raised>>
vars == <<leaseVars, readerVars>>

\* reader: the package and the sheets.  marker: the identity.  storage, os: a
\* system call, with the error converted or not.  close: the archive's close.
Fault == {"reader", "marker", "storage", "os", "close", "interrupt"}

Init ==
    /\ Lease!Init
    /\ stage = "open" /\ zip = None /\ seen = {} /\ raised = {}

-----------------------------------------------------------------------------
(* The lease goes on without its consumer: only the reader leaves it. *)

LeaseStep ==
    /\ Lease!Next
    /\ read' = read
    /\ pc = "lent" => pc' = "lent"
    /\ UNCHANGED readerVars

-----------------------------------------------------------------------------
(* The reader. *)

Reading(at) == pc = "lent" /\ stage = at

\* What a read through the handle gives.  When the name no longer leads to our
\* file, nobody knows what has become of it.
Bytes ==
    CASE zip = "theirs" -> {"other"}
      [] zip = "ours" /\ Lease!At("final") \in Lease!Intact -> {"snapshot"}
      [] zip = "ours" /\ Lease!At("final") = "spoiled" -> {"other"}
      [] OTHER -> {"snapshot", "other"}

\* Fault: a stage that failed starts over on the archive that is open.
Reopens(kinds, next, after) ==
    /\ raised' = kinds
    /\ stage' = IF kinds = {} THEN next ELSE "open"

\* Zero or one exception ends the stage.
Ends(kinds, next, after) ==
    /\ raised' = kinds
    /\ stage' = IF kinds = {} THEN next ELSE after

\* zipfile.ZipFile opens the name and reads the directory of the archive.
OpenZip ==
    /\ Reading("open")
    /\ IF Lease!At("final") = "nothing"
       THEN /\ Ends({"storage"}, "key", "exit")
            /\ UNCHANGED <<zip, seen>>
       ELSE /\ zip' = IF Lease!At("final") \in Lease!Ours THEN "ours" ELSE "theirs"
            /\ seen' = {IF Lease!At("final") \in Lease!Intact THEN "snapshot" ELSE "other"}
            /\ \E kinds \in {{}, {"reader"}} : Ends(kinds, "key", "exit")
    /\ UNCHANGED leaseVars

\* _read_key: the marker may be missing, ambiguous or invalid, the package
\* corrupt.
ReadKey ==
    /\ Reading("key")
    /\ \E bytes \in Bytes : seen' = seen \cup {bytes}
    /\ \E kinds \in {{}, {"marker"}, {"reader"}} : Ends(kinds, "rows", "close")
    /\ UNCHANGED <<leaseVars, zip>>

\* _read_xlsx_from_zip goes over the sheets twice.
ReadRows ==
    /\ Reading("rows")
    /\ \E bytes \in (SUBSET Bytes) \ {{}} : seen' = seen \cup bytes
    /\ \E kinds \in {{}, {"reader"}} : Ends(kinds, "close", "close")
    /\ UNCHANGED <<leaseVars, zip>>

\* A system call fails under the reader, or somebody interrupts it.  What a call
\* raises is converted, except while sheets are read: there it passes as it is,
\* or the parser's handler takes it for malformed XML.
RaisedBy(at) ==
    CASE at = "open" -> {"storage", "interrupt"}
      [] at = "key"  -> {"storage", "interrupt"}
      [] at = "rows" -> {"os", "reader", "interrupt"}

ReadingFails ==
    /\ \E at \in {"open", "key", "rows"} :
         /\ Reading(at)
         /\ \E kind \in RaisedBy(at) :
              Ends({kind}, at, IF at = "open" THEN "exit" ELSE "close")
    /\ trouble < MaxTrouble /\ trouble' = trouble + 1
    /\ causes' = causes \cup {"io"}
    /\ UNCHANGED <<unbudgeted, zip, seen>>

\* _closing keeps both.
Joining(kind) == raised \cup {kind}

CloseZip ==
    /\ Reading("close")
    /\ zip' = None
    /\ stage' = "exit"
    /\ UNCHANGED seen
    /\ \/ raised' = raised /\ UNCHANGED leaseVars
       \/ /\ raised' = Joining("close")
          /\ trouble < MaxTrouble /\ trouble' = trouble + 1
          /\ causes' = causes \cup {"io"}
          /\ UNCHANGED unbudgeted

\* The with statement of the lease is left.
LeaveLease ==
    /\ Reading("exit")
    /\ Lease!Return
    /\ errors' = IF raised = {} THEN {} ELSE {"consumer"}
    /\ UNCHANGED readerVars

Next ==
    \/ LeaseStep
    \/ OpenZip \/ ReadKey \/ ReadRows \/ ReadingFails \/ CloseZip \/ LeaveLease

Spec == Init /\ [][Next]_vars

-----------------------------------------------------------------------------
(* The driver. *)

\* Fault: what the reader raised hides what the lease raises.
ReaderFirst == IF raised # {} THEN raised ELSE errors

\* Fault: a lease that was not ready is retried, whatever its cleanup left.
RetryFirst == IF "notReady" \in errors THEN {"notReady"}
                                       ELSE (errors \ {"consumer"}) \cup raised

\* The lease raises one exception or a group of all there were.
Together == (errors \ {"consumer"}) \cup raised

\* Only an exception that comes alone is sorted by its class.
Outcome ==
    CASE Together = {} -> "success"
      [] Together = {"notReady"} -> "notReady"
      [] Together \in {{"reader"}, {"marker"}} -> "rejected"
      [] OTHER -> "faulted"

-----------------------------------------------------------------------------
(* Properties *)

\* Every variable of the reader has its type.
TypeOK ==
    /\ Lease!TypeOK
    /\ stage \in {"open", "key", "rows", "close", "exit"}
    /\ zip \in {None, "ours", "theirs"}
    /\ seen \subseteq {"snapshot", "other"}
    /\ raised \subseteq Fault
    /\ stage = "open" => zip = None /\ seen = {}

\* What is delivered as a workbook, and what is rejected as one, was judged from
\* nothing but one content the workbook had at one moment: identity and rows are
\* of the same save, and no save is dropped for bytes that were never in it.
VerdictIsOfOneSave ==
    pc = "ended" /\ Outcome \in {"success", "rejected"} =>
        /\ "other" \notin seen
        /\ copied \in window

\* An attempt that lets the watch go on, with a result, a retry or a rejection,
\* has left no directory and no file of ours behind, so that attempts do not
\* pile up; and an interrupt is never sorted as one of these.
GoingOnMeansGone ==
    pc = "ended" /\ Outcome # "faulted" =>
        /\ lease \notin {"ours", dirToken} \ {None}
        /\ qdir = None
        /\ \A d \in Lease!Dir : \A n \in {"qpart", "qfinal"} : entry[d][n] = "nothing"
        /\ "interrupt" \notin raised
=============================================================================
