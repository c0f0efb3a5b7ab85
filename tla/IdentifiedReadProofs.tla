------------------------- MODULE IdentifiedReadProofs -------------------------
(***************************************************************************)
(* What the watch may rely on when an attempt to read the workbook with    *)
(* its identity is over, for any workbook, any saver and any number of     *)
(* visits and failing calls.                                               *)
(*                                                                         *)
(* The lease keeps its invariants whoever its consumer is: the reader      *)
(* changes nothing of the lease but the budget of what goes wrong.  What   *)
(* the reader saw is tied to them: bytes that are not those of the         *)
(* snapshot come from a copy that is not intact, and a copy that is not    *)
(* intact stays so until the end of the lease reports it.                  *)
(***************************************************************************)
EXTENDS IdentifiedRead, TLAPS

Cleanup == INSTANCE SnapshotAcquisitionProofs

-----------------------------------------------------------------------------
(* The lease inside. *)

\* The lease's definitions, instantiated here and in the read.
LEMMA SameInit == Lease!Init => Cleanup!Init
BY DEF Lease!Init, Cleanup!Init, Lease!Dir, Cleanup!Dir, Lease!Name, Cleanup!Name

LEMMA SameNext == Lease!Next => Cleanup!Next
BY DEF
  Lease!source, Cleanup!source, Lease!passes, Cleanup!passes, Lease!tokens, Cleanup!tokens,
  Lease!places, Cleanup!places, Lease!history, Cleanup!history, Lease!vars, Cleanup!vars,
  Lease!Dir, Cleanup!Dir, Lease!Name, Cleanup!Name, Lease!Intact, Cleanup!Intact,
  Lease!Ours, Cleanup!Ours, Lease!Held, Cleanup!Held, Lease!Stat, Cleanup!Stat,
  Lease!SourceInUse, Cleanup!SourceInUse, Lease!Writes, Cleanup!Writes,
  Lease!WriteInPlace, Cleanup!WriteInPlace, Lease!Replace, Cleanup!Replace,
  Lease!Remove, Cleanup!Remove, Lease!Visits, Cleanup!Visits, Lease!Found, Cleanup!Found,
  Lease!VisitFile, Cleanup!VisitFile, Lease!VisitDirectory, Cleanup!VisitDirectory,
  Lease!GiveUp, Cleanup!GiveUp, Lease!Refuse, Cleanup!Refuse, Lease!FailsAs, Cleanup!FailsAs,
  Lease!CallFails, Cleanup!CallFails, Lease!Failing, Cleanup!Failing,
  Lease!AsObserved, Cleanup!AsObserved, Lease!Observe, Cleanup!Observe,
  Lease!ObserveAgain, Cleanup!ObserveAgain, Lease!UnchangedByPass, Cleanup!UnchangedByPass,
  Lease!MakeLease, Cleanup!MakeLease, Lease!Anchor, Cleanup!Anchor,
  Lease!CheckDir, Cleanup!CheckDir, Lease!OpenSource, Cleanup!OpenSource, Lease!At, Cleanup!At,
  Lease!Put, Cleanup!Put, Lease!Moved, Cleanup!Moved, Lease!MoveTo, Cleanup!MoveTo,
  Lease!CreateCandidate, Cleanup!CreateCandidate,
  Lease!CandidateUnknown, Cleanup!CandidateUnknown, Lease!CopyChunk, Cleanup!CopyChunk,
  Lease!EndCopy, Cleanup!EndCopy, Lease!RereadChunk, Cleanup!RereadChunk,
  Lease!SameBytes, Cleanup!SameBytes, Lease!ObserveAfter, Cleanup!ObserveAfter,
  Lease!UnchangedByCheck, Cleanup!UnchangedByCheck, Lease!Rehash, Cleanup!Rehash,
  Lease!ValidateZip, Cleanup!ValidateZip, Lease!PrePromote, Cleanup!PrePromote,
  Lease!Promote, Cleanup!Promote, Lease!Attest, Cleanup!Attest, Lease!Consume, Cleanup!Consume,
  Lease!Return, Cleanup!Return, Lease!Verify, Cleanup!Verify,
  Lease!VerifyBytes, Cleanup!VerifyBytes, Lease!UnchangedByCleanup, Cleanup!UnchangedByCleanup,
  Lease!Quarantine, Cleanup!Quarantine, Lease!Caught, Cleanup!Caught,
  Lease!Proven, Cleanup!Proven, Lease!Following, Cleanup!Following, Lease!GoOn, Cleanup!GoOn,
  Lease!Unclean, Cleanup!Unclean, Lease!Take, Cleanup!Take, Lease!Look, Cleanup!Look,
  Lease!LookAgain, Cleanup!LookAgain, Lease!Empty, Cleanup!Empty,
  Lease!RemoveCaught, Cleanup!RemoveCaught, Lease!Restore, Cleanup!Restore,
  Lease!CleanupFails, Cleanup!CleanupFails, Lease!Done, Cleanup!Done, Lease!Next, Cleanup!Next

LEMMA SameWords ==
    /\ Lease!Dir = Cleanup!Dir /\ Lease!Intact = Cleanup!Intact
    /\ Lease!Intact \subseteq Lease!Ours
    /\ \A name : Lease!At(name) = Cleanup!At(name)
BY DEF Lease!Dir, Cleanup!Dir, Lease!Intact, Cleanup!Intact, Lease!Ours, Lease!At, Cleanup!At

\* The end of the lease, after the reader left it.
Aftermath == Cleanup!Checking \cup Cleanup!Cleaning \cup {"ended"}

\* What else a step of the lease keeps: kinds are kinds, and while nothing but
\* the reader failed, what was lent is what the workbook was.
KindInv == errors \subseteq Cleanup!Kind

KeptInv == pc \in Aftermath /\ errors \subseteq {"consumer"} => copied \in window

\* A call that fails is an error other than the consumer's.
LEMMA FailureIsTold ==
  ASSUME Cleanup!Failing
  PROVE  \E kind \in Cleanup!Kind \ {"consumer"} :
           kind \in errors' /\ errors' \subseteq errors \cup {kind}
<1>1. pc \in DOMAIN Cleanup!FailsAs /\ Cleanup!CallFails
  BY DEF Cleanup!Failing
<1>2. Cleanup!FailsAs[pc] \subseteq Cleanup!Kind \ {"consumer"}
  BY <1>1 DEF Cleanup!FailsAs, Cleanup!Kind
<1>3. PICK kind \in Cleanup!FailsAs[pc] :
        IF pc \in {"observe", "observeAgain"} THEN Cleanup!Refuse ELSE Cleanup!GiveUp(kind)
  BY <1>1 DEF Cleanup!CallFails
<1> QED
  BY <1>2, <1>3 DEF Cleanup!Refuse, Cleanup!GiveUp, Cleanup!Kind

LEMMA KindStep == KindInv /\ Cleanup!Next => KindInv'
<1> USE DEF KindInv, Cleanup!Kind
<1>1. CASE Cleanup!Failing
  BY <1>1, FailureIsTold
<1>2. CASE ~Cleanup!Failing
  BY <1>2 DEF Cleanup!Next, Cleanup!WriteInPlace, Cleanup!Replace, Cleanup!Remove, Cleanup!Writes,
    Cleanup!VisitFile, Cleanup!VisitDirectory, Cleanup!Visits, Cleanup!Observe,
    Cleanup!ObserveAgain, Cleanup!MakeLease, Cleanup!Anchor, Cleanup!CheckDir, Cleanup!OpenSource,
    Cleanup!CreateCandidate, Cleanup!CandidateUnknown, Cleanup!CopyChunk, Cleanup!EndCopy,
    Cleanup!RereadChunk, Cleanup!ObserveAfter, Cleanup!Rehash, Cleanup!ValidateZip,
    Cleanup!PrePromote, Cleanup!Promote, Cleanup!Attest, Cleanup!Consume, Cleanup!Return,
    Cleanup!Verify, Cleanup!VerifyBytes, Cleanup!Take, Cleanup!Look, Cleanup!LookAgain,
    Cleanup!RemoveCaught, Cleanup!Restore, Cleanup!CleanupFails, Cleanup!Done, Cleanup!vars,
    Cleanup!GiveUp, Cleanup!Refuse, Cleanup!Unclean
<1> QED
  BY <1>1, <1>2

\* The aftermath begins where the lease ends, or with an error of its own.
LEMMA KeptStep == Cleanup!IInv /\ KeptInv /\ Cleanup!Next => KeptInv'
<1> SUFFICES ASSUME Cleanup!IInv, KeptInv, Cleanup!Next,
                    pc' \in Aftermath, errors' \subseteq {"consumer"}
             PROVE  (copied \in window)'
  BY DEF KeptInv
<1> USE DEF Aftermath, Cleanup!Checking, Cleanup!Cleaning
<1>1. CASE Cleanup!Return
  BY <1>1 DEF Cleanup!Return, Cleanup!UnchangedByCheck, Cleanup!IInv, Cleanup!PassInv
<1>2. CASE Cleanup!Failing
  BY <1>2, FailureIsTold
<1>3. ASSUME pc \notin Aftermath
      PROVE  Cleanup!Return \/ Cleanup!Failing \/ ~(errors' \subseteq {"consumer"})
  <2>1. ASSUME Cleanup!WriteInPlace \/ Cleanup!Replace \/ Cleanup!Remove \/ Cleanup!VisitFile
               \/ Cleanup!VisitDirectory \/ Cleanup!Consume
        PROVE  FALSE
    BY <1>3, <2>1 DEF Cleanup!WriteInPlace, Cleanup!Replace, Cleanup!Remove, Cleanup!Writes,
      Cleanup!VisitFile, Cleanup!VisitDirectory, Cleanup!Visits, Cleanup!Consume
  <2>2. ASSUME NEW kind, Cleanup!GiveUp(kind), kind # "consumer"
        PROVE  ~(errors' \subseteq {"consumer"})
    BY <2>2 DEF Cleanup!GiveUp
  <2>3. Cleanup!Refuse => ~(errors' \subseteq {"consumer"})
    BY DEF Cleanup!Refuse
  <2>4. ASSUME Cleanup!Observe \/ Cleanup!ObserveAgain \/ Cleanup!MakeLease \/ Cleanup!Anchor
               \/ Cleanup!CheckDir \/ Cleanup!OpenSource("openSource", "create")
               \/ Cleanup!CreateCandidate \/ Cleanup!CandidateUnknown \/ Cleanup!CopyChunk
               \/ Cleanup!EndCopy \/ Cleanup!OpenSource("reopenSource", "reread")
               \/ Cleanup!RereadChunk \/ Cleanup!ObserveAfter
        PROVE  ~(errors' \subseteq {"consumer"})
    BY <1>3, <2>2, <2>3, <2>4 DEF Cleanup!Observe, Cleanup!ObserveAgain, Cleanup!MakeLease,
      Cleanup!Anchor, Cleanup!CheckDir, Cleanup!OpenSource, Cleanup!CreateCandidate,
      Cleanup!CandidateUnknown, Cleanup!CopyChunk, Cleanup!EndCopy, Cleanup!RereadChunk,
      Cleanup!ObserveAfter
  <2>5. ASSUME Cleanup!Rehash \/ Cleanup!ValidateZip \/ Cleanup!PrePromote \/ Cleanup!Promote
               \/ Cleanup!Attest
        PROVE  ~(errors' \subseteq {"consumer"})
    BY <1>3, <2>2, <2>5 DEF Cleanup!Rehash, Cleanup!ValidateZip, Cleanup!PrePromote,
      Cleanup!Promote, Cleanup!Attest
  <2> QED
    BY <1>3, <2>1, <2>4, <2>5 DEF Cleanup!Next, Cleanup!Verify, Cleanup!VerifyBytes, Cleanup!Take,
      Cleanup!Look, Cleanup!LookAgain, Cleanup!RemoveCaught, Cleanup!Restore,
      Cleanup!CleanupFails, Cleanup!Done
<1>4. CASE pc \in Aftermath
  <2>1. errors \subseteq errors' /\ UNCHANGED <<copied, window>>
    BY <1>4 DEF Cleanup!Next, Cleanup!WriteInPlace, Cleanup!Replace, Cleanup!Remove,
      Cleanup!Writes, Cleanup!SourceInUse, Cleanup!Failing, Cleanup!CallFails, Cleanup!FailsAs,
      Cleanup!VisitFile, Cleanup!VisitDirectory, Cleanup!Visits, Cleanup!Observe,
      Cleanup!ObserveAgain, Cleanup!MakeLease, Cleanup!Anchor, Cleanup!CheckDir,
      Cleanup!OpenSource, Cleanup!CreateCandidate, Cleanup!CandidateUnknown, Cleanup!CopyChunk,
      Cleanup!EndCopy, Cleanup!RereadChunk, Cleanup!ObserveAfter, Cleanup!Rehash,
      Cleanup!ValidateZip, Cleanup!PrePromote, Cleanup!Promote, Cleanup!Attest, Cleanup!Consume,
      Cleanup!Return, Cleanup!Verify, Cleanup!VerifyBytes, Cleanup!Take, Cleanup!Look,
      Cleanup!LookAgain, Cleanup!RemoveCaught, Cleanup!Restore, Cleanup!CleanupFails,
      Cleanup!Done, Cleanup!GiveUp, Cleanup!Unclean, Cleanup!UnchangedByCheck,
      Cleanup!UnchangedByCleanup, Cleanup!passes, Cleanup!vars
  <2> QED
    BY <1>4, <2>1 DEF KeptInv
<1> QED
  BY <1>1, <1>2, <1>3, <1>4

-----------------------------------------------------------------------------
(* The read. *)

\* The archive is open while its parts are read; what it is not open on was seen.
ZipInv ==
    /\ stage \in {"key", "rows"} => zip # None
    /\ zip \in {None, "ours", "theirs"}
    /\ zip = "theirs" => "other" \in seen

\* Who saw other bytes has a copy that is not intact, or the error for it.
SeenInv ==
    "other" \in seen =>
        \/ "integrity" \in errors
        \/ /\ pc \in {"lent"} \cup Cleanup!Checking
           /\ Cleanup!At("final") \notin Cleanup!Intact

LeaseSide == Cleanup!IInv /\ Cleanup!LeaseInv /\ KindInv /\ KeptInv

ReadInv == LeaseSide /\ ZipInv /\ SeenInv

LEMMA InitRead == Init => ReadInv
<1> SUFFICES ASSUME Init PROVE ReadInv
  OBVIOUS
<1>1. Cleanup!Init
  BY SameInit DEF Init
<1>2. Cleanup!IInv /\ Cleanup!LeaseInv
  BY <1>1, Cleanup!InitIInv, Cleanup!InitLease, ReadAssumption
<1>3. KindInv /\ KeptInv
  BY <1>1 DEF Cleanup!Init, KindInv, KeptInv, Aftermath, Cleanup!Checking, Cleanup!Cleaning
<1>4. ZipInv /\ SeenInv
  BY ReadAssumption DEF Init, ZipInv, SeenInv
<1> QED
  BY <1>2, <1>3, <1>4 DEF ReadInv, LeaseSide

\* The reader touches nothing of the lease, but may use up its luck.
Beside ==
    /\ UNCHANGED unbudgeted
    /\ trouble' = trouble \/ (trouble < MaxTrouble /\ trouble' = trouble + 1)

LEMMA ReadingIsBeside ==
  ASSUME OpenZip \/ ReadKey \/ ReadRows \/ ReadingFails \/ CloseZip
  PROVE  Beside
BY DEF OpenZip, ReadKey, ReadRows, ReadingFails, CloseZip, Beside, leaseVars, unbudgeted

LEMMA BesideKeeps == LeaseSide /\ Beside => LeaseSide'
<1> SUFFICES ASSUME LeaseSide, Beside PROVE LeaseSide'
  OBVIOUS
<1> USE DEF Beside, unbudgeted
<1>1. Cleanup!IInv'
  <2>1. UNCHANGED Cleanup!sourceSide
    BY DEF Cleanup!sourceSide
  <2> QED
    BY <2>1, Cleanup!SameSide, ReadAssumption DEF LeaseSide
<1>2. Cleanup!LeaseInv'
  <2>1. Cleanup!PlaceInv'
    <3>1. trouble' \in Nat
      BY DEF LeaseSide, Cleanup!LeaseInv, Cleanup!PlaceInv
    <3> QED
      BY <3>1 DEF LeaseSide, Cleanup!LeaseInv, Cleanup!PlaceInv
  <2>2. Cleanup!StageInv' /\ Cleanup!GoneInv' /\ Cleanup!StrangerInv'
    BY DEF LeaseSide, Cleanup!LeaseInv, Cleanup!StageInv, Cleanup!GoneInv, Cleanup!StrangerInv
  <2>3. Cleanup!ReadInv' /\ Cleanup!RemoveInv'
    BY DEF LeaseSide, Cleanup!LeaseInv, Cleanup!ReadInv, Cleanup!RemoveInv, Cleanup!Proven,
      Cleanup!Caught, Cleanup!At
  <2> QED
    BY <2>1, <2>2, <2>3 DEF Cleanup!LeaseInv
<1>3. KindInv' /\ KeptInv'
  BY DEF LeaseSide, KindInv, KeptInv
<1> QED
  BY <1>1, <1>2, <1>3 DEF LeaseSide

LEMMA LeaseSideStep == LeaseSide /\ Cleanup!Next => LeaseSide'
<1> SUFFICES ASSUME LeaseSide, Cleanup!Next PROVE LeaseSide'
  OBVIOUS
<1>1. Cleanup!IInv'
  BY Cleanup!NextKeeps, ReadAssumption DEF LeaseSide
<1>2. Cleanup!LeaseInv'
  BY Cleanup!LeaseKeeps, ReadAssumption DEF LeaseSide
<1> QED
  BY <1>1, <1>2, KindStep, KeptStep DEF LeaseSide

\* A step of the lease loses no report of what the reader saw.
LEMMA LeaseKeepsReport == LeaseSide /\ SeenInv /\ Cleanup!Next /\ seen' = seen => SeenInv'
<1> SUFFICES ASSUME LeaseSide, SeenInv, Cleanup!Next, seen' = seen, "other" \in seen
             PROVE  SeenInv'
  BY DEF SeenInv
<1>1. CASE "integrity" \in errors
  <2>1. pc \in Cleanup!Cleaning \cup {"ended"}
    BY <1>1 DEF LeaseSide, Cleanup!LeaseInv, Cleanup!StageInv
  <2>2. errors \subseteq errors'
    BY <2>1 DEF Cleanup!Cleaning, Cleanup!Next, Cleanup!WriteInPlace, Cleanup!Replace,
      Cleanup!Remove,
      Cleanup!Writes, Cleanup!SourceInUse, Cleanup!Failing, Cleanup!CallFails, Cleanup!FailsAs,
      Cleanup!VisitFile, Cleanup!VisitDirectory, Cleanup!Visits, Cleanup!Observe,
      Cleanup!ObserveAgain, Cleanup!MakeLease, Cleanup!Anchor, Cleanup!CheckDir,
      Cleanup!OpenSource, Cleanup!CreateCandidate, Cleanup!CandidateUnknown, Cleanup!CopyChunk,
      Cleanup!EndCopy, Cleanup!RereadChunk, Cleanup!ObserveAfter, Cleanup!Rehash,
      Cleanup!ValidateZip, Cleanup!PrePromote, Cleanup!Promote, Cleanup!Attest, Cleanup!Consume,
      Cleanup!Return, Cleanup!Verify, Cleanup!VerifyBytes, Cleanup!Take, Cleanup!Look,
      Cleanup!LookAgain, Cleanup!RemoveCaught, Cleanup!Restore, Cleanup!CleanupFails,
      Cleanup!Done, Cleanup!Unclean, Cleanup!vars
  <2> QED
    BY <1>1, <2>2 DEF SeenInv
<1>2. CASE "integrity" \notin errors
  <2>1. /\ pc \in {"lent"} \cup Cleanup!Checking
        /\ Cleanup!At("final") \notin Cleanup!Intact
    BY <1>2 DEF SeenInv
  <2> QED
    BY <2>1, Cleanup!SpoiltStays, ReadAssumption DEF SeenInv, LeaseSide
<1> QED
  BY <1>1, <1>2

LEMMA ReadStep == ReadInv /\ [Next]_vars => ReadInv'
<1> SUFFICES ASSUME ReadInv, [Next]_vars PROVE ReadInv'
  OBVIOUS
<1> USE DEF ReadInv, Reading
<1>1. CASE LeaseStep \/ LeaveLease
  <2>1. Cleanup!Next /\ UNCHANGED readerVars
    BY <1>1, SameNext DEF LeaseStep, LeaveLease, Lease!Next
  <2>2. ZipInv'
    BY <2>1 DEF ZipInv, readerVars
  <2> QED
    BY <2>1, <2>2, LeaseSideStep, LeaseKeepsReport DEF readerVars
<1>2. CASE OpenZip \/ ReadKey \/ ReadRows \/ ReadingFails \/ CloseZip
  <2>1. Beside /\ LeaseSide'
    BY <1>2, ReadingIsBeside, BesideKeeps
  <2>2. pc = "lent" /\ UNCHANGED <<pc, errors, lease, entry>>
    BY <1>2, <2>1 DEF OpenZip, ReadKey, ReadRows, ReadingFails, CloseZip, Beside, unbudgeted
  <2>3. Cleanup!At("final")' = Cleanup!At("final") /\ Cleanup!Intact' = Cleanup!Intact
    BY <2>2 DEF Cleanup!At, Cleanup!Intact
  <2>4. CASE OpenZip
    <3>1. ZipInv'
      BY <2>4, SameWords, ReadAssumption DEF OpenZip, ZipInv, Ends
    <3>2. SeenInv'
      BY <2>2, <2>3, <2>4, SameWords DEF OpenZip, SeenInv, Lease!At, Lease!Intact
    <3> QED
      BY <2>1, <3>1, <3>2
  <2>5. CASE ReadKey \/ ReadRows
    <3>1. seen \subseteq seen' /\ zip' = zip /\ stage' \in {"rows", "close"}
      BY <2>5 DEF ReadKey, ReadRows, Ends
    <3>2. stage \in {"key", "rows"}
      BY <2>5 DEF ReadKey, ReadRows
    <3>3. "other" \in Bytes => zip = "theirs" \/ Lease!At("final") \notin Lease!Intact
      BY <3>2 DEF Bytes, ZipInv, Lease!Intact
    <3>4. "other" \in seen' => "other" \in seen \/ Lease!At("final") \notin Lease!Intact
      BY <2>5, <3>3 DEF ReadKey, ReadRows, ZipInv
    <3>5. ZipInv'
      BY <3>1, <3>2 DEF ZipInv
    <3>6. SeenInv'
      BY <2>2, <2>3, <3>4, SameWords DEF SeenInv
    <3> QED
      BY <2>1, <3>5, <3>6
  <2>6. CASE ReadingFails \/ CloseZip
    <3>1. seen' = seen /\ zip' \in {zip, None} /\ stage' \in {"close", "exit"}
      BY <2>6 DEF ReadingFails, CloseZip, Ends, RaisedBy
    <3>2. ZipInv'
      BY <3>1, ReadAssumption DEF ZipInv
    <3>3. SeenInv'
      BY <2>2, <2>3, <3>1 DEF SeenInv
    <3> QED
      BY <2>1, <3>2, <3>3
  <2> QED
    BY <1>2, <2>4, <2>5, <2>6
<1>3. CASE UNCHANGED vars
  <2>1. Beside
    BY <1>3 DEF vars, leaseVars, Beside, unbudgeted
  <2>2. ZipInv' /\ SeenInv'
    BY <1>3 DEF vars, leaseVars, readerVars, ZipInv, SeenInv, Cleanup!At
  <2> QED
    BY <2>1, <2>2, BesideKeeps
<1> QED
  BY <1>1, <1>2, <1>3 DEF Next

-----------------------------------------------------------------------------
(* Theorems. *)

\* The invariant holds in every reachable state.
THEOREM Invariance == Spec => []ReadInv
BY InitRead, ReadStep, PTL DEF Spec

\* VerdictIsOfOneSave: whatever the saver and the visitor do while the archive is
\* read, an attempt that delivers or rejects a workbook judged one content the
\* workbook had at one moment.
THEOREM OneSaveIsJudged == Spec => []VerdictIsOfOneSave
<1>1. ReadInv => VerdictIsOfOneSave
  <2> SUFFICES ASSUME ReadInv, pc = "ended", Outcome \in {"success", "rejected"}
               PROVE  "other" \notin seen /\ copied \in window
    BY DEF VerdictIsOfOneSave
  <2>1. Together \in {{}, {"reader"}, {"marker"}}
    BY DEF Outcome
  <2>2. errors \subseteq Together \cup {"consumer"}
    BY DEF Together
  <2>3. errors \subseteq {"consumer"}
    BY <2>1, <2>2 DEF ReadInv, LeaseSide, KindInv, Cleanup!Kind
  <2> QED
    BY <2>3 DEF ReadInv, LeaseSide, KeptInv, Aftermath, SeenInv, Cleanup!Checking
<1> QED
  BY <1>1, Invariance, PTL

\* GoingOnMeansGone: an attempt after which the watch goes on left no directory
\* and no file behind, and hid no interrupt.
THEOREM GoingOnLeavesNothing == Spec => []GoingOnMeansGone
<1>1. ReadInv => GoingOnMeansGone
  <2> SUFFICES ASSUME ReadInv, pc = "ended", Outcome # "faulted"
               PROVE  /\ lease = None /\ qdir = None
                      /\ \A d \in Lease!Dir : \A n \in {"qpart", "qfinal"} :
                           entry[d][n] = "nothing"
                      /\ "interrupt" \notin raised
    BY DEF GoingOnMeansGone
  <2>1. Together \in {{}, {"notReady"}, {"reader"}, {"marker"}}
    BY DEF Outcome
  <2>2. "cleanup" \notin errors /\ "interrupt" \notin raised
    BY <2>1 DEF Together
  <2> QED
    BY <2>2, SameWords DEF ReadInv, LeaseSide, Cleanup!LeaseInv, Cleanup!GoneInv,
      Cleanup!Catching
<1> QED
  BY <1>1, Invariance, PTL

-----------------------------------------------------------------------------
(* The types. *)

ReaderTypes ==
    /\ stage \in {"open", "key", "rows", "close", "exit"}
    /\ zip \in {None, "ours", "theirs"}
    /\ seen \subseteq {"snapshot", "other"}
    /\ raised \subseteq Fault
    /\ stage = "open" => zip = None /\ seen = {}

Types == Cleanup!SizeInv /\ Cleanup!MarkInv /\ ReaderTypes

\* The two instances mean the same types.
LEMMA SameTypes == Cleanup!TypeOK => Lease!TypeOK
BY DEF Cleanup!TypeOK, Lease!TypeOK, Cleanup!Content, Lease!Content, Cleanup!Block, Lease!Block,
  Cleanup!FailsAs, Lease!FailsAs, Cleanup!Kind, Lease!Kind, Cleanup!Dir, Lease!Dir,
  Cleanup!Name, Lease!Name, Cleanup!Held, Lease!Held, Cleanup!Ours, Lease!Ours,
  Cleanup!Intact, Lease!Intact

\* The reader's steps keep the types, its own and the lease's.
LEMMA ReadingTypes ==
  ASSUME Types, OpenZip \/ ReadKey \/ ReadRows \/ ReadingFails \/ CloseZip
  PROVE  Types'
<1>1. Cleanup!SizeInv'
  BY ReadingIsBeside DEF Types, Cleanup!SizeInv, Beside, unbudgeted
<1>2. Cleanup!MarkInv'
  <2>1. Beside /\ trouble' \in 0..MaxTrouble
    BY ReadingIsBeside, ReadAssumption DEF Types, Cleanup!MarkInv, Beside
  <2>2. causes' \subseteq causes \cup {"io"}
    BY DEF OpenZip, ReadKey, ReadRows, ReadingFails, CloseZip, leaseVars
  <2> QED
    BY <2>1, <2>2 DEF Types, Cleanup!MarkInv, Beside, unbudgeted
<1>3. Bytes \subseteq {"snapshot", "other"}
  BY DEF Bytes
<1>4. ReaderTypes'
  <2>1. CASE OpenZip
    BY <2>1 DEF Types, ReaderTypes, OpenZip, Ends, Fault
  <2>2. CASE ReadKey \/ ReadRows
    BY <2>2, <1>3 DEF Types, ReaderTypes, ReadKey, ReadRows, Ends, Fault
  <2>3. CASE ReadingFails
    BY <2>3 DEF Types, ReaderTypes, ReadingFails, Ends, RaisedBy, Reading, Fault
  <2>4. CASE CloseZip
    BY <2>4 DEF Types, ReaderTypes, CloseZip, Joining, Fault
  <2> QED
    BY <2>1, <2>2, <2>3, <2>4
<1> QED
  BY <1>1, <1>2, <1>4 DEF Types

LEMMA TypesStep == Types /\ ReadInv /\ [Next]_vars => Types'
<1> SUFFICES ASSUME Types, ReadInv, [Next]_vars PROVE Types'
  OBVIOUS
<1>1. CASE LeaseStep \/ LeaveLease
  <2>1. Cleanup!Next /\ UNCHANGED readerVars
    BY <1>1, SameNext DEF LeaseStep, LeaveLease, Lease!Next
  <2>2. Cleanup!SizeInv'
    BY <2>1, Cleanup!SizeStep, ReadAssumption DEF Types, ReadInv, LeaseSide
  <2>3. Cleanup!MarkInv'
    BY <2>1, Cleanup!MarkStep, ReadAssumption DEF Types
  <2> QED
    BY <2>1, <2>2, <2>3 DEF Types, ReaderTypes, readerVars
<1>2. CASE OpenZip \/ ReadKey \/ ReadRows \/ ReadingFails \/ CloseZip
  BY <1>2, ReadingTypes
<1>3. CASE UNCHANGED vars
  BY <1>3 DEF vars, leaseVars, readerVars, Types, ReaderTypes, Cleanup!SizeInv, Cleanup!MarkInv
<1> QED
  BY <1>1, <1>2, <1>3 DEF Next

\* TypeOK: reader and lease keep their types, whatever fails.
THEOREM ReadTypes == Spec => []TypeOK
<1>1. Init => Types
  BY SameInit, Cleanup!InitTypes, ReadAssumption DEF Init, Types, ReaderTypes, Fault
<1>2. Types /\ ReadInv => TypeOK
  <2> SUFFICES ASSUME Types, ReadInv PROVE TypeOK
    OBVIOUS
  <2>1. Cleanup!TypeOK
    BY DEF Types, ReadInv, LeaseSide, Cleanup!SizeInv, Cleanup!MarkInv, Cleanup!LeaseInv,
      Cleanup!PlaceInv, Cleanup!TypeOK
  <2> QED
    BY <2>1, SameTypes DEF TypeOK, Types, ReaderTypes
<1> QED
  BY <1>1, <1>2, TypesStep, Invariance, PTL DEF Spec
=============================================================================
