-------------------------- MODULE AtomicSink_proofs --------------------------
(***************************************************************************)
(* Theorems about AtomicSink, for any number of calls, processes, readers  *)
(* and pieces of a report.                                                 *)
(***************************************************************************)
EXTENDS AtomicSink, TLAPS

USE DEF InTry, Live, Over, Umasks

\* The steps of one call.
CallStep(c) == LocalStep(c) \/ RemoteStep(c) \/ Return(c) \/ Crash(c)

(* Files and readers.                                                      *)

Flushed == {"umask", "restore", "chmod", "replace"}
\* No call writes to its file from here on.
Final == {"replaced", "stored", "unlink"} \cup Over

\* What makes a file fit to be seen, and what seeing it relies on.
Fit(c) == size[c] = Length /\ mode[c] # "owner" /\ pc[c] \in Final

FileInv ==
    /\ \A c \in Calls : pc[c] \in Flushed => size[c] = Length
    /\ \A c \in Calls : pc[c] = "replace" => mode[c] # "owner"
    /\ dest # NoReport => Fit(dest)
    /\ \A r \in Readers : reader[r] # "denied"
    /\ \A r \in Readers : reader[r] \in {"open", "eof"} => fd[r] \in Calls /\ Fit(fd[r])
    /\ \A r \in Readers : reader[r] = "eof" => pos[r] = Length
    /\ TempFilesRemoved
    /\ \A c \in Calls : pc[c] \in {"idle", "put", "stored", "replaced", "returned"} => c \notin tmp
    /\ \A c \in Calls : pc[c] \in InTry \cup {"made"} /\ pc[c] # "replaced" => c \in tmp

LEMMA InitOK == Init => TypeOK /\ FileInv
BY LengthAssumption DEF Init, TypeOK, FileInv, Flushed, Fit, TempFilesRemoved

LEMMA TypeStep == TypeOK /\ FileInv /\ [Next]_vars => TypeOK'
<1> SUFFICES ASSUME TypeOK, FileInv, [Next]_vars PROVE TypeOK'
  OBVIOUS
<1> USE CallsAssumption, LengthAssumption DEF TypeOK
<1>1. ASSUME NEW c \in Calls, CallStep(c), UNCHANGED <<scheme, readVars>>
      PROVE  TypeOK'
  <2>1. CASE MakeTemp(c) \/ EnterTry(c)
    BY <1>1, <2>1 DEF MakeTemp, EnterTry, Go, fileVars, readVars
  <2>2. CASE Write(c) \/ Close(c)
    BY <1>1, <2>2 DEF Write, Close, Go, readVars
  <2>3. CASE TakeUmask(c) \/ RestoreUmask(c)
    BY <1>1, <2>3 DEF TakeUmask, RestoreUmask, Go, fileVars, readVars
  <2>4. CASE Chmod(c) \/ Replace(c) \/ Put(c)
    BY <1>1, <2>4 DEF Chmod, Replace, Put, Go, readVars
  <2>5. CASE Interrupt(c) \/ Unlink(c) \/ LeaveOutsideTry(c)
    BY <1>1, <2>5 DEF Interrupt, Unlink, LeaveOutsideTry, Go, fileVars, readVars
  <2>6. CASE Connect(c) \/ PutFails(c) \/ Return(c) \/ Crash(c)
    BY <1>1, <2>6 DEF Connect, PutFails, Return, Crash, Go, fileVars, readVars
  <2> QED
    BY <1>1, <2>1, <2>2, <2>3, <2>4, <2>5, <2>6 DEF CallStep, LocalStep, RemoteStep
<1>2. ASSUME NEW r \in Readers, Open(r) \/ Read(r),
             UNCHANGED <<scheme, pc, fileVars, umask, saved, faults>>
      PROVE  TypeOK'
  <2>1. CASE Open(r)
    BY <1>2, <2>1 DEF Open, fileVars
  <2>2. CASE Read(r) /\ pos[r] < size[fd[r]]
    <3>1. pos[r] + 1 \in 0..Length
      <4>1. fd[r] \in Calls
        BY <2>2 DEF Read, FileInv
      <4> QED
        BY <2>2, <4>1
    <3> QED
      BY <1>2, <2>2, <3>1 DEF Read, fileVars
  <2>3. CASE Read(r) /\ ~(pos[r] < size[fd[r]])
    BY <1>2, <2>3 DEF Read, fileVars
  <2> QED
    BY <1>2, <2>1, <2>2, <2>3
<1>3. CASE UNCHANGED vars
  BY <1>3 DEF vars, fileVars, readVars
<1> QED
  BY <1>1, <1>2, <1>3 DEF Next, CallStep

LEMMA FileStep == TypeOK /\ FileInv /\ [Next]_vars => FileInv'
<1> SUFFICES ASSUME TypeOK, FileInv, [Next]_vars PROVE FileInv'
  OBVIOUS
<1> USE CallsAssumption, LengthAssumption DEF TypeOK, FileInv, Flushed, Final, Fit, TempFilesRemoved
<1>1. ASSUME NEW c \in Calls, CallStep(c), UNCHANGED <<scheme, readVars>>
      PROVE  FileInv'
  <2>1. CASE MakeTemp(c) \/ EnterTry(c)
    BY <1>1, <2>1 DEF MakeTemp, EnterTry, Go, fileVars, readVars
  <2>2. CASE Write(c) \/ Close(c)
    BY <1>1, <2>2 DEF Write, Close, Go, readVars
  <2>3. CASE TakeUmask(c) \/ RestoreUmask(c)
    BY <1>1, <2>3 DEF TakeUmask, RestoreUmask, Go, fileVars, readVars
  <2>4. CASE Chmod(c) \/ Replace(c) \/ Put(c)
    BY <1>1, <2>4 DEF Chmod, Replace, Put, Go, readVars
  <2>5. CASE Interrupt(c) \/ Unlink(c) \/ LeaveOutsideTry(c)
    BY <1>1, <2>5 DEF Interrupt, Unlink, LeaveOutsideTry, Go, fileVars, readVars
  <2>6. CASE Connect(c) \/ PutFails(c) \/ Return(c) \/ Crash(c)
    BY <1>1, <2>6 DEF Connect, PutFails, Return, Crash, Go, fileVars, readVars
  <2> QED
    BY <1>1, <2>1, <2>2, <2>3, <2>4, <2>5, <2>6 DEF CallStep, LocalStep, RemoteStep
<1>2. ASSUME NEW r \in Readers, Open(r) \/ Read(r),
             UNCHANGED <<scheme, pc, fileVars, umask, saved, faults>>
      PROVE  FileInv'
  <2>1. CASE Open(r)
    BY <1>2, <2>1 DEF Open, fileVars
  <2>2. CASE Read(r)
    BY <1>2, <2>2 DEF Read, fileVars
  <2> QED
    BY <1>2, <2>1, <2>2
<1>3. CASE UNCHANGED vars
  BY <1>3 DEF vars, fileVars, readVars
<1> QED
  BY <1>1, <1>2, <1>3 DEF Next, CallStep

\* Every variable keeps its type, whatever is interrupted.
THEOREM TypeCorrect == Spec => []TypeOK
<1>1. Spec => [](TypeOK /\ FileInv)
  BY InitOK, TypeStep, FileStep, PTL DEF Spec
<1> QED
  BY <1>1, PTL

LEMMA FileInvHolds == Spec => []FileInv
<1>1. Spec => [](TypeOK /\ FileInv)
  BY InitOK, TypeStep, FileStep, PTL DEF Spec
<1> QED
  BY <1>1, PTL

\* Whoever reads a destination to its end has read one whole report.
THEOREM WholeReports == Spec => []ReportsAreWhole
<1>1. FileInv => ReportsAreWhole
  BY DEF FileInv, ReportsAreWhole
<1> QED
  BY <1>1, FileInvHolds, PTL

\* A report that is at its destination can be opened by other users.
THEOREM AnyoneReads == Spec => []ReadersAreLetIn
<1>1. FileInv => ReadersAreLetIn
  BY DEF FileInv, ReadersAreLetIn
<1> QED
  BY <1>1, FileInvHolds, PTL

\* No call leaves its temp file behind, short of a crash and of an
\* interruption outside the try statement.
THEOREM TempFilesGo == Spec => []TempFilesRemoved
<1>1. FileInv => TempFilesRemoved
  BY DEF FileInv
<1> QED
  BY <1>1, FileInvHolds, PTL

-----------------------------------------------------------------------------
(* The umask.                                                              *)

Blamed(p) == \E d \in Calls : ProcOf[d] = p /\ "umaskLeft" \in faults[d]

\* A process has umask 0 between the two calls of os.umask(), after its death
\* there, or for good when it was interrupted there.
UmaskInv ==
    /\ \A c, d \in Calls :
          ProcOf[c] = ProcOf[d] /\ pc[c] \in Live /\ pc[d] \in Live \cup {"crashed"} => c = d
    /\ \A p \in Procs : umask[p] = "none" =>
          \/ Blamed(p)
          \/ \E d \in Calls : ProcOf[d] = p /\ pc[d] \in {"restore", "crashed"}
    /\ \A c \in Calls : saved[c] = "none" => Blamed(ProcOf[c])
    /\ \A c \in Calls : mode[c] = "all" => Blamed(ProcOf[c])

LEMMA BlameStays ==
    ASSUME TypeOK, NEW c \in Calls, NEW F,
           faults' = faults \/ faults' = [faults EXCEPT ![c] = @ \cup F]
    PROVE  \A p \in Procs : Blamed(p) => Blamed(p)'
BY DEF TypeOK, Blamed

LEMMA UmaskStep == TypeOK /\ UmaskInv /\ [Next]_vars => UmaskInv'
<1> SUFFICES ASSUME TypeOK, UmaskInv, [Next]_vars PROVE UmaskInv'
  OBVIOUS
<1> USE CallsAssumption DEF TypeOK, UmaskInv
<1>1. ASSUME NEW c \in Calls, CallStep(c) PROVE UmaskInv'
  <2>1. CASE MakeTemp(c) \/ Connect(c)
    BY <1>1, <2>1 DEF MakeTemp, Connect, Go, Free, fileVars, Blamed
  <2>2. CASE EnterTry(c) \/ Write(c) \/ Close(c) \/ Replace(c) \/ Put(c)
    BY <1>1, <2>2 DEF EnterTry, Write, Close, Replace, Put, Go, fileVars, Blamed
  <2>3. CASE TakeUmask(c)
    BY <1>1, <2>3 DEF TakeUmask, Go, fileVars, Blamed
  <2>4. CASE RestoreUmask(c)
    BY <1>1, <2>4 DEF RestoreUmask, Go, fileVars, Blamed
  <2>5. CASE Chmod(c)
    BY <1>1, <2>5 DEF Chmod, Go, Blamed
  <2>6. CASE Interrupt(c)
    <3>1. \A p \in Procs : Blamed(p) => Blamed(p)'
      BY <2>6, BlameStays DEF Interrupt
    <3>2. pc[c] = "restore" => Blamed(ProcOf[c])'
      BY <2>6 DEF Interrupt, Blamed
    <3> QED
      BY <2>6, <3>1, <3>2 DEF Interrupt, fileVars
  <2>7. CASE LeaveOutsideTry(c)
    BY <1>1, <2>7 DEF LeaveOutsideTry, Go, fileVars, Blamed
  <2>8. CASE Unlink(c) \/ PutFails(c) \/ Return(c) \/ Crash(c)
    <3>1. CASE Crash(c)
      BY <3>1 DEF Crash, fileVars, Blamed
    <3>2. CASE Unlink(c)
      BY <3>2 DEF Unlink, Go, Blamed
    <3>3. CASE PutFails(c)
      BY <3>3 DEF PutFails, Go, fileVars, Blamed
    <3>4. CASE Return(c)
      BY <3>4 DEF Return, Go, fileVars, Blamed
    <3> QED
      BY <2>8, <3>1, <3>2, <3>3, <3>4
  <2> QED
    BY <1>1, <2>1, <2>2, <2>3, <2>4, <2>5, <2>6, <2>7, <2>8 DEF CallStep, LocalStep, RemoteStep
<1>2. CASE UNCHANGED <<pc, fileVars, umask, saved, faults>>
  BY <1>2 DEF fileVars, Blamed
<1> QED
  BY <1>1, <1>2 DEF Next, CallStep, vars

\* No report is world-writable unless a kill came between the two umask calls.
THEOREM PermissionsKept == Spec => []NeverWorldWritable
<1>1. Init => UmaskInv
  BY DEF Init, UmaskInv
<1>2. TypeOK /\ UmaskInv => NeverWorldWritable
  BY DEF UmaskInv, NeverWorldWritable, Blamed
<1> QED
  BY <1>1, <1>2, UmaskStep, TypeCorrect, PTL DEF Spec

-----------------------------------------------------------------------------
(* The sink implements ReportStore.                                        *)

\* A step of one call changes that call's status only.
LEMMA OneStatus ==
    ASSUME TypeOK, NEW c \in Calls, NEW to, pc' = [pc EXCEPT ![c] = to],
           \A d \in Calls : d # c => (d \in tmp' <=> d \in tmp)
    PROVE  Status' = [Status EXCEPT ![c] = StatusOf(c)']
BY DEF TypeOK, Status, StatusOf, Stored

LEMMA StoreStep ==
    TypeOK /\ FileInv /\ FileInv' /\ [Next]_vars => [Store!Next]_(Store!storeVars)
<1> SUFFICES ASSUME TypeOK, FileInv, FileInv', [Next]_vars
             PROVE  [Store!Next]_(Store!storeVars)
  OBVIOUS
<1>1. Visible = dest /\ Visible' = dest'
  BY DEF FileInv, Fit, Visible
<1> USE CallsAssumption DEF Store!storeVars
<1>2. ASSUME NEW c \in Calls, CallStep(c) PROVE [Store!Next]_(Store!storeVars)
  <2> DEFINE s == StatusOf(c)
  <2>0. Status[c] = s
    BY DEF Status
  <2>1. ASSUME s' = s, dest' = dest, NEW to, pc' = [pc EXCEPT ![c] = to],
               \A d \in Calls : d # c => (d \in tmp' <=> d \in tmp)
        PROVE  UNCHANGED <<Visible, Status>>
    <3>1. Status' = [Status EXCEPT ![c] = s]
      BY <2>1, OneStatus
    <3> QED
      BY <1>1, <2>0, <2>1, <3>1 DEF Status
  <2>2. ASSUME s = "pending", s' = "stored", dest' = c, NEW to, pc' = [pc EXCEPT ![c] = to],
               \A d \in Calls : d # c => (d \in tmp' <=> d \in tmp)
        PROVE  Store!Store(c)
    BY <1>1, <2>0, <2>2, OneStatus DEF Store!Store, Store!Become
  <2>3. ASSUME s = "stored", s' = "returned", dest' = dest, NEW to, pc' = [pc EXCEPT ![c] = to],
               \A d \in Calls : d # c => (d \in tmp' <=> d \in tmp)
        PROVE  Store!Return(c)
    BY <1>1, <2>0, <2>3, OneStatus DEF Store!Return, Store!Become
  <2>4. ASSUME s \in {"pending", "stored"}, s' = "aborted", dest' = dest,
               NEW to, pc' = [pc EXCEPT ![c] = to],
               \A d \in Calls : d # c => (d \in tmp' <=> d \in tmp)
        PROVE  Store!Abort(c)
    BY <1>1, <2>0, <2>4, OneStatus DEF Store!Abort, Store!Become
  <2> USE DEF Go, fileVars, StatusOf, Stored, TypeOK, FileInv
  <2>5. CASE MakeTemp(c) \/ EnterTry(c) \/ Write(c) \/ Close(c)
    BY <1>2, <2>5, <2>1 DEF MakeTemp, EnterTry, Write, Close
  <2>6. CASE TakeUmask(c) \/ RestoreUmask(c) \/ Chmod(c) \/ Interrupt(c)
    BY <1>2, <2>6, <2>1 DEF TakeUmask, RestoreUmask, Chmod, Interrupt
  <2>7. CASE Replace(c) \/ Put(c)
    BY <1>2, <2>7, <2>2 DEF Replace, Put, Store!Next
  <2>8. CASE Return(c)
    BY <1>2, <2>8, <2>3 DEF Return, Store!Next
  <2>9. CASE Unlink(c) \/ LeaveOutsideTry(c) \/ PutFails(c) \/ Crash(c)
    BY <1>2, <2>9, <2>4 DEF Unlink, LeaveOutsideTry, PutFails, Crash, Store!Next
  <2>10. CASE Connect(c)
    BY <1>2, <2>10, <2>1, <2>4 DEF Connect, Store!Next
  <2> QED
    BY <1>2, <2>5, <2>6, <2>7, <2>8, <2>9, <2>10 DEF CallStep, LocalStep, RemoteStep
<1>3. CASE UNCHANGED <<pc, fileVars>>
  BY <1>3 DEF fileVars, Visible, Status, StatusOf, Stored
<1> QED
  BY <1>2, <1>3 DEF Next, CallStep, vars

\* The sink, with its temp files, interruptions and crashes, is a store that
\* changes from one whole report to another in one step.
THEOREM Implements == Spec => IsReportStore
<1>1. Init => Store!Init
  BY DEF Init, Store!Init, Visible, Status, StatusOf, Stored
<1> QED
  BY <1>1, StoreStep, TypeCorrect, FileInvHolds, PTL DEF Spec, IsReportStore, Store!Spec

=============================================================================
