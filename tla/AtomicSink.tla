----------------------------- MODULE AtomicSink ------------------------------
(***************************************************************************)
(* persist_text() of sinks.py: several processes write one destination,    *)
(* each through a temp file of its own and a rename, while others read it. *)
(* A process runs its calls one after the other (a task, then perhaps its  *)
(* failure callback).  The file a call writes is named by the call: the    *)
(* temp name and the destination are names of such files.                  *)
(***************************************************************************)
EXTENDS Naturals

CONSTANTS
    Calls,      \* bound: the calls of persist_text() that are looked at
    Procs,      \* the processes that make them
    ProcOf,     \* which process makes which call
    Readers,    \* other users' processes that read the destination
    Length,     \* bound: the pieces in which a report is written and read
    NoReport    \* there is no file at the destination

ASSUME CallsAssumption == ProcOf \in [Calls -> Procs] /\ NoReport \notin Calls
ASSUME LengthAssumption == Length \in Nat \ {0}

VARIABLES
    scheme,     \* of the destination: a local path or an s3:// URI
    pc,         \* where each call is
    tmp,        \* the calls whose temp file exists
    dest,       \* the file at the destination
    size,       \* how much of each file is written
    mode,       \* the permissions of each file
    umask,      \* the umask of each process
    saved,      \* the umask each call read
    faults,     \* history: what an interruption kept each call from undoing
    reader,     \* what each reader is doing
    fd, pos     \* the file it has open, and how much of it it has read

fileVars == <<tmp, dest, size, mode>>
readVars == <<reader, fd, pos>>
vars == <<scheme, pc, fileVars, umask, saved, faults, readVars>>

InTry == {"write", "close", "umask", "restore", "chmod", "replace", "replaced"}
Live == InTry \cup {"made", "unlink", "put", "stored"}
Over == {"returned", "raised", "crashed"}

Umasks == {"own", "none"}

TypeOK ==
    /\ scheme \in {"local", "s3"}
    /\ pc \in [Calls -> Live \cup Over \cup {"idle"}]
    /\ tmp \subseteq Calls
    /\ dest \in Calls \cup {NoReport}
    /\ size \in [Calls -> 0..Length]
    /\ mode \in [Calls -> {"owner", "umask", "all"}]
    /\ umask \in [Procs -> Umasks] /\ saved \in [Calls -> Umasks]
    /\ faults \in [Calls -> SUBSET {"tempLeft", "umaskLeft"}]
    /\ reader \in [Readers -> {"idle", "open", "eof", "denied"}]
    /\ fd \in [Readers -> Calls \cup {NoReport}]
    /\ pos \in [Readers -> 0..Length]

Init ==
    /\ scheme \in {"local", "s3"}
    /\ pc = [c \in Calls |-> "idle"]
    /\ tmp = {} /\ dest = NoReport
    /\ size = [c \in Calls |-> 0] /\ mode = [c \in Calls |-> "owner"]
    /\ umask = [p \in Procs |-> "own"] /\ saved = [c \in Calls |-> "own"]
    /\ faults = [c \in Calls |-> {}]
    /\ reader = [r \in Readers |-> "idle"]
    /\ fd = [r \in Readers |-> NoReport] /\ pos = [r \in Readers |-> 0]

Go(c, from, to) == pc[c] = from /\ pc' = [pc EXCEPT ![c] = to]

\* The process is alive and in no other call.
Free(c) == \A d \in Calls : ProcOf[d] = ProcOf[c] => pc[d] \notin Live \cup {"crashed"}

-----------------------------------------------------------------------------
(* A local destination.                                                    *)

\* NamedTemporaryFile(delete=False) makes the file for its owner only.
MakeTemp(c) ==
    /\ scheme = "local" /\ Free(c)
    /\ Go(c, "idle", "made")
    /\ tmp' = tmp \cup {c}
    /\ UNCHANGED <<dest, size, mode, umask, saved, faults>>

EnterTry(c) == Go(c, "made", "write") /\ UNCHANGED <<fileVars, umask, saved, faults>>

\* write() leaves in the file what did not fit its buffer.
Write(c) ==
    /\ Go(c, "write", "close")
    /\ \E n \in 0..Length : size' = [size EXCEPT ![c] = n]
    /\ UNCHANGED <<tmp, dest, mode, umask, saved, faults>>

\* Mutant of Close: what write() left in the file is written again.
CloseAgain(c) ==
    /\ Go(c, "close", "umask")
    /\ size' = [size EXCEPT ![c] = @ + Length]
    /\ UNCHANGED <<tmp, dest, mode, umask, saved, faults>>

\* Mutant of Close: the file is renamed before its buffer is flushed.
CloseUnflushed(c) == Go(c, "close", "umask") /\ UNCHANGED <<fileVars, umask, saved, faults>>

\* close() flushes the rest.
Close(c) ==
    /\ Go(c, "close", "umask")
    /\ size' = [size EXCEPT ![c] = Length]
    /\ UNCHANGED <<tmp, dest, mode, umask, saved, faults>>

\* The only way to read the umask is to set it, and then to set it back.
TakeUmask(c) ==
    /\ Go(c, "umask", "restore")
    /\ saved' = [saved EXCEPT ![c] = umask[ProcOf[c]]]
    /\ umask' = [umask EXCEPT ![ProcOf[c]] = "none"]
    /\ UNCHANGED <<fileVars, faults>>

\* Mutant of RestoreUmask: the process keeps umask 0.
KeepUmask(c) == Go(c, "restore", "chmod") /\ UNCHANGED <<fileVars, umask, saved, faults>>

RestoreUmask(c) ==
    /\ Go(c, "restore", "chmod")
    /\ umask' = [umask EXCEPT ![ProcOf[c]] = saved[c]]
    /\ UNCHANGED <<fileVars, saved, faults>>

\* Mutant of Chmod: NamedTemporaryFile's own permissions stay.
KeepMode(c) == Go(c, "chmod", "replace") /\ UNCHANGED <<fileVars, umask, saved, faults>>

Chmod(c) ==
    /\ Go(c, "chmod", "replace")
    /\ mode' = [mode EXCEPT ![c] = IF saved[c] = "own" THEN "umask" ELSE "all"]
    /\ UNCHANGED <<tmp, dest, size, umask, saved, faults>>

Replace(c) ==
    /\ Go(c, "replace", "replaced")
    /\ dest' = c
    /\ tmp' = tmp \ {c}
    /\ UNCHANGED <<size, mode, umask, saved, faults>>

Return(c) ==
    /\ Go(c, "replaced", "returned") \/ Go(c, "stored", "returned")
    /\ UNCHANGED <<fileVars, umask, saved, faults>>

\* Mutant of Interrupt: "except Exception", which a kill passes by.
InterruptUncaught(c) ==
    /\ pc[c] \in InTry
    /\ pc' = [pc EXCEPT ![c] = "raised"]
    /\ faults' = [faults EXCEPT ![c] = @ \cup (IF pc[c] = "restore" THEN {"umaskLeft"} ELSE {})]
    /\ UNCHANGED <<fileVars, umask, saved>>

\* A statement of the try fails, or a kill or a timeout interrupts it.
Interrupt(c) ==
    /\ pc[c] \in InTry
    /\ pc' = [pc EXCEPT ![c] = "unlink"]
    /\ faults' = [faults EXCEPT ![c] = @ \cup (IF pc[c] = "restore" THEN {"umaskLeft"} ELSE {})]
    /\ UNCHANGED <<fileVars, umask, saved>>

\* Mutant of Unlink: the exception is swallowed.
UnlinkAndReturn(c) ==
    /\ Go(c, "unlink", "returned")
    /\ tmp' = tmp \ {c}
    /\ UNCHANGED <<dest, size, mode, umask, saved, faults>>

Unlink(c) ==
    /\ Go(c, "unlink", "raised")
    /\ tmp' = tmp \ {c}
    /\ UNCHANGED <<dest, size, mode, umask, saved, faults>>

\* mkdir() or NamedTemporaryFile() fails, or a kill comes before the try
\* statement or in its handler, or unlink() itself fails.
LeaveOutsideTry(c) ==
    /\ \/ scheme = "local" /\ Free(c) /\ Go(c, "idle", "raised")
       \/ Go(c, "made", "raised")
       \/ Go(c, "unlink", "raised")
    /\ faults' = [faults EXCEPT ![c] = @ \cup (IF c \in tmp THEN {"tempLeft"} ELSE {})]
    /\ UNCHANGED <<fileVars, umask, saved>>

-----------------------------------------------------------------------------
(* An s3:// destination.                                                   *)

Connect(c) ==
    /\ scheme = "s3" /\ Free(c)
    /\ Go(c, "idle", "put") \/ Go(c, "idle", "raised")
    /\ UNCHANGED <<fileVars, umask, saved, faults>>

\* load_string(replace=True): the object store shows whole objects only.
Put(c) ==
    /\ Go(c, "put", "stored")
    /\ dest' = c
    /\ size' = [size EXCEPT ![c] = Length]
    /\ mode' = [mode EXCEPT ![c] = "umask"]
    /\ UNCHANGED <<tmp, umask, saved, faults>>

\* The upload fails, or its answer is lost, or a kill interrupts it.
PutFails(c) ==
    /\ Go(c, "put", "raised") \/ Go(c, "stored", "raised")
    /\ UNCHANGED <<fileVars, umask, saved, faults>>

-----------------------------------------------------------------------------

\* The process dies.
Crash(c) ==
    /\ pc[c] \in Live
    /\ pc' = [pc EXCEPT ![c] = "crashed"]
    /\ UNCHANGED <<fileVars, umask, saved, faults>>

Open(r) ==
    /\ reader[r] = "idle" /\ dest # NoReport
    /\ reader' = [reader EXCEPT ![r] = IF mode[dest] = "owner" THEN "denied" ELSE "open"]
    /\ fd' = [fd EXCEPT ![r] = dest]
    /\ UNCHANGED pos

\* An open file stays what it is when another one takes its name.
Read(r) ==
    /\ reader[r] = "open"
    /\ IF pos[r] < size[fd[r]]
       THEN pos' = [pos EXCEPT ![r] = @ + 1] /\ UNCHANGED reader
       ELSE reader' = [reader EXCEPT ![r] = "eof"] /\ UNCHANGED pos
    /\ UNCHANGED fd

LocalStep(c) ==
    \/ MakeTemp(c) \/ EnterTry(c) \/ Write(c) \/ Close(c) \/ TakeUmask(c) \/ RestoreUmask(c)
    \/ Chmod(c) \/ Replace(c) \/ Interrupt(c) \/ Unlink(c) \/ LeaveOutsideTry(c)
RemoteStep(c) == Connect(c) \/ Put(c) \/ PutFails(c)

Next ==
    \/ \E c \in Calls : (LocalStep(c) \/ RemoteStep(c) \/ Return(c) \/ Crash(c))
                            /\ UNCHANGED <<scheme, readVars>>
    \/ \E r \in Readers : (Open(r) \/ Read(r))
                            /\ UNCHANGED <<scheme, pc, fileVars, umask, saved, faults>>

Spec == Init /\ [][Next]_vars

-----------------------------------------------------------------------------
(* Properties.                                                             *)

\* "concurrent writers can never observe a partially-written file"
\* (sinks.py:38-40), nor can readers: whoever reads a destination to its end
\* has read one report from its first to its last piece, however many writers
\* replaced it, failed or died meanwhile.
ReportsAreWhole == \A r \in Readers : reader[r] = "eof" => pos[r] = Length

\* Once a report is at its destination other users can open it: its umask-
\* derived permissions are there before its name is.
ReadersAreLetIn == \A r \in Readers : reader[r] # "denied"

\* No report is made writable for everyone, unless a kill cut an earlier call
\* of the same process between the two calls of os.umask().
NeverWorldWritable ==
    \A c \in Calls : mode[c] = "all" =>
        \E d \in Calls : ProcOf[d] = ProcOf[c] /\ "umaskLeft" \in faults[d]

\* Temp files beside a report belong to calls under way, to calls of a dead
\* process, and to those few that an interruption outside the try statement
\* caught.
TempFilesRemoved ==
    \A c \in tmp : pc[c] \in Live \cup {"crashed"} \/ "tempLeft" \in faults[c]

\* The report readers find, and what a caller of persist() can conclude.
Visible == IF dest # NoReport /\ size[dest] = Length THEN dest ELSE NoReport

Stored(c) == pc[c] \in {"replaced", "stored"} \/ (pc[c] = "unlink" /\ c \notin tmp)

StatusOf(c) == IF pc[c] = "returned" THEN "returned"
               ELSE IF pc[c] \in {"raised", "crashed"} THEN "aborted"
               ELSE IF Stored(c) THEN "stored" ELSE "pending"

Status == [c \in Calls |-> StatusOf(c)]

Store == INSTANCE ReportStore WITH content <- Visible, status <- Status

\* With temp files, renames, interruptions and crashes, the sink is a store
\* that changes from one whole report to another in one step, which a call
\* that returns has made and a call that raises has made once or not at all.
IsReportStore == Store!Spec

=============================================================================
