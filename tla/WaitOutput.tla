------------------------------ MODULE WaitOutput ------------------------------
(***************************************************************************)
(* Waiting for a line in a log that is being written                       *)
(* (scripts/wait_output.py), by a caller that waits again and again, each  *)
(* time from the cursor the last wait returned.                            *)
(*                                                                         *)
(* A log is a sequence of bytes of two kinds: "m" completes an awaited     *)
(* pattern, "n" ends a line; other bytes would only make lines longer. It  *)
(* may be replaced by another file of the name, but what was written stays *)
(* as it is: that is the caller's precondition, under which the checks of  *)
(* the size, of the byte before the cursor and of the length of a line     *)
(* refuse nothing.                                                         *)
(***************************************************************************)
EXTENDS Integers, FiniteSetsExt, SequencesExt

CONSTANTS
    MaxLogs,      \* bound: files that ever had the name
    MaxBytes,     \* bound: bytes written
    ChunkBytes    \* bytes of one read

ASSUME WaitAssumption == MaxLogs \in Nat \ {0} /\ MaxBytes \in Nat /\ ChunkBytes \in Nat \ {0}

VARIABLES
    logs,      \* logs[i]: the bytes of the i-th file of the name, the last is there now
    resume,    \* what the caller resumes from: an offset, and the file if known
    wait,      \* the running wait: its open file, bytes it has read but not consumed
    matches    \* history: the waits that returned a match in the cursor's file

waitVars == <<logs, resume, wait, matches>>

Bytes == {"m", "n"}
FileIds == 1..MaxLogs
NoFile == 0
Idle == [state |-> "idle", file |-> NoFile, after |-> 0, buffer |-> <<>>]

WaitTypeOK ==
    /\ logs \in Seq(Seq(Bytes)) /\ Len(logs) <= MaxLogs
    /\ resume \in [after : Nat, file : {NoFile} \cup FileIds]
    /\ wait \in [state : {"idle", "closed", "open", "checked", "read"},
                 file : {NoFile} \cup FileIds, after : Nat, buffer : Seq(Bytes)]
    /\ matches \in Nat

WaitInit ==
    /\ logs = <<>>
    /\ resume = [after |-> 0, file |-> NoFile]
    /\ wait = Idle
    /\ matches = 0

-----------------------------------------------------------------------------
Written == Len(FlattenSeq(logs))

(* The program that writes the log; a new file takes the name.             *)
WriteByte(byte) ==
    /\ logs # <<>> /\ Written < MaxBytes
    /\ logs' = [logs EXCEPT ![Len(logs)] = Append(@, byte)]
    /\ UNCHANGED <<resume, wait, matches>>

Rotate ==
    /\ Len(logs) < MaxLogs
    /\ logs' = Append(logs, <<>>)
    /\ UNCHANGED <<resume, wait, matches>>

StartWait ==
    /\ wait.state = "idle"
    /\ wait' = [Idle EXCEPT !.state = "closed", !.after = resume.after]
    /\ UNCHANGED <<logs, resume, matches>>

(* The file may not be there yet, if the caller has seen none; one that it *)
(* has seen must still be the same.                                        *)
OpenLog ==
    /\ wait.state = "closed" /\ logs # <<>>
    /\ resume.file \in {NoFile, Len(logs)}
    /\ wait' = [wait EXCEPT !.state = "open", !.file = Len(logs)]
    /\ UNCHANGED <<logs, resume, matches>>

(* The name still leads to the open file, before every read ...            *)
CheckPath ==
    /\ wait.state \in {"open", "read"} /\ wait.file = Len(logs)
    /\ wait' = [wait EXCEPT !.state = "checked"]
    /\ UNCHANGED <<logs, resume, matches>>

LineEnds(bytes) == {k \in DOMAIN bytes : bytes[k] = "n"}
LineOf(bytes, k) == {i \in 1..k : \A e \in LineEnds(bytes) : i <= e => e >= k}
Matching(bytes) == {k \in LineEnds(bytes) : \E i \in LineOf(bytes, k) : bytes[i] = "m"}

(* A plausible bug: the cursor also counts the beginning of a line.        *)
ConsumedAll(bytes) == Len(bytes)

(* Of the bytes without a match the complete lines are consumed.           *)
Consumed(bytes) == Max({0} \cup LineEnds(bytes))

(* ... and the read may find a newer name, but it is of the open file. The *)
(* lines are consumed up to the first match, which the wait returns.       *)
ReadChunk ==
    /\ wait.state = "checked"
    /\ LET log == logs[wait.file]
           from == wait.after + Len(wait.buffer)
           upto == Min({Len(log), from + ChunkBytes})
           buffer == wait.buffer \o SubSeq(log, from + 1, upto)
       IN  IF Matching(buffer) # {}
             THEN /\ resume' = [after |-> wait.after + Min(Matching(buffer)), file |-> wait.file]
                  /\ matches' = matches + 1
                  /\ wait' = Idle
             ELSE /\ wait' = [wait EXCEPT !.state = "read", !.after = @ + Consumed(buffer),
                                          !.buffer = SubSeq(buffer, Consumed(buffer) + 1, Len(buffer))]
                  /\ UNCHANGED <<resume, matches>>
    /\ UNCHANGED logs

(* Not in time: the wait returns the cursor it came to; the beginning of a *)
(* line is read again by the next.                                         *)
TimeOut ==
    /\ \/ wait.state = "closed" /\ resume.file = NoFile
       \/ wait.state = "read"
    /\ resume' = [after |-> wait.after, file |-> wait.file]
    /\ wait' = Idle
    /\ UNCHANGED <<logs, matches>>

(* The log was replaced: the wait fails, and the caller starts over.       *)
Replaced ==
    /\ \/ wait.state = "closed" /\ resume.file \notin {NoFile, Len(logs)}
       \/ wait.state \in {"open", "read"} /\ wait.file # Len(logs)
    /\ wait' = Idle
    /\ resume' = [after |-> 0, file |-> NoFile]
    /\ matches' = 0
    /\ UNCHANGED logs

WaitNext ==
    \/ \E byte \in Bytes : WriteByte(byte)
    \/ Rotate \/ StartWait \/ OpenLog \/ CheckPath \/ ReadChunk \/ TimeOut \/ Replaced

WaitSpec == WaitInit /\ [][WaitNext]_waitVars

-----------------------------------------------------------------------------
(* However the log grows, the reads cut its lines and the waits time out   *)
(* and resume: every line up to the cursor that contains the pattern was   *)
(* returned, by exactly one wait, and the cursor is at the start of a line *)
(* of the file it names (wait_output).                                     *)
EveryMatchReturned ==
    IF resume.file = NoFile
      THEN matches = 0 /\ resume.after = 0
      ELSE LET log == logs[resume.file] IN
           /\ resume.after \in {0} \cup LineEnds(log)
           /\ matches = Cardinality({k \in Matching(log) : k <= resume.after})
=============================================================================
