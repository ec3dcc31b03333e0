------------------------------- MODULE SessionKey -------------------------------
(***************************************************************************)
(* The key that signs the console's session cookies                        *)
(* (gateway/session_key.py).  The processes of one machine that start at   *)
(* the same time find it in a file, or one of them creates the file.  On   *)
(* POSIX everyone can read a file while its creator writes it; on Windows  *)
(* every open excludes the others, who wait.                               *)
(***************************************************************************)
EXTENDS Naturals, FiniteSets

CONSTANTS
  Process,       \* calls of load_or_create_session_key
  KeyRetries,    \* _READ_RETRIES, 100 in the code
  MaxKeyFaults   \* bound on writes, checks and processes that fail

ASSUME SessionKeyAssumption == KeyRetries \in Nat \ {0} /\ MaxKeyFaults \in Nat

\* The markers that stand for no file, no key and an unfinished key are no keys.
ASSUME KeyMarkers == \A p \in Process : p \notin {"no file", "none", "empty", "short"}

VARIABLES
  exclusive,  \* os.name is nt
  keyFile,    \* the file of that name: the process that created it, or NoFile
  content,    \* of the files created: nothing, too few characters, or the key of a process
  keyCall,    \* what each call is doing
  withdrawn,  \* history: a whole key was truncated by its creator
  keyFaults

keyVars == <<exclusive, keyFile, content, keyCall, withdrawn, keyFaults>>

-------------------------------------------------------------------------------
NoFile == "no file"
KeyPc == {"start", "create", "write", "read", "verify", "truncate", "unlink", "done",
          "failed"}

\* A call uses one file at a time: file is the one it has open, key what it read there.
KeyCall == [pc : KeyPc, file : Process \cup {NoFile}, key : Process \cup {"none"},
            retries : 0..KeyRetries]

SessionKeyTypeOK ==
  /\ exclusive \in BOOLEAN /\ withdrawn \in BOOLEAN
  /\ keyFile \in Process \cup {NoFile}
  /\ content \in [Process -> {"empty", "short"} \cup Process]
  /\ keyCall \in [Process -> KeyCall]
  /\ keyFaults \in 0..MaxKeyFaults

KeyInit ==
  /\ exclusive \in BOOLEAN
  /\ keyFile = NoFile /\ content = [p \in Process |-> "empty"]
  /\ keyCall = [p \in Process |-> [pc |-> "start", file |-> NoFile, key |-> "none",
                                   retries |-> KeyRetries]]
  /\ withdrawn = FALSE /\ keyFaults = 0

KeyFault == keyFaults < MaxKeyFaults /\ keyFaults' = keyFaults + 1

KeyGoto(p, pc) == keyCall' = [keyCall EXCEPT ![p].pc = pc]

\* The file's handle is closed, and the call tries again or gives up.
Retry(p) ==
  keyCall' = [keyCall EXCEPT ![p].pc = IF keyCall[p].retries > 1 THEN "start" ELSE "failed",
                             ![p].retries = @ - 1, ![p].file = NoFile, ![p].key = "none"]

Fail(p) == keyCall' = [keyCall EXCEPT ![p].pc = "failed", ![p].file = NoFile]

\* FILE_SHARE_READ, with an access that includes writing.
Shared == exclusive => \A q \in Process : keyCall[q].file # keyFile

-------------------------------------------------------------------------------
Open(p) ==
  /\ keyCall[p].pc = "start"
  /\ IF keyFile = NoFile THEN KeyGoto(p, "create")
     ELSE IF Shared THEN keyCall' = [keyCall EXCEPT ![p].pc = "read", ![p].file = keyFile]
     ELSE Retry(p)
  /\ UNCHANGED <<exclusive, keyFile, content, withdrawn, keyFaults>>

\* Fault: the file is created whether or not there is one already.
Replaceable == TRUE

\* O_CREAT with O_EXCL, CREATE_NEW: the name is free.
Creatable == keyFile = NoFile

Create(p) ==
  /\ keyCall[p].pc = "create"
  /\ IF Creatable
     THEN /\ keyFile' = p
          /\ keyCall' = [keyCall EXCEPT ![p].pc = "write", ![p].file = p]
     ELSE Retry(p) /\ UNCHANGED keyFile
  /\ UNCHANGED <<exclusive, content, withdrawn, keyFaults>>

Write(p) ==
  /\ keyCall[p].pc = "write"
  /\ content' = [content EXCEPT ![p] = p]
  /\ KeyGoto(p, "read")
  /\ UNCHANGED <<exclusive, keyFile, withdrawn, keyFaults>>

\* The write stops before the 80th character, or the key is there and fsync fails.
WriteFails(p) ==
  /\ keyCall[p].pc = "write" /\ KeyFault
  /\ \E left \in {"empty", "short", p} : content' = [content EXCEPT ![p] = left]
  /\ KeyGoto(p, "truncate")
  /\ UNCHANGED <<exclusive, keyFile, withdrawn>>

\* A key that is not complete is looked at again later.
Read(p) ==
  /\ keyCall[p].pc = "read"
  /\ LET found == content[keyCall[p].file] IN
     IF found \in Process
     THEN keyCall' = [keyCall EXCEPT ![p].pc = "verify", ![p].key = found]
     ELSE Retry(p)
  /\ UNCHANGED <<exclusive, keyFile, content, withdrawn, keyFaults>>

\* The name still stands for the file that was read.
Verified(p) == keyFile = keyCall[p].file

VerifyKey(p) ==
  /\ keyCall[p].pc = "verify"
  /\ IF Verified(p) THEN keyCall' = [keyCall EXCEPT ![p].pc = "done", ![p].file = NoFile]
     ELSE Fail(p)
  /\ UNCHANGED <<exclusive, keyFile, content, withdrawn, keyFaults>>

\* Permissions, a check of the path or an interrupt: a creator removes its file.
CheckFails(p) ==
  /\ keyCall[p].pc \in {"read", "verify"} /\ KeyFault
  /\ IF keyCall[p].file = p THEN KeyGoto(p, "truncate") ELSE Fail(p)
  /\ UNCHANGED <<exclusive, keyFile, content, withdrawn>>

\* _cleanup_posix_created: the content first, then the name.  _cleanup_windows_created
\* marks the file: it is gone when its handle is closed.
Truncate(p) ==
  /\ keyCall[p].pc = "truncate"
  /\ content' = IF exclusive THEN content ELSE [content EXCEPT ![p] = "empty"]
  /\ withdrawn' = (withdrawn \/ (content[p] \in Process /\ ~exclusive))
  /\ KeyGoto(p, "unlink")
  /\ UNCHANGED <<exclusive, keyFile, keyFaults>>

Unlink(p) ==
  /\ keyCall[p].pc = "unlink"
  /\ keyFile' = IF keyFile = p THEN NoFile ELSE keyFile
  /\ Fail(p)
  /\ UNCHANGED <<exclusive, content, withdrawn, keyFaults>>

\* Its file stays as it is, unless it is marked, and nobody has it open.
ProcessDies(p) ==
  /\ keyCall[p].pc \notin {"done", "failed"} /\ KeyFault
  /\ keyFile' = IF exclusive /\ keyCall[p].pc = "unlink" THEN NoFile ELSE keyFile
  /\ Fail(p)
  /\ UNCHANGED <<exclusive, content, withdrawn>>

KeyStep(p) == \/ Open(p) \/ Create(p) \/ Write(p) \/ Read(p) \/ VerifyKey(p)
              \/ Truncate(p) \/ Unlink(p)

KeyNext == \E p \in Process :
  KeyStep(p) \/ WriteFails(p) \/ CheckFails(p) \/ ProcessDies(p)

KeySpec == KeyInit /\ [][KeyNext]_keyVars

-------------------------------------------------------------------------------
\* Every call that returns has the key of the file, so that cookies signed by one process
\* are good for the others and after a restart.  On POSIX a creator that fails after it
\* wrote its whole key takes back what others may have read: withdrawn leaves it out.
SignsAlike == SessionKeyTypeOK /\ (~withdrawn =>
  \A p \in Process : keyCall[p].pc = "done" =>
    keyFile # NoFile /\ content[keyFile] = keyCall[p].key)
===============================================================================
