---------------------------- MODULE AccessProofs ----------------------------
(***************************************************************************)
(* Who is let into the console: its accounts (ConsoleAccounts,             *)
(* AccountsHold) for any users, browsers and limits, and the key that      *)
(* signs their cookies (SessionKey, SignsAlike) for any number of          *)
(* processes, retries and faults.                                          *)
(***************************************************************************)
EXTENDS ConsoleAccounts, SessionKey, TLAPS

-------------------------------------------------------------------------------
(* The session key.  SignsAlike is not inductive: why a reader's key stays in the   *)
(* file is known only from what the creator of that file may still do.  KeyInv adds *)
(* it: a process creates one file and never starts again after that (Created), what *)
(* it left in the file at each stage (OwnContent), and on Windows that nobody else  *)
(* has an open file (Excluded).                                                     *)


\* Which file a call has open at each stage.
OwnFile == \A p \in Process :
  /\ keyCall[p].pc # "failed" => keyCall[p].retries > 0
  /\ keyCall[p].pc \in {"start", "create", "done", "failed"} => keyCall[p].file = NoFile
  /\ keyCall[p].pc \in {"write", "truncate", "unlink"} => keyCall[p].file = p
  /\ keyCall[p].pc \in {"read", "verify"} => keyCall[p].file # NoFile

\* The creator of a file still has it open, or has come to its end.
Created(f) == keyCall[f].file = f \/ keyCall[f].pc \in {"done", "failed"}

Creators == \A f \in Process :
  /\ keyFile = f => Created(f)
  /\ \A r \in Process : keyCall[r].file = f => Created(f)
  /\ keyCall[f].file = f => keyFile = f

\* What a creator has put into its file.
OwnContent == \A p \in Process :
  /\ keyCall[p].pc = "write" \/ ~Created(p) => content[p] = "empty"
  /\ keyCall[p].pc \in {"read", "verify"} /\ keyCall[p].file = p => content[p] = p
  /\ keyCall[p].pc = "unlink" /\ ~exclusive => content[p] = "empty"

\* On Windows an open file is nobody else's, and it is not open to its creator any more
\* when somebody has its key.
Excluded ==
  /\ withdrawn => ~exclusive
  /\ exclusive => \A p, q \in Process :
       /\ keyCall[p].file = keyCall[q].file /\ keyCall[p].file # NoFile => p = q
       /\ keyCall[p].pc = "done" => keyCall[q].file # q

\* The key that a call has seen is the one in the file.
Seen == ~withdrawn => \A p \in Process :
  /\ keyCall[p].pc = "verify" =>
       keyCall[p].key \in Process /\ content[keyCall[p].file] = keyCall[p].key
  /\ keyCall[p].pc = "done" =>
       keyCall[p].key \in Process /\ keyFile # NoFile /\ content[keyFile] = keyCall[p].key

KeyInv == SessionKeyTypeOK /\ OwnFile /\ Creators /\ OwnContent /\ Excluded /\ Seen

-------------------------------------------------------------------------------
LEMMA Markers == \A p \in Process : p # NoFile /\ p # "none" /\ p # "empty" /\ p # "short"
  BY KeyMarkers DEF NoFile

LEMMA Limits == KeyRetries \in Nat /\ KeyRetries > 0 /\ MaxKeyFaults \in Nat
  BY SessionKeyAssumption

LEMMA KeyInitInv == KeyInit => KeyInv
<1>1. SUFFICES ASSUME KeyInit PROVE KeyInv
  OBVIOUS
<1>2. \A p \in Process : /\ keyCall[p].pc = "start" /\ keyCall[p].file = NoFile
                         /\ keyCall[p].retries = KeyRetries
  BY <1>1 DEF KeyInit
<1>3. SessionKeyTypeOK
  <2>1. [pc |-> "start", file |-> NoFile, key |-> "none", retries |-> KeyRetries] \in KeyCall
    BY Limits DEF KeyCall, KeyPc
  <2>2. keyCall \in [Process -> KeyCall]
    BY <1>1, <2>1 DEF KeyInit
  <2>3. keyFaults \in 0..MaxKeyFaults
    BY <1>1, Limits DEF KeyInit
  <2> QED BY <1>1, <2>2, <2>3 DEF KeyInit, SessionKeyTypeOK
<1>4. OwnFile /\ Creators
  BY <1>1, <1>2, Markers, Limits DEF KeyInit, OwnFile, Creators, Created
<1>5. OwnContent /\ Excluded /\ Seen
  BY <1>1, <1>2, Markers DEF KeyInit, OwnContent, Created, Excluded, Seen
<1> QED BY <1>3, <1>4, <1>5 DEF KeyInv

\* What the call of p is now; the others are what they were.
Moves(p, pc, file, key, retries) ==
  /\ keyCall' \in [Process -> KeyCall]
  /\ keyCall'[p].pc = pc /\ keyCall'[p].file = file
  /\ keyCall'[p].key = key /\ keyCall'[p].retries = retries
  /\ \A q \in Process : q # p => keyCall'[q] = keyCall[q]

LEMMA Moved ==
  ASSUME SessionKeyTypeOK, NEW p \in Process, NEW d \in KeyCall,
         keyCall' = [keyCall EXCEPT ![p] = d]
  PROVE  Moves(p, d.pc, d.file, d.key, d.retries)
  BY DEF SessionKeyTypeOK, Moves

\* What becomes of a call that goes on, fails, or tries again.
LEMMA Steps ==
  ASSUME SessionKeyTypeOK, NEW p \in Process, NEW c, c = keyCall[p]
  PROVE  /\ c.pc \in KeyPc /\ c.file \in Process \cup {NoFile}
         /\ c.key \in Process \cup {"none"} /\ c.retries \in 0..KeyRetries
         /\ \A pc \in KeyPc : KeyGoto(p, pc) => Moves(p, pc, c.file, c.key, c.retries)
         /\ Fail(p) => Moves(p, "failed", NoFile, c.key, c.retries)
         /\ c.retries > 0 /\ Retry(p) =>
              \E pc \in {"start", "failed"} : \E n \in 0..KeyRetries :
                (pc = "start" => n > 0) /\ Moves(p, pc, NoFile, "none", n)
<1>1. /\ c \in KeyCall /\ c.pc \in KeyPc /\ c.file \in Process \cup {NoFile}
      /\ c.key \in Process \cup {"none"} /\ c.retries \in 0..KeyRetries
  BY DEF SessionKeyTypeOK, KeyCall
<1>2. ASSUME NEW pc \in KeyPc, KeyGoto(p, pc)
      PROVE  Moves(p, pc, c.file, c.key, c.retries)
  BY <1>1, <1>2 DEF KeyGoto, Moves, KeyCall, SessionKeyTypeOK
<1>3. ASSUME Fail(p)
      PROVE  Moves(p, "failed", NoFile, c.key, c.retries)
  <2> DEFINE d == [c EXCEPT !.pc = "failed", !.file = NoFile]
  <2>1. d \in KeyCall
    BY <1>1 DEF KeyCall, KeyPc
  <2>3. keyCall' = [keyCall EXCEPT ![p] = d]
    BY <1>1, <1>3 DEF Fail, SessionKeyTypeOK
  <2>4. d.pc = "failed" /\ d.file = NoFile /\ d.key = c.key /\ d.retries = c.retries
    BY <1>1 DEF KeyCall
  <2> HIDE DEF d
  <2> QED BY <2>1, <2>3, <2>4, Moved
<1>4. ASSUME c.retries > 0, Retry(p)
      PROVE  \E pc \in {"start", "failed"} : \E n \in 0..KeyRetries :
               (pc = "start" => n > 0) /\ Moves(p, pc, NoFile, "none", n)
  <2> DEFINE pc == IF c.retries > 1 THEN "start" ELSE "failed"
             d  == [pc |-> pc, file |-> NoFile, key |-> "none", retries |-> c.retries - 1]
  <2>1. c.retries - 1 \in 0..KeyRetries /\ (pc = "start" => c.retries - 1 > 0)
    BY <1>1, <1>4, Limits
  <2>2. d \in KeyCall /\ pc \in {"start", "failed"}
    BY <2>1 DEF KeyCall, KeyPc
  <2>3. keyCall' = [keyCall EXCEPT ![p] = d]
    BY <1>1, <1>4 DEF Retry, SessionKeyTypeOK, KeyCall
  <2>4. Moves(p, pc, NoFile, "none", c.retries - 1)
    BY <2>2, <2>3, Moved
  <2> HIDE DEF pc
  <2> QED BY <2>1, <2>2, <2>4
<1> QED BY <1>1, <1>2, <1>3, <1>4

\* A call that keeps nothing open or in mind disturbs nobody.
LEMMA GivesUp ==
  ASSUME KeyInv, NEW p \in Process, NEW pc \in {"start", "create", "failed"},
         NEW key, NEW n \in 0..KeyRetries, pc # "failed" => n > 0,
         Moves(p, pc, NoFile, key, n),
         keyCall[p].pc \notin {"done", "failed"},
         pc # "failed" => keyFile # p /\ keyCall[p].file # p,
         UNCHANGED <<exclusive, keyFile, content, withdrawn>>, keyFaults' \in 0..MaxKeyFaults
  PROVE  KeyInv'
<1> USE DEF KeyInv
<1>1. SessionKeyTypeOK'
  BY DEF SessionKeyTypeOK, Moves
<1>2. OwnFile'
  BY DEF OwnFile, Moves
<1>3. Creators'
  BY Markers DEF OwnFile, Creators, Created, Moves
<1>4. OwnContent' /\ Excluded'
  BY Markers DEF OwnFile, OwnContent, Created, Excluded, Moves
<1>5. Seen'
  BY DEF Seen, Moves
<1> QED BY <1>1, <1>2, <1>3, <1>4, <1>5

-------------------------------------------------------------------------------
\* Steps of a call, one lemma for each kind of them.

LEMMA OpenInv ==
  ASSUME KeyInv, NEW p \in Process, Open(p)
  PROVE  KeyInv'
<1> DEFINE c == keyCall[p]
<1>1. /\ SessionKeyTypeOK /\ OwnFile /\ Creators /\ OwnContent /\ Excluded /\ Seen
      /\ c.pc = "start" /\ c.file = NoFile /\ c.retries > 0
      /\ UNCHANGED <<exclusive, keyFile, content, withdrawn, keyFaults>>
  BY DEF KeyInv, Open, OwnFile
<1>2. /\ c.pc \in KeyPc /\ c.key \in Process \cup {"none"} /\ c.retries \in 0..KeyRetries
      /\ keyFile \in Process \cup {NoFile} /\ keyFaults \in 0..MaxKeyFaults
  BY <1>1, Steps DEF SessionKeyTypeOK
<1>3. keyFile # p /\ c.file # p
  BY <1>1, Markers DEF Creators, Created
<1>4. CASE keyFile = NoFile
  <2>1. Moves(p, "create", NoFile, c.key, c.retries)
    BY <1>1, <1>4, Steps DEF Open, KeyPc
  <2> QED BY <1>1, <1>2, <1>3, <2>1, GivesUp
<1>5. CASE keyFile # NoFile /\ ~Shared
  <2>1. Retry(p)
    BY <1>5 DEF Open
  <2>2. PICK pc \in {"start", "failed"}, n \in 0..KeyRetries :
          (pc = "start" => n > 0) /\ Moves(p, pc, NoFile, "none", n)
    BY <1>1, <2>1, Steps
  <2> QED BY <1>1, <1>2, <1>3, <2>2, GivesUp
<1>6. CASE keyFile # NoFile /\ Shared
  <2> DEFINE d == [c EXCEPT !.pc = "read", !.file = keyFile]
  <2>1. c \in KeyCall
    BY <1>1 DEF SessionKeyTypeOK
  <2>2. d \in KeyCall /\ d.pc = "read" /\ d.file = keyFile /\ d.key = c.key
        /\ d.retries = c.retries
    BY <1>2, <2>1 DEF KeyCall, KeyPc
  <2>3. keyCall' = [keyCall EXCEPT ![p] = d]
    BY <1>1, <1>6 DEF Open, SessionKeyTypeOK
  <2> HIDE DEF d
  <2>4. Moves(p, "read", keyFile, c.key, c.retries)
    BY <1>1, <2>2, <2>3, Moved
  <2>5. SessionKeyTypeOK' /\ OwnFile'
    BY <1>1, <1>6, <2>4 DEF SessionKeyTypeOK, OwnFile, Moves
  <2>6. Creators' /\ OwnContent'
    BY <1>1, <1>2, <1>3, <1>6, <2>4 DEF Creators, Created, OwnContent, Moves
  <2>7. Excluded' /\ Seen'
    BY <1>1, <1>3, <1>6, <2>4 DEF Shared, Excluded, Seen, Moves
  <2> QED BY <2>5, <2>6, <2>7 DEF KeyInv
<1> QED BY <1>4, <1>5, <1>6

LEMMA CreateInv ==
  ASSUME KeyInv, NEW p \in Process, Create(p)
  PROVE  KeyInv'
<1> DEFINE c == keyCall[p]
<1>1. /\ SessionKeyTypeOK /\ OwnFile /\ Creators /\ OwnContent /\ Excluded /\ Seen
      /\ c.pc = "create"
      /\ UNCHANGED <<exclusive, content, withdrawn, keyFaults>>
  BY DEF KeyInv, Create
<1>2. /\ c.pc \in KeyPc /\ c.file \in Process \cup {NoFile} /\ c.key \in Process \cup {"none"}
      /\ c.retries \in 0..KeyRetries /\ keyFile \in Process \cup {NoFile}
      /\ keyFaults \in 0..MaxKeyFaults /\ (c.pc # "failed" => c.retries > 0)
      /\ (c.pc \in {"start", "create", "done", "failed"} => c.file = NoFile)
      /\ (c.pc \in {"write", "truncate", "unlink"} => c.file = p)
      /\ (c.pc \in {"read", "verify"} => c.file # NoFile)
  BY <1>1, Steps DEF SessionKeyTypeOK, OwnFile
<1>3. keyFile # p /\ c.file # p
  BY <1>1, <1>2, Markers DEF Creators, Created
<1>4. CASE ~Creatable
  <2>1. Retry(p) /\ UNCHANGED keyFile
    BY <1>4 DEF Create
  <2>2. PICK pc \in {"start", "failed"}, n \in 0..KeyRetries :
          (pc = "start" => n > 0) /\ Moves(p, pc, NoFile, "none", n)
    BY <1>1, <1>2, <2>1, Steps
  <2> QED BY <1>1, <1>2, <1>3, <2>1, <2>2, GivesUp
<1>5. CASE Creatable
  <2> DEFINE d == [c EXCEPT !.pc = "write", !.file = p]
  <2>1. c \in KeyCall
    BY <1>1 DEF SessionKeyTypeOK
  <2>2. d \in KeyCall /\ d.pc = "write" /\ d.file = p /\ d.key = c.key
        /\ d.retries = c.retries
    BY <1>2, <2>1 DEF KeyCall, KeyPc
  <2>3. keyCall' = [keyCall EXCEPT ![p] = d] /\ keyFile' = p /\ keyFile = NoFile
    BY <1>1, <1>5 DEF Create, Creatable, SessionKeyTypeOK
  <2> HIDE DEF d
  <2>4. Moves(p, "write", p, c.key, c.retries)
    BY <1>1, <2>2, <2>3, Moved
  <2>5. SessionKeyTypeOK' /\ OwnFile'
    BY <1>1, <1>2, <2>3, <2>4, Markers DEF SessionKeyTypeOK, OwnFile, Moves
  <2>6. \A q \in Process : keyCall[q].file # p /\ (q # p => keyCall[q].file # q)
    BY <1>1, <1>3, <2>3, Markers DEF Creators, Created
  <2>7. Creators'
    BY <1>1, <1>2, <2>3, <2>4, <2>6, Markers DEF Creators, Created, Moves
  <2>8. content[p] = "empty"
    BY <1>1, <1>3 DEF OwnContent, Created
  <2>9. OwnContent'
    BY <1>1, <2>4, <2>8 DEF OwnContent, Created, Moves
  <2>10. Excluded' /\ Seen'
    BY <1>1, <1>3, <2>3, <2>4, <2>6 DEF Excluded, Seen, Moves
  <2> QED BY <2>5, <2>7, <2>9, <2>10 DEF KeyInv
<1> QED BY <1>4, <1>5

LEMMA WriteInv ==
  ASSUME KeyInv, NEW p \in Process, Write(p)
  PROVE  KeyInv'
<1> DEFINE c == keyCall[p]
<1>1. /\ SessionKeyTypeOK /\ OwnFile /\ Creators /\ OwnContent /\ Excluded /\ Seen
      /\ c.pc = "write"
      /\ content' = [content EXCEPT ![p] = p]
      /\ UNCHANGED <<exclusive, keyFile, withdrawn, keyFaults>>
  BY DEF KeyInv, Write
<1>2. /\ c.pc \in KeyPc /\ c.file \in Process \cup {NoFile} /\ c.key \in Process \cup {"none"}
      /\ c.retries \in 0..KeyRetries /\ keyFile \in Process \cup {NoFile}
      /\ keyFaults \in 0..MaxKeyFaults /\ (c.pc # "failed" => c.retries > 0)
      /\ (c.pc \in {"start", "create", "done", "failed"} => c.file = NoFile)
      /\ (c.pc \in {"write", "truncate", "unlink"} => c.file = p)
      /\ (c.pc \in {"read", "verify"} => c.file # NoFile)
  BY <1>1, Steps DEF SessionKeyTypeOK, OwnFile
<1>3. Moves(p, "read", p, c.key, c.retries) /\ content[p] = "empty" /\ keyFile = p
  BY <1>1, <1>2, Steps DEF Write, KeyPc, OwnContent, Creators
<1>4. content' \in [Process -> {"empty", "short"} \cup Process]
      /\ content'[p] = p /\ \A q \in Process : q # p => content'[q] = content[q]
  BY <1>1 DEF SessionKeyTypeOK
<1>5. SessionKeyTypeOK' /\ OwnFile'
  BY <1>1, <1>2, <1>3, <1>4, Markers DEF SessionKeyTypeOK, OwnFile, Moves
<1>6. Creators' /\ OwnContent' /\ Excluded'
  BY <1>1, <1>2, <1>3, <1>4 DEF Creators, Created, OwnContent, Excluded, Moves
<1>7. \A q \in Process : keyCall[q].file \in Process \cup {NoFile}
  BY <1>1, Steps
<1>8. Seen'
  BY <1>1, <1>2, <1>3, <1>4, <1>7, Markers DEF Seen, OwnFile, Moves
<1> QED BY <1>5, <1>6, <1>8 DEF KeyInv

LEMMA WriteFailsInv ==
  ASSUME KeyInv, NEW p \in Process, WriteFails(p)
  PROVE  KeyInv'
<1> DEFINE c == keyCall[p]
<1>1. /\ SessionKeyTypeOK /\ OwnFile /\ Creators /\ OwnContent /\ Excluded /\ Seen
      /\ c.pc = "write" /\ keyFaults' \in 0..MaxKeyFaults
      /\ UNCHANGED <<exclusive, keyFile, withdrawn>>
  BY Limits DEF KeyInv, WriteFails, KeyFault, SessionKeyTypeOK
<1>2. /\ c.pc \in KeyPc /\ c.file \in Process \cup {NoFile} /\ c.key \in Process \cup {"none"}
      /\ c.retries \in 0..KeyRetries /\ keyFile \in Process \cup {NoFile}
      /\ keyFaults \in 0..MaxKeyFaults /\ (c.pc # "failed" => c.retries > 0)
      /\ (c.pc \in {"start", "create", "done", "failed"} => c.file = NoFile)
      /\ (c.pc \in {"write", "truncate", "unlink"} => c.file = p)
      /\ (c.pc \in {"read", "verify"} => c.file # NoFile)
  BY <1>1, Steps DEF SessionKeyTypeOK, OwnFile
<1>3. Moves(p, "truncate", p, c.key, c.retries) /\ content[p] = "empty" /\ keyFile = p
  BY <1>1, <1>2, Steps DEF WriteFails, KeyPc, OwnContent, Creators
<1>4. content' \in [Process -> {"empty", "short"} \cup Process]
      /\ \A q \in Process : q # p => content'[q] = content[q]
  BY <1>1 DEF WriteFails, SessionKeyTypeOK
<1>5. SessionKeyTypeOK' /\ OwnFile'
  BY <1>1, <1>2, <1>3, <1>4, Markers DEF SessionKeyTypeOK, OwnFile, Moves
<1>6. Creators' /\ OwnContent' /\ Excluded'
  BY <1>1, <1>2, <1>3, <1>4 DEF Creators, Created, OwnContent, Excluded, Moves
<1>7. \A q \in Process : keyCall[q].file \in Process \cup {NoFile}
  BY <1>1, Steps
<1>8. Seen'
  BY <1>1, <1>2, <1>3, <1>4, <1>7, Markers DEF Seen, OwnFile, Moves
<1> QED BY <1>5, <1>6, <1>8 DEF KeyInv

LEMMA ReadInv ==
  ASSUME KeyInv, NEW p \in Process, Read(p)
  PROVE  KeyInv'
<1> DEFINE c == keyCall[p]
<1>1. /\ SessionKeyTypeOK /\ OwnFile /\ Creators /\ OwnContent /\ Excluded /\ Seen
      /\ c.pc = "read"
      /\ UNCHANGED <<exclusive, keyFile, content, withdrawn, keyFaults>>
  BY DEF KeyInv, Read
<1>2. /\ c.pc \in KeyPc /\ c.file \in Process \cup {NoFile} /\ c.key \in Process \cup {"none"}
      /\ c.retries \in 0..KeyRetries /\ keyFile \in Process \cup {NoFile}
      /\ keyFaults \in 0..MaxKeyFaults /\ (c.pc # "failed" => c.retries > 0)
      /\ (c.pc \in {"start", "create", "done", "failed"} => c.file = NoFile)
      /\ (c.pc \in {"write", "truncate", "unlink"} => c.file = p)
      /\ (c.pc \in {"read", "verify"} => c.file # NoFile)
  BY <1>1, Steps DEF SessionKeyTypeOK, OwnFile
<1> DEFINE found == content[c.file]
<1>3. CASE found \notin Process
  <2>1. Retry(p) /\ keyFile # p /\ c.file # p
    BY <1>1, <1>2, <1>3 DEF Read, OwnContent, Creators, Created
  <2>2. PICK pc \in {"start", "failed"}, n \in 0..KeyRetries :
          (pc = "start" => n > 0) /\ Moves(p, pc, NoFile, "none", n)
    BY <1>1, <1>2, <2>1, Steps
  <2> QED BY <1>1, <1>2, <2>1, <2>2, GivesUp
<1>4. CASE found \in Process
  <2> DEFINE d == [c EXCEPT !.pc = "verify", !.key = found]
  <2>1. c \in KeyCall
    BY <1>1 DEF SessionKeyTypeOK
  <2>2. d \in KeyCall /\ d.pc = "verify" /\ d.file = c.file /\ d.key = found
        /\ d.retries = c.retries
    BY <1>2, <1>4, <2>1 DEF KeyCall, KeyPc
  <2>3. keyCall' = [keyCall EXCEPT ![p] = d]
    BY <1>1, <1>4 DEF Read, SessionKeyTypeOK
  <2> HIDE DEF d
  <2>4. Moves(p, "verify", c.file, found, c.retries)
    BY <1>1, <2>2, <2>3, Moved
  <2>5. SessionKeyTypeOK' /\ OwnFile'
    BY <1>1, <1>2, <2>4 DEF SessionKeyTypeOK, OwnFile, Moves
  <2>6. Creators' /\ OwnContent' /\ Excluded'
    BY <1>1, <1>2, <2>4 DEF Creators, Created, OwnContent, Excluded, Moves
  <2>7. Seen'
    BY <1>1, <1>2, <1>4, <2>4 DEF Seen, Moves
  <2> QED BY <2>5, <2>6, <2>7 DEF KeyInv
<1> QED BY <1>3, <1>4

LEMMA VerifyInv ==
  ASSUME KeyInv, NEW p \in Process, VerifyKey(p)
  PROVE  KeyInv'
<1> DEFINE c == keyCall[p]
<1>1. /\ SessionKeyTypeOK /\ OwnFile /\ Creators /\ OwnContent /\ Excluded /\ Seen
      /\ c.pc = "verify"
      /\ UNCHANGED <<exclusive, keyFile, content, withdrawn, keyFaults>>
  BY DEF KeyInv, VerifyKey
<1>2. /\ c.pc \in KeyPc /\ c.file \in Process \cup {NoFile} /\ c.key \in Process \cup {"none"}
      /\ c.retries \in 0..KeyRetries /\ keyFile \in Process \cup {NoFile}
      /\ keyFaults \in 0..MaxKeyFaults /\ (c.pc # "failed" => c.retries > 0)
      /\ (c.pc \in {"start", "create", "done", "failed"} => c.file = NoFile)
      /\ (c.pc \in {"write", "truncate", "unlink"} => c.file = p)
      /\ (c.pc \in {"read", "verify"} => c.file # NoFile)
  BY <1>1, Steps DEF SessionKeyTypeOK, OwnFile
<1>3. CASE ~Verified(p)
  BY <1>1, <1>2, <1>3, Steps, GivesUp DEF VerifyKey
<1>4. CASE Verified(p)
  <2> DEFINE d == [c EXCEPT !.pc = "done", !.file = NoFile]
  <2>1. c \in KeyCall
    BY <1>1 DEF SessionKeyTypeOK
  <2>2. d \in KeyCall /\ d.pc = "done" /\ d.file = NoFile /\ d.key = c.key
        /\ d.retries = c.retries
    BY <1>2, <2>1 DEF KeyCall, KeyPc
  <2>3. keyCall' = [keyCall EXCEPT ![p] = d] /\ keyFile = c.file
    BY <1>1, <1>4 DEF VerifyKey, Verified, SessionKeyTypeOK
  <2> HIDE DEF d
  <2>4. Moves(p, "done", NoFile, c.key, c.retries)
    BY <1>1, <2>2, <2>3, Moved
  <2>5. SessionKeyTypeOK' /\ OwnFile'
    BY <1>1, <1>2, <2>4 DEF SessionKeyTypeOK, OwnFile, Moves
  <2>6. Creators' /\ OwnContent'
    BY <1>1, <1>2, <2>4, Markers DEF Creators, Created, OwnContent, Moves
  <2>7. exclusive => \A q \in Process : q # p => keyCall[q].file # q
    BY <1>1, <1>2, <2>3 DEF Creators, Excluded
  <2>8. Excluded'
    BY <1>1, <1>2, <2>4, <2>7, Markers DEF Excluded, Moves
  <2>9. Seen'
    BY <1>1, <1>2, <2>3, <2>4 DEF Seen, Moves
  <2> QED BY <2>5, <2>6, <2>8, <2>9 DEF KeyInv
<1> QED BY <1>3, <1>4

LEMMA CheckFailsInv ==
  ASSUME KeyInv, NEW p \in Process, CheckFails(p)
  PROVE  KeyInv'
<1> DEFINE c == keyCall[p]
<1>1. /\ SessionKeyTypeOK /\ OwnFile /\ Creators /\ OwnContent /\ Excluded /\ Seen
      /\ c.pc \in {"read", "verify"} /\ keyFaults' \in 0..MaxKeyFaults
      /\ UNCHANGED <<exclusive, keyFile, content, withdrawn>>
  BY Limits DEF KeyInv, CheckFails, KeyFault, SessionKeyTypeOK
<1>2. /\ c.pc \in KeyPc /\ c.file \in Process \cup {NoFile} /\ c.key \in Process \cup {"none"}
      /\ c.retries \in 0..KeyRetries /\ keyFile \in Process \cup {NoFile}
      /\ keyFaults \in 0..MaxKeyFaults /\ (c.pc # "failed" => c.retries > 0)
      /\ (c.pc \in {"start", "create", "done", "failed"} => c.file = NoFile)
      /\ (c.pc \in {"write", "truncate", "unlink"} => c.file = p)
      /\ (c.pc \in {"read", "verify"} => c.file # NoFile)
  BY <1>1, Steps DEF SessionKeyTypeOK, OwnFile
<1>3. CASE c.file # p
  BY <1>1, <1>2, <1>3, Steps, GivesUp DEF CheckFails
<1>4. CASE c.file = p
  <2>1. Moves(p, "truncate", p, c.key, c.retries)
    BY <1>1, <1>4, Steps DEF CheckFails, KeyPc
  <2>2. SessionKeyTypeOK' /\ OwnFile'
    BY <1>1, <1>2, <2>1, Markers DEF SessionKeyTypeOK, OwnFile, Moves
  <2>3. Creators' /\ OwnContent' /\ Excluded' /\ Seen'
    BY <1>1, <1>4, <2>1 DEF Creators, Created, OwnContent, Excluded, Seen, Moves
  <2> QED BY <2>2, <2>3 DEF KeyInv
<1> QED BY <1>3, <1>4

LEMMA TruncateInv ==
  ASSUME KeyInv, NEW p \in Process, Truncate(p)
  PROVE  KeyInv'
<1> DEFINE c == keyCall[p]
<1>1. /\ SessionKeyTypeOK /\ OwnFile /\ Creators /\ OwnContent /\ Excluded /\ Seen
      /\ c.pc = "truncate"
      /\ UNCHANGED <<exclusive, keyFile, keyFaults>>
  BY DEF KeyInv, Truncate
<1>2. /\ c.pc \in KeyPc /\ c.file \in Process \cup {NoFile} /\ c.key \in Process \cup {"none"}
      /\ c.retries \in 0..KeyRetries /\ keyFile \in Process \cup {NoFile}
      /\ keyFaults \in 0..MaxKeyFaults /\ (c.pc # "failed" => c.retries > 0)
      /\ (c.pc \in {"start", "create", "done", "failed"} => c.file = NoFile)
      /\ (c.pc \in {"write", "truncate", "unlink"} => c.file = p)
      /\ (c.pc \in {"read", "verify"} => c.file # NoFile)
  BY <1>1, Steps DEF SessionKeyTypeOK, OwnFile
<1>3. Moves(p, "unlink", p, c.key, c.retries) /\ keyFile = p
  BY <1>1, <1>2, Steps DEF Truncate, KeyPc, Creators
<1>4. /\ content' \in [Process -> {"empty", "short"} \cup Process]
      /\ exclusive => content' = content
      /\ ~exclusive => content'[p] = "empty"
      /\ \A q \in Process : q # p => content'[q] = content[q]
  BY <1>1 DEF Truncate, SessionKeyTypeOK
<1>5. /\ withdrawn' \in BOOLEAN /\ (withdrawn' => ~exclusive)
      /\ ~withdrawn' => ~withdrawn /\ (exclusive \/ content[p] \notin Process)
  <2>1. withdrawn' = (withdrawn \/ (content[p] \in Process /\ ~exclusive))
    BY DEF Truncate
  <2>2. withdrawn => ~exclusive
    BY <1>1 DEF Excluded
  <2> QED BY <2>1, <2>2, Zenon
<1>6. SessionKeyTypeOK' /\ OwnFile'
  BY <1>1, <1>2, <1>3, <1>4, <1>5, Markers DEF SessionKeyTypeOK, OwnFile, Moves
<1>7. Creators' /\ Excluded'
  BY <1>1, <1>2, <1>3, <1>4, <1>5 DEF Creators, Created, Excluded, Moves
<1>8. OwnContent'
  BY <1>1, <1>2, <1>3, <1>4 DEF OwnContent, Created, Moves
<1>9. \A q \in Process : keyCall[q].file \in Process \cup {NoFile}
  BY <1>1, Steps
<1>10. Seen'
  BY <1>1, <1>2, <1>3, <1>4, <1>9, <1>5, Markers DEF Seen, OwnFile, Moves
<1> QED BY <1>6, <1>7, <1>10, <1>8 DEF KeyInv

\* A file that goes with its creator's call: nobody has its key, or it was withdrawn.
LEMMA Removed ==
  ASSUME KeyInv, NEW p \in Process, keyCall[p].pc = "unlink", Fail(p), keyFile' = NoFile,
         UNCHANGED <<exclusive, content, withdrawn>>, keyFaults' \in 0..MaxKeyFaults
  PROVE  KeyInv'
<1> DEFINE c == keyCall[p]
<1>1. /\ SessionKeyTypeOK /\ OwnFile /\ Creators /\ OwnContent /\ Excluded /\ Seen
      /\ c.file = p /\ keyFile = p /\ (~exclusive => content[p] = "empty")
  BY DEF KeyInv, OwnFile, Creators, OwnContent
<1>2. Moves(p, "failed", NoFile, c.key, c.retries)
  BY <1>1, Steps
<1>3. \A q \in Process : q # p => keyCall[q].file # q
  BY <1>1 DEF Creators
<1>4. SessionKeyTypeOK' /\ OwnFile'
  BY <1>1, <1>2 DEF SessionKeyTypeOK, OwnFile, Moves
<1>5. Creators' /\ OwnContent' /\ Excluded'
  BY <1>1, <1>2, <1>3, Markers DEF Creators, Created, OwnContent, Excluded, Moves
<1>6. ~withdrawn => \A q \in Process : keyCall[q].pc # "done"
  BY <1>1, Markers DEF Seen, Excluded
<1>7. Seen'
  BY <1>1, <1>2, <1>6 DEF Seen, Moves
<1> QED BY <1>4, <1>5, <1>7 DEF KeyInv

LEMMA UnlinkInv ==
  ASSUME KeyInv, NEW p \in Process, Unlink(p)
  PROVE  KeyInv'
<1>1. keyFile = p
  BY DEF KeyInv, Unlink, OwnFile, Creators
<1>2. keyFaults \in 0..MaxKeyFaults
  BY DEF KeyInv, SessionKeyTypeOK
<1> QED BY <1>1, <1>2, Removed DEF Unlink

LEMMA ProcessDiesInv ==
  ASSUME KeyInv, NEW p \in Process, ProcessDies(p)
  PROVE  KeyInv'
<1>1. SessionKeyTypeOK /\ keyFaults' \in 0..MaxKeyFaults
  BY Limits DEF KeyInv, SessionKeyTypeOK, ProcessDies, KeyFault
<1>2. CASE exclusive /\ keyCall[p].pc = "unlink"
  BY <1>1, <1>2, Removed DEF ProcessDies
<1>3. CASE ~(exclusive /\ keyCall[p].pc = "unlink")
  BY <1>1, <1>3, Steps, GivesUp DEF ProcessDies
<1> QED BY <1>2, <1>3

-------------------------------------------------------------------------------
LEMMA KeyInvariant == KeySpec => []KeyInv
<1>1. KeyInv /\ [KeyNext]_keyVars => KeyInv'
  <2> SUFFICES ASSUME KeyInv, [KeyNext]_keyVars PROVE KeyInv'
    OBVIOUS
  <2>1. CASE UNCHANGED keyVars
    BY <2>1 DEF keyVars, KeyInv, SessionKeyTypeOK, OwnFile, Creators, Created, OwnContent,
                Excluded, Seen
  <2>2. ASSUME NEW p \in Process, KeyStep(p) PROVE KeyInv'
    BY <2>2, OpenInv, CreateInv, WriteInv, ReadInv, VerifyInv, TruncateInv, UnlinkInv DEF KeyStep
  <2>3. ASSUME NEW p \in Process, WriteFails(p) \/ CheckFails(p) \/ ProcessDies(p)
        PROVE  KeyInv'
    BY <2>3, WriteFailsInv, CheckFailsInv, ProcessDiesInv
  <2> QED BY <2>1, <2>2, <2>3 DEF KeyNext
<1> QED BY <1>1, KeyInitInv, PTL DEF KeySpec

\* Two processes that got a session key got the same one, which is the one in the file that
\* the next start reads, unless a creator took back a whole key
\* (session_key.load_or_create_session_key).
THEOREM KeysAgree == KeySpec => []SignsAlike
<1>1. KeyInv => SignsAlike
  BY DEF KeyInv, SignsAlike, Seen
<1> QED BY <1>1, KeyInvariant, PTL

-------------------------------------------------------------------------------
(* The accounts of the console.  What a request may rely on when it commits is what *)
(* its version tells it: versions and passwords only grow, and a cookie or a request *)
(* with the version of its user's row has the password and the role of that row.    *)

Cookies == [user : User, version : Nat, password : Nat, role : Role]

\* A cookie was issued for a row that was there, and is older than any change of it.
CookieFits(r) == LET s == session[r] IN
  s # Nothing =>
    /\ s \in Cookies /\ Present(s.user) /\ s.version <= user[s.user].version
    /\ s.version = user[s.user].version =>
         s.password = user[s.user].password /\ s.role = user[s.user].role

\* Somebody who logs in has an account.
RequestFits(r) == request[r].pc = "succeed" => Present(request[r].user)

\* The failures of a row stay below the limit unless it is, or was, locked for them.
FailuresFit(u) ==
  /\ user[u].failures <= FailureLimit
  /\ user[u].lock = "none" => user[u].failures < FailureLimit

AccInv ==
  /\ changes \in 0..MaxChanges
  /\ user \in [User -> UserRow]
  /\ \A u \in User : /\ user[u].version <= changes + 1 /\ user[u].password <= changes + 1
                     /\ FailuresFit(u)
  /\ session \in [Browser -> Cookie \cup {Nothing}]
  /\ \A r \in Browser : CookieFits(r)
  /\ request \in [Browser -> RequestRow]
  /\ \A r \in Browser : RequestFits(r)
  /\ LastAdministrator

LEMMA AccLimits ==
  /\ Root \in User /\ FailureLimit \in Nat /\ FailureLimit > 0 /\ MaxChanges \in Nat
BY AccountsAssumption

LEMMA RowFields ==
  ASSUME NEW row \in UserRow
  PROVE  /\ row.role \in Role \cup {"absent"} /\ row.enabled \in BOOLEAN
         /\ row.version \in Nat /\ row.version >= 1 /\ row.password \in Nat /\ row.password >= 1
         /\ row.mustChange \in BOOLEAN /\ row.failures \in Nat
         /\ row.lock \in {"none", "ahead", "past"}
BY AccLimits DEF UserRow

\* A row that a request replaces by `new`, which keeps what cookies were issued for or
\* has a later version.
Follows(row, new) ==
  /\ row.role # "absent" => new.role # "absent"
  /\ \/ new.version = row.version /\ new.password = row.password /\ new.role = row.role
     \/ new.version > row.version
     \/ row.role = "absent"

LEMMA CookiesFollow ==
  ASSUME AccInv, NEW u \in User, NEW new \in UserRow, user' = [user EXCEPT ![u] = new],
         Follows(user[u], new), NEW r \in Browser, session'[r] = session[r]
  PROVE  CookieFits(r)'
<1>1. /\ user'[u] = new /\ \A v \in User \ {u} : user'[v] = user[v]
      /\ user[u] \in UserRow
  BY DEF AccInv
<1>2. SUFFICES ASSUME session[r] # Nothing
               PROVE  CookieFits(r)'
  BY DEF CookieFits
<1>3. /\ session[r] \in Cookies /\ Present(session[r].user)
      /\ session[r].version <= user[session[r].user].version
      /\ session[r].version = user[session[r].user].version =>
           /\ session[r].password = user[session[r].user].password
           /\ session[r].role = user[session[r].user].role
  BY <1>2 DEF AccInv, CookieFits
<1>4. session[r].user \in User /\ session[r].version \in Nat
  BY <1>3 DEF Cookies
<1>5. CASE session[r].user # u
  BY <1>1, <1>3, <1>4, <1>5 DEF CookieFits, Present
<1>6. CASE session[r].user = u
  <2>1. user[u].version \in Nat /\ new.version \in Nat /\ user[u].role # "absent"
    BY <1>1, <1>3, <1>6, RowFields DEF Present
  <2>2. /\ new.role # "absent" /\ session[r].version <= new.version
        /\ session[r].version = new.version =>
             session[r].password = new.password /\ session[r].role = new.role
    BY <1>3, <1>4, <1>6, <2>1 DEF Follows
  <2> QED
    BY <1>1, <1>3, <1>4, <1>6, <2>2 DEF CookieFits, Present
<1> QED
  BY <1>5, <1>6

\* The cookies and requests of a step are as they were or fit what it leaves.
Others ==
  /\ session' \in [Browser -> Cookie \cup {Nothing}]
  /\ request' \in [Browser -> RequestRow]
  /\ \A r \in Browser : /\ session'[r] = session[r] \/ CookieFits(r)'
                        /\ request'[r] = request[r] \/ RequestFits(r)'

\* One row is replaced.
LEMMA RowStep ==
  ASSUME AccInv, Others, NEW u \in User, NEW new \in UserRow, user' = [user EXCEPT ![u] = new],
         Follows(user[u], new), changes' \in 0..MaxChanges, changes' >= changes,
         new.version <= changes' + 1, new.password <= changes' + 1,
         new.failures <= FailureLimit, new.lock = "none" => new.failures < FailureLimit,
         \/ new.role = user[u].role /\ new.enabled = user[u].enabled
         \/ ~Dismisses(u, new.role, new.enabled)
         \/ user[u].role = "absent"
  PROVE  AccInv'
<1>1. /\ user'[u] = new /\ \A v \in User \ {u} : user'[v] = user[v]
      /\ user' \in [User -> UserRow]
  BY DEF AccInv
<1>2. \A v \in User : user[v].version \in Nat /\ user[v].password \in Nat
  BY RowFields DEF AccInv
<1>3. changes \in Nat /\ changes' \in Nat /\ new.version \in Nat /\ new.password \in Nat
  BY RowFields, AccLimits DEF AccInv
<1>4. ASSUME NEW v \in User
      PROVE  /\ user'[v].version <= changes' + 1 /\ user'[v].password <= changes' + 1
             /\ FailuresFit(v)'
  <2>1. CASE v = u
    BY <1>1, <2>1 DEF FailuresFit
  <2>2. CASE v # u
    BY <1>1, <1>2, <1>3, <2>2 DEF AccInv, FailuresFit
  <2> QED
    BY <2>1, <2>2
<1>5. ASSUME NEW r \in Browser
      PROVE  CookieFits(r)'
  <2>1. CASE session'[r] = session[r]
    BY <1>5, <2>1, CookiesFollow
  <2> QED
    BY <1>5, <2>1 DEF Others
<1>7. \A r \in Browser : RequestFits(r)'
  <2>1. \A v \in User : Present(v) => Present(v)'
    BY <1>1 DEF Present, Follows
  <2>2. \A r \in Browser : request[r].user \in User
    BY DEF AccInv, RequestRow
  <2> QED
    BY <2>1, <2>2 DEF AccInv, RequestFits, Others
<1>6. LastAdministrator'
  <2>1. PICK w \in EnabledAdministrators : TRUE
    BY DEF AccInv, LastAdministrator
  <2>2. w \in User /\ user[w].role = "administrator" /\ user[w].enabled
    BY DEF EnabledAdministrators
  <2>3. CASE w # u
    BY <1>1, <2>2, <2>3 DEF EnabledAdministrators, LastAdministrator
  <2>4. CASE w = u /\ new.role = user[u].role /\ new.enabled = user[u].enabled
    BY <1>1, <2>2, <2>4 DEF EnabledAdministrators, LastAdministrator
  <2>5. CASE w = u /\ ~Dismisses(u, new.role, new.enabled)
    <3>1. CASE new.role = "administrator" /\ new.enabled
      BY <1>1, <3>1 DEF EnabledAdministrators, LastAdministrator
    <3>2. CASE EnabledAdministrators # {u}
      <4>1. PICK v \in EnabledAdministrators : v # u
        BY <2>1, <3>2
      <4>2. v \in User /\ user[v].role = "administrator" /\ user[v].enabled
        BY DEF EnabledAdministrators
      <4> QED
        BY <1>1, <4>1, <4>2 DEF EnabledAdministrators, LastAdministrator
    <3> QED
      BY <2>5, <3>1, <3>2 DEF Dismisses
  <2> QED
    BY <2>2, <2>3, <2>4, <2>5
<1> QED
  BY <1>1, <1>4, <1>5, <1>6, <1>7 DEF AccInv, Others

\* Only requests and cookies move.
LEMMA RequestStep ==
  ASSUME AccInv, Others, UNCHANGED <<user, changes>>
  PROVE  AccInv'
<1>1. ASSUME NEW r \in Browser
      PROVE  CookieFits(r)'
  <2>1. CASE session'[r] = session[r]
    BY <1>1, <2>1 DEF AccInv, CookieFits, Present
  <2> QED
    BY <1>1, <2>1 DEF Others
<1>2. ASSUME NEW r \in Browser
      PROVE  RequestFits(r)'
  <2>1. CASE request'[r] = request[r]
    BY <1>2, <2>1 DEF AccInv, RequestFits, Present
  <2> QED
    BY <1>2, <2>1 DEF Others
<1> QED
  BY <1>1, <1>2 DEF AccInv, FailuresFit, LastAdministrator, EnabledAdministrators, Others

LEMMA SnapshotType ==
  ASSUME AccInv, NEW pc \in Pc, NEW u \in User
  PROVE  /\ Snapshot(pc, u) \in RequestRow /\ Snapshot(pc, u).pc = pc
         /\ Snapshot(pc, u).user = u /\ Quiet \in RequestRow /\ Quiet.pc = "idle"
         /\ [Quiet EXCEPT !.pc = pc, !.user = u] \in RequestRow
         /\ [Quiet EXCEPT !.pc = pc, !.user = u].pc = pc
<1>1. /\ user[u] \in UserRow /\ user[u].version \in 1..(MaxChanges + 1)
      /\ user[u].password \in 1..(MaxChanges + 1)
  BY DEF AccInv, UserRow
<1>2. Snapshot(pc, u) \in RequestRow /\ Snapshot(pc, u).pc = pc /\ Snapshot(pc, u).user = u
  BY <1>1 DEF Snapshot, RequestRow
<1>3. "idle" \in Pc /\ 1 \in 1..(MaxChanges + 1)
  BY AccLimits DEF Pc
<1>4. Quiet \in RequestRow /\ Quiet.pc = "idle"
  BY <1>3, AccLimits DEF Quiet, RequestRow
<1>6. /\ [Quiet EXCEPT !.pc = pc, !.user = u] \in RequestRow
      /\ [Quiet EXCEPT !.pc = pc, !.user = u].pc = pc
  BY <1>4 DEF RequestRow
<1> QED
  BY <1>2, <1>4, <1>6

\* One request moves, and no cookie.
LEMMA RequestMoves ==
  ASSUME AccInv, NEW r \in Browser, NEW new \in RequestRow,
         request' = [request EXCEPT ![r] = new], session' = session,
         new.pc # "succeed" \/ Present(new.user)'
  PROVE  Others
<1>1. /\ request' \in [Browser -> RequestRow] /\ request'[r] = new
      /\ \A q \in Browser \ {r} : request'[q] = request[q]
  BY DEF AccInv
<1>2. RequestFits(r)'
  BY <1>1 DEF RequestFits
<1> QED
  BY <1>1, <1>2 DEF AccInv, Others

LEMMA AnsweredFits ==
  ASSUME AccInv, NEW r \in Browser, Answers(r)
  PROVE  /\ request[r].user \in User
         /\ request' \in [Browser -> RequestRow]
         /\ \A q \in Browser : request'[q] = request[q] \/ RequestFits(q)'
         /\ session' = session => Others
<1>1. Quiet \in RequestRow /\ Quiet.pc = "idle"
  BY AccLimits DEF Quiet, RequestRow, Pc
<1>2. /\ request' \in [Browser -> RequestRow] /\ request'[r] = Quiet
      /\ \A q \in Browser \ {r} : request'[q] = request[q]
  BY <1>1 DEF Answers, AccInv
<1>3. RequestFits(r)'
  BY <1>1, <1>2 DEF RequestFits
<1> QED
  BY <1>2, <1>3 DEF AccInv, RequestRow, Others

\* A change of a row, and the version it is counted by.
LEMMA ChangesCount ==
  ASSUME AccInv, Changes, NEW u \in User
  PROVE  /\ changes' \in 0..MaxChanges /\ changes' >= changes /\ changes \in Nat
         /\ user[u].version + 1 \in 1..(MaxChanges + 1)
         /\ user[u].password + 1 \in 1..(MaxChanges + 1)
         /\ user[u].version + 1 <= changes' + 1 /\ user[u].password + 1 <= changes' + 1
         /\ user[u].version + 1 > user[u].version
<1>1. changes \in Nat /\ changes' = changes + 1 /\ changes < MaxChanges /\ MaxChanges \in Nat
  BY AccLimits DEF Changes, AccInv
<1>2. /\ user[u].version \in Nat /\ user[u].version >= 1 /\ user[u].version <= changes + 1
      /\ user[u].password \in Nat /\ user[u].password >= 1 /\ user[u].password <= changes + 1
  BY RowFields DEF AccInv
<1> QED
  BY <1>1, <1>2

LEMMA LoginHolds ==
  ASSUME AccInv, NEW r \in Browser, LoginSucceeds(r)
  PROVE  AccInv'
<1> DEFINE u == request[r].user
           new == [user[u] EXCEPT !.failures = 0, !.lock = "none"]
           cookie == [user |-> u, version |-> user[u].version,
                      password |-> request[r].password, role |-> user[u].role]
<1>1. /\ u \in User /\ changes' = changes /\ request' \in [Browser -> RequestRow]
      /\ \A q \in Browser : request'[q] = request[q] \/ RequestFits(q)'
      /\ session' = session => Others
  BY AnsweredFits DEF LoginSucceeds
<1>2. user \in [User -> UserRow] /\ user[u] \in UserRow /\ request[r] \in RequestRow
  BY <1>1 DEF AccInv
<1>3. CASE UNCHANGED <<user, session>>
  BY <1>1, <1>3, RequestStep
<1>4. CASE Admits(r)
  <2>1. user' = [user EXCEPT ![u] = new] /\ session' = [session EXCEPT ![r] = cookie]
    BY <1>2, <1>4 DEF LoginSucceeds
  <2>2. request[r].password = user[u].password /\ user[u].role # "absent"
    BY <1>4 DEF Admits, StillCurrent, LoginSucceeds, AccInv, RequestFits, Present
  <2>3. /\ new \in UserRow /\ new.version = user[u].version /\ new.password = user[u].password
        /\ new.role = user[u].role /\ new.enabled = user[u].enabled
        /\ new.failures = 0 /\ new.lock = "none"
    <3>1. 0 \in 0..FailureLimit /\ "none" \in {"none", "ahead", "past"}
      BY AccLimits
    <3> QED
      BY <1>2, <3>1 DEF UserRow
  <2>4. /\ cookie \in Cookie /\ cookie \in Cookies /\ cookie.user = u
        /\ cookie.version = user[u].version /\ cookie.password = user[u].password
        /\ cookie.role = user[u].role
    BY <1>1, <1>2, <2>2, RowFields DEF UserRow, Cookie, Cookies
  <2> HIDE DEF new, cookie
  <2>5. user'[u] = new
    BY <1>1, <1>2, <2>1
  <2>6. /\ session' \in [Browser -> Cookie \cup {Nothing}] /\ session'[r] = cookie
        /\ \A q \in Browser \ {r} : session'[q] = session[q]
    BY <2>1, <2>4 DEF AccInv
  <2>7. CookieFits(r)'
    BY <1>2, <2>2, <2>3, <2>4, <2>5, <2>6, RowFields DEF CookieFits, Present
  <2>8. Others
    BY <1>1, <2>6, <2>7 DEF Others
  <2>9. /\ changes' \in 0..MaxChanges /\ changes' >= changes
        /\ new.version <= changes' + 1 /\ new.password <= changes' + 1
        /\ new.failures <= FailureLimit /\ new.failures < FailureLimit
    BY <1>1, <2>3, AccLimits DEF AccInv
  <2> QED
    BY <1>1, <2>1, <2>3, <2>8, <2>9, RowStep DEF Follows
<1> QED
  BY <1>3, <1>4 DEF LoginSucceeds

LEMMA FailureHolds ==
  ASSUME AccInv, NEW r \in Browser, LoginFails(r)
  PROVE  AccInv'
<1> DEFINE u == request[r].user
           new == Failed(user[u])
<1>1. u \in User /\ changes' = changes /\ session' = session /\ Others
  BY AnsweredFits DEF LoginFails
<1>2. user[u] \in UserRow
  BY <1>1 DEF AccInv
<1>3. CASE user' = user
  BY <1>1, <1>3, RequestStep
<1>4. CASE Counts(r) /\ user' = [user EXCEPT ![u] = new]
  <2>1. /\ user[u].failures \in Nat /\ user[u].lock \in {"none", "past"}
        /\ user[u].lock = "none" => user[u].failures < FailureLimit
    BY <1>1, <1>2, <1>4, RowFields DEF Counts, AccInv, FailuresFit
  <2>2. \E n \in 1..FailureLimit : \E l \in {"none", "ahead"} :
          /\ new = [user[u] EXCEPT !.failures = n, !.lock = l]
          /\ l = "none" => n < FailureLimit
    <3> DEFINE n == IF user[u].lock = "past" THEN 1 ELSE user[u].failures + 1
               l == IF n >= FailureLimit THEN "ahead" ELSE "none"
    <3>1. n \in 1..FailureLimit
      BY <2>1, AccLimits
    <3>2. l \in {"none", "ahead"} /\ (l = "none" => n < FailureLimit)
      BY <3>1, AccLimits
    <3>3. new = [user[u] EXCEPT !.failures = n, !.lock = l]
      BY DEF Failed
    <3> QED
      BY <3>1, <3>2, <3>3
  <2>3. PICK n \in 1..FailureLimit, l \in {"none", "ahead"} :
          /\ new = [user[u] EXCEPT !.failures = n, !.lock = l]
          /\ l = "none" => n < FailureLimit
    BY <2>2
  <2>4. /\ new \in UserRow /\ new.version = user[u].version /\ new.password = user[u].password
        /\ new.role = user[u].role /\ new.enabled = user[u].enabled
        /\ new.failures = n /\ new.lock = l
    <3>1. n \in 0..FailureLimit /\ l \in {"none", "ahead", "past"}
      BY <2>3, AccLimits
    <3> HIDE DEF new
    <3> QED
      BY <1>2, <2>3, <3>1 DEF UserRow
  <2> HIDE DEF new
  <2>5. /\ changes' \in 0..MaxChanges /\ changes' >= changes
        /\ new.version <= changes' + 1 /\ new.password <= changes' + 1
        /\ new.failures <= FailureLimit /\ (new.lock = "none" => new.failures < FailureLimit)
    BY <1>1, <2>3, <2>4, AccLimits DEF AccInv
  <2> QED
    BY <1>1, <1>4, <2>4, <2>5, RowStep DEF Follows
<1> QED
  BY <1>3, <1>4 DEF LoginFails

LEMMA LockHolds ==
  ASSUME AccInv, NEW u \in User, LockExpires(u)
  PROVE  AccInv'
<1> DEFINE new == [user[u] EXCEPT !.lock = "past"]
<1>1. /\ user' = [user EXCEPT ![u] = new] /\ changes' = changes /\ Others
      /\ user[u] \in UserRow
  BY DEF LockExpires, AccInv, Others
<1>2. /\ new \in UserRow /\ new.version = user[u].version /\ new.password = user[u].password
      /\ new.role = user[u].role /\ new.enabled = user[u].enabled
      /\ new.failures = user[u].failures /\ new.lock = "past"
  BY <1>1 DEF UserRow
<1> HIDE DEF new
<1>3. /\ changes' \in 0..MaxChanges /\ changes' >= changes
      /\ new.version <= changes' + 1 /\ new.password <= changes' + 1
      /\ new.failures <= FailureLimit
  BY <1>1, <1>2, AccLimits DEF AccInv, FailuresFit
<1> QED
  BY <1>1, <1>2, <1>3, RowStep DEF Follows

LEMMA UpdateHolds ==
  ASSUME AccInv, NEW r \in Browser, NEW role \in Role, NEW enabled \in BOOLEAN,
         UpdateAccess(r, role, enabled)
  PROVE  AccInv'
<1> DEFINE u == request[r].user
           new == [user[u] EXCEPT !.role = role, !.enabled = enabled,
                                  !.version = user[u].version + 1]
<1>1. u \in User /\ session' = session /\ Others
  BY AnsweredFits DEF UpdateAccess
<1>2. user[u] \in UserRow /\ user \in [User -> UserRow]
  BY <1>1 DEF AccInv
<1>3. CASE UNCHANGED <<user, changes>>
  BY <1>1, <1>3, RequestStep
<1>4. CASE Changes /\ ~Dismisses(u, role, enabled) /\ user' = [user EXCEPT ![u] = new]
  <2>1. /\ changes' \in 0..MaxChanges /\ changes' >= changes
        /\ user[u].version + 1 \in 1..(MaxChanges + 1)
        /\ user[u].version + 1 <= changes' + 1 /\ user[u].version + 1 > user[u].version
        /\ user[u].password <= changes' + 1
    <3>1. user[u].password \in Nat
      BY <1>2, RowFields
    <3> QED
      BY <1>1, <1>4, <3>1, ChangesCount DEF AccInv
  <2>2. /\ new \in UserRow /\ new.version = user[u].version + 1
        /\ new.password = user[u].password /\ new.role = role /\ new.enabled = enabled
        /\ new.failures = user[u].failures /\ new.lock = user[u].lock
    BY <1>2, <2>1 DEF UserRow
  <2> HIDE DEF new
  <2>3. new.failures <= FailureLimit /\ (new.lock = "none" => new.failures < FailureLimit)
    BY <1>1, <2>2 DEF AccInv, FailuresFit
  <2>4. Follows(user[u], new)
    BY <2>1, <2>2 DEF Follows, Role
  <2> QED
    BY <1>1, <1>4, <2>1, <2>2, <2>3, <2>4, RowStep
<1> QED
  BY <1>2, <1>3, <1>4 DEF UpdateAccess

\* A row with a new password, or only a new version.
LEMMA RekeyHolds ==
  ASSUME AccInv, Others, Changes, NEW u \in User, NEW new \in UserRow,
         user' = [user EXCEPT ![u] = new], new.role = user[u].role,
         new.enabled = user[u].enabled, new.version = user[u].version + 1,
         new.password \in {user[u].password, user[u].password + 1},
         \/ new.failures = 0
         \/ new.failures = user[u].failures /\ new.lock = user[u].lock
  PROVE  AccInv'
<1>1. user[u] \in UserRow /\ user[u].password \in Nat
  BY RowFields DEF AccInv
<1>2. /\ changes' \in 0..MaxChanges /\ changes' >= changes
      /\ new.version <= changes' + 1 /\ new.version > user[u].version
      /\ new.password <= changes' + 1
  BY <1>1, ChangesCount DEF AccInv
<1>3. new.failures <= FailureLimit /\ (new.lock = "none" => new.failures < FailureLimit)
  BY AccLimits DEF AccInv, FailuresFit
<1> QED
  BY <1>2, <1>3, RowStep DEF Follows

LEMMA RekeyedType ==
  ASSUME AccInv, Changes, NEW u \in User, NEW mustChange \in BOOLEAN
  PROVE  /\ Rekeyed(user[u], mustChange) \in UserRow
         /\ Rekeyed(user[u], mustChange).role = user[u].role
         /\ Rekeyed(user[u], mustChange).enabled = user[u].enabled
         /\ Rekeyed(user[u], mustChange).version = user[u].version + 1
         /\ Rekeyed(user[u], mustChange).password = user[u].password + 1
         /\ Rekeyed(user[u], mustChange).failures = 0
         /\ Rekeyed(user[u], mustChange).mustChange = mustChange
<1>1. /\ user[u] \in UserRow /\ 0 \in 0..FailureLimit
      /\ user[u].version + 1 \in 1..(MaxChanges + 1)
      /\ user[u].password + 1 \in 1..(MaxChanges + 1)
  BY ChangesCount, AccLimits DEF AccInv
<1> QED
  BY <1>1 DEF Rekeyed, UserRow

LEMMA PasswordHolds ==
  ASSUME AccInv, NEW r \in Browser, ResetPassword(r) \/ RevokeSessions(r) \/ ReplacePassword(r)
  PROVE  AccInv'
<1> DEFINE u == request[r].user
<1>1. u \in User /\ session' = session /\ Others
  BY AnsweredFits DEF ResetPassword, RevokeSessions, ReplacePassword
<1>2. user[u] \in UserRow
  BY <1>1 DEF AccInv
<1> HIDE DEF u
<1>3. CASE UNCHANGED <<user, changes>>
  BY <1>1, <1>3, RequestStep
<1>4. ASSUME NEW mustChange \in BOOLEAN, Changes,
             user' = [user EXCEPT ![u] = Rekeyed(user[u], mustChange)]
      PROVE  AccInv'
  BY <1>1, <1>4, RekeyedType, RekeyHolds
<1>5. CASE Changes /\ user' = [user EXCEPT ![u].version = user[u].version + 1]
  <2> DEFINE new == [user[u] EXCEPT !.version = user[u].version + 1]
  <2>1. user[u].version + 1 \in 1..(MaxChanges + 1)
    BY <1>1, <1>5, ChangesCount
  <2>2. /\ new \in UserRow /\ new.version = user[u].version + 1
        /\ new.password = user[u].password /\ new.role = user[u].role
        /\ new.enabled = user[u].enabled
        /\ new.failures = user[u].failures /\ new.lock = user[u].lock
    BY <1>2, <2>1 DEF UserRow
  <2>3. user' = [user EXCEPT ![u] = new]
    BY <1>5
  <2> HIDE DEF new
  <2> QED
    BY <1>1, <1>5, <2>2, <2>3, RekeyHolds
<1>6. CASE ResetPassword(r)
  BY <1>4, <1>6 DEF ResetPassword, u
<1>7. CASE RevokeSessions(r)
  BY <1>5, <1>7 DEF RevokeSessions, u
<1>8. CASE ReplacePassword(r)
  BY <1>3, <1>4, <1>8 DEF ReplacePassword, u
<1> QED
  BY <1>6, <1>7, <1>8

LEMMA CreateHolds ==
  ASSUME AccInv, NEW r \in Browser, NEW role \in Role, CreateUser(r, role)
  PROVE  AccInv'
<1> DEFINE u == request[r].user
           new == NewRow(role, TRUE)
<1>1. u \in User /\ session' = session /\ changes' = changes /\ Others
  BY AnsweredFits DEF CreateUser
<1>2. CASE user' = user
  BY <1>1, <1>2, RequestStep
<1>3. CASE ~Present(u) /\ user' = [user EXCEPT ![u] = new]
  <2>1. /\ new \in UserRow /\ new.version = 1 /\ new.password = 1 /\ new.role = role
        /\ new.failures = 0 /\ user[u].role = "absent"
    BY <1>3, AccLimits DEF NewRow, UserRow, Present
  <2> HIDE DEF new
  <2>2. /\ changes' \in 0..MaxChanges /\ changes' >= changes
        /\ new.version <= changes' + 1 /\ new.password <= changes' + 1
        /\ new.failures <= FailureLimit /\ new.failures < FailureLimit
    BY <1>1, <2>1, AccLimits DEF AccInv
  <2> QED
    BY <1>1, <1>3, <2>1, <2>2, RowStep DEF Follows
<1> QED
  BY <1>2, <1>3 DEF CreateUser

\* A request that begins or goes on.
LEMMA BeginHolds ==
  ASSUME AccInv, NEW r \in Browser,
         \/ \E u \in User, right \in BOOLEAN : BeginLogin(r, u, right)
         \/ \E pc \in Pc, u \in User : BeginAdministration(r, pc, u)
         \/ BeginChange(r) \/ \E right \in BOOLEAN : CheckCurrentPassword(r, right)
         \/ EndSession(r)
  PROVE  AccInv'
<1>1. \A u \in User : /\ Snapshot("succeed", u) \in RequestRow /\ Snapshot("fail", u) \in RequestRow
                      /\ Snapshot("update", u) \in RequestRow
                      /\ Snapshot("replace", u) \in RequestRow
                      /\ \A pc \in Pc : /\ [Quiet EXCEPT !.pc = pc, !.user = u] \in RequestRow
                                        /\ [Quiet EXCEPT !.pc = pc, !.user = u].pc = pc
  <2>1. {"succeed", "fail", "update", "replace"} \subseteq Pc
    BY DEF Pc
  <2> QED
    BY <2>1, SnapshotType
<1>2. ASSUME NEW u \in User, NEW right \in BOOLEAN, BeginLogin(r, u, right)
      PROVE  AccInv'
  <2>1. Present(u)' /\ session' = session /\ UNCHANGED <<user, changes>>
    BY <1>2 DEF BeginLogin, Present
  <2>2. \A pc : Snapshot(pc, u).user = u
    BY DEF Snapshot
  <2>3. Others
    <3>1. PICK new \in RequestRow : new.user = u /\ request' = [request EXCEPT ![r] = new]
      BY <1>1, <1>2, <2>2 DEF BeginLogin
    <3> QED
      BY <2>1, <3>1, RequestMoves
  <2> QED
    BY <2>1, <2>3, RequestStep
<1>3. ASSUME NEW pc \in Pc, NEW u \in User, BeginAdministration(r, pc, u)
      PROVE  AccInv'
  <2>1. session' = session /\ UNCHANGED <<user, changes>> /\ pc # "succeed"
    BY <1>3 DEF BeginAdministration
  <2>2. \A k : Snapshot(k, u).pc = k
    BY DEF Snapshot
  <2>3. Others
    BY <1>1, <1>3, <2>1, <2>2, RequestMoves DEF BeginAdministration
  <2> QED
    BY <2>1, <2>3, RequestStep
<1>4. CASE BeginChange(r)
  <2>1. session' = session /\ UNCHANGED <<user, changes>> /\ "change" \in Pc
    BY <1>4 DEF BeginChange, Pc
  <2>2. session[r].user \in User
    BY AccLimits DEF AccInv, Cookie, Nothing
  <2>3. Others
    BY <1>1, <1>4, <2>1, <2>2, RequestMoves DEF BeginChange
  <2> QED
    BY <2>1, <2>3, RequestStep
<1>5. ASSUME NEW right \in BOOLEAN, CheckCurrentPassword(r, right)
      PROVE  AccInv'
  <2>1. /\ session' = session /\ UNCHANGED <<user, changes>>
        /\ request[r].user \in User /\ Quiet \in RequestRow /\ Quiet.pc = "idle"
    BY <1>5, AccLimits, SnapshotType DEF CheckCurrentPassword, AccInv, RequestRow, Quiet, Pc
  <2>2. \A k, v : Snapshot(k, v).pc = k
    BY DEF Snapshot
  <2>3. Others
    <3> DEFINE u == request[r].user
    <3>0. Snapshot("replace", u) \in RequestRow /\ Snapshot("replace", u).pc = "replace"
      BY <1>1, <2>1, <2>2
    <3>1. PICK new \in {Snapshot("replace", u), Quiet} : request' = [request EXCEPT ![r] = new]
      BY <1>5 DEF CheckCurrentPassword
    <3>2. new \in RequestRow /\ new.pc # "succeed"
      BY <2>1, <3>0
    <3> QED
      BY <2>1, <3>1, <3>2, RequestMoves
  <2> QED
    BY <2>1, <2>3, RequestStep
<1>6. CASE EndSession(r)
  <2>1. /\ UNCHANGED <<user, request, changes>>
        /\ session' \in [Browser -> Cookie \cup {Nothing}] /\ session'[r] = Nothing
        /\ \A q \in Browser \ {r} : session'[q] = session[q]
    BY <1>6 DEF EndSession, AccInv
  <2>2. Others
    BY <2>1 DEF AccInv, CookieFits, Others
  <2> QED
    BY <2>1, <2>2, RequestStep
<1> QED
  BY <1>2, <1>3, <1>4, <1>5, <1>6

LEMMA AccStays ==
  ASSUME AccInv, [AccNext]_accVars
  PROVE  AccInv'
<1>1. CASE UNCHANGED accVars
  BY <1>1, RequestStep DEF accVars, AccInv, Others
<1> QED
  BY <1>1, LoginHolds, FailureHolds, LockHolds, UpdateHolds, PasswordHolds, CreateHolds, BeginHolds
     DEF AccNext

LEMMA AccStarts ==
  ASSUME AccInit
  PROVE  AccInv
<1>1. PICK role \in [User -> Role \cup {"absent"}] :
        role[Root] = "administrator" /\ user = [u \in User |-> NewRow(role[u], FALSE)]
  BY DEF AccInit
<1>2. \A k \in Role \cup {"absent"} :
        /\ NewRow(k, FALSE) \in UserRow /\ NewRow(k, FALSE).role = k
        /\ NewRow(k, FALSE).enabled = TRUE /\ NewRow(k, FALSE).version = 1
        /\ NewRow(k, FALSE).password = 1 /\ NewRow(k, FALSE).failures = 0
  BY AccLimits DEF NewRow, UserRow
<1>3. /\ user \in [User -> UserRow]
      /\ \A u \in User : user[u].version = 1 /\ user[u].password = 1 /\ user[u].failures = 0
      /\ user[Root].role = "administrator" /\ user[Root].enabled
  BY <1>1, <1>2, AccLimits
<1>4. changes = 0 /\ changes \in 0..MaxChanges
  BY AccLimits DEF AccInit
<1>5. \A u \in User : /\ user[u].version <= changes + 1 /\ user[u].password <= changes + 1
                       /\ FailuresFit(u)
  BY <1>3, <1>4, AccLimits DEF FailuresFit
<1>6. /\ session \in [Browser -> Cookie \cup {Nothing}] /\ \A r \in Browser : CookieFits(r)
      /\ request \in [Browser -> RequestRow] /\ \A r \in Browser : RequestFits(r)
  BY AccLimits DEF AccInit, CookieFits, RequestFits, Quiet, RequestRow, Pc
<1>7. LastAdministrator
  BY <1>3, AccLimits DEF LastAdministrator, EnabledAdministrators
<1> QED
  BY <1>3, <1>4, <1>5, <1>6, <1>7 DEF AccInv

\* A new cookie is that of a login that was admitted.
LEMMA NoLockedLogin ==
  ASSUME AccInv, [AccNext]_accVars, NEW r \in Browser, session'[r] \notin {session[r], Nothing}
  PROVE  user[session'[r].user].lock # "ahead"
<1>1. \A q \in Browser : LoginSucceeds(q) => q = r
  BY DEF LoginSucceeds, AccInv
<1>2. LoginSucceeds(r)
  <2>1. session' # session
    OBVIOUS
  <2>2. ~ \E q \in Browser : EndSession(q)
    BY DEF EndSession, AccInv
  <2> QED
    BY <1>1, <2>1, <2>2 DEF AccNext, accVars, BeginLogin, LoginFails, LockExpires,
       BeginAdministration, UpdateAccess, ResetPassword, RevokeSessions, ReplacePassword, CreateUser, BeginChange,
       CheckCurrentPassword
<1>3. Admits(r) /\ session'[r].user = request[r].user
  BY <1>2 DEF LoginSucceeds, AccInv
<1> QED
  BY <1>3 DEF Admits

\* Whoever ends the duty to change a password knew the password.
LEMMA ResetStays ==
  ASSUME AccInv, [AccNext]_accVars, NEW u \in User, user[u].mustChange, ~user'[u].mustChange
  PROVE  \E r \in Browser : request[r].pc = "replace" /\ request[r].user = u
                            /\ request[r].password = user[u].password
<1>0. /\ user \in [User -> UserRow] /\ \A r \in Browser : request[r].user \in User
      /\ \A v \in User : user[v] \in UserRow
  BY DEF AccInv, RequestRow
<1>1. user' # user
  OBVIOUS
<1>2. \E r \in Browser : ReplacePassword(r)
  <2>1. ASSUME NEW v \in User, NEW new, user' = [user EXCEPT ![v] = new],
               new.mustChange = user[v].mustChange \/ new.mustChange = TRUE
        PROVE  FALSE
    BY <1>0, <2>1
  <2>2. ASSUME NEW r \in Browser, LoginSucceeds(r)
        PROVE  FALSE
    <3>1. user' = [user EXCEPT ![request[r].user] =
                     [user[request[r].user] EXCEPT !.failures = 0, !.lock = "none"]]
      BY <1>0, <1>1, <2>2 DEF LoginSucceeds
    <3>2. [user[request[r].user] EXCEPT !.failures = 0, !.lock = "none"].mustChange
          = user[request[r].user].mustChange
      BY <1>0, <2>2 DEF UserRow
    <3> QED
      BY <1>0, <2>1, <2>2, <3>1, <3>2
  <2>3. ASSUME NEW r \in Browser, LoginFails(r)
        PROVE  FALSE
    <3>1. user' = [user EXCEPT ![request[r].user] = Failed(user[request[r].user])]
      BY <1>1, <2>3 DEF LoginFails
    <3>2. Failed(user[request[r].user]).mustChange = user[request[r].user].mustChange
      BY <1>0, <2>3 DEF UserRow, Failed
    <3> QED
      BY <1>0, <2>1, <2>3, <3>1, <3>2
  <2>4. ASSUME NEW v \in User, LockExpires(v)
        PROVE  FALSE
    <3>1. user' = [user EXCEPT ![v] = [user[v] EXCEPT !.lock = "past"]]
      BY <2>4 DEF LockExpires
    <3>2. [user[v] EXCEPT !.lock = "past"].mustChange = user[v].mustChange
      BY <1>0, <2>4 DEF UserRow
    <3> QED
      BY <2>1, <2>4, <3>1, <3>2
  <2>5. ASSUME NEW r \in Browser, NEW role \in Role, NEW enabled \in BOOLEAN,
               UpdateAccess(r, role, enabled)
        PROVE  FALSE
    <3> DEFINE v == request[r].user
    <3>1. user' = [user EXCEPT ![v] = [user[v] EXCEPT !.role = role, !.enabled = enabled,
                                                      !.version = user[v].version + 1]]
      BY <1>0, <1>1, <2>5 DEF UpdateAccess
    <3>2. [user[v] EXCEPT !.role = role, !.enabled = enabled,
                          !.version = user[v].version + 1].mustChange = user[v].mustChange
      BY <1>0, <2>5 DEF UserRow
    <3> QED
      BY <1>0, <2>1, <2>5, <3>1, <3>2
  <2>6. ASSUME NEW r \in Browser, ResetPassword(r)
        PROVE  FALSE
    <3>1. /\ user' = [user EXCEPT ![request[r].user] = Rekeyed(user[request[r].user], TRUE)]
          /\ Changes
      BY <2>6 DEF ResetPassword
    <3> QED
      BY <1>0, <2>1, <2>6, <3>1, RekeyedType
  <2>7. ASSUME NEW r \in Browser, RevokeSessions(r)
        PROVE  FALSE
    <3> DEFINE v == request[r].user
    <3>1. user' = [user EXCEPT ![v] = [user[v] EXCEPT !.version = user[v].version + 1]]
      BY <2>7 DEF RevokeSessions
    <3>2. [user[v] EXCEPT !.version = user[v].version + 1].mustChange = user[v].mustChange
      BY <1>0, <2>7 DEF UserRow
    <3> QED
      BY <1>0, <2>1, <2>7, <3>1, <3>2
  <2>8. ASSUME NEW r \in Browser, NEW role \in Role, CreateUser(r, role)
        PROVE  FALSE
    <3>1. user' = [user EXCEPT ![request[r].user] = NewRow(role, TRUE)]
      BY <1>1, <2>8 DEF CreateUser
    <3>2. NewRow(role, TRUE).mustChange = TRUE
      BY DEF NewRow
    <3> QED
      BY <1>0, <2>1, <2>8, <3>1, <3>2
  <2> QED
    BY <1>1, <2>2, <2>3, <2>4, <2>5, <2>6, <2>7, <2>8 DEF AccNext, accVars, BeginLogin,
       BeginAdministration, BeginChange, CheckCurrentPassword, EndSession
<1>3. PICK r \in Browser : ReplacePassword(r)
  BY <1>2
<1>4. /\ request[r].pc = "replace" /\ Replaces(r)
      /\ user' = [user EXCEPT ![request[r].user] = Rekeyed(user[request[r].user], FALSE)]
  BY <1>1, <1>3 DEF ReplacePassword
<1>5. request[r].user = u
  BY <1>0, <1>4
<1> QED
  BY <1>4, <1>5 DEF Replaces, StillCurrent

\* What a request checked outside its transaction still holds when it commits, for any
\* users, browsers and limits: there is an administrator, no count of failures passes its
\* limit unlocked, no cookie outlives the password or the role it was issued for, nobody
\* who is locked logs in, and a temporary password is replaced by who knew it.
THEOREM AccountsAreSafe == AccSpec => AccountsHold
<1>1. AccInit => AccInv
  BY AccStarts
<1>2. AccInv /\ [AccNext]_accVars => AccInv'
  BY AccStays
<1>3. AccInv => AccountsTypeOK /\ LastAdministrator /\ GuessesBounded /\ SessionIsCurrent
  <2> SUFFICES ASSUME AccInv
               PROVE  AccountsTypeOK /\ LastAdministrator /\ GuessesBounded /\ SessionIsCurrent
    OBVIOUS
  <2>1. AccountsTypeOK /\ LastAdministrator
    BY DEF AccInv, AccountsTypeOK
  <2>2. GuessesBounded
    <3> SUFFICES ASSUME NEW u \in User
                 PROVE  /\ user[u].failures <= FailureLimit
                        /\ user[u].failures = FailureLimit => user[u].lock # "none"
      BY DEF GuessesBounded
    <3>1. user[u].failures \in Nat /\ FailureLimit \in Nat
      BY RowFields, AccLimits DEF AccInv
    <3> QED
      BY <3>1 DEF AccInv, FailuresFit
  <2>3. SessionIsCurrent
    <3> SUFFICES ASSUME NEW r \in Browser, Valid(session[r])
                 PROVE  /\ session[r].password = user[session[r].user].password
                        /\ session[r].role = user[session[r].user].role
      BY DEF SessionIsCurrent
    <3>1. session[r] # Nothing
      <4>1. user[Root].version >= 1 /\ user[Root].version \in Nat
        BY RowFields, AccLimits DEF AccInv
      <4> QED
        BY <4>1 DEF Nothing, Valid
    <3> QED
      BY <3>1 DEF AccInv, CookieFits, Valid
  <2> QED
    BY <2>1, <2>2, <2>3
<1>4. AccInv /\ [AccNext]_accVars =>
        [\A r \in Browser : session'[r] \notin {session[r], Nothing} =>
           user[session'[r].user].lock # "ahead"]_accVars
  BY NoLockedLogin
<1>5. AccInv /\ [AccNext]_accVars =>
        [\A u \in User : user[u].mustChange /\ ~user'[u].mustChange =>
           \E r \in Browser : request[r].pc = "replace" /\ request[r].user = u
                              /\ request[r].password = user[u].password]_accVars
  BY ResetStays
<1> QED
  BY <1>1, <1>2, <1>3, <1>4, <1>5, PTL
     DEF AccSpec, AccountsHold, NoLoginWhileLocked, ResetHolds
===============================================================================
