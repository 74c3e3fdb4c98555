--------------------------- MODULE EmailProcessor ---------------------------
(***************************************************************************)
(* process() of the email worker (workers/src/email-worker/processor.ts):  *)
(* one notifications row and one mail per recipient, in the order of the   *)
(* payload, each database statement, Hunter check and SMTP exchange a step *)
(* of its own.                                                             *)
(***************************************************************************)
EXTENDS Delivery

CONSTANTS
    Recipients,  \* length of metadata.recipients, which are 1 .. Recipients
    Malformed    \* those that isEmail() rejects

ASSUME RecipientAssumption == Recipients \in Nat /\ Malformed \subseteq 1 .. Recipients

VARIABLES
    note,    \* status of the notifications row of each job and recipient
    mails,   \* mails the SMTP server accepted for them
    loop     \* per worker: recipient, isValid, validEmailsSent

emailVars == <<note, mails, loop>>

Notes == Job \X (1 .. Recipients)
NoteStatus == {"none", "PENDING", "PROCESSING", "SENT", "FAILED"}

\* Mutant: recipients are counted from 0.
LoopStart_Zero == [i |-> 0, valid |-> FALSE, sent |-> 0]

LoopStart == [i |-> 1, valid |-> FALSE, sent |-> 0]

EmailInit ==
    /\ note = [n \in Notes |-> "none"]
    /\ mails = [n \in Notes |-> 0]
    /\ loop = [w \in Worker |-> LoopStart]

This(w) == <<at[w], loop[w].i>>

SetNote(w, s) == note' = [note EXCEPT ![This(w)] = s]

\* Mutant: the count of sent mails is not looked at.
AfterRecipient_Lenient(w, sent) ==
    /\ loop' = [loop EXCEPT ![w].i = @ + 1, ![w].sent = sent]
    /\ pc' = [pc EXCEPT ![w] = IF loop[w].i < Recipients THEN "verify" ELSE "done"]

\* Mutant: the run throws unless every recipient was sent a mail.
AfterRecipient_Strict(w, sent) ==
    /\ loop' = [loop EXCEPT ![w].i = @ + 1, ![w].sent = sent]
    /\ pc' = [pc EXCEPT ![w] = IF loop[w].i < Recipients THEN "verify"
                               ELSE IF sent < Recipients THEN "throw" ELSE "done"]

\* The next turn of the loop; after the last one the run throws if nothing was sent.
AfterRecipient(w, sent) ==
    /\ loop' = [loop EXCEPT ![w].i = @ + 1, ![w].sent = sent]
    /\ pc' = [pc EXCEPT ![w] = IF loop[w].i < Recipients THEN "verify"
                               ELSE IF sent = 0 THEN "throw" ELSE "done"]

\* A payload without tenantId or recipients throws.
StartEmail(w) ==
    /\ Go(w, "start", IF Recipients = 0 THEN "throw" ELSE "verify")
    /\ loop' = [loop EXCEPT ![w] = LoopStart]
    /\ UNCHANGED <<note, mails>>

\* isEmail(), then HunterService.verify(), which turns every error into false.
Verify(w) ==
    /\ Go(w, "verify", "lookup")
    /\ \E deliverable \in BOOLEAN :
          loop' = [loop EXCEPT ![w].valid = deliverable /\ loop[w].i \notin Malformed]
    /\ UNCHANGED <<note, mails>>

\* The row of an earlier run is used again, whatever its status.
Lookup(w) ==
    /\ Go(w, "lookup", IF note[This(w)] = "none" THEN "create"
                       ELSE IF loop[w].valid THEN "mark" ELSE "reject")
    /\ UNCHANGED emailVars

\* referenceId and (jobId, recipient, channel) are unique: a row created since the
\* lookup makes the insert throw.
CreateNote(w) ==
    /\ pc[w] = "create"
    /\ \/ /\ note[This(w)] # "none"
          /\ Go(w, "create", "throw")
          /\ UNCHANGED <<note, loop>>
       \/ /\ note[This(w)] = "none" /\ loop[w].valid
          /\ Go(w, "create", "mark")
          /\ SetNote(w, "PENDING")
          /\ loop' = loop
       \/ /\ note[This(w)] = "none" /\ ~loop[w].valid
          /\ SetNote(w, "FAILED")
          /\ AfterRecipient(w, loop[w].sent)
    /\ mails' = mails

RejectNote(w) ==
    /\ pc[w] = "reject"
    /\ SetNote(w, "FAILED")
    /\ AfterRecipient(w, loop[w].sent)
    /\ mails' = mails

MarkProcessing(w) ==
    /\ Go(w, "mark", "send")
    /\ SetNote(w, "PROCESSING")
    /\ UNCHANGED <<mails, loop>>

\* STMPProvider.send() answers success or failure and never throws.
SendSucceeds(w) ==
    /\ Go(w, "send", "sent")
    /\ mails' = [mails EXCEPT ![This(w)] = @ + 1]
    /\ UNCHANGED <<note, loop>>

SendFails(w) ==
    /\ Go(w, "send", "unsent")
    /\ UNCHANGED emailVars

MarkSent(w) ==
    /\ pc[w] = "sent"
    /\ SetNote(w, "SENT")
    /\ AfterRecipient(w, loop[w].sent + 1)
    /\ mails' = mails

MarkUnsent(w) ==
    /\ pc[w] = "unsent"
    /\ SetNote(w, "FAILED")
    /\ AfterRecipient(w, loop[w].sent)
    /\ mails' = mails

EmailStep(w) ==
    /\ \/ StartEmail(w) \/ Verify(w) \/ Lookup(w) \/ CreateNote(w) \/ RejectNote(w)
       \/ MarkProcessing(w) \/ SendSucceeds(w) \/ SendFails(w) \/ MarkSent(w) \/ MarkUnsent(w)
    /\ UNCHANGED outerVars

\* A statement fails: inside the try block the catch block takes over, elsewhere the
\* run throws.  At "send" the mail is out and the server's answer is lost.
EmailThrows(w) ==
    /\ Spend("await")
    /\ \/ /\ pc[w] \in {"lookup", "create", "reject", "mark", "unsent"}
          /\ pc' = [pc EXCEPT ![w] = "throw"] /\ mails' = mails
       \/ /\ Go(w, "sent", "unsent") /\ mails' = mails
       \/ /\ Go(w, "send", "unsent") /\ mails' = [mails EXCEPT ![This(w)] = @ + 1]
    /\ UNCHANGED <<note, loop, bull, made, lock, stalls, finished, at>>
=============================================================================
