----------------------------- MODULE Processors -----------------------------
(***************************************************************************)
(* The processors of the workers, each under the deliveries, retries and   *)
(* faults of Delivery: what a job does besides its own rows must bear      *)
(* being done again, since a run can fail or be repeated after any step.   *)
(***************************************************************************)
EXTENDS EmailProcessor, EtlProcessor, FileProcessors, MlProcessor

CONSTANT Loads   \* the sets of jobs to run, as functions from the jobs to their kinds

Kind == {"email", "etl", "text", "ocr"} \cup FileKind

ASSUME LoadAssumption == \A load \in Loads : load \in [DOMAIN load -> Kind] /\ DOMAIN load \subseteq Job

VARIABLE kind    \* what is queued, fixed

effectVars == <<emailVars, etlVars, fileVars, mlVars, kind>>
vars == <<deliveryVars, effectVars>>

Queued == DOMAIN kind
Uses(k) == \E j \in Queued : kind[j] \in k

Init ==
    /\ kind \in Loads
    /\ DeliveryInit(Queued) /\ EmailInit /\ EtlInit /\ FileInit /\ MlInit
    /\ Uses({"etl"}) \/ dep = "missing"
    /\ \A j \in Job : (j \in Queued /\ kind[j] \in FileKind) \/ payload[j] = "good"

Is(w, k) == pc[w] # "idle" /\ kind[at[w]] = k

\* A step of process() in the run that w is in.
ProcessStep(w) ==
    \/ /\ Is(w, "email") /\ EmailStep(w)
       /\ UNCHANGED <<etlVars, fileVars, mlVars, kind>>
    \/ /\ Is(w, "etl") /\ EtlStep(w)
       /\ UNCHANGED <<emailVars, fileVars, mlVars, kind>>
    \/ /\ \E k \in {"transcode", "convert", "image"} : Is(w, k) /\ MediaStep(w, k)
       /\ UNCHANGED <<emailVars, etlVars, mlVars, kind>>
    \/ /\ Is(w, "report") /\ ReportStep(w)
       /\ UNCHANGED <<emailVars, etlVars, mlVars, kind>>
    \/ /\ \E k \in {"text", "ocr"} : Is(w, k) /\ MlStep(w, k)
       /\ UNCHANGED <<emailVars, etlVars, fileVars, kind>>

ProcessThrows(w) ==
    \/ /\ Is(w, "email") /\ EmailThrows(w)
       /\ UNCHANGED <<etlVars, fileVars, mlVars, kind>>
    \/ /\ Is(w, "etl") /\ EtlThrows(w)
       /\ UNCHANGED <<emailVars, fileVars, mlVars, kind>>
    \/ /\ \E k \in FileKind : Is(w, k)
       /\ FileThrows(w)
       /\ UNCHANGED <<emailVars, etlVars, mlVars, kind>>

\* What goes on outside every run.
Background ==
    /\ UNCHANGED <<deliveryVars, emailVars, fileVars, kind>>
    /\ \/ DependencyCompletes /\ UNCHANGED mlVars
       \/ LateStep /\ UNCHANGED etlVars

Next ==
    \/ \E w \in Worker :
          \/ ProcessStep(w) \/ ProcessThrows(w)
          \/ (DeliveryStep(w) \/ DeliveryFault(w)) /\ UNCHANGED effectVars
    \/ Background

Spec == Init /\ [][Next]_vars

-----------------------------------------------------------------------------
(* Properties *)

Quiet(j) == \A w \in Worker : at[w] # j

\* Every variable stays in its domain.
TypeOK ==
    /\ DeliveryTypeOK
    /\ note \in [Notes -> NoteStatus]
    /\ loop \in [Worker -> [i : 1 .. Recipients + 1, valid : BOOLEAN, sent : 0 .. Recipients]]
    /\ files \subseteq {"input", "media", "temp", "report"} \X (1 .. uuid)
    /\ input \in [Worker -> 0 .. uuid] /\ output \in [Worker -> 0 .. uuid]
    /\ late \in [OcrStage -> Nat] /\ started \in Nat

Emails == {j \in Queued : kind[j] = "email"}

\* What one lost lock can cost in mails to a recipient: the run that goes on may create
\* the row of each later recipient just before the run that replaced it, whose insert then
\* throws, and so the next attempt starts from the first recipient again.
Clashes(n) == IF Spent("stall") > 0 THEN Recipients - n[2] ELSE 0

\* The notification rows make a retried email job "idempotent" only while nothing goes
\* wrong: a recipient gets a second mail only after a fault, since a run that sent a mail
\* does not throw by itself, unless two runs of the job create the same row.
MailedAgainOnlyByFault ==
    \A n \in Notes : mails[n] <= 1 + Faulted + Clashes(n)

\* What the rows say of the mails is what happened: SENT only after a mail went out and,
\* as long as nothing fails between the SMTP answer and the update, whenever one did;
\* and an email job is COMPLETED only if some recipient was mailed, though each failure
\* to send is caught and the loop goes on.
MailLedger ==
    /\ \A n \in Notes :
          /\ note[n] = "SENT" => mails[n] > 0
          /\ Faulted = 0 /\ Quiet(n[1]) /\ mails[n] > 0 => note[n] = "SENT"
    /\ \A j \in Emails : j \in finished => \E n \in Notes : n[1] = j /\ mails[n] > 0

EtlJobs == {j \in Queued : kind[j] = "etl"}

\* A completed ETL job has handed its next job to submitJob(), once unless a fault
\* made it run again; a row that nobody submits is left only by a fault.
ChainedOnce ==
    \A j \in EtlJobs :
        /\ j \in finished /\ HasNext => next[j]["submitted"] > 0
        /\ next[j]["submitted"] + next[j]["saved"] <= 1 + Faulted
        /\ Quiet(j) => next[j]["saved"] <= Faulted

\* The downloaded inputs that no run has in hand.
Abandoned == {f \in files : f[1] = "input" /\
                  \A w \in Worker : input[w] # f[2] \/ pc[w] \in {"idle", "find", "start", "return"}}

\* The result a completed media or report job names is on disk, whatever other runs,
\* attempts and clean-ups did to the directories meanwhile; and each way out of a run
\* removes the input it downloaded, save a crash and a failing stat().
FilesKept ==
    /\ \A j \in Queued : j \in finished /\ kind[j] \in FileKind =>
          <<IF kind[j] = "report" THEN "report" ELSE "media", result[j]>> \in files
    /\ Cardinality(Abandoned) <= Faulted

\* The report jobs other than j that have removed the temporary directory.
Cleaners(j) == {k \in Queued \ {j} : kind[k] = "report" /\ result[k] # 0}

\* An attempt of a sound report is lost only to another report that cleans up, and
\* each clean-up costs it one attempt at most: with as many attempts as reports in
\* parallel every one of them is made.
FewReportsLost ==
    \A j \in Queued : kind[j] = "report" /\ payload[j] = "good" /\ Faulted = 0 =>
        made[j] <= IF CleanTemp THEN Cardinality(Cleaners(j)) ELSE 0

\* Once ModelLoader has its Tesseract worker no inference asks for another, even one
\* that a timeout has abandoned; only those that asked before it was there did.
OcrWorkerKept == [][cached => cached' /\ started' = started]_vars
=============================================================================
