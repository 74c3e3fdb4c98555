--------------------------- MODULE ProcessorsProofs ---------------------------
(***************************************************************************)
(* Proofs about Processors for every set of jobs and workers, every number *)
(* of attempts, recipients and faults, and every load.                     *)
(***************************************************************************)
EXTENDS Processors, FiniteSetTheorems, TLAPS

-----------------------------------------------------------------------------
(* The frame: who runs what, and where a run may stand *)

\* The control points of a run in execute() and in each process().
FramePC == {"find", "start", "done", "return", "throw"}
EmailPC == {"verify", "lookup", "create", "reject", "mark", "send", "sent", "unsent"}
EtlPC == {"extract", "load", "upsert", "saveNext", "submitNext"}
MediaPC == {"download", "pipeline", "check", "transcode", "ffmpeg", "fetch", "filter", "upload", "s3"}
ReportPC == {"open", "stat", "copy", "put", "clean"}
MlPC == {"imageOf", "model", "loading", "recognize", "classify"}

PC == {"idle"} \cup FramePC \cup EmailPC \cup EtlPC \cup MediaPC \cup ReportPC \cup MlPC

\* Where process() may stand, by the kind of job.
Steps(k) ==
    CASE k = "email" -> EmailPC
      [] k = "etl" -> EtlPC
      [] k \in {"transcode", "convert", "image"} -> MediaPC
      [] k = "report" -> ReportPC
      [] k \in {"text", "ocr"} -> MlPC

\* A worker is idle or runs a job that was queued, at a step of its kind.
Standing ==
    \A w \in Worker :
        \/ pc[w] = "idle" /\ at[w] = None
        \/ at[w] \in Queued /\ pc[w] \in FramePC \cup Steps(kind[at[w]])

\* A job is active as long as a run holds its lock; while it may be delivered it has an
\* attempt left and has not stalled too often.
Locks ==
    \A j \in Job :
        /\ bull[j] = "active" <=> lock[j] # None
        /\ lock[j] # None => at[lock[j]] = j
        /\ bull[j] \in {"waiting", "active"} => made[j] < MaxAttempts /\ stalls[j] <= MaxStalled
        /\ bull[j] = "absent" <=> j \notin Queued

\* Unless a lock expired, every run holds the lock of its job.
Alone == Spent("stall") = 0 => \A w \in Worker : at[w] # None => lock[at[w]] = w

\* An email run has sent at most one mail for each recipient before this one.
LoopOK ==
    \A w \in Worker : at[w] \in Emails /\ pc[w] \in EmailPC =>
        loop[w].i <= Recipients /\ loop[w].sent < loop[w].i

\* The types, of the machinery and of each processor.
RunTypes ==
    /\ DeliveryTypeOK
    /\ kind \in Loads
    /\ finished \subseteq Queued
    /\ \A f \in FaultKind : budget[f] <= Faults[f]
    /\ pc \in [Worker -> PC]

EmailTypes ==
    /\ note \in [Notes -> NoteStatus] /\ mails \in [Notes -> Nat]
    /\ loop \in [Worker -> [i : 1 .. Recipients + 1, valid : BOOLEAN, sent : 0 .. Recipients]]

EtlTypes == next \in [Job -> [{"saved", "submitted"} -> Int]]

FileTypes ==
    /\ uuid \in Nat /\ files \subseteq {"input", "media", "temp", "report"} \X (1 .. uuid)
    /\ input \in [Worker -> 0 .. uuid] /\ output \in [Worker -> 0 .. uuid]
    /\ result \in [Job -> Nat] /\ payload \in [Job -> {"good", "bad", "large"}]
    /\ tempDir \in BOOLEAN

MlTypes == late \in [OcrStage -> Nat] /\ started \in Nat

Types == RunTypes /\ EmailTypes /\ EtlTypes /\ FileTypes /\ MlTypes

\* Who runs what, and where.
Frame == Types /\ Standing /\ Locks /\ Alone /\ LoopOK

-----------------------------------------------------------------------------
(* What the steps have in common *)

\* A step of the run of w inside process(): nothing that BullMQ keeps changes.
Inner(w) ==
    /\ at[w] \in Queued
    /\ pc[w] # "idle" /\ pc'[w] # "idle"
    /\ pc' = [pc EXCEPT ![w] = pc'[w]]
    /\ UNCHANGED <<bull, made, lock, stalls, finished, at, kind>>

\* A fault is paid for.
Pays(f) == budget[f] > 0 /\ budget' = [budget EXCEPT ![f] = @ - 1]

\* What is queued is a job of some kind.
LEMMA Kinds ==
    ASSUME kind \in Loads
    PROVE  \A j \in Queued : j \in Job /\ kind[j] \in Kind
  BY LoadAssumption DEF Queued

\* What the faults have cost, after a step without one ...
LEMMA SumsStay ==
    ASSUME RunTypes
    PROVE  /\ Faulted \in Nat /\ Spent("stall") \in Nat /\ Spent("stall") <= Faulted
           /\ budget' = budget => Faulted' = Faulted /\ Spent("stall")' = Spent("stall")
  <1>1. \A f \in FaultKind : Faults[f] \in Nat /\ budget[f] \in Nat /\ budget[f] <= Faults[f]
    BY BoundAssumption DEF RunTypes, DeliveryTypeOK
  <1> QED  BY <1>1 DEF Faulted, Spent, FaultKind

\* ... and after a fault.
LEMMA SumsGrow ==
    ASSUME RunTypes, NEW f \in FaultKind, Pays(f)
    PROVE  /\ Faulted' = Faulted + 1
           /\ Spent("stall")' = Spent("stall") + (IF f = "stall" THEN 1 ELSE 0)
           /\ budget' \in [FaultKind -> Nat] /\ \A g \in FaultKind : budget'[g] <= Faults[g]
  <1>1. \A g \in FaultKind : Faults[g] \in Nat /\ budget[g] \in Nat /\ budget[g] <= Faults[g]
    BY BoundAssumption DEF RunTypes, DeliveryTypeOK
  <1>2. budget \in [FaultKind -> Nat]
    BY DEF RunTypes, DeliveryTypeOK
  <1>3. \A g \in FaultKind : budget'[g] = IF g = f THEN budget[g] - 1 ELSE budget[g]
    BY <1>2 DEF Pays
  <1>4. budget[f] - 1 \in Nat
    BY <1>1 DEF Pays
  <1>5. Faults["await"] \in Nat /\ Faults["crash"] \in Nat /\ Faults["stall"] \in Nat
        /\ budget["await"] \in Nat /\ budget["crash"] \in Nat /\ budget["stall"] \in Nat
    BY <1>1 DEF FaultKind
  <1>6. f \in {"await", "crash", "stall"}
    BY DEF FaultKind
  <1>7. /\ budget'["await"] = IF f = "await" THEN budget["await"] - 1 ELSE budget["await"]
        /\ budget'["crash"] = IF f = "crash" THEN budget["crash"] - 1 ELSE budget["crash"]
        /\ budget'["stall"] = IF f = "stall" THEN budget["stall"] - 1 ELSE budget["stall"]
    BY <1>3 DEF FaultKind
  <1>8. Faulted' = Faulted + 1
    BY <1>5, <1>6, <1>7 DEF Faulted, Spent
  <1>9. Spent("stall")' = Spent("stall") + (IF f = "stall" THEN 1 ELSE 0)
    BY <1>5, <1>6, <1>7 DEF Spent
  <1>10. budget' \in [FaultKind -> Nat] /\ \A g \in FaultKind : budget'[g] <= Faults[g]
    BY <1>1, <1>2, <1>3, <1>4 DEF Pays
  <1> QED  BY <1>8, <1>9, <1>10

-----------------------------------------------------------------------------
(* Types of the processors, one action at a time *)

\* Where the run of w is after a step, and what the step did to the frame.
Stays(w, k) ==
    /\ Inner(w)
    /\ pc'[w] \in FramePC \cup Steps(k)

\* A step of an email run keeps the types and stays within its own steps ...
LEMMA EmailTypesStep ==
    ASSUME Frame, NEW w \in Worker, Is(w, "email"), EmailStep(w) \/ EmailThrows(w), UNCHANGED kind
    PROVE  EmailTypes' /\ LoopOK' /\ Stays(w, "email")
  <1>1. /\ at[w] \in Emails /\ at[w] \in Queued /\ at[w] \in Job
        /\ pc[w] # "idle" /\ pc[w] \in FramePC \cup EmailPC
    BY Kinds DEF Is, Standing, Emails, Steps, RunTypes, Frame, Types
  <1>2. /\ loop[w] \in [i : 1 .. Recipients + 1, valid : BOOLEAN, sent : 0 .. Recipients]
        /\ Recipients \in Nat /\ pc \in [Worker -> PC]
        /\ note \in [Notes -> NoteStatus] /\ mails \in [Notes -> Nat]
        /\ loop \in [Worker -> [i : 1 .. Recipients + 1, valid : BOOLEAN, sent : 0 .. Recipients]]
    BY RecipientAssumption DEF EmailTypes, RunTypes, Frame, Types
  <1>3. pc[w] \in EmailPC => loop[w].i <= Recipients /\ loop[w].sent < loop[w].i /\ This(w) \in Notes
    BY <1>1, <1>2 DEF LoopOK, This, Notes, Frame
  <1> DEFINE Keeps ==
        /\ note' \in [Notes -> NoteStatus] /\ mails' \in [Notes -> Nat]
        /\ loop' = [loop EXCEPT ![w] = loop'[w]]
        /\ loop'[w] \in [i : 1 .. Recipients + 1, valid : BOOLEAN, sent : 0 .. Recipients]
        /\ pc'[w] \in EmailPC => loop'[w].i <= Recipients /\ loop'[w].sent < loop'[w].i
        /\ pc'[w] \in FramePC \cup EmailPC
        /\ pc' = [pc EXCEPT ![w] = pc'[w]]
  <1>4. ASSUME NEW s \in 0 .. Recipients, AfterRecipient(w, s), pc[w] \in EmailPC, s <= loop[w].i,
               note' \in [Notes -> NoteStatus], mails' = mails
        PROVE  Keeps
    <2>1. loop'[w] = [loop[w] EXCEPT !.i = @ + 1, !.sent = s] /\ loop' = [loop EXCEPT ![w] = loop'[w]]
      BY <1>2, <1>4 DEF AfterRecipient
    <2>2. pc'[w] = IF loop[w].i < Recipients THEN "verify" ELSE IF s = 0 THEN "throw" ELSE "done"
      BY <1>2, <1>4 DEF AfterRecipient
    <2>3. pc' = [pc EXCEPT ![w] = pc'[w]]
      BY <1>2, <1>4 DEF AfterRecipient
    <2>0. loop'[w] = [i |-> loop[w].i + 1, valid |-> loop[w].valid, sent |-> s]
      BY <1>2, <2>1
    <2>4. /\ loop'[w].i = loop[w].i + 1 /\ loop'[w].sent = s
          /\ loop'[w] \in [i : 1 .. Recipients + 1, valid : BOOLEAN, sent : 0 .. Recipients]
      BY <1>2, <1>3, <1>4, <2>0
    <2> QED  BY <1>2, <1>3, <1>4, <2>1, <2>2, <2>3, <2>4 DEF EmailPC, FramePC
  <1> USE DEF Go, SetNote, EmailPC, FramePC, NoteStatus
  <1>5. ASSUME StartEmail(w) PROVE Keeps
    BY <1>2, <1>5 DEF StartEmail, LoopStart
  <1>6. ASSUME Verify(w) PROVE Keeps
    <2>1. PICK b \in BOOLEAN : loop' = [loop EXCEPT ![w].valid = b]
      <3>1. PICK d \in BOOLEAN : loop' = [loop EXCEPT ![w].valid = d /\ loop[w].i \notin Malformed]
        BY <1>6 DEF Verify
      <3>2. (d /\ loop[w].i \notin Malformed) \in BOOLEAN
        OBVIOUS
      <3> QED  BY Zenon, <3>1, <3>2
    <2>2. loop'[w] = [i |-> loop[w].i, valid |-> b, sent |-> loop[w].sent]
      BY <1>2, <2>1
    <2>3. loop' = [loop EXCEPT ![w] = loop'[w]]
      BY <1>2, <2>1
    <2> QED  BY <1>2, <1>3, <1>6, <2>2, <2>3 DEF Verify
  <1>7. ASSUME Lookup(w) PROVE Keeps
    BY <1>2, <1>3, <1>7 DEF Lookup, emailVars
  <1>8. ASSUME CreateNote(w) PROVE Keeps
    BY <1>2, <1>3, <1>4, <1>8 DEF CreateNote
  <1>9. ASSUME RejectNote(w) PROVE Keeps
    BY <1>2, <1>3, <1>4, <1>9 DEF RejectNote
  <1>10. ASSUME MarkProcessing(w) PROVE Keeps
    BY <1>2, <1>3, <1>10 DEF MarkProcessing
  <1>11. ASSUME SendSucceeds(w) PROVE Keeps
    BY <1>2, <1>3, <1>11 DEF SendSucceeds
  <1>12. ASSUME SendFails(w) PROVE Keeps
    BY <1>2, <1>3, <1>12 DEF SendFails, emailVars
  <1>13. ASSUME MarkSent(w) PROVE Keeps
    BY <1>2, <1>3, <1>4, <1>13 DEF MarkSent
  <1>14. ASSUME MarkUnsent(w) PROVE Keeps
    BY <1>2, <1>3, <1>4, <1>14 DEF MarkUnsent
  <1>15. ASSUME EmailThrows(w) PROVE Keeps
    BY <1>2, <1>3, <1>15 DEF EmailThrows
  <1>16. Keeps
    BY <1>5, <1>6, <1>7, <1>8, <1>9, <1>10, <1>11, <1>12, <1>13, <1>14, <1>15 DEF EmailStep
  <1>17. UNCHANGED <<bull, made, lock, stalls, finished, at, kind>>
    BY DEF EmailStep, EmailThrows, outerVars
  <1>18. Stays(w, "email")
    BY <1>1, <1>16, <1>17 DEF Stays, Inner, Steps
  <1>19. LoopOK'
    <2> SUFFICES ASSUME NEW v \in Worker, at'[v] \in Emails', pc'[v] \in EmailPC
                 PROVE  loop'[v].i <= Recipients /\ loop'[v].sent < loop'[v].i
      BY DEF LoopOK
    <2>1. CASE v = w
      BY <2>1, <1>16
    <2>2. CASE v # w
      <3>1. pc'[v] = pc[v] /\ loop'[v] = loop[v] /\ at'[v] \in Emails
        BY <2>2, <1>2, <1>16, <1>17 DEF Emails, Queued
      <3> QED  BY <3>1, <1>17 DEF LoopOK, Frame
    <2> QED  BY <2>1, <2>2
  <1> QED  BY <1>2, <1>16, <1>18, <1>19 DEF EmailTypes

\* ... so does one of an ETL run ...
LEMMA EtlTypesStep ==
    ASSUME Frame, NEW w \in Worker, Is(w, "etl"), EtlStep(w) \/ EtlThrows(w), UNCHANGED kind
    PROVE  EtlTypes' /\ Stays(w, "etl")
  <1>1. /\ at[w] \in Queued /\ at[w] \in Job
        /\ pc[w] # "idle" /\ pc[w] \in FramePC \cup EtlPC
    BY Kinds DEF Is, Standing, Steps, RunTypes, Frame, Types
  <1>2. /\ pc \in [Worker -> PC]
        /\ next \in [Job -> [{"saved", "submitted"} -> Int]]
    BY DEF EtlTypes, RunTypes, Frame, Types
  <1> DEFINE Keeps ==
        /\ next' \in [Job -> [{"saved", "submitted"} -> Int]]
        /\ pc'[w] \in FramePC \cup EtlPC
        /\ pc' = [pc EXCEPT ![w] = pc'[w]]
  <1>3. [next EXCEPT ![at[w]]["saved"] = @ - 1, ![at[w]]["submitted"] = @ + 1]
            \in [Job -> [{"saved", "submitted"} -> Int]]
    BY <1>1, <1>2
  <1> USE DEF Go, EtlPC, FramePC
  <1>5. ASSUME CheckDependency(w) PROVE Keeps
    BY <1>2, <1>5 DEF CheckDependency, etlVars
  <1>6. ASSUME Extract(w) PROVE Keeps
    BY <1>2, <1>6 DEF Extract
  <1>7. ASSUME Transform(w) \/ TransformNothing(w) PROVE Keeps
    BY <1>2, <1>7 DEF Transform, TransformNothing, etlVars
  <1>8. ASSUME Load(w) PROVE Keeps
    BY <1>2, <1>8 DEF Load
  <1>9. ASSUME SaveNext(w) PROVE Keeps
    BY <1>1, <1>2, <1>9 DEF SaveNext
  <1>10. ASSUME SubmitNext(w) PROVE Keeps
    BY <1>2, <1>3, <1>10 DEF SubmitNext
  <1>11. ASSUME EtlThrows(w) PROVE Keeps
    <2>1. next' \in [Job -> [{"saved", "submitted"} -> Int]]
      BY <1>2, <1>3, <1>11 DEF EtlThrows
    <2> QED  BY <1>2, <1>11, <2>1 DEF EtlThrows
  <1>16. Keeps
    BY <1>5, <1>6, <1>7, <1>8, <1>9, <1>10, <1>11 DEF EtlStep
  <1>17. UNCHANGED <<bull, made, lock, stalls, finished, at, kind>>
    BY DEF EtlStep, EtlThrows, outerVars
  <1>18. Stays(w, "etl")
    BY <1>1, <1>16, <1>17 DEF Stays, Inner, Steps
  <1> QED  BY <1>16, <1>18 DEF EtlTypes

\* ... of an inference ...
LEMMA MlTypesStep ==
    ASSUME Frame, NEW w \in Worker, NEW k \in {"text", "ocr"}, Is(w, k), MlStep(w, k), UNCHANGED kind
    PROVE  MlTypes' /\ Stays(w, k)
  <1>1. /\ at[w] \in Queued /\ kind[at[w]] = k
        /\ pc[w] # "idle" /\ pc[w] \in FramePC \cup MlPC
    BY Kinds DEF Is, Standing, Steps, RunTypes, Frame, Types
  <1>2. pc \in [Worker -> PC] /\ late \in [OcrStage -> Nat] /\ started \in Nat
    BY DEF MlTypes, RunTypes, Frame, Types
  <1> DEFINE Keeps ==
        /\ late' \in [OcrStage -> Nat] /\ started' \in Nat
        /\ pc'[w] \in FramePC \cup MlPC
        /\ pc' = [pc EXCEPT ![w] = pc'[w]]
  <1> USE DEF Go, MlPC, FramePC, OcrStage
  <1>5. ASSUME StartMl(w, k) PROVE Keeps
    BY <1>2, <1>5 DEF StartMl, mlVars
  <1>6. ASSUME Classify(w) PROVE Keeps
    BY <1>2, <1>6 DEF Classify, mlVars
  <1>7. ASSUME OcrStep(w) PROVE Keeps
    BY <1>2, <1>7 DEF OcrStep, OcrMoves, LoadBegins, LoadEnds
  <1>8. ASSUME OcrFails(w) PROVE Keeps
    BY <1>2, <1>8 DEF OcrFails, mlVars
  <1>9. ASSUME InferenceTimeout(w) PROVE Keeps
    BY <1>2, <1>9 DEF InferenceTimeout
  <1>16. Keeps
    BY <1>5, <1>6, <1>7, <1>8, <1>9 DEF MlStep
  <1>17. UNCHANGED <<bull, made, lock, stalls, finished, at, kind>>
    BY DEF MlStep, outerVars
  <1>18. Stays(w, k)
    BY <1>1, <1>16, <1>17 DEF Stays, Inner, Steps
  <1> QED  BY <1>16, <1>18 DEF MlTypes

\* An inference that nobody waits for goes on.
LEMMA LateTypes ==
    ASSUME MlTypes, LateStep
    PROVE  MlTypes'
  <1>1. PICK from \in OcrStage, to \in OcrStage \cup {"end"} :
            /\ late[from] > 0 /\ OcrMoves(from, to)
            /\ late' = [s \in OcrStage |-> late[s] - (IF s = from THEN 1 ELSE 0)
                                                 + (IF s = to THEN 1 ELSE 0)]
    BY DEF LateStep
  <1>2. started' \in Nat
    BY <1>1 DEF OcrMoves, LoadBegins, LoadEnds, MlTypes
  <1>3. late' \in [OcrStage -> Nat]
    BY <1>1 DEF MlTypes
  <1> QED  BY <1>2, <1>3 DEF MlTypes

\* Where files are.
FileDirs == {"input", "media", "temp", "report"}

\* A new name leaves the old ones in range.
LEMMA NewName ==
    ASSUME FileTypes
    PROVE  /\ uuid + 1 \in Nat /\ uuid + 1 \in 0 .. uuid + 1
           /\ files \subseteq FileDirs \X (1 .. uuid + 1)
           /\ input \in [Worker -> 0 .. uuid + 1] /\ output \in [Worker -> 0 .. uuid + 1]
           /\ \A d \in FileDirs : files \cup {<<d, uuid + 1>>} \subseteq FileDirs \X (1 .. uuid + 1)
  <1>1. uuid \in Nat /\ files \subseteq FileDirs \X (1 .. uuid)
        /\ input \in [Worker -> 0 .. uuid] /\ output \in [Worker -> 0 .. uuid]
    BY DEF FileTypes, FileDirs
  <1>2. 1 .. uuid \subseteq 1 .. uuid + 1 /\ 0 .. uuid \subseteq 0 .. uuid + 1
        /\ uuid + 1 \in 1 .. uuid + 1 /\ uuid + 1 \in Nat
    BY <1>1
  <1>3. files \subseteq FileDirs \X (1 .. uuid + 1)
    BY <1>1, <1>2
  <1> QED  BY <1>1, <1>2, <1>3

\* ... of a media run ...
LEMMA MediaTypesStep ==
    ASSUME Frame, NEW w \in Worker, NEW k \in {"transcode", "convert", "image"}, Is(w, k),
           MediaStep(w, k), UNCHANGED kind
    PROVE  FileTypes' /\ Stays(w, k)
  <1>1. /\ at[w] \in Queued /\ at[w] \in Job /\ kind[at[w]] = k
        /\ pc[w] # "idle" /\ pc[w] \in FramePC \cup MediaPC
    BY Kinds DEF Is, Standing, Steps, RunTypes, Frame, Types
  <1>2. /\ pc \in [Worker -> PC] /\ uuid \in Nat /\ FileTypes
        /\ files \subseteq FileDirs \X (1 .. uuid)
        /\ input \in [Worker -> 0 .. uuid] /\ output \in [Worker -> 0 .. uuid]
        /\ result \in [Job -> Nat] /\ payload \in [Job -> {"good", "bad", "large"}]
        /\ tempDir \in BOOLEAN
        /\ 0 \in 0 .. uuid /\ output[w] \in Nat
    BY DEF FileTypes, FileDirs, RunTypes, Frame, Types
  <1> DEFINE Keeps ==
        /\ uuid' \in Nat /\ files' \subseteq FileDirs \X (1 .. uuid')
        /\ input' \in [Worker -> 0 .. uuid'] /\ output' \in [Worker -> 0 .. uuid']
        /\ result' \in [Job -> Nat] /\ payload' \in [Job -> {"good", "bad", "large"}]
        /\ tempDir' \in BOOLEAN
        /\ pc'[w] \in FramePC \cup MediaPC
        /\ pc' = [pc EXCEPT ![w] = pc'[w]]
  <1> USE DEF Go, Forget, ThrowFrom, fileVars, MediaPC, FramePC
  <1>3. "input" \in FileDirs /\ "media" \in FileDirs
    BY DEF FileDirs
  <1>4. ASSUME StartMedia(w, k) PROVE Keeps
    BY <1>2, <1>4 DEF StartMedia
  <1>5. ASSUME Download(w) PROVE Keeps
    BY <1>2, <1>3, <1>5, NewName DEF Download
  <1>6. ASSUME DownloadBreaks(w) PROVE Keeps
    BY <1>2, <1>6 DEF DownloadBreaks
  <1>7. ASSUME DownloadEnds(w) PROVE Keeps
    BY <1>2, <1>7 DEF DownloadEnds
  <1>8. ASSUME CheckInput(w) PROVE Keeps
    BY <1>2, <1>8 DEF CheckInput
  <1>9. ASSUME StartFfmpeg(w) PROVE Keeps
    BY <1>2, <1>3, <1>9, NewName DEF StartFfmpeg
  <1>10. ASSUME FfmpegEnds(w) PROVE Keeps
    BY <1>2, <1>10 DEF FfmpegEnds
  <1>11. ASSUME FfmpegFails(w) PROVE Keeps
    BY <1>2, <1>11 DEF FfmpegFails
  <1>12. ASSUME FetchImage(w) PROVE Keeps
    BY <1>2, <1>12 DEF FetchImage
  <1>13. ASSUME FilterImage(w) PROVE Keeps
    BY <1>2, <1>3, <1>13, NewName DEF FilterImage
  <1>14. ASSUME UploadMedia(w) PROVE Keeps
    BY <1>1, <1>2, <1>14 DEF UploadMedia
  <1>15. ASSUME MediaToS3(w) PROVE Keeps
    BY <1>2, <1>15 DEF MediaToS3
  <1>16. Keeps
    BY <1>4, <1>5, <1>6, <1>7, <1>8, <1>9, <1>10, <1>11, <1>12, <1>13, <1>14, <1>15 DEF MediaStep
  <1>17. UNCHANGED <<bull, made, lock, stalls, finished, at, kind>>
    BY DEF MediaStep, outerVars
  <1>18. Stays(w, k)
    BY <1>1, <1>16, <1>17 DEF Stays, Inner, Steps
  <1> QED  BY <1>16, <1>18 DEF FileTypes, FileDirs

\* ... of a report run ...
LEMMA ReportTypesStep ==
    ASSUME Frame, NEW w \in Worker, Is(w, "report"), ReportStep(w), UNCHANGED kind
    PROVE  FileTypes' /\ Stays(w, "report")
  <1>1. /\ at[w] \in Queued /\ at[w] \in Job /\ kind[at[w]] = "report"
        /\ pc[w] # "idle" /\ pc[w] \in FramePC \cup ReportPC
    BY Kinds DEF Is, Standing, Steps, RunTypes, Frame, Types
  <1>2. /\ pc \in [Worker -> PC] /\ uuid \in Nat /\ FileTypes
        /\ files \subseteq FileDirs \X (1 .. uuid)
        /\ input \in [Worker -> 0 .. uuid] /\ output \in [Worker -> 0 .. uuid]
        /\ result \in [Job -> Nat] /\ payload \in [Job -> {"good", "bad", "large"}]
        /\ tempDir \in BOOLEAN
        /\ 0 \in 0 .. uuid /\ output[w] \in Nat
    BY DEF FileTypes, FileDirs, RunTypes, Frame, Types
  <1> DEFINE Keeps ==
        /\ uuid' \in Nat /\ files' \subseteq FileDirs \X (1 .. uuid')
        /\ input' \in [Worker -> 0 .. uuid'] /\ output' \in [Worker -> 0 .. uuid']
        /\ result' \in [Job -> Nat] /\ payload' \in [Job -> {"good", "bad", "large"}]
        /\ tempDir' \in BOOLEAN
        /\ pc'[w] \in FramePC \cup ReportPC
        /\ pc' = [pc EXCEPT ![w] = pc'[w]]
  <1> USE DEF Go, Forget, ThrowFrom, ReportPC, FramePC
  <1>3. "temp" \in FileDirs /\ "report" \in FileDirs
    BY DEF FileDirs
  <1>4. ASSUME StartReport(w) PROVE Keeps
    BY <1>2, <1>4 DEF StartReport
  <1>5. ASSUME OpenPdf(w) PROVE Keeps
    BY <1>2, <1>3, <1>5, NewName DEF OpenPdf
  <1>6. ASSUME StatPdf(w) PROVE Keeps
    BY <1>2, <1>6 DEF StatPdf
  <1>7. ASSUME CopyPdf(w) PROVE Keeps
    <2>1. PdfExists(w) => <<"report", output[w]>> \in FileDirs \X (1 .. uuid)
      BY <1>2, <1>3 DEF PdfExists
    <2> QED  BY <1>2, <1>7, <2>1 DEF CopyPdf
  <1>8. ASSUME PutPdf(w) PROVE Keeps
    BY <1>2, <1>8 DEF PutPdf
  <1>9. ASSUME CleanReports(w) PROVE Keeps
    <2>1. tempDir' \in BOOLEAN
      BY Zenon, <1>9 DEF CleanReports
    <2> QED  BY <1>1, <1>2, <1>9, <2>1 DEF CleanReports
  <1>16. Keeps
    BY <1>4, <1>5, <1>6, <1>7, <1>8, <1>9 DEF ReportStep
  <1>17. UNCHANGED <<bull, made, lock, stalls, finished, at, kind>>
    BY DEF ReportStep, outerVars
  <1>18. Stays(w, "report")
    BY <1>1, <1>16, <1>17 DEF Stays, Inner, Steps
  <1> QED  BY <1>16, <1>18 DEF FileTypes, FileDirs

\* ... and a call on the disk that fails.
LEMMA FileThrowsTypes ==
    ASSUME Frame, NEW w \in Worker, NEW k \in FileKind, Is(w, k), FileThrows(w), UNCHANGED kind
    PROVE  FileTypes' /\ Stays(w, k)
  <1>1. at[w] \in Queued /\ pc \in [Worker -> PC] /\ FileTypes
    BY DEF Is, Standing, Frame, Types, RunTypes
  <1>2. pc' = [pc EXCEPT ![w] = "throw"] /\ pc[w] # "idle"
    BY DEF FileThrows, Is
  <1>3. Stays(w, k)
    BY <1>1, <1>2 DEF Stays, Inner, FileThrows, FramePC
  <1>4. FileTypes'
    BY <1>1 DEF FileTypes, FileThrows, Forget
  <1> QED  BY <1>3, <1>4

-----------------------------------------------------------------------------
(* The frame is inductive *)

\* The steps of every kind are control points ...
LEMMA StepsArePC == \A k \in Kind : FramePC \cup Steps(k) \subseteq PC
  BY DEF Kind, FileKind, Steps, PC, FramePC, EmailPC, EtlPC, MediaPC, ReportPC, MlPC

\* ... and none of them is the idle one.
LEMMA IdleIsNoStep == kind \in Loads => \A j \in Queued : "idle" \notin FramePC \cup Steps(kind[j])
  BY Kinds DEF Kind, FileKind, Steps, FramePC, EmailPC, EtlPC, MediaPC, ReportPC, MlPC

\* A step inside process() keeps who runs what.
LEMMA InnerFrame ==
    ASSUME Frame, NEW w \in Worker, Stays(w, kind[at[w]]), budget' = budget \/ Pays("await")
    PROVE  RunTypes' /\ Standing' /\ Locks' /\ Alone'
  <1>1. /\ at[w] \in Queued /\ pc[w] # "idle" /\ pc'[w] # "idle"
        /\ pc' = [pc EXCEPT ![w] = pc'[w]]
        /\ UNCHANGED <<bull, made, lock, stalls, finished, at, kind>>
        /\ pc'[w] \in FramePC \cup Steps(kind[at[w]])
    BY DEF Stays, Inner
  <1>2. RunTypes /\ kind \in Loads
    BY DEF Frame, Types, RunTypes
  <1>3. pc'[w] \in PC
    BY <1>1, <1>2, Kinds, StepsArePC
  <1>4. /\ budget' \in [FaultKind -> Nat] /\ \A f \in FaultKind : budget'[f] <= Faults[f]
        /\ Spent("stall")' = Spent("stall")
    BY <1>2, SumsStay, SumsGrow DEF RunTypes, DeliveryTypeOK, FaultKind
  <1>5. RunTypes'
    <2>1. pc' \in [Worker -> PC]
      BY <1>1, <1>2, <1>3 DEF RunTypes
    <2>2. DeliveryTypeOK'
      BY <1>1, <1>2, <1>4 DEF RunTypes, DeliveryTypeOK
    <2> QED  BY <1>1, <1>2, <1>4, <2>1, <2>2 DEF RunTypes, Queued
  <1>6. Standing'
    <2> SUFFICES ASSUME NEW v \in Worker
                 PROVE  \/ pc'[v] = "idle" /\ at'[v] = None
                        \/ at'[v] \in Queued' /\ pc'[v] \in FramePC \cup Steps(kind'[at'[v]])
      BY DEF Standing
    <2>1. Queued' = Queued /\ kind' = kind /\ at' = at /\ pc \in [Worker -> PC]
      BY <1>1, <1>2 DEF Queued, RunTypes
    <2>2. CASE v = w
      BY <2>1, <2>2, <1>1
    <2>3. CASE v # w
      <3>1. pc'[v] = pc[v]  BY <2>1, <2>3, <1>1
      <3> QED  BY <2>1, <3>1 DEF Standing, Frame
    <2> QED  BY <2>2, <2>3
  <1>7. Locks'
    BY <1>1 DEF Locks, Frame, Queued
  <1>8. Alone'
    BY <1>1, <1>4 DEF Alone, Frame
  <1> QED  BY <1>5, <1>6, <1>7, <1>8

\* Every step of process() is such a step, and is free or one failing await.
LEMMA ProcessFrame ==
    ASSUME Frame, NEW w \in Worker, ProcessStep(w) \/ ProcessThrows(w)
    PROVE  /\ Frame' /\ Stays(w, kind[at[w]])
           /\ (ProcessStep(w) /\ budget' = budget) \/ (ProcessThrows(w) /\ Pays("await"))
  <1> USE DEF Frame, Types
  <1>1. CASE Is(w, "email") /\ (EmailStep(w) \/ EmailThrows(w)) /\ UNCHANGED <<etlVars, fileVars, mlVars, kind>>
    <2>1. EmailTypes' /\ LoopOK' /\ Stays(w, kind[at[w]])
      BY <1>1, EmailTypesStep DEF Is
    <2>2. EtlTypes' /\ FileTypes' /\ MlTypes'
      BY <1>1 DEF etlVars, fileVars, mlVars, EtlTypes, FileTypes, MlTypes
    <2>3. (EmailStep(w) /\ budget' = budget) \/ (EmailThrows(w) /\ Pays("await"))
      BY <1>1 DEF EmailStep, EmailThrows, outerVars, Pays, Spend
    <2>4. (ProcessStep(w) /\ budget' = budget) \/ (ProcessThrows(w) /\ Pays("await"))
      BY <1>1, <2>3 DEF ProcessStep, ProcessThrows
    <2> QED  BY <2>1, <2>2, <2>4, InnerFrame
  <1>2. ASSUME UNCHANGED <<emailVars, kind>>, Is(w, kind[at[w]]), kind[at[w]] # "email",
               Stays(w, kind[at[w]])
        PROVE  EmailTypes' /\ LoopOK'
    <2>1. EmailTypes'
      BY <1>2 DEF emailVars, EmailTypes
    <2>2. ASSUME NEW v \in Worker, at'[v] \in Emails', pc'[v] \in EmailPC
          PROVE  loop'[v].i <= Recipients /\ loop'[v].sent < loop'[v].i
      <3>1. at' = at /\ kind' = kind /\ pc' = [pc EXCEPT ![w] = pc'[w]] /\ loop' = loop
            /\ pc \in [Worker -> PC]
        BY <1>2 DEF Stays, Inner, emailVars, RunTypes
      <3>2. at[v] \in Emails /\ v # w
        BY <1>2, <2>2, <3>1 DEF Emails, Queued
      <3>3. pc'[v] = pc[v]
        BY <3>1, <3>2
      <3> QED  BY <2>2, <3>1, <3>2, <3>3 DEF LoopOK
    <2> QED  BY <2>1, <2>2 DEF LoopOK
  <1>3. CASE Is(w, "etl") /\ (EtlStep(w) \/ EtlThrows(w)) /\ UNCHANGED <<emailVars, fileVars, mlVars, kind>>
    <2>1. EtlTypes' /\ Stays(w, kind[at[w]])
      BY <1>3, EtlTypesStep DEF Is
    <2>2. FileTypes' /\ MlTypes' /\ EmailTypes' /\ LoopOK'
      BY <1>2, <1>3, <2>1 DEF fileVars, mlVars, FileTypes, MlTypes, Is
    <2>3. (EtlStep(w) /\ budget' = budget) \/ (EtlThrows(w) /\ Pays("await"))
      BY <1>3 DEF EtlStep, EtlThrows, outerVars, Pays, Spend
    <2>4. (ProcessStep(w) /\ budget' = budget) \/ (ProcessThrows(w) /\ Pays("await"))
      BY <1>3, <2>3 DEF ProcessStep, ProcessThrows
    <2> QED  BY <2>1, <2>2, <2>4, InnerFrame
  <1>4. ASSUME NEW k \in {"transcode", "convert", "image"}, Is(w, k), MediaStep(w, k),
               UNCHANGED <<emailVars, etlVars, mlVars, kind>>
        PROVE  Frame' /\ Stays(w, kind[at[w]]) /\ ProcessStep(w) /\ budget' = budget
    <2>1. FileTypes' /\ Stays(w, kind[at[w]])
      BY <1>4, MediaTypesStep DEF Is
    <2>2. EtlTypes' /\ MlTypes' /\ EmailTypes' /\ LoopOK'
      BY <1>2, <1>4, <2>1 DEF etlVars, mlVars, EtlTypes, MlTypes, Is
    <2>3. ProcessStep(w) /\ budget' = budget
      BY <1>4 DEF MediaStep, outerVars, ProcessStep
    <2> QED  BY <2>1, <2>2, <2>3, InnerFrame
  <1>5. CASE Is(w, "report") /\ ReportStep(w) /\ UNCHANGED <<emailVars, etlVars, mlVars, kind>>
    <2>1. FileTypes' /\ Stays(w, kind[at[w]])
      BY <1>5, ReportTypesStep DEF Is
    <2>2. EtlTypes' /\ MlTypes' /\ EmailTypes' /\ LoopOK'
      BY <1>2, <1>5, <2>1 DEF etlVars, mlVars, EtlTypes, MlTypes, Is
    <2>3. ProcessStep(w) /\ budget' = budget
      BY <1>5 DEF ReportStep, outerVars, ProcessStep
    <2> QED  BY <2>1, <2>2, <2>3, InnerFrame
  <1>6. ASSUME NEW k \in {"text", "ocr"}, Is(w, k), MlStep(w, k),
               UNCHANGED <<emailVars, etlVars, fileVars, kind>>
        PROVE  Frame' /\ Stays(w, kind[at[w]]) /\ ProcessStep(w) /\ budget' = budget
    <2>1. MlTypes' /\ Stays(w, kind[at[w]])
      BY <1>6, MlTypesStep DEF Is
    <2>2. EtlTypes' /\ FileTypes' /\ EmailTypes' /\ LoopOK'
      BY <1>2, <1>6, <2>1 DEF etlVars, fileVars, EtlTypes, FileTypes, Is
    <2>3. ProcessStep(w) /\ budget' = budget
      BY <1>6 DEF MlStep, outerVars, ProcessStep
    <2> QED  BY <2>1, <2>2, <2>3, InnerFrame
  <1>7. ASSUME NEW k \in FileKind, Is(w, k), FileThrows(w),
               UNCHANGED <<emailVars, etlVars, mlVars, kind>>
        PROVE  Frame' /\ Stays(w, kind[at[w]]) /\ ProcessThrows(w) /\ Pays("await")
    <2>1. FileTypes' /\ Stays(w, kind[at[w]])
      BY <1>7, FileThrowsTypes DEF Is
    <2>2. EtlTypes' /\ MlTypes' /\ EmailTypes' /\ LoopOK'
      BY <1>2, <1>7, <2>1 DEF etlVars, mlVars, EtlTypes, MlTypes, Is, FileKind
    <2>3. ProcessThrows(w) /\ Pays("await")
      BY <1>7 DEF FileThrows, Pays, Spend, ProcessThrows
    <2> QED  BY <2>1, <2>2, <2>3, InnerFrame
  <1> QED
    BY <1>1, <1>3, <1>4, <1>5, <1>6, <1>7 DEF ProcessStep, ProcessThrows

\* The stall of j, which w had locked: it is delivered again or fails.
LEMMA StalledTypes ==
    ASSUME Frame, NEW j \in Queued, bull[j] = "active", Stalled(j)
    PROVE  /\ bull' \in [Job -> {"absent", "waiting", "active", "completed", "failed"}]
           /\ lock' \in [Job -> Worker \cup {None}]
           /\ stalls' \in [Job -> 0 .. MaxStalled + 1]
           /\ \A i \in Job \ {j} : bull'[i] = bull[i] /\ lock'[i] = lock[i] /\ stalls'[i] = stalls[i]
           /\ lock'[j] = None /\ bull'[j] \in {"waiting", "failed"}
           /\ bull'[j] = "waiting" => stalls'[j] <= MaxStalled
  <1>1. /\ bull \in [Job -> {"absent", "waiting", "active", "completed", "failed"}]
        /\ lock \in [Job -> Worker \cup {None}] /\ stalls \in [Job -> 0 .. MaxStalled + 1]
        /\ j \in Job /\ stalls[j] <= MaxStalled /\ stalls[j] \in Nat
    BY Kinds DEF Frame, Types, RunTypes, DeliveryTypeOK, Locks, MaxStalled
  <1> QED  BY <1>1 DEF Stalled, MaxStalled

\* The steps of BullMQ and of execute(), faults included, keep who runs what.
LEMMA DeliveryFrame ==
    ASSUME Frame, NEW w \in Worker, DeliveryStep(w) \/ DeliveryFault(w), UNCHANGED effectVars
    PROVE  Frame'
  <1>1. /\ bull \in [Job -> {"absent", "waiting", "active", "completed", "failed"}]
        /\ made \in [Job -> 0 .. MaxAttempts] /\ lock \in [Job -> Worker \cup {None}]
        /\ stalls \in [Job -> 0 .. MaxStalled + 1] /\ finished \subseteq Job
        /\ at \in [Worker -> Job \cup {None}] /\ budget \in [FaultKind -> Nat]
        /\ finished \subseteq Queued /\ \A f \in FaultKind : budget[f] <= Faults[f]
        /\ pc \in [Worker -> PC]
    BY DEF Frame, Types, RunTypes, DeliveryTypeOK
  <1>2. /\ None \notin Worker /\ None \notin Job /\ MaxAttempts \in Nat \ {0}
        /\ Queued \subseteq Job /\ kind' = kind /\ Queued' = Queued
        /\ {"idle", "find", "start", "done", "return", "throw"} \subseteq PC
    BY SetAssumption, BoundAssumption, Kinds
       DEF effectVars, Queued, PC, FramePC, Frame, Types, RunTypes
  <1>3. /\ Standing /\ Locks /\ Alone
        /\ pc[w] # "idle" => at[w] \in Queued
    BY DEF Frame, Standing
  <1> DEFINE Core ==
        /\ bull' \in [Job -> {"absent", "waiting", "active", "completed", "failed"}]
        /\ made' \in [Job -> 0 .. MaxAttempts] /\ lock' \in [Job -> Worker \cup {None}]
        /\ stalls' \in [Job -> 0 .. MaxStalled + 1]
        /\ at' \in [Worker -> Job \cup {None}] /\ budget' \in [FaultKind -> Nat]
        /\ finished' \subseteq Queued /\ \A f \in FaultKind : budget'[f] <= Faults[f]
        /\ pc' \in [Worker -> PC]
        /\ \A v \in Worker :
              \/ pc'[v] = pc[v] /\ at'[v] = at[v]
              \/ pc'[v] = "idle" /\ at'[v] = None
              \/ pc'[v] \in FramePC /\ at'[v] \in Queued
        /\ Locks' /\ Alone'
  <1> USE DEF Go
  <1>4. ASSUME NEW j \in Job, Deliver(w, j) PROVE Core
    <2>1. /\ bull[j] = "waiting" /\ pc[w] = "idle" /\ at[w] = None
          /\ bull' = [bull EXCEPT ![j] = "active"] /\ lock' = [lock EXCEPT ![j] = w]
          /\ at' = [at EXCEPT ![w] = j] /\ pc' = [pc EXCEPT ![w] = "find"]
          /\ UNCHANGED <<made, stalls, finished, budget>>
      BY <1>4, <1>3, <1>2, IdleIsNoStep DEF Deliver, Standing, Frame, Types, RunTypes
    <2>2. j \in Queued /\ lock[j] = None
      BY <2>1, <1>3 DEF Locks
    <2>3. Locks'
      <3> SUFFICES ASSUME NEW i \in Job
                   PROVE  /\ bull'[i] = "active" <=> lock'[i] # None
                          /\ lock'[i] # None => at'[lock'[i]] = i
                          /\ bull'[i] \in {"waiting", "active"}
                                => made'[i] < MaxAttempts /\ stalls'[i] <= MaxStalled
                          /\ bull'[i] = "absent" <=> i \notin Queued
        BY <1>2 DEF Locks
      <3>1. CASE i = j
        BY <3>1, <2>1, <2>2, <1>1, <1>2, <1>3 DEF Locks
      <3>2. CASE i # j
        <4>1. lock[i] # None => lock[i] \in Worker /\ lock[i] # w
          BY <1>1, <1>2, <1>3, <2>1 DEF Locks
        <4> QED  BY <3>2, <4>1, <2>1, <1>1, <1>2, <1>3 DEF Locks
      <3> QED  BY <3>1, <3>2
    <2>4. Alone'
      <3>1. Spent("stall")' = Spent("stall")
        BY <2>1 DEF Spent
      <3> SUFFICES ASSUME Spent("stall") = 0, NEW v \in Worker, at'[v] # None
                   PROVE  lock'[at'[v]] = v
        BY <3>1 DEF Alone
      <3>2. CASE v = w
        BY <3>2, <2>1, <1>1
      <3>3. CASE v # w
        <4>1. at'[v] = at[v] /\ lock[at[v]] = v
          BY <3>3, <2>1, <1>1, <1>3 DEF Alone
        <4>2. at[v] # j
          BY <4>1, <2>2, <1>2
        <4> QED  BY <4>1, <4>2, <2>1, <1>1
      <3> QED  BY <3>2, <3>3
    <2>5. \A v \in Worker :
              \/ pc'[v] = pc[v] /\ at'[v] = at[v]
              \/ pc'[v] \in FramePC /\ at'[v] \in Queued
      <3> SUFFICES ASSUME NEW v \in Worker
                   PROVE  \/ pc'[v] = pc[v] /\ at'[v] = at[v]
                          \/ pc'[v] \in FramePC /\ at'[v] \in Queued
        OBVIOUS
      <3>1. v # w => pc'[v] = pc[v] /\ at'[v] = at[v]
        BY <2>1, <1>1
      <3>2. v = w => pc'[v] = "find" /\ at'[v] = j
        BY <2>1, <1>1
      <3> QED  BY <3>1, <3>2, <2>2 DEF FramePC
    <2> QED  BY <1>1, <1>2, <2>1, <2>3, <2>4, <2>5
  <1>5. ASSUME FindJob(w) PROVE Core
    <2>1. /\ pc[w] = "find" /\ \E x \in {"return", "start"} : pc' = [pc EXCEPT ![w] = x]
          /\ UNCHANGED <<bull, made, lock, stalls, finished, at, budget>>
      BY <1>5 DEF FindJob, outerVars
    <2>2. Locks' /\ Alone'
      BY <2>1, <1>2, <1>3 DEF Locks, Alone, Spent
    <2> QED  BY <1>1, <1>2, <1>3, <2>1, <2>2 DEF FramePC
  <1>6. ASSUME Complete(w) PROVE Core
    <2>1. /\ pc[w] = "done" /\ pc' = [pc EXCEPT ![w] = "return"]
          /\ finished' = finished \cup {at[w]}
          /\ UNCHANGED <<bull, made, lock, stalls, at, budget>>
      BY <1>6 DEF Complete
    <2>2. Locks' /\ Alone'
      BY <2>1, <1>2, <1>3 DEF Locks, Alone, Spent
    <2> QED  BY <1>1, <1>2, <1>3, <2>1, <2>2 DEF FramePC
  <1>7. ASSUME Return(w) PROVE Core
    <2>1. /\ pc[w] = "return" /\ pc' = [pc EXCEPT ![w] = "idle"] /\ at' = [at EXCEPT ![w] = None]
          /\ UNCHANGED <<made, stalls, finished, budget>> /\ at[w] \in Queued /\ at[w] \in Job
      BY <1>7, <1>2, <1>3 DEF Return
    <2>2. CASE lock[at[w]] = w
      <3>1. bull' = [bull EXCEPT ![at[w]] = "completed"] /\ lock' = [lock EXCEPT ![at[w]] = None]
        BY <1>7, <2>2 DEF Return
      <3>2. Locks'
        <4> SUFFICES ASSUME NEW i \in Job
                     PROVE  /\ bull'[i] = "active" <=> lock'[i] # None
                            /\ lock'[i] # None => at'[lock'[i]] = i
                            /\ bull'[i] \in {"waiting", "active"}
                                  => made'[i] < MaxAttempts /\ stalls'[i] <= MaxStalled
                            /\ bull'[i] = "absent" <=> i \notin Queued
          BY <1>2 DEF Locks
        <4>1. i # at[w] /\ lock[i] # None => lock[i] \in Worker /\ lock[i] # w
          BY <1>1, <1>3 DEF Locks
        <4> QED  BY <4>1, <3>1, <2>1, <1>1, <1>2, <1>3 DEF Locks
      <3>3. Alone'
        <4> SUFFICES ASSUME Spent("stall") = 0, NEW v \in Worker, at'[v] # None
                     PROVE  lock'[at'[v]] = v
          BY <2>1 DEF Alone, Spent
        <4>1. v # w /\ at'[v] = at[v] /\ lock[at[v]] = v
          BY <2>1, <1>1, <1>3 DEF Alone
        <4>2. at[v] # at[w]
          BY <4>1, <2>2
        <4> QED  BY <4>1, <4>2, <3>1, <1>1
      <3> QED  BY <1>1, <1>2, <1>3, <2>1, <3>1, <3>2, <3>3
    <2>3. CASE lock[at[w]] # w
      <3>1. UNCHANGED <<bull, lock>>
        BY <1>7, <2>3 DEF Return
      <3>2. Locks'
        <4>1. \A i \in Job : lock[i] # None => lock[i] \in Worker /\ lock[i] # w
          BY <1>1, <1>3, <2>3 DEF Locks
        <4> QED  BY <4>1, <3>1, <2>1, <1>1, <1>2, <1>3 DEF Locks
      <3>3. Alone'
        BY <3>1, <2>1, <1>1, <1>3 DEF Alone, Spent
      <3> QED  BY <1>1, <1>2, <1>3, <2>1, <3>1, <3>2, <3>3
    <2> QED  BY <2>2, <2>3
  <1>8. ASSUME Throw(w) PROVE Core
    <2>1. /\ pc[w] = "throw" /\ pc' = [pc EXCEPT ![w] = "idle"] /\ at' = [at EXCEPT ![w] = None]
          /\ UNCHANGED <<stalls, finished, budget>> /\ at[w] \in Queued /\ at[w] \in Job
      BY <1>8, <1>2, <1>3 DEF Throw
    <2>2. CASE lock[at[w]] = w
      <3>1. /\ made' = [made EXCEPT ![at[w]] = @ + 1] /\ lock' = [lock EXCEPT ![at[w]] = None]
            /\ bull' = [bull EXCEPT ![at[w]] = IF made[at[w]] + 1 < MaxAttempts THEN "waiting" ELSE "failed"]
        BY <1>8, <2>2 DEF Throw
      <3>2. bull[at[w]] = "active" /\ made[at[w]] < MaxAttempts /\ stalls[at[w]] <= MaxStalled
            /\ made[at[w]] \in Nat
        BY <2>1, <2>2, <1>1, <1>2, <1>3 DEF Locks
      <3>3. Locks'
        <4> SUFFICES ASSUME NEW i \in Job
                     PROVE  /\ bull'[i] = "active" <=> lock'[i] # None
                            /\ lock'[i] # None => at'[lock'[i]] = i
                            /\ bull'[i] \in {"waiting", "active"}
                                  => made'[i] < MaxAttempts /\ stalls'[i] <= MaxStalled
                            /\ bull'[i] = "absent" <=> i \notin Queued
          BY <1>2 DEF Locks
        <4>1. i # at[w] /\ lock[i] # None => lock[i] \in Worker /\ lock[i] # w
          BY <1>1, <1>3 DEF Locks
        <4>2. CASE i = at[w]
          BY <4>2, <3>1, <3>2, <2>1, <1>1, <1>2, <1>3
        <4>3. CASE i # at[w]
          BY <4>1, <4>3, <3>1, <2>1, <1>1, <1>2, <1>3 DEF Locks
        <4> QED  BY <4>2, <4>3
      <3>4. Alone'
        <4> SUFFICES ASSUME Spent("stall") = 0, NEW v \in Worker, at'[v] # None
                     PROVE  lock'[at'[v]] = v
          BY <2>1 DEF Alone, Spent
        <4>1. v # w /\ at'[v] = at[v] /\ lock[at[v]] = v
          BY <2>1, <1>1, <1>3 DEF Alone
        <4>2. at[v] # at[w]
          BY <4>1, <2>2
        <4> QED  BY <4>1, <4>2, <3>1, <1>1
      <3>5. made' \in [Job -> 0 .. MaxAttempts]
        <4>1. made[at[w]] + 1 \in 0 .. MaxAttempts
          BY <1>2, <3>2
        <4> QED  BY <1>1, <3>1, <4>1
      <3> QED  BY <1>1, <1>2, <1>3, <2>1, <3>1, <3>3, <3>4, <3>5
    <2>3. CASE lock[at[w]] # w
      <3>1. UNCHANGED <<bull, lock, made>>
        BY <1>8, <2>3 DEF Throw
      <3>2. Locks'
        <4>1. \A i \in Job : lock[i] # None => lock[i] \in Worker /\ lock[i] # w
          BY <1>1, <1>3, <2>3 DEF Locks
        <4> QED  BY <4>1, <3>1, <2>1, <1>1, <1>2, <1>3 DEF Locks
      <3>3. Alone'
        BY <3>1, <2>1, <1>1, <1>3 DEF Alone, Spent
      <3> QED  BY <1>1, <1>2, <1>3, <2>1, <3>1, <3>2, <3>3
    <2> QED  BY <2>2, <2>3
  <1>9. ASSUME Crash(w) PROVE Core
    <2>1. /\ pc[w] # "idle" /\ Pays("crash") /\ "crash" \in FaultKind
          /\ pc' = [pc EXCEPT ![w] = "idle"] /\ at' = [at EXCEPT ![w] = None]
          /\ UNCHANGED <<made, finished>> /\ at[w] \in Queued /\ at[w] \in Job
      BY <1>9, <1>2, <1>3 DEF Crash, Pays, Spend, FaultKind
    <2>2. /\ budget' \in [FaultKind -> Nat] /\ \A f \in FaultKind : budget'[f] <= Faults[f]
          /\ Spent("stall")' = Spent("stall")
      BY <2>1, SumsGrow, SumsStay DEF Frame, Types
    <2>3. CASE lock[at[w]] = w
      <3>1. Stalled(at[w]) /\ bull[at[w]] = "active"
        BY <1>9, <2>1, <2>3, <1>2, <1>3 DEF Crash, Locks
      <3>3. Locks'
        <4> SUFFICES ASSUME NEW i \in Job
                     PROVE  /\ bull'[i] = "active" <=> lock'[i] # None
                            /\ lock'[i] # None => at'[lock'[i]] = i
                            /\ bull'[i] \in {"waiting", "active"}
                                  => made'[i] < MaxAttempts /\ stalls'[i] <= MaxStalled
                            /\ bull'[i] = "absent" <=> i \notin Queued
          BY <1>2 DEF Locks
        <4>1. i # at[w] /\ lock[i] # None => lock[i] \in Worker /\ lock[i] # w
          BY <1>1, <1>3 DEF Locks
        <4>2. CASE i = at[w]
          BY <4>2, <3>1, StalledTypes, <2>1, <1>3 DEF Locks
        <4>3. CASE i # at[w]
          BY <4>1, <4>3, <3>1, StalledTypes, <2>1, <1>1, <1>3 DEF Locks
        <4> QED  BY <4>2, <4>3
      <3>4. Alone'
        <4> SUFFICES ASSUME Spent("stall") = 0, NEW v \in Worker, at'[v] # None
                     PROVE  lock'[at'[v]] = v
          BY <2>2 DEF Alone
        <4>1. v # w /\ at'[v] = at[v] /\ lock[at[v]] = v /\ at[v] \in Job
          BY <2>1, <1>1, <1>3 DEF Alone
        <4>2. at[v] # at[w]
          BY <4>1, <2>3
        <4> QED  BY <4>1, <4>2, <2>1, <3>1, StalledTypes
      <3> QED  BY <1>1, <1>2, <1>3, <2>1, <2>2, <3>1, <3>3, <3>4, StalledTypes
    <2>4. CASE lock[at[w]] # w
      <3>1. UNCHANGED <<bull, lock, stalls>>
        BY <1>9, <2>4 DEF Crash
      <3>2. Locks'
        <4>1. \A i \in Job : lock[i] # None => lock[i] \in Worker /\ lock[i] # w
          BY <1>1, <1>3, <2>4 DEF Locks
        <4> QED  BY <4>1, <3>1, <2>1, <1>1, <1>2, <1>3 DEF Locks
      <3>3. Alone'
        BY <3>1, <2>1, <2>2, <1>1, <1>3 DEF Alone
      <3> QED  BY <1>1, <1>2, <1>3, <2>1, <2>2, <3>1, <3>2, <3>3
    <2> QED  BY <2>3, <2>4
  <1>10. ASSUME LoseLock(w) PROVE Core
    <2>1. /\ pc[w] # "idle" /\ Pays("stall") /\ "stall" \in FaultKind /\ lock[at[w]] = w
          /\ Stalled(at[w])
          /\ UNCHANGED <<made, finished, pc, at>> /\ at[w] \in Queued /\ at[w] \in Job
      BY <1>10, <1>2, <1>3 DEF LoseLock, Pays, Spend, FaultKind
    <2>2. /\ budget' \in [FaultKind -> Nat] /\ \A f \in FaultKind : budget'[f] <= Faults[f]
          /\ Spent("stall")' = Spent("stall") + 1 /\ Spent("stall") \in Nat
      BY <2>1, SumsGrow, SumsStay DEF Frame, Types
    <2>3. bull[at[w]] = "active"
      BY <2>1, <1>2, <1>3 DEF Locks
    <2>4. Locks'
      <3> SUFFICES ASSUME NEW i \in Job
                   PROVE  /\ bull'[i] = "active" <=> lock'[i] # None
                          /\ lock'[i] # None => at'[lock'[i]] = i
                          /\ bull'[i] \in {"waiting", "active"}
                                => made'[i] < MaxAttempts /\ stalls'[i] <= MaxStalled
                          /\ bull'[i] = "absent" <=> i \notin Queued
        BY <1>2 DEF Locks
      <3>1. CASE i = at[w]
        BY <3>1, <2>3, StalledTypes, <2>1, <1>3 DEF Locks
      <3>2. CASE i # at[w]
        BY <3>2, <2>3, StalledTypes, <2>1, <1>3 DEF Locks
      <3> QED  BY <3>1, <3>2
    <2>5. Alone'
      BY <2>2 DEF Alone
    <2> QED  BY <1>1, <1>2, <1>3, <2>1, <2>2, <2>3, <2>4, <2>5, StalledTypes
  <1>11. ASSUME FrameThrows(w) PROVE Core
    <2>1. /\ pc[w] \in {"find", "done"} /\ Pays("await") /\ "await" \in FaultKind
          /\ pc' = [pc EXCEPT ![w] = "throw"]
          /\ UNCHANGED <<bull, made, lock, stalls, finished, at>>
      BY <1>11 DEF FrameThrows, Pays, Spend, FaultKind
    <2>2. /\ budget' \in [FaultKind -> Nat] /\ \A f \in FaultKind : budget'[f] <= Faults[f]
          /\ Spent("stall")' = Spent("stall")
      BY <2>1, SumsGrow, SumsStay DEF Frame, Types
    <2>3. Locks' /\ Alone'
      BY <2>1, <2>2, <1>2, <1>3 DEF Locks, Alone
    <2> QED  BY <1>1, <1>2, <1>3, <2>1, <2>2, <2>3 DEF FramePC
  <1>12. Core
    BY <1>4, <1>5, <1>6, <1>7, <1>8, <1>9, <1>10, <1>11 DEF DeliveryStep, DeliveryFault
  <1>13. EmailTypes' /\ EtlTypes' /\ FileTypes' /\ MlTypes'
    BY DEF Frame, Types, effectVars, emailVars, etlVars, fileVars, mlVars, EmailTypes, EtlTypes,
           FileTypes, MlTypes
  <1>14. RunTypes'
    BY <1>2, <1>12 DEF RunTypes, DeliveryTypeOK, Frame, Types
  <1>15. Standing'
    <2> SUFFICES ASSUME NEW v \in Worker
                 PROVE  \/ pc'[v] = "idle" /\ at'[v] = None
                        \/ at'[v] \in Queued /\ pc'[v] \in FramePC \cup Steps(kind[at'[v]])
      BY <1>2 DEF Standing
    <2> QED  BY <1>3, <1>12 DEF Standing
  <1>16. LoopOK'
    <2> SUFFICES ASSUME NEW v \in Worker, at'[v] \in Emails, pc'[v] \in EmailPC
                 PROVE  loop[v].i <= Recipients /\ loop[v].sent < loop[v].i
      BY <1>2 DEF LoopOK, Emails, effectVars, emailVars
    <2>1. pc'[v] = pc[v] /\ at'[v] = at[v]
      BY <1>12 DEF EmailPC, FramePC
    <2> QED  BY <2>1 DEF LoopOK, Frame
  <1> QED  BY <1>12, <1>13, <1>14, <1>15, <1>16 DEF Frame, Types

\* At first no run is anywhere.
LEMMA FrameInit == Init => Frame
  <1> SUFFICES ASSUME Init PROVE Frame
    OBVIOUS
  <1> USE DEF Init, DeliveryInit, EmailInit, EtlInit, FileInit, MlInit
  <1>1. kind \in Loads /\ Queued \subseteq Job
    BY Kinds
  <1>2. RunTypes
    BY <1>1, BoundAssumption DEF RunTypes, DeliveryTypeOK, PC, MaxStalled
  <1>3. EmailTypes
    BY RecipientAssumption DEF EmailTypes, LoopStart, NoteStatus
  <1>4. EtlTypes /\ FileTypes /\ MlTypes
    <2>1. EtlTypes  BY DEF EtlTypes
    <2>2. MlTypes  BY DEF MlTypes
    <2>3. FileTypes
      <3>1. uuid = 0 /\ files = {} /\ 0 \in 0 .. uuid
        OBVIOUS
      <3>2. input \in [Worker -> 0 .. uuid] /\ output \in [Worker -> 0 .. uuid] /\ result \in [Job -> Nat]
        BY <3>1
      <3>3. payload \in [Job -> {"good", "bad", "large"}]
        OBVIOUS
      <3>4. tempDir \in BOOLEAN
        BY Zenon
      <3> QED  BY <3>1, <3>2, <3>3, <3>4 DEF FileTypes
    <2> QED  BY <2>1, <2>2, <2>3
  <1>5. Standing /\ Alone
    BY DEF Standing, Alone
  <1>6. Locks
    BY BoundAssumption DEF Locks, MaxStalled
  <1>7. LoopOK
    BY DEF LoopOK, EmailPC
  <1> QED  BY <1>2, <1>3, <1>4, <1>5, <1>6, <1>7 DEF Frame, Types

\* What goes on outside every run moves none.
LEMMA BackgroundFrame ==
    ASSUME Frame, Background
    PROVE  Frame'
  <1>1. UNCHANGED <<deliveryVars, emailVars, fileVars, kind>> /\ UNCHANGED next
        /\ (UNCHANGED mlVars \/ LateStep)
    BY DEF Background, DependencyCompletes, etlVars
  <1>2. MlTypes'
    BY <1>1, LateTypes DEF Frame, Types, MlTypes, mlVars
  <1>3. RunTypes' /\ EmailTypes' /\ EtlTypes' /\ FileTypes'
    BY <1>1 DEF Frame, Types, deliveryVars, emailVars, fileVars, RunTypes, DeliveryTypeOK, Queued,
                EmailTypes, EtlTypes, FileTypes
  <1>4. Standing' /\ Locks' /\ Alone' /\ LoopOK'
    BY <1>1 DEF Frame, deliveryVars, emailVars, Standing, Locks, Alone, LoopOK, Queued, Emails, Spent
  <1> QED  BY <1>2, <1>3, <1>4 DEF Frame, Types

\* Who runs what is inductive.
LEMMA FrameNext == Frame /\ [Next]_vars => Frame'
  <1> SUFFICES ASSUME Frame, [Next]_vars PROVE Frame'
    OBVIOUS
  <1>1. CASE UNCHANGED vars
    <2>1. Types'
      BY <1>1 DEF Frame, Types, vars, effectVars, deliveryVars, emailVars, etlVars, fileVars, mlVars,
                  RunTypes, DeliveryTypeOK, Queued, EmailTypes, EtlTypes, FileTypes, MlTypes
    <2>2. Standing' /\ Locks' /\ Alone' /\ LoopOK'
      BY <1>1 DEF Frame, vars, effectVars, deliveryVars, emailVars,
                  Standing, Locks, Alone, LoopOK, Queued, Emails, Spent
    <2> QED  BY <2>1, <2>2 DEF Frame
  <1>2. ASSUME NEW w \in Worker, ProcessStep(w) \/ ProcessThrows(w) PROVE Frame'
    BY <1>2, ProcessFrame
  <1>3. ASSUME NEW w \in Worker, DeliveryStep(w) \/ DeliveryFault(w), UNCHANGED effectVars PROVE Frame'
    BY <1>3, DeliveryFrame
  <1>4. CASE Background
    BY <1>4, BackgroundFrame
  <1> QED  BY <1>1, <1>2, <1>3, <1>4 DEF Next

\* Who runs what is kept by every step of the processors and of the machinery.
THEOREM FrameInvariant == Spec => []Frame
  BY FrameInit, FrameNext, PTL DEF Spec

\* Every variable of the processors keeps its type: no attempt beyond the last, no recipient
\* past the end of the list, no file with a name that was never given.
THEOREM TypeCorrect == Spec => []TypeOK
  <1>1. Frame => TypeOK
    BY DEF Frame, Types, RunTypes, EmailTypes, FileTypes, MlTypes, TypeOK
  <1> QED  BY <1>1, FrameInvariant, PTL

-----------------------------------------------------------------------------
(* What a job may still do: the token that a run carries or that waits in the queue *)

\* A truth value as a number.
One(b) == IF b THEN 1 ELSE 0

\* The job waits and would be run again.
Pending(j) == bull[j] = "waiting" /\ j \notin finished

\* A set that changes at one element, counted.
LEMMA CardUpdate ==
    ASSUME NEW T, NEW U, NEW s, IsFiniteSet(T), U \ {s} = T \ {s}
    PROVE  /\ IsFiniteSet(U)
           /\ Cardinality(T) \in Nat /\ Cardinality(U) \in Nat
           /\ Cardinality(U) = Cardinality(T) + One(s \in U) - One(s \in T)
  <1>1. Cardinality(T) \in Nat
    BY FS_CardinalityType
  <1>2. CASE s \in U /\ s \notin T
    <2>1. U = T \cup {s}  BY <1>2
    <2>2. IsFiniteSet(T \cup {s}) /\ Cardinality(T \cup {s}) = Cardinality(T) + 1
      BY <1>2, FS_AddElement
    <2> QED  BY <1>1, <1>2, <2>1, <2>2 DEF One
  <1>3. CASE s \notin U /\ s \in T
    <2>1. U = T \ {s}  BY <1>3
    <2>2. IsFiniteSet(T \ {s}) /\ Cardinality(T \ {s}) = Cardinality(T) - 1
      BY <1>3, FS_RemoveElement
    <2>3. Cardinality(U) \in Nat
      BY <2>1, <2>2, FS_CardinalityType
    <2> QED  BY <1>1, <1>3, <2>1, <2>2, <2>3 DEF One
  <1>4. CASE s \in U <=> s \in T
    <2>1. U = T  BY <1>4
    <2> QED  BY <1>1, <1>4, <2>1 DEF One
  <1> QED  BY <1>2, <1>3, <1>4

\* The same when the rest may also shrink.
LEMMA CardShrink ==
    ASSUME NEW T, NEW U, NEW s, IsFiniteSet(T), U \ {s} \subseteq T \ {s}
    PROVE  /\ Cardinality(T) \in Nat /\ Cardinality(U) \in Nat
           /\ Cardinality(U) <= Cardinality(T) + One(s \in U) - One(s \in T)
  <1> DEFINE V == (T \ {s}) \cup (U \cap {s})
  <1>1. V \ {s} = T \ {s} /\ U \subseteq V /\ (s \in V <=> s \in U)
    OBVIOUS
  <1>2. /\ IsFiniteSet(V) /\ Cardinality(T) \in Nat /\ Cardinality(V) \in Nat
        /\ Cardinality(V) = Cardinality(T) + One(s \in V) - One(s \in T)
    BY <1>1, CardUpdate
  <1>3. Cardinality(U) \in Nat /\ Cardinality(U) <= Cardinality(V)
    BY <1>1, <1>2, FS_Subset, FS_CardinalityType
  <1>4. One(s \in V) = One(s \in U)
    BY <1>1 DEF One
  <1>5. One(s \in U) \in Int /\ One(s \in T) \in Int
    BY DEF One
  <1> QED  BY <1>2, <1>3, <1>4, <1>5

\* The run of w may still get to process() or hand the job back to be tried again.
Carries(w, j) ==
    /\ at[w] = j
    /\ \/ pc[w] = "find" /\ j \notin finished
       \/ pc[w] = "start"
       \/ pc[w] = "throw" /\ lock[j] = w

\* A step of the machinery passes the token on, and only a fault makes one more.
LEMMA TokenKept ==
    ASSUME Frame, NEW w \in Worker, DeliveryStep(w) \/ DeliveryFault(w), NEW j \in Queued,
           UNCHANGED kind
    PROVE  /\ \A v \in Worker \ {w} :
                 pc'[v] = pc[v] /\ at'[v] = at[v] /\ (lock'[j] = v => lock[j] = v)
           /\ finished \subseteq finished'
           /\ pc'[w] \notin FramePC \cup {"idle"} =>
                 pc'[w] = pc[w] /\ at'[w] = at[w] /\ (lock'[j] = w => lock[j] = w)
           /\ Faulted \in Nat /\ Faulted' \in Nat
           /\ One(Pending(j)') + One(Carries(w, j)') + Faulted
                 <= One(Pending(j)) + One(Carries(w, j)) + Faulted'
  <1> DEFINE Goal ==
           /\ \A v \in Worker \ {w} :
                 pc'[v] = pc[v] /\ at'[v] = at[v] /\ (lock'[j] = v => lock[j] = v)
           /\ finished \subseteq finished'
           /\ pc'[w] \notin FramePC \cup {"idle"} =>
                 pc'[w] = pc[w] /\ at'[w] = at[w] /\ (lock'[j] = w => lock[j] = w)
           /\ Faulted \in Nat /\ Faulted' \in Nat
           /\ One(Pending(j)') + One(Carries(w, j)') + Faulted
                 <= One(Pending(j)) + One(Carries(w, j)) + Faulted'
  <1>1. /\ pc \in [Worker -> PC] /\ at \in [Worker -> Job \cup {None}]
        /\ lock \in [Job -> Worker \cup {None}] /\ made \in [Job -> 0 .. MaxAttempts]
        /\ bull \in [Job -> {"absent", "waiting", "active", "completed", "failed"}]
        /\ stalls \in [Job -> 0 .. MaxStalled + 1]
        /\ RunTypes
        /\ j \in Job /\ None \notin Worker /\ None \notin Job
    BY Kinds, SetAssumption DEF Frame, Types, RunTypes, DeliveryTypeOK
  <1>2. /\ lock[j] # None <=> bull[j] = "active"
        /\ pc[w] # "idle" => at[w] \in Job
    BY <1>1, Kinds DEF Frame, Locks, Standing, RunTypes
  <1>3. /\ Faulted \in Nat
        /\ budget' = budget => Faulted' = Faulted
        /\ \A f \in FaultKind : Pays(f) => Faulted' = Faulted + 1
    BY <1>1, SumsStay, SumsGrow
  <1> USE DEF Go, FramePC
  <1>5. ASSUME NEW i \in Job, Deliver(w, i) PROVE Goal
    <2>1. /\ bull[i] = "waiting" /\ pc[w] = "idle"
          /\ bull' = [bull EXCEPT ![i] = "active"] /\ lock' = [lock EXCEPT ![i] = w]
          /\ at' = [at EXCEPT ![w] = i] /\ pc' = [pc EXCEPT ![w] = "find"]
          /\ UNCHANGED <<made, stalls, finished, budget>>
      BY <1>5 DEF Deliver
    <2>2. CASE i = j
      <3>1. Pending(j) <=> Carries(w, j)'
        BY <2>1, <2>2, <1>1 DEF Pending, Carries
      <3>2. ~Pending(j)' /\ ~Carries(w, j)
        BY <2>1, <2>2, <1>1 DEF Pending, Carries
      <3> QED  BY <2>1, <2>2, <3>1, <3>2, <1>1, <1>3 DEF One
    <2>3. CASE i # j
      <3>1. (Pending(j) <=> Pending(j)') /\ ~Carries(w, j)'
        BY <2>1, <2>3, <1>1 DEF Pending, Carries
      <3> QED  BY <2>1, <2>3, <3>1, <1>1, <1>3 DEF One
    <2> QED  BY <2>2, <2>3
  <1>6. ASSUME FindJob(w) PROVE Goal
    <2>1. /\ pc[w] = "find" /\ pc' = [pc EXCEPT ![w] = IF at[w] \in finished THEN "return" ELSE "start"]
          /\ UNCHANGED <<bull, made, lock, stalls, finished, at, budget>>
      BY <1>6 DEF FindJob, outerVars
    <2>2. (Pending(j) <=> Pending(j)') /\ (Carries(w, j)' => Carries(w, j))
      BY <2>1, <1>1 DEF Pending, Carries
    <2> QED  BY <2>1, <2>2, <1>1, <1>3 DEF One
  <1>7. ASSUME Complete(w) PROVE Goal
    <2>1. /\ pc[w] = "done" /\ pc' = [pc EXCEPT ![w] = "return"]
          /\ finished' = finished \cup {at[w]}
          /\ UNCHANGED <<bull, made, lock, stalls, at, budget>>
      BY <1>7 DEF Complete
    <2>2. (Pending(j)' => Pending(j)) /\ ~Carries(w, j)'
      BY <2>1, <1>1 DEF Pending, Carries
    <2> QED  BY <2>1, <2>2, <1>1, <1>3 DEF One
  <1>8. ASSUME Return(w) PROVE Goal
    <2>1. /\ pc[w] = "return" /\ pc' = [pc EXCEPT ![w] = "idle"] /\ at' = [at EXCEPT ![w] = None]
          /\ \/ bull' = [bull EXCEPT ![at[w]] = "completed"] /\ lock' = [lock EXCEPT ![at[w]] = None]
             \/ UNCHANGED <<bull, lock>>
          /\ UNCHANGED <<made, stalls, finished, budget>>
      BY <1>8 DEF Return
    <2>2. (Pending(j)' => Pending(j)) /\ ~Carries(w, j)'
      BY <2>1, <1>1, <1>2 DEF Pending, Carries
    <2>3. \A v \in Worker \ {w} : lock'[j] = v => lock[j] = v
      BY <2>1, <1>1, <1>2
    <2> QED  BY <2>1, <2>2, <2>3, <1>1, <1>3 DEF One
  <1>9. ASSUME Throw(w) PROVE Goal
    <2>1. /\ pc[w] = "throw" /\ pc' = [pc EXCEPT ![w] = "idle"] /\ at' = [at EXCEPT ![w] = None]
          /\ UNCHANGED <<stalls, finished, budget>>
      BY <1>9 DEF Throw
    <2>2. CASE at[w] = j /\ lock[j] = w
      <3>1. lock' = [lock EXCEPT ![j] = None]
        BY <1>9, <2>2 DEF Throw
      <3>2. Carries(w, j) /\ ~Carries(w, j)' /\ ~Pending(j)
        BY <2>1, <2>2, <1>1, <1>2 DEF Pending, Carries
      <3> QED  BY <2>1, <3>1, <3>2, <1>1, <1>3 DEF One
    <2>3. CASE ~(at[w] = j /\ lock[j] = w)
      <3>1. bull'[j] = bull[j] /\ lock'[j] = lock[j]
        BY <1>9, <2>3, <1>1 DEF Throw
      <3>2. (Pending(j) <=> Pending(j)') /\ ~Carries(w, j)'
        BY <2>1, <3>1, <1>1 DEF Pending, Carries
      <3> QED  BY <2>1, <3>1, <3>2, <1>1, <1>3 DEF One
    <2> QED  BY <2>2, <2>3
  <1>10. ASSUME Crash(w) PROVE Goal
    <2>1. /\ pc' = [pc EXCEPT ![w] = "idle"] /\ at' = [at EXCEPT ![w] = None]
          /\ finished' = finished /\ Pays("crash") /\ "crash" \in FaultKind
          /\ pc[w] # "idle"
      BY <1>10 DEF Crash, Pays, Spend, FaultKind
    <2>2. ~Carries(w, j)'
      BY <2>1, <1>1 DEF Carries
    <2>3. \A v \in Worker \ {w} : lock'[j] = v => lock[j] = v
      BY <1>10, <1>1, <1>2 DEF Crash, Stalled
    <2> QED  BY <2>1, <2>2, <2>3, <1>1, <1>3 DEF One
  <1>11. ASSUME LoseLock(w) PROVE Goal
    <2>1. /\ UNCHANGED <<finished, pc, at>> /\ Pays("stall") /\ "stall" \in FaultKind
          /\ pc[w] # "idle" /\ lock[at[w]] = w /\ lock' = [lock EXCEPT ![at[w]] = None]
          /\ \A i \in Job : i # at[w] => bull'[i] = bull[i]
      BY <1>11, <1>1 DEF LoseLock, Stalled, Pays, Spend, FaultKind
    <2>2. \A v \in Worker : lock'[j] = v => lock[j] = v
      BY <2>1, <1>1, <1>2
    <2>3. Carries(w, j)' => Carries(w, j)
      BY <2>1, <2>2 DEF Carries
    <2> QED  BY <2>1, <2>2, <2>3, <1>1, <1>3 DEF One
  <1>12. ASSUME FrameThrows(w) PROVE Goal
    <2>1. /\ pc[w] \in {"find", "done"} /\ Pays("await") /\ "await" \in FaultKind
          /\ pc' = [pc EXCEPT ![w] = "throw"]
          /\ UNCHANGED <<bull, made, lock, stalls, finished, at>>
      BY <1>12 DEF FrameThrows, Pays, Spend, FaultKind
    <2>2. Pending(j) <=> Pending(j)'
      BY <2>1 DEF Pending
    <2> QED  BY <2>1, <2>2, <1>1, <1>3 DEF One
  <1> QED  BY <1>5, <1>6, <1>7, <1>8, <1>9, <1>10, <1>11, <1>12 DEF DeliveryStep, DeliveryFault

-----------------------------------------------------------------------------
(* Mails *)

\* The run of w may still mail n, or make the job be tried again though it did.
MayMail(w, n) ==
    \/ Carries(w, n[1])
    \/ /\ at[w] = n[1] /\ pc[w] \in EmailPC
       /\ \/ loop[w].i < n[2]
          \/ loop[w].i = n[2] /\ pc[w] # "sent"
          \/ loop[w].sent = 0 /\ pc[w] # "sent"
          \/ pc[w] = "create" /\ note[This(w)] # "none" /\ lock[n[1]] = w

\* The runs that may mail n.
Mailing(n) == {w \in Worker : MayMail(w, n)}

\* The rows whose creation may still clash, once a lock has expired.
RowsToCome(n) == {r \in (n[2] + 1) .. Recipients : note[<<n[1], r>>] = "none"}
ClashesLeft(n) == IF Spent("stall") > 0 THEN Cardinality(RowsToCome(n)) ELSE 0

\* Mails sent, mails to come and clashes to come, against what the faults explain.
MailsBounded ==
    \A n \in Notes :
        IF n[1] \in Emails
        THEN mails[n] + One(Pending(n[1])) + Cardinality(Mailing(n)) + ClashesLeft(n)
                 <= 1 + Faulted + Clashes(n)
        ELSE mails[n] = 0 /\ note[n] = "none"

\* What a step of an email run does to the rows and to its own mails to come.
LEMMA EmailRun ==
    ASSUME Frame, NEW w \in Worker, Is(w, "email"), EmailStep(w) \/ EmailThrows(w), UNCHANGED kind
    PROVE  /\ at[w] \in Emails
           /\ \/ note' = note
              \/ /\ pc[w] \in EmailPC /\ This(w) \in Notes
                 /\ \E s \in NoteStatus \ {"none"} : note' = [note EXCEPT ![This(w)] = s]
           /\ \A n \in Notes :
                 IF n[1] = at[w]
                 THEN mails'[n] + One(MayMail(w, n)') + Faulted <= mails[n] + One(MayMail(w, n)) + Faulted'
                 ELSE mails'[n] = mails[n]
  <1>0. /\ at[w] \in Emails /\ pc[w] \in FramePC \cup EmailPC
        /\ pc \in [Worker -> PC] /\ note \in [Notes -> NoteStatus] /\ mails \in [Notes -> Nat]
        /\ loop \in [Worker -> [i : 1 .. Recipients + 1, valid : BOOLEAN, sent : 0 .. Recipients]]
        /\ Recipients \in Nat /\ RunTypes
    BY RecipientAssumption DEF Is, Standing, Emails, Steps, Frame, Types, RunTypes, EmailTypes
  <1>1. /\ loop[w] \in [i : 1 .. Recipients + 1, valid : BOOLEAN, sent : 0 .. Recipients]
        /\ loop[w].i \in Nat /\ loop[w].sent \in Nat
    BY <1>0
  <1>2. pc[w] \in EmailPC => This(w) \in Notes /\ loop[w].i <= Recipients
    BY <1>0, <1>1, Kinds DEF LoopOK, This, Notes, Frame, RunTypes, Emails
  <1>3. /\ Faulted \in Nat
        /\ budget' = budget => Faulted' = Faulted
        /\ EmailThrows(w) => Faulted' = Faulted + 1
    BY <1>0, SumsStay, SumsGrow DEF EmailThrows, Spend, Pays, FaultKind
  <1>4. UNCHANGED <<bull, lock, finished, at>> /\ (EmailStep(w) => Faulted' = Faulted)
    BY <1>3 DEF EmailStep, EmailThrows, outerVars
  <1> DEFINE Rows ==
              \/ note' = note
              \/ /\ pc[w] \in EmailPC /\ This(w) \in Notes
                 /\ \E s \in NoteStatus \ {"none"} : note' = [note EXCEPT ![This(w)] = s]
             Less == \A n \in Notes : n[1] = at[w] => (MayMail(w, n)' => MayMail(w, n))
             Still == Rows /\ mails' = mails /\ Less
  <1>5. ASSUME NEW s \in Nat, AfterRecipient(w, s), pc[w] \in EmailPC,
               \/ s = loop[w].sent /\ pc[w] # "sent"
               \/ s = loop[w].sent + 1
        PROVE  Less
    <2> SUFFICES ASSUME NEW n \in Notes, n[1] = at[w], MayMail(w, n)'
                 PROVE  MayMail(w, n)
      OBVIOUS
    <2>1. loop'[w] = [i |-> loop[w].i + 1, valid |-> loop[w].valid, sent |-> s]
      BY <1>0, <1>1, <1>5 DEF AfterRecipient
    <2>2. pc'[w] = IF loop[w].i < Recipients THEN "verify" ELSE IF s = 0 THEN "throw" ELSE "done"
      BY <1>0, <1>5 DEF AfterRecipient
    <2>3. n[2] \in Nat
      BY DEF Notes
    <2>4. CASE loop[w].i < Recipients
      <3>1. loop[w].i + 1 < n[2] \/ loop[w].i + 1 = n[2] \/ s = 0
        BY <2>1, <2>2, <2>4 DEF MayMail, Carries
      <3>2. loop[w].i < n[2] \/ (loop[w].sent = 0 /\ pc[w] # "sent")
        BY <3>1, <1>1, <1>5, <2>3
      <3> QED  BY <3>2, <1>5 DEF MayMail
    <2>5. CASE ~(loop[w].i < Recipients)
      <3>1. s = 0
        BY <2>2, <2>5 DEF MayMail, Carries, EmailPC
      <3>2. loop[w].sent = 0 /\ pc[w] # "sent"
        BY <3>1, <1>1, <1>5
      <3> QED  BY <3>2, <1>5 DEF MayMail
    <2> QED  BY <2>4, <2>5
  <1> USE DEF Go, SetNote, EmailPC, NoteStatus
  <1>6. ASSUME StartEmail(w) PROVE Still
    BY <1>0, <1>6 DEF StartEmail, MayMail, Carries
  <1>7. ASSUME Verify(w) PROVE Still
    <2>1. PICK b : loop' = [loop EXCEPT ![w].valid = b]
      BY <1>7 DEF Verify
    <2>2. loop'[w].i = loop[w].i /\ loop'[w].sent = loop[w].sent
      BY <1>0, <2>1
    <2>3. pc[w] = "verify" /\ pc'[w] = "lookup" /\ UNCHANGED <<note, mails>>
      BY <1>0, <1>7 DEF Verify
    <2> QED  BY <1>4, <2>2, <2>3 DEF MayMail, Carries
  <1>8. ASSUME Lookup(w) PROVE Still
    <2>1. /\ pc[w] = "lookup" /\ UNCHANGED <<note, mails, loop>>
          /\ pc'[w] \in {"create", "mark", "reject"} /\ (pc'[w] = "create" => note[This(w)] = "none")
      BY <1>0, <1>8 DEF Lookup, emailVars
    <2>2. This(w)' = This(w)
      BY <1>4, <2>1 DEF This
    <2> QED  BY <1>4, <2>1, <2>2 DEF MayMail, Carries
  <1>9. ASSUME CreateNote(w) PROVE Still
    <2>1. CASE note[This(w)] # "none"
      <3>1. UNCHANGED <<note, loop, mails>> /\ pc[w] = "create" /\ pc'[w] = "throw"
        BY <1>0, <1>9, <2>1 DEF CreateNote
      <3> QED  BY <1>4, <2>1, <3>1 DEF MayMail, Carries
    <2>2. CASE note[This(w)] = "none" /\ loop[w].valid
      <3>1. pc[w] = "create" /\ pc'[w] = "mark" /\ loop' = loop /\ mails' = mails /\ Rows
        BY <1>0, <1>2, <1>9, <2>2 DEF CreateNote
      <3> QED  BY <1>4, <3>1 DEF MayMail, Carries
    <2>3. CASE note[This(w)] = "none" /\ ~loop[w].valid
      <3>1. pc[w] = "create" /\ mails' = mails /\ AfterRecipient(w, loop[w].sent) /\ Rows
        BY <1>2, <1>9, <2>3 DEF CreateNote
      <3> QED  BY <1>1, <1>5, <3>1
    <2> QED  BY <2>1, <2>2, <2>3
  <1>10. ASSUME RejectNote(w) PROVE Still
    <2>1. pc[w] = "reject" /\ mails' = mails /\ AfterRecipient(w, loop[w].sent) /\ Rows
      BY <1>2, <1>10 DEF RejectNote
    <2> QED  BY <1>1, <1>5, <2>1
  <1>11. ASSUME MarkProcessing(w) PROVE Still
    <2>1. pc[w] = "mark" /\ pc'[w] = "send" /\ mails' = mails /\ loop' = loop /\ Rows
      BY <1>0, <1>2, <1>11 DEF MarkProcessing
    <2> QED  BY <1>4, <2>1 DEF MayMail, Carries
  <1>12. ASSUME SendFails(w) PROVE Still
    <2>1. pc[w] = "send" /\ pc'[w] = "unsent" /\ UNCHANGED <<note, mails, loop>>
      BY <1>0, <1>12 DEF SendFails, emailVars
    <2> QED  BY <1>4, <2>1 DEF MayMail, Carries
  <1>13. ASSUME MarkSent(w) PROVE Still
    <2>1. pc[w] = "sent" /\ mails' = mails /\ AfterRecipient(w, loop[w].sent + 1) /\ Rows
      BY <1>2, <1>13 DEF MarkSent
    <2> QED  BY <1>1, <1>5, <2>1
  <1>14. ASSUME MarkUnsent(w) PROVE Still
    <2>1. pc[w] = "unsent" /\ mails' = mails /\ AfterRecipient(w, loop[w].sent) /\ Rows
      BY <1>2, <1>14 DEF MarkUnsent
    <2> QED  BY <1>1, <1>5, <2>1
  <1> DEFINE Goal ==
           Rows /\ \A n \in Notes :
                 IF n[1] = at[w]
                 THEN mails'[n] + One(MayMail(w, n)') + Faulted <= mails[n] + One(MayMail(w, n)) + Faulted'
                 ELSE mails'[n] = mails[n]
  <1>15. ASSUME Still, EmailStep(w) PROVE Goal
    BY <1>0, <1>3, <1>4, <1>15 DEF One
  <1>16. ASSUME SendSucceeds(w), EmailStep(w) PROVE Goal
    <2>1. /\ pc[w] = "send" /\ pc'[w] = "sent" /\ UNCHANGED <<note, loop>>
          /\ mails' = [mails EXCEPT ![This(w)] = @ + 1] /\ This(w) \in Notes
      BY <1>0, <1>2, <1>16 DEF SendSucceeds
    <2> SUFFICES ASSUME NEW n \in Notes
                 PROVE  IF n[1] = at[w]
                        THEN mails'[n] + One(MayMail(w, n)') + Faulted
                                <= mails[n] + One(MayMail(w, n)) + Faulted'
                        ELSE mails'[n] = mails[n]
      BY <2>1
    <2>2. n[2] \in Nat /\ n = <<n[1], n[2]>> /\ mails[n] \in Nat
      BY <1>0 DEF Notes
    <2>3. CASE n = This(w)
      <3>1. n[1] = at[w] /\ n[2] = loop[w].i
        BY <2>3 DEF This
      <3>2. MayMail(w, n)
        BY <2>1, <3>1 DEF MayMail
      <3>3. ~MayMail(w, n)'
        BY <1>1, <1>4, <2>1, <3>1 DEF MayMail, Carries
      <3>4. mails'[n] = mails[n] + 1
        BY <1>0, <2>1, <2>3
      <3> QED  BY <1>3, <1>4, <2>2, <3>1, <3>2, <3>3, <3>4, <1>16 DEF One
    <2>4. CASE n # This(w)
      <3>1. mails'[n] = mails[n]
        BY <1>0, <2>1, <2>4
      <3>2. n[1] = at[w] => (MayMail(w, n)' => MayMail(w, n))
        BY <1>4, <2>1 DEF MayMail, Carries
      <3> QED  BY <1>3, <1>4, <2>2, <3>1, <3>2, <1>16 DEF One
    <2> QED  BY <2>3, <2>4
  <1>17. ASSUME EmailThrows(w) PROVE Goal
    <2>1. note' = note /\ loop' = loop
      BY <1>17 DEF EmailThrows
    <2> SUFFICES ASSUME NEW n \in Notes
                 PROVE  IF n[1] = at[w]
                        THEN mails'[n] + One(MayMail(w, n)') + Faulted
                                <= mails[n] + One(MayMail(w, n)) + Faulted'
                        ELSE mails'[n] = mails[n]
      BY <2>1
    <2>2. n[2] \in Nat /\ n = <<n[1], n[2]>> /\ mails[n] \in Nat
      BY <1>0 DEF Notes
    <2>3. CASE mails' = mails
      BY <1>3, <1>17, <2>2, <2>3 DEF One
    <2>4. CASE mails' # mails
      <3>1. /\ pc[w] = "send" /\ pc'[w] = "unsent" /\ mails' = [mails EXCEPT ![This(w)] = @ + 1]
            /\ This(w) \in Notes
        BY <1>0, <1>2, <1>17, <2>4 DEF EmailThrows
      <3>2. n[1] = at[w] => (MayMail(w, n)' => MayMail(w, n))
        BY <1>4, <2>1, <3>1 DEF MayMail, Carries
      <3>3. IF n = This(w) THEN mails'[n] = mails[n] + 1 ELSE mails'[n] = mails[n]
        BY <1>0, <3>1
      <3>4. n = This(w) => n[1] = at[w]
        BY DEF This
      <3> QED  BY <1>3, <1>17, <2>2, <3>2, <3>3, <3>4 DEF One
    <2> QED  BY <2>3, <2>4
  <1> QED
    BY <1>0, <1>6, <1>7, <1>8, <1>9, <1>10, <1>11, <1>12, <1>13, <1>14, <1>15, <1>16, <1>17 DEF EmailStep

\* The terms of the bound on mails are numbers: those of clashes ...
LEMMA ClashTypes ==
    Frame => \A n \in Notes :
        /\ Clashes(n) \in Nat /\ ClashesLeft(n) \in Nat /\ ClashesLeft(n) <= Clashes(n)
        /\ IsFiniteSet(RowsToCome(n)) /\ Cardinality(RowsToCome(n)) \in Nat
  <1> SUFFICES ASSUME Frame, NEW n \in Notes
               PROVE  /\ Clashes(n) \in Nat /\ ClashesLeft(n) \in Nat /\ ClashesLeft(n) <= Clashes(n)
                      /\ IsFiniteSet(RowsToCome(n)) /\ Cardinality(RowsToCome(n)) \in Nat
    OBVIOUS
  <1>1. Recipients \in Nat /\ n[2] \in 1 .. Recipients
    BY RecipientAssumption DEF Notes
  <1>2. /\ IsFiniteSet((n[2] + 1) .. Recipients)
        /\ Cardinality((n[2] + 1) .. Recipients) = Recipients - n[2]
    <2>1. n[2] + 1 \in Int /\ Recipients \in Int
      BY <1>1
    <2>2. /\ IsFiniteSet((n[2] + 1) .. Recipients)
          /\ Cardinality((n[2] + 1) .. Recipients)
                = IF n[2] + 1 > Recipients THEN 0 ELSE Recipients - (n[2] + 1) + 1
      BY <2>1, FS_Interval
    <2> QED  BY <1>1, <2>2
  <1>3. RowsToCome(n) \subseteq (n[2] + 1) .. Recipients
    BY DEF RowsToCome
  <1>4. /\ IsFiniteSet(RowsToCome(n)) /\ Cardinality(RowsToCome(n)) \in Nat
        /\ Cardinality(RowsToCome(n)) <= Recipients - n[2]
    BY <1>2, <1>3, FS_Subset, FS_CardinalityType
  <1> QED  BY <1>1, <1>4 DEF Clashes, ClashesLeft

\* ... and those of mails and runs.
LEMMA MailTypes ==
    Frame => \A n \in Notes :
        /\ mails[n] \in Nat /\ IsFiniteSet(Mailing(n)) /\ Cardinality(Mailing(n)) \in Nat
        /\ Faulted \in Nat /\ Spent("stall") \in Nat
  <1> SUFFICES ASSUME Frame, NEW n \in Notes
               PROVE  /\ mails[n] \in Nat /\ IsFiniteSet(Mailing(n)) /\ Cardinality(Mailing(n)) \in Nat
                      /\ Faulted \in Nat /\ Spent("stall") \in Nat
    OBVIOUS
  <1>1. Mailing(n) \subseteq Worker
    BY DEF Mailing
  <1>2. IsFiniteSet(Mailing(n)) /\ Cardinality(Mailing(n)) \in Nat
    BY <1>1, SetAssumption, FS_Subset, FS_CardinalityType
  <1> QED  BY <1>2, SumsStay DEF Frame, Types, EmailTypes

\* The same after a step.
LEMMA NextMailTypes ==
    Frame' => \A n \in Notes :
        /\ Clashes(n)' \in Nat /\ ClashesLeft(n)' \in Nat /\ ClashesLeft(n)' <= Clashes(n)'
        /\ IsFiniteSet(RowsToCome(n)') /\ Cardinality(RowsToCome(n)') \in Nat
        /\ mails'[n] \in Nat /\ IsFiniteSet(Mailing(n)') /\ Cardinality(Mailing(n)') \in Nat
        /\ Faulted' \in Nat /\ Spent("stall")' \in Nat
  <1>1. (Frame => \A n \in Notes :
            /\ Clashes(n) \in Nat /\ ClashesLeft(n) \in Nat /\ ClashesLeft(n) <= Clashes(n)
            /\ IsFiniteSet(RowsToCome(n)) /\ Cardinality(RowsToCome(n)) \in Nat
            /\ mails[n] \in Nat /\ IsFiniteSet(Mailing(n)) /\ Cardinality(Mailing(n)) \in Nat
            /\ Faulted \in Nat /\ Spent("stall") \in Nat)'
    <2>1. Frame => \A n \in Notes :
            /\ Clashes(n) \in Nat /\ ClashesLeft(n) \in Nat /\ ClashesLeft(n) <= Clashes(n)
            /\ IsFiniteSet(RowsToCome(n)) /\ Cardinality(RowsToCome(n)) \in Nat
            /\ mails[n] \in Nat /\ IsFiniteSet(Mailing(n)) /\ Cardinality(Mailing(n)) \in Nat
            /\ Faulted \in Nat /\ Spent("stall") \in Nat
      BY ClashTypes, MailTypes
    <2> QED  BY <2>1, PTL
  <1>2. Notes' = Notes
    BY DEF Notes
  <1> QED  BY <1>1, <1>2

\* As long as only faults and rows are added, what may still clash moves with the bound.
LEMMA ClashesMove ==
    ASSUME Frame, Frame', NEW n \in Notes, RowsToCome(n)' \subseteq RowsToCome(n),
           Spent("stall") <= Spent("stall")'
    PROVE  ClashesLeft(n)' + Clashes(n) <= ClashesLeft(n) + Clashes(n)'
  <1>1. /\ Clashes(n) \in Nat /\ ClashesLeft(n) \in Nat /\ ClashesLeft(n) <= Clashes(n)
        /\ IsFiniteSet(RowsToCome(n)) /\ Cardinality(RowsToCome(n)) \in Nat
    BY ClashTypes
  <1>2. /\ Clashes(n)' \in Nat /\ ClashesLeft(n)' \in Nat /\ ClashesLeft(n)' <= Clashes(n)'
        /\ IsFiniteSet(RowsToCome(n)') /\ Cardinality(RowsToCome(n)') \in Nat
    BY NextMailTypes
  <1>3. Cardinality(RowsToCome(n)') <= Cardinality(RowsToCome(n))
    BY <1>1, FS_Subset
  <1>4. Spent("stall") \in Nat /\ Spent("stall")' \in Nat
    BY MailTypes, NextMailTypes
  <1>5. CASE Spent("stall") > 0
    <2>1. Spent("stall")' > 0
      BY <1>4, <1>5
    <2>2. ClashesLeft(n)' <= ClashesLeft(n) /\ Clashes(n)' = Clashes(n)
      BY <1>3, <1>5, <2>1 DEF ClashesLeft, Clashes
    <2> QED  BY <1>1, <1>2, <2>2
  <1>6. CASE ~(Spent("stall") > 0)
    <2>1. ClashesLeft(n) = 0 /\ Clashes(n) = 0
      BY <1>6 DEF ClashesLeft, Clashes
    <2> QED  BY <1>2, <2>1
  <1> QED  BY <1>5, <1>6

\* The step of an email run of the same job.
LEMMA MailsBoundedHere ==
    ASSUME Frame, Frame', NEW w \in Worker, Is(w, "email"), EmailStep(w) \/ EmailThrows(w),
           UNCHANGED kind, NEW n \in Notes, n[1] = at[w],
           mails[n] + One(Pending(n[1])) + Cardinality(Mailing(n)) + ClashesLeft(n)
               <= 1 + Faulted + Clashes(n)
    PROVE  mails'[n] + One(Pending(n[1])') + Cardinality(Mailing(n)') + ClashesLeft(n)'
               <= 1 + Faulted' + Clashes(n)'
  <1>0. Stays(w, "email")
    BY EmailTypesStep
  <1>1. /\ UNCHANGED <<bull, lock, finished, at>> /\ pc' = [pc EXCEPT ![w] = pc'[w]]
        /\ pc \in [Worker -> PC] /\ pc[w] # "idle"
        /\ note \in [Notes -> NoteStatus]
        /\ loop \in [Worker -> [i : 1 .. Recipients + 1, valid : BOOLEAN, sent : 0 .. Recipients]]
        /\ Recipients \in Nat /\ None \notin Job
    BY <1>0, RecipientAssumption, SetAssumption DEF Stays, Inner, Frame, Types, RunTypes, EmailTypes
  <1>2. \A v \in Worker \ {w} : pc'[v] = pc[v] /\ loop'[v] = loop[v]
    <2>1. loop' = [loop EXCEPT ![w] = loop'[w]]
      BY <1>1 DEF EmailStep, EmailThrows, StartEmail, Verify, Lookup, CreateNote, RejectNote,
           MarkProcessing, SendSucceeds, SendFails, MarkSent, MarkUnsent, AfterRecipient, emailVars
    <2> QED  BY <1>1, <2>1
  <1>3. /\ note' = note
              \/ /\ pc[w] \in EmailPC /\ This(w) \in Notes
                 /\ \E s \in NoteStatus \ {"none"} : note' = [note EXCEPT ![This(w)] = s]
        /\ mails'[n] + One(MayMail(w, n)') + Faulted <= mails[n] + One(MayMail(w, n)) + Faulted'
    BY EmailRun
  <1>4. /\ mails[n] \in Nat /\ IsFiniteSet(Mailing(n)) /\ Cardinality(Mailing(n)) \in Nat
        /\ Faulted \in Nat /\ Clashes(n) \in Nat /\ ClashesLeft(n) \in Nat
        /\ IsFiniteSet(RowsToCome(n)) /\ Cardinality(RowsToCome(n)) \in Nat
    BY ClashTypes, MailTypes
  <1>5. /\ mails'[n] \in Nat /\ Cardinality(Mailing(n)') \in Nat
        /\ Faulted' \in Nat /\ ClashesLeft(n)' \in Nat
        /\ Cardinality(RowsToCome(n)') \in Nat
    BY NextMailTypes
  <1>6. Spent("stall")' = Spent("stall") /\ Clashes(n)' = Clashes(n)
    <2>1. budget' = budget \/ Pays("await")
      BY DEF EmailStep, EmailThrows, outerVars, Pays, Spend
    <2>2. Spent("stall")' = Spent("stall")
      BY <2>1, SumsStay, SumsGrow DEF FaultKind, Frame, Types
    <2> QED  BY <2>2 DEF Clashes
  <1>7. Pending(n[1])' = Pending(n[1])
    BY <1>1 DEF Pending
  <1>8. One(Pending(n[1])) \in Nat /\ One(MayMail(w, n)) \in Nat /\ One(MayMail(w, n)') \in Nat
    BY DEF One
  <1>9. /\ One(w \in Mailing(n)) = One(MayMail(w, n))
        /\ One(w \in Mailing(n)') = One(MayMail(w, n)')
    BY DEF Mailing, One
  <1>10. RowsToCome(n)' \subseteq RowsToCome(n)
    BY <1>1, <1>3 DEF RowsToCome, Notes
  <1> DEFINE Clash(v) ==
        /\ at[v] = n[1] /\ lock[n[1]] = v /\ pc[v] = "create" /\ n[2] < loop[v].i
        /\ note[This(v)] = "none" /\ note'[This(v)] # "none"
  <1>11. ASSUME NEW v \in Worker \ {w}, MayMail(v, n)', ~MayMail(v, n) PROVE Clash(v)
    <2>1. This(v)' = This(v)
      BY <1>1, <1>2 DEF This
    <2>2. /\ pc[v] = "create" /\ note[This(v)] = "none" /\ note'[This(v)] # "none" /\ lock[n[1]] = v
          /\ at[v] = n[1] /\ ~(loop[v].i < n[2]) /\ loop[v].i # n[2]
      BY <1>1, <1>2, <1>11, <2>1 DEF MayMail, Carries
    <2>3. loop[v].i \in Nat /\ n[2] \in Nat
      BY <1>1 DEF Notes
    <2> QED  BY <2>2, <2>3
  <1>12. CASE \A v \in Worker \ {w} : ~Clash(v)
    <2>1. Mailing(n)' \ {w} \subseteq Mailing(n) \ {w}
      BY <1>11, <1>12 DEF Mailing
    <2>2. Cardinality(Mailing(n)') <= Cardinality(Mailing(n)) + One(MayMail(w, n)') - One(MayMail(w, n))
      BY <1>4, <1>9, <2>1, CardShrink
    <2>3. ClashesLeft(n)' <= ClashesLeft(n)
      BY <1>4, <1>5, <1>6, <1>10, FS_Subset DEF ClashesLeft
    <2> QED  BY <1>3, <1>4, <1>5, <1>6, <1>7, <1>8, <2>2, <2>3
  <1>13. ASSUME NEW v \in Worker \ {w}, Clash(v)
         PROVE  mails'[n] + One(Pending(n[1])') + Cardinality(Mailing(n)') + ClashesLeft(n)'
                    <= 1 + Faulted' + Clashes(n)'
    <2>1. Mailing(n)' \ {w} \subseteq (Mailing(n) \cup {v}) \ {w}
      BY <1>11, <1>13 DEF Mailing
    <2>2. /\ IsFiniteSet(Mailing(n) \cup {v})
          /\ Cardinality(Mailing(n) \cup {v}) \in Nat
          /\ Cardinality(Mailing(n) \cup {v}) <= Cardinality(Mailing(n)) + 1
      <3>1. /\ IsFiniteSet(Mailing(n) \cup {v})
            /\ Cardinality(Mailing(n) \cup {v})
                  = IF v \in Mailing(n) THEN Cardinality(Mailing(n)) ELSE Cardinality(Mailing(n)) + 1
        BY <1>4, FS_AddElement
      <3> QED  BY <1>4, <3>1
    <2>3. One(w \in Mailing(n) \cup {v}) = One(MayMail(w, n))
      BY <1>13 DEF Mailing, One
    <2>4. Cardinality(Mailing(n)')
             <= Cardinality(Mailing(n) \cup {v}) + One(MayMail(w, n)') - One(MayMail(w, n))
      BY <1>9, <2>1, <2>2, <2>3, CardShrink
    <2>5. Spent("stall") > 0
      <3>1. lock[at[w]] # w /\ at[w] # None
        BY <1>1, <1>13 DEF Notes
      <3>2. Spent("stall") \in Nat
        BY MailTypes
      <3> QED  BY <3>1, <3>2 DEF Alone, Frame
    <2>6. loop[v].i \in RowsToCome(n) /\ loop[v].i \notin RowsToCome(n)'
      <3>1. loop[v].i \in Nat /\ loop[v].i <= Recipients /\ n[2] \in Nat
        BY <1>1, <1>13, EmailRun DEF Notes, LoopOK, Frame, EmailPC
      <3>2. This(v) = <<n[1], loop[v].i>>
        BY <1>13 DEF This
      <3> QED  BY <1>13, <3>1, <3>2 DEF RowsToCome
    <2>7. Cardinality(RowsToCome(n)') <= Cardinality(RowsToCome(n)) - 1
      <3>1. RowsToCome(n)' \subseteq RowsToCome(n) \ {loop[v].i}
        BY <1>10, <2>6
      <3>2. /\ IsFiniteSet(RowsToCome(n) \ {loop[v].i})
            /\ Cardinality(RowsToCome(n) \ {loop[v].i}) = Cardinality(RowsToCome(n)) - 1
        BY <1>4, <2>6, FS_RemoveElement
      <3>3. Cardinality(RowsToCome(n)') <= Cardinality(RowsToCome(n) \ {loop[v].i})
        BY <3>1, <3>2, FS_Subset
      <3> QED  BY <3>2, <3>3
    <2>8. ClashesLeft(n)' <= ClashesLeft(n) - 1
      BY <1>6, <2>5, <2>7 DEF ClashesLeft
    <2> QED  BY <1>3, <1>4, <1>5, <1>6, <1>7, <1>8, <2>2, <2>4, <2>8
  <1> QED  BY <1>12, <1>13

\* A step of another job's run.
LEMMA MailsBoundedThere ==
    ASSUME Frame, Frame', NEW w \in Worker, Inner(w), budget' = budget \/ Pays("await"),
           loop' = [loop EXCEPT ![w] = loop'[w]],
           NEW n \in Notes, n[1] # at[w], mails'[n] = mails[n],
           \A m \in Notes : m[1] = n[1] => note'[m] = note[m],
           mails[n] + One(Pending(n[1])) + Cardinality(Mailing(n)) + ClashesLeft(n)
               <= 1 + Faulted + Clashes(n)
    PROVE  mails'[n] + One(Pending(n[1])') + Cardinality(Mailing(n)') + ClashesLeft(n)'
               <= 1 + Faulted' + Clashes(n)'
  <1>1. /\ UNCHANGED <<bull, lock, finished, at>> /\ pc' = [pc EXCEPT ![w] = pc'[w]]
        /\ pc \in [Worker -> PC]
        /\ loop \in [Worker -> [i : 1 .. Recipients + 1, valid : BOOLEAN, sent : 0 .. Recipients]]
    BY DEF Inner, Frame, Types, RunTypes, EmailTypes
  <1>2. \A v \in Worker \ {w} : pc'[v] = pc[v] /\ loop'[v] = loop[v] /\ This(v)' = This(v)
    BY <1>1 DEF This
  <1>3. \A v \in Worker : at[v] = n[1] /\ pc[v] \in EmailPC => note'[This(v)] = note[This(v)]
    <2> SUFFICES ASSUME NEW v \in Worker, at[v] = n[1], pc[v] \in EmailPC
                 PROVE  note'[This(v)] = note[This(v)]
      OBVIOUS
    <2>1. CASE at[v] \in Emails
      <3>1. loop[v].i \in 1 .. Recipients
        BY <1>1, <2>1, RecipientAssumption DEF Frame, LoopOK
      <3> QED  BY <3>1 DEF This, Notes
    <2>2. CASE at[v] \notin Emails
      <3>1. /\ at[v] \in Queued /\ pc[v] \in FramePC \cup Steps(kind[at[v]])
            /\ kind[at[v]] # "email" /\ kind[at[v]] \in Kind
        BY <2>2, Kinds, SetAssumption DEF Standing, Frame, Types, RunTypes, Emails, Notes, EmailPC
      <3> QED
        BY <3>1 DEF Kind, FileKind, Steps, FramePC, EmailPC, EtlPC, MediaPC, ReportPC, MlPC
    <2> QED  BY <2>1, <2>2
  <1>4. \A v \in Worker : MayMail(v, n)' => MayMail(v, n)
    BY <1>1, <1>2, <1>3 DEF MayMail, Carries
  <1>5. Cardinality(Mailing(n)') <= Cardinality(Mailing(n))
    <2>1. Mailing(n)' \subseteq Mailing(n)
      BY <1>4 DEF Mailing
    <2> QED  BY <2>1, MailTypes, FS_Subset
  <1>6. RowsToCome(n)' \subseteq RowsToCome(n)
    BY DEF RowsToCome, Notes
  <1>7. Faulted <= Faulted' /\ Spent("stall") <= Spent("stall")'
    BY SumsStay, SumsGrow, MailTypes DEF FaultKind, Frame, Types
  <1>8. ClashesLeft(n)' + Clashes(n) <= ClashesLeft(n) + Clashes(n)'
    BY <1>6, <1>7, ClashesMove
  <1>9. Pending(n[1])' = Pending(n[1]) /\ One(Pending(n[1])) \in Nat
    BY <1>1 DEF Pending, One
  <1> QED  BY <1>5, <1>7, <1>8, <1>9, ClashTypes, MailTypes, NextMailTypes

\* One email run moves no other.
LEMMA EmailLoops ==
    ASSUME Frame, NEW w \in Worker, EmailStep(w) \/ EmailThrows(w)
    PROVE  loop' = [loop EXCEPT ![w] = loop'[w]]
  BY DEF EmailStep, EmailThrows, StartEmail, Verify, Lookup, CreateNote, RejectNote, Frame, Types,
         EmailTypes, MarkProcessing, SendSucceeds, SendFails, MarkSent, MarkUnsent, AfterRecipient, emailVars

\* A step of a run is one of its own kind, and leaves alone what the other kinds write.
LEMMA KindOfStep ==
    ASSUME NEW w \in Worker, ProcessStep(w) \/ ProcessThrows(w)
    PROVE  /\ kind' = kind
           /\ \/ /\ Is(w, "email") /\ (EmailStep(w) \/ EmailThrows(w))
                 /\ UNCHANGED <<next, fileVars>>
              \/ /\ ~Is(w, "email") /\ UNCHANGED emailVars
  BY DEF ProcessStep, ProcessThrows, etlVars, Is, FileKind

\* The bound on mails across a step of process() ...
LEMMA MailsBoundedProcess ==
    ASSUME Frame, Frame', MailsBounded, NEW w \in Worker, ProcessStep(w) \/ ProcessThrows(w)
    PROVE  MailsBounded'
  <1>1. Stays(w, kind[at[w]]) /\ (budget' = budget \/ Pays("await"))
    BY ProcessFrame
  <1>2. Inner(w) /\ kind' = kind /\ at' = at
    BY <1>1 DEF Stays, Inner
  <1>3. Emails' = Emails /\ Notes' = Notes
    BY <1>2 DEF Emails, Queued, Notes
  <1>4. loop \in [Worker -> [i : 1 .. Recipients + 1, valid : BOOLEAN, sent : 0 .. Recipients]]
    BY DEF Frame, Types, EmailTypes
  <1> DEFINE Bound(n) == mails[n] + One(Pending(n[1])) + Cardinality(Mailing(n)) + ClashesLeft(n)
                             <= 1 + Faulted + Clashes(n)
             After(n) == mails'[n] + One(Pending(n[1])') + Cardinality(Mailing(n)') + ClashesLeft(n)'
                             <= 1 + Faulted' + Clashes(n)'
  <1> SUFFICES ASSUME NEW n \in Notes
               PROVE  IF n[1] \in Emails THEN After(n) ELSE mails'[n] = 0 /\ note'[n] = "none"
    BY <1>3 DEF MailsBounded
  <1>5. IF n[1] \in Emails THEN Bound(n) ELSE mails[n] = 0 /\ note[n] = "none"
    BY DEF MailsBounded
  <1>6. CASE Is(w, "email") /\ (EmailStep(w) \/ EmailThrows(w))
    <2>1. /\ at[w] \in Emails
          /\ \/ note' = note
             \/ /\ This(w) \in Notes
                /\ \E s \in NoteStatus \ {"none"} : note' = [note EXCEPT ![This(w)] = s]
          /\ n[1] # at[w] => mails'[n] = mails[n]
      BY <1>2, <1>6, EmailRun
    <2>2. CASE n[1] = at[w]
      BY <1>2, <1>5, <1>6, <2>1, <2>2, MailsBoundedHere
    <2>3. CASE n[1] # at[w]
      <3>1. \A m \in Notes : m[1] = n[1] => note'[m] = note[m]
        BY <2>1, <2>3 DEF This, Frame, Types, EmailTypes
      <3>2. loop' = [loop EXCEPT ![w] = loop'[w]] /\ mails'[n] = mails[n]
        BY <1>6, <2>1, <2>3, EmailLoops
      <3>3. CASE n[1] \in Emails
        BY <1>1, <1>2, <1>5, <2>3, <3>1, <3>2, <3>3, MailsBoundedThere
      <3>4. CASE n[1] \notin Emails
        BY <1>5, <3>1, <3>2, <3>4
      <3> QED  BY <3>3, <3>4
    <2> QED  BY <2>2, <2>3
  <1>7. CASE ~Is(w, "email") /\ UNCHANGED emailVars
    <2>1. UNCHANGED <<note, mails, loop>> /\ loop' = [loop EXCEPT ![w] = loop'[w]]
      BY <1>4, <1>7 DEF emailVars
    <2>2. CASE n[1] \in Emails
      <3>1. n[1] # at[w]
        BY <1>2, <1>7, <2>2 DEF Is, Emails, Inner
      <3> QED  BY <1>1, <1>2, <1>5, <2>1, <2>2, <3>1, MailsBoundedThere
    <2>3. CASE n[1] \notin Emails
      BY <1>5, <2>1, <2>3
    <2> QED  BY <2>2, <2>3
  <1> QED  BY <1>6, <1>7, KindOfStep

\* A step of the machinery costs no fault, a fault one.
LEMMA DeliverySums ==
    ASSUME Frame, NEW w \in Worker, DeliveryStep(w) \/ DeliveryFault(w)
    PROVE  /\ Faulted \in Nat /\ Faulted' \in Nat /\ Spent("stall") <= Spent("stall")'
           /\ (DeliveryStep(w) /\ Faulted' = Faulted) \/ (DeliveryFault(w) /\ Faulted' = Faulted + 1)
  <1>1. RunTypes
    BY DEF Frame, Types
  <1>2. CASE DeliveryStep(w)
    <2>1. budget' = budget
      BY <1>2 DEF DeliveryStep, FindJob, outerVars, Complete, Return, Throw, Deliver
    <2> QED  BY <1>1, <1>2, <2>1, SumsStay
  <1>3. CASE DeliveryFault(w)
    <2>1. \E f \in FaultKind : Pays(f)
      BY <1>3 DEF DeliveryFault, Crash, LoseLock, FrameThrows, Spend, Pays, FaultKind
    <2> QED  BY <1>1, <1>3, <2>1, SumsStay, SumsGrow
  <1> QED  BY <1>2, <1>3

\* ... across one of the machinery ...
LEMMA MailsBoundedDelivery ==
    ASSUME Frame, Frame', MailsBounded, NEW w \in Worker, DeliveryStep(w) \/ DeliveryFault(w),
           UNCHANGED effectVars
    PROVE  MailsBounded'
  <1>1. UNCHANGED <<note, mails, loop, kind>> /\ Emails' = Emails /\ Notes' = Notes
    BY DEF effectVars, emailVars, Emails, Queued, Notes
  <1> SUFFICES ASSUME NEW n \in Notes, n[1] \in Emails
               PROVE  mails'[n] + One(Pending(n[1])') + Cardinality(Mailing(n)') + ClashesLeft(n)'
                          <= 1 + Faulted' + Clashes(n)'
    BY <1>1 DEF MailsBounded
  <1> DEFINE j == n[1]
  <1>2. mails[n] + One(Pending(j)) + Cardinality(Mailing(n)) + ClashesLeft(n) <= 1 + Faulted + Clashes(n)
    BY DEF MailsBounded
  <1>3. /\ \A v \in Worker \ {w} :
              pc'[v] = pc[v] /\ at'[v] = at[v] /\ (lock'[j] = v => lock[j] = v)
        /\ finished \subseteq finished'
        /\ pc'[w] \notin FramePC \cup {"idle"} =>
              pc'[w] = pc[w] /\ at'[w] = at[w] /\ (lock'[j] = w => lock[j] = w)
        /\ One(Pending(j)') + One(Carries(w, j)') + Faulted
              <= One(Pending(j)) + One(Carries(w, j)) + Faulted'
    <2>1. j \in Queued
      BY DEF Emails
    <2> QED  BY <1>1, <2>1, TokenKept
  <1>4. \A v \in Worker \ {w} : MayMail(v, n)' => MayMail(v, n)
    <2>1. \A v \in Worker \ {w} : This(v)' = This(v)
      BY <1>1, <1>3 DEF This
    <2> QED  BY <1>1, <1>3, <2>1 DEF MayMail, Carries
  <1>5. MayMail(w, n)' => Carries(w, j)' \/ MayMail(w, n)
    <2> SUFFICES ASSUME MayMail(w, n)', ~Carries(w, j)' PROVE MayMail(w, n)
      OBVIOUS
    <2>1. at'[w] = j /\ pc'[w] \in EmailPC
      BY DEF MayMail
    <2>2. pc'[w] = pc[w] /\ at'[w] = at[w] /\ (lock'[j] = w => lock[j] = w)
      BY <1>3, <2>1 DEF EmailPC, FramePC
    <2>3. This(w)' = This(w)
      BY <1>1, <2>2 DEF This
    <2> QED  BY <1>1, <2>1, <2>2, <2>3 DEF MayMail
  <1>6. Carries(w, j) => MayMail(w, n)
    BY DEF MayMail
  <1>7. Carries(w, j)' => ~(pc'[w] \in EmailPC)
    BY DEF Carries, EmailPC
  <1>8. One(Pending(j)') + One(MayMail(w, n)') + Faulted <= One(Pending(j)) + One(MayMail(w, n)) + Faulted'
    <2>1. CASE Carries(w, j)'
      BY <1>3, <1>6, <2>1, MailTypes, NextMailTypes DEF One, MayMail
    <2>2. CASE ~Carries(w, j)'
      <3>1. MayMail(w, n)' => MayMail(w, n) /\ ~Carries(w, j)
        <4>1. MayMail(w, n)' => pc'[w] \in EmailPC
          BY <2>2 DEF MayMail
        <4>2. pc'[w] \in EmailPC => pc[w] \in EmailPC
          BY <1>3 DEF EmailPC, FramePC
        <4>3. pc[w] \in EmailPC => ~Carries(w, j)
          BY DEF Carries, EmailPC
        <4> QED  BY <1>5, <2>2, <4>1, <4>2, <4>3
      <3> QED  BY <1>3, <1>6, <2>2, <3>1, MailTypes, NextMailTypes DEF One
    <2> QED  BY <2>1, <2>2
  <1>9. Cardinality(Mailing(n)') <= Cardinality(Mailing(n)) + One(MayMail(w, n)') - One(MayMail(w, n))
    <2>1. Mailing(n)' \ {w} \subseteq Mailing(n) \ {w}
      BY <1>4 DEF Mailing
    <2>2. One(w \in Mailing(n)) = One(MayMail(w, n)) /\ One(w \in Mailing(n)') = One(MayMail(w, n)')
      BY DEF Mailing, One
    <2> QED  BY <2>1, <2>2, MailTypes, CardShrink
  <1>10. ClashesLeft(n)' + Clashes(n) <= ClashesLeft(n) + Clashes(n)'
    <2>1. RowsToCome(n)' \subseteq RowsToCome(n)
      BY <1>1 DEF RowsToCome
    <2>2. Spent("stall") <= Spent("stall")'
      BY DeliverySums
    <2> QED  BY <2>1, <2>2, ClashesMove
  <1>11. /\ One(Pending(j)) \in Nat /\ One(Pending(j)') \in Nat
         /\ One(MayMail(w, n)) \in Nat /\ One(MayMail(w, n)') \in Nat
    BY DEF One
  <1> QED
    BY <1>1, <1>2, <1>8, <1>9, <1>10, <1>11, ClashTypes, MailTypes, NextMailTypes

\* Where a step of the machinery may leave a run.
LEMMA DeliveryMoves ==
    ASSUME Frame, NEW w \in Worker, DeliveryStep(w) \/ DeliveryFault(w)
    PROVE  /\ \A v \in Worker \ {w} : pc'[v] = pc[v] /\ at'[v] = at[v]
           /\ \/ pc'[w] = pc[w] /\ at'[w] = at[w] /\ DeliveryFault(w)
              \/ pc'[w] \in {"idle", "find", "start", "return", "throw"}
           /\ DeliveryStep(w) => pc[w] \in FramePC \cup {"idle"}
           /\ finished' = finished \/ (pc[w] = "done" /\ finished' = finished \cup {at[w]})
  <1>1. /\ pc \in [Worker -> PC] /\ at \in [Worker -> Job \cup {None}]
    BY DEF Frame, Types, RunTypes, DeliveryTypeOK
  <1>2. CASE DeliveryStep(w)
    BY <1>1, <1>2 DEF DeliveryStep, FindJob, outerVars, Complete, Return, Throw, Deliver, Go, FramePC
  <1>3. CASE DeliveryFault(w)
    BY <1>1, <1>3 DEF DeliveryFault, Crash, LoseLock, FrameThrows, FramePC, DeliveryStep, FindJob,
                      Complete, Return, Throw, Deliver, Go
  <1> QED  BY <1>2, <1>3

\* ... at first ...
LEMMA MailsBoundedInit == Init => MailsBounded
  <1> SUFFICES ASSUME Init, NEW n \in Notes
               PROVE  IF n[1] \in Emails
                      THEN mails[n] + One(Pending(n[1])) + Cardinality(Mailing(n)) + ClashesLeft(n)
                               <= 1 + Faulted + Clashes(n)
                      ELSE mails[n] = 0 /\ note[n] = "none"
    BY DEF MailsBounded
  <1>1. Frame
    BY FrameInit
  <1>2. mails[n] = 0 /\ note[n] = "none"
    BY DEF Init, EmailInit
  <1>3. Mailing(n) = {}
    BY DEF Init, DeliveryInit, Mailing, MayMail, Carries, EmailPC
  <1>4. Cardinality(Mailing(n)) = 0
    BY <1>3, FS_EmptySet
  <1>5. Spent("stall") = 0
    BY BoundAssumption DEF Init, DeliveryInit, Spent, FaultKind
  <1>6. One(Pending(n[1])) <= 1 /\ One(Pending(n[1])) \in Nat
    BY DEF One
  <1> QED
    BY <1>1, <1>2, <1>4, <1>5, <1>6, ClashTypes, MailTypes DEF ClashesLeft

\* ... and so in every step.
LEMMA MailsBoundedNext == Frame /\ Frame' /\ MailsBounded /\ [Next]_vars => MailsBounded'
  <1> SUFFICES ASSUME Frame, Frame', MailsBounded, [Next]_vars PROVE MailsBounded'
    OBVIOUS
  <1>1. CASE UNCHANGED <<deliveryVars, emailVars, kind>>
    BY <1>1 DEF MailsBounded, deliveryVars, emailVars, Pending, Mailing, MayMail, Carries, This, Emails, Notes,
                Queued, ClashesLeft, RowsToCome, Clashes, Spent, Faulted
  <1>2. UNCHANGED vars \/ Background => UNCHANGED <<deliveryVars, emailVars, kind>>
    BY DEF vars, effectVars, Background
  <1> QED  BY <1>1, <1>2, MailsBoundedProcess, MailsBoundedDelivery DEF Next

\* A recipient of an email job is mailed again only if a fault made the job run again, at
\* most once per fault, and after an expired lock once more per recipient behind it, whose
\* row two runs may create at a time.
THEOREM MailedAgain == Spec => []MailedAgainOnlyByFault
  <1>1. Frame /\ MailsBounded => MailedAgainOnlyByFault
    <2> SUFFICES ASSUME Frame, MailsBounded, NEW n \in Notes
                 PROVE  mails[n] <= 1 + Faulted + Clashes(n)
      BY DEF MailedAgainOnlyByFault
    <2>1. One(Pending(n[1])) \in Nat
      BY DEF One
    <2> QED  BY <2>1, ClashTypes, MailTypes DEF MailsBounded
  <1> QED  BY <1>1, FrameInvariant, MailsBoundedInit, MailsBoundedNext, PTL DEF Spec

-----------------------------------------------------------------------------
(* What the rows say of the mails *)

\* A mail is out before its row says so, and the row says so before the run goes on.
MailsTold ==
    /\ \A w \in Worker : at[w] \in Emails /\ pc[w] = "sent" => mails[This(w)] > 0
    /\ \A n \in Notes : note[n] = "SENT" => mails[n] > 0
    /\ Faulted = 0 => \A n \in Notes : mails[n] > 0 =>
          \/ note[n] = "SENT"
          \/ \E w \in Worker : at[w] = n[1] /\ loop[w].i = n[2] /\ pc[w] = "sent"

\* Somebody was mailed for the job.
SomeMail(j) == \E n \in Notes : n[1] = j /\ mails[n] > 0

\* What validEmailsSent counts was sent.
MailCounted ==
    /\ \A w \in Worker :
          at[w] \in Emails /\ (pc[w] = "done" \/ (pc[w] \in EmailPC /\ loop[w].sent > 0))
              => SomeMail(at[w])
    /\ \A j \in Emails : j \in finished => SomeMail(j)

\* A fault is no step.
LEMMA ThrowIsNoStep ==
    ASSUME Frame, NEW w \in Worker, EmailThrows(w)
    PROVE  ~EmailStep(w)
  <1>1. budget["await"] \in Nat /\ budget' = [budget EXCEPT !["await"] = @ - 1] /\ budget \in [FaultKind -> Nat]
    BY DEF EmailThrows, Spend, Frame, Types, RunTypes, DeliveryTypeOK, FaultKind
  <1>2. budget'["await"] # budget["await"]
    BY <1>1 DEF FaultKind
  <1> QED  BY <1>2 DEF EmailStep, outerVars

\* What a step of an email run does, for the rows and the count.
LEMMA EmailMoves ==
    ASSUME Frame, NEW w \in Worker, Is(w, "email"), EmailStep(w) \/ EmailThrows(w)
    PROVE  /\ pc[w] \in EmailPC => This(w) \in Notes
           /\ \/ mails' = mails /\ pc'[w] # "sent"
              \/ /\ pc[w] = "send" /\ loop' = loop /\ note' = note
                 /\ mails' = [mails EXCEPT ![This(w)] = @ + 1]
                 /\ EmailStep(w) => pc'[w] = "sent"
           /\ \/ note' = note
              \/ /\ pc[w] \in {"create", "mark", "reject", "sent", "unsent"}
                 /\ pc[w] = "create" => note[This(w)] = "none"
                 /\ \E s \in NoteStatus : /\ note' = [note EXCEPT ![This(w)] = s]
                                          /\ s = "SENT" <=> pc[w] = "sent"
           /\ EmailStep(w) /\ pc[w] = "sent" => note' = [note EXCEPT ![This(w)] = "SENT"]
           /\ pc'[w] = "done" \/ (pc'[w] \in EmailPC /\ loop'[w].sent > 0) =>
                 pc[w] = "sent" \/ (pc[w] \in EmailPC /\ loop[w].sent > 0)
  <1> DEFINE Goal ==
           /\ \/ mails' = mails /\ pc'[w] # "sent"
              \/ /\ pc[w] = "send" /\ loop' = loop /\ note' = note
                 /\ mails' = [mails EXCEPT ![This(w)] = @ + 1]
                 /\ EmailStep(w) => pc'[w] = "sent"
           /\ \/ note' = note
              \/ /\ pc[w] \in {"create", "mark", "reject", "sent", "unsent"}
                 /\ pc[w] = "create" => note[This(w)] = "none"
                 /\ \E s \in NoteStatus : /\ note' = [note EXCEPT ![This(w)] = s]
                                          /\ s = "SENT" <=> pc[w] = "sent"
           /\ EmailStep(w) /\ pc[w] = "sent" => note' = [note EXCEPT ![This(w)] = "SENT"]
           /\ pc'[w] = "done" \/ (pc'[w] \in EmailPC /\ loop'[w].sent > 0) =>
                 pc[w] = "sent" \/ (pc[w] \in EmailPC /\ loop[w].sent > 0)
  <1>0. /\ at[w] \in Emails /\ pc[w] \in FramePC \cup EmailPC
        /\ pc \in [Worker -> PC] /\ note \in [Notes -> NoteStatus] /\ mails \in [Notes -> Nat]
        /\ loop \in [Worker -> [i : 1 .. Recipients + 1, valid : BOOLEAN, sent : 0 .. Recipients]]
        /\ Recipients \in Nat /\ RunTypes
    BY RecipientAssumption DEF Is, Standing, Emails, Steps, Frame, Types, RunTypes, EmailTypes
  <1>1. /\ loop[w] \in [i : 1 .. Recipients + 1, valid : BOOLEAN, sent : 0 .. Recipients]
        /\ loop[w].i \in Nat /\ loop[w].sent \in Nat
    BY <1>0
  <1>2. pc[w] \in EmailPC => This(w) \in Notes
    BY <1>0, <1>1, Kinds DEF LoopOK, This, Notes, Frame, RunTypes, Emails
  <1>3. ASSUME NEW s \in Nat, AfterRecipient(w, s)
        PROVE  /\ pc'[w] \in {"verify", "throw", "done"}
               /\ pc'[w] = "done" \/ (pc'[w] \in EmailPC /\ loop'[w].sent > 0) => s > 0
    <2>1. loop'[w].sent = s
      BY <1>0, <1>1, <1>3 DEF AfterRecipient
    <2>2. pc'[w] = IF loop[w].i < Recipients THEN "verify" ELSE IF s = 0 THEN "throw" ELSE "done"
      BY <1>0, <1>3 DEF AfterRecipient
    <2> QED  BY <1>3, <2>1, <2>2 DEF EmailPC
  <1> USE DEF Go, SetNote, NoteStatus, EmailPC
  <1>4. ASSUME StartEmail(w) PROVE Goal
    BY <1>0, <1>4 DEF StartEmail, LoopStart
  <1>5. ASSUME Verify(w) PROVE Goal
    <2>1. PICK b : loop' = [loop EXCEPT ![w].valid = b]
      BY <1>5 DEF Verify
    <2>2. loop'[w].sent = loop[w].sent
      BY <1>0, <2>1
    <2> QED  BY <1>0, <1>5, <2>2 DEF Verify
  <1>6. ASSUME Lookup(w) PROVE Goal
    BY <1>0, <1>6 DEF Lookup, emailVars
  <1>7. ASSUME CreateNote(w) PROVE Goal
    BY <1>0, <1>1, <1>3, <1>7 DEF CreateNote
  <1>8. ASSUME RejectNote(w) PROVE Goal
    BY <1>0, <1>1, <1>3, <1>8 DEF RejectNote
  <1>9. ASSUME MarkProcessing(w) PROVE Goal
    BY <1>0, <1>9 DEF MarkProcessing
  <1>10. ASSUME SendSucceeds(w) PROVE Goal
    BY <1>0, <1>10 DEF SendSucceeds
  <1>11. ASSUME SendFails(w) PROVE Goal
    BY <1>0, <1>11 DEF SendFails, emailVars
  <1>12. ASSUME MarkSent(w) PROVE Goal
    BY <1>0, <1>1, <1>3, <1>12 DEF MarkSent
  <1>13. ASSUME MarkUnsent(w) PROVE Goal
    BY <1>0, <1>1, <1>3, <1>13 DEF MarkUnsent
  <1>14. ASSUME EmailThrows(w) PROVE Goal
    <2>1. ~EmailStep(w)
      BY <1>14, ThrowIsNoStep
    <2> QED  BY <1>0, <1>14, <2>1 DEF EmailThrows
  <1> QED
    BY <1>2, <1>4, <1>5, <1>6, <1>7, <1>8, <1>9, <1>10, <1>11, <1>12, <1>13, <1>14 DEF EmailStep

\* Rows and mails agree across a step of process() ...
LEMMA MailsToldProcess ==
    ASSUME Frame, Frame', MailsBounded, MailsTold, NEW w \in Worker, ProcessStep(w) \/ ProcessThrows(w)
    PROVE  MailsTold'
  <1>1. /\ Inner(w) /\ kind' = kind /\ at' = at
        /\ \/ ProcessStep(w) /\ budget' = budget
           \/ ProcessThrows(w) /\ Pays("await")
    BY ProcessFrame DEF Stays, Inner
  <1>2. Emails' = Emails /\ Notes' = Notes
    BY <1>1 DEF Emails, Queued, Notes
  <1>3. /\ loop \in [Worker -> [i : 1 .. Recipients + 1, valid : BOOLEAN, sent : 0 .. Recipients]]
        /\ note \in [Notes -> NoteStatus] /\ mails \in [Notes -> Nat]
        /\ pc \in [Worker -> PC] /\ RunTypes
    BY DEF Frame, Types, EmailTypes, RunTypes
  <1>4. CASE ~Is(w, "email") /\ UNCHANGED emailVars
    <2>1. \A v \in Worker : at[v] \in Emails => v # w /\ pc'[v] = pc[v] /\ This(v)' = This(v)
      BY <1>1, <1>3, <1>4 DEF Is, Emails, Inner, This, emailVars
    <2>2. Faulted' = 0 => Faulted = 0
      BY <1>1, <1>3, SumsStay, SumsGrow DEF FaultKind
    <2>3. \A v \in Worker, n \in Notes : at[v] = n[1] /\ loop[v].i = n[2] /\ pc[v] = "sent" /\ mails[n] > 0
              => pc'[v] = "sent"
      <3>1. \A n \in Notes : mails[n] > 0 => n[1] \in Emails
        BY DEF MailsBounded
      <3> QED  BY <2>1, <3>1
    <2> QED  BY <1>1, <1>2, <1>4, <2>1, <2>2, <2>3 DEF MailsTold, emailVars
  <1>5. ASSUME Is(w, "email"), EmailStep(w) \/ EmailThrows(w) PROVE MailsTold'
    <2>1. /\ pc[w] \in EmailPC => This(w) \in Notes
          /\ \/ mails' = mails /\ pc'[w] # "sent"
             \/ /\ pc[w] = "send" /\ loop' = loop /\ note' = note
                /\ mails' = [mails EXCEPT ![This(w)] = @ + 1]
                /\ EmailStep(w) => pc'[w] = "sent"
          /\ \/ note' = note
             \/ /\ pc[w] \in {"create", "mark", "reject", "sent", "unsent"}
                /\ pc[w] = "create" => note[This(w)] = "none"
                /\ \E s \in NoteStatus : /\ note' = [note EXCEPT ![This(w)] = s]
                                         /\ s = "SENT" <=> pc[w] = "sent"
          /\ EmailStep(w) /\ pc[w] = "sent" => note' = [note EXCEPT ![This(w)] = "SENT"]
      BY <1>5, EmailMoves
    <2>2. at[w] \in Emails /\ \A v \in Worker \ {w} : pc'[v] = pc[v] /\ loop'[v] = loop[v] /\ This(v)' = This(v)
      <3>1. loop' = [loop EXCEPT ![w] = loop'[w]]
        BY <1>5, EmailLoops
      <3> QED  BY <1>1, <1>3, <1>5, <3>1 DEF Inner, This, Is, Emails
    <2>3. \A n \in Notes : mails[n] \in Nat /\ mails'[n] \in Nat /\ (mails[n] > 0 => mails'[n] > 0)
      BY <1>3, <2>1 DEF EmailPC
    <2>4. ASSUME NEW v \in Worker, at'[v] \in Emails', pc'[v] = "sent" PROVE mails'[This(v)'] > 0
      <3>1. CASE v = w
        <4>1. /\ pc[w] = "send" /\ loop' = loop /\ mails' = [mails EXCEPT ![This(w)] = @ + 1]
              /\ This(w) \in Notes
          BY <2>1, <2>4, <3>1 DEF EmailPC
        <4>2. This(w)' = This(w) /\ mails[This(w)] \in Nat
          BY <1>1, <1>3, <4>1 DEF This
        <4> QED  BY <1>3, <3>1, <4>1, <4>2
      <3>2. CASE v # w
        <4>1. at[v] \in Emails /\ pc[v] = "sent" /\ This(v)' = This(v)
          BY <1>1, <1>2, <2>2, <2>4, <3>2
        <4>2. loop[v].i \in 1 .. Recipients /\ at[v] \in Job
          BY <1>3, <4>1, RecipientAssumption, Kinds DEF Frame, LoopOK, EmailPC, Emails, RunTypes
        <4>3. This(v) \in Notes
          BY <4>2 DEF This, Notes
        <4> QED  BY <2>3, <4>1, <4>3 DEF MailsTold
      <3> QED  BY <3>1, <3>2
    <2>5. ASSUME NEW n \in Notes, note'[n] = "SENT" PROVE mails'[n] > 0
      <3>1. CASE note[n] = "SENT"
        BY <2>3, <3>1 DEF MailsTold
      <3>2. CASE note[n] # "SENT"
        <4>1. n = This(w) /\ pc[w] = "sent"
          BY <1>3, <2>1, <2>5, <3>2
        <4>2. mails[n] > 0
          BY <2>2, <4>1 DEF MailsTold
        <4> QED  BY <2>3, <4>2
      <3> QED  BY <3>1, <3>2
    <2>6. ASSUME Faulted' = 0, NEW n \in Notes, mails'[n] > 0
          PROVE  \/ note'[n] = "SENT"
                 \/ \E v \in Worker : at'[v] = n[1] /\ loop'[v].i = n[2] /\ pc'[v] = "sent"
      <3>1. Faulted = 0 /\ EmailStep(w) /\ Spent("stall") = 0
        <4>1. Faulted \in Nat /\ Spent("stall") \in Nat /\ Spent("stall") <= Faulted
          BY <1>3, SumsStay
        <4>2. ~EmailThrows(w)
          <5>1. EmailThrows(w) => Pays("await")
            BY DEF EmailThrows, Spend, Pays
          <5>2. Faulted + 1 # 0
            BY <4>1
          <5> QED  BY <2>6, <5>1, <5>2, <1>3, SumsGrow DEF FaultKind
        <4>3. budget' = budget
          BY <1>5, <4>2 DEF EmailStep, outerVars
        <4> QED  BY <1>3, <1>5, <2>6, <4>1, <4>2, <4>3, SumsStay
      <3>2. CASE mails[n] = 0
        <4>1. /\ n = This(w) /\ loop' = loop /\ pc'[w] = "sent"
          BY <1>3, <2>1, <2>6, <3>1, <3>2
        <4> QED  BY <1>1, <4>1 DEF This
      <3>3. CASE mails[n] # 0
        <4>1. mails[n] > 0
          BY <2>3, <3>3
        <4>2. CASE note[n] = "SENT"
          <5>1. ASSUME n = This(w), pc[w] \in {"mark", "reject", "unsent"} PROVE FALSE
            <6>1. n[1] = at[w] /\ n[2] = loop[w].i
              BY <5>1 DEF This
            <6>2. MayMail(w, n)
              BY <5>1, <6>1 DEF MayMail, EmailPC
            <6>3. w \in Mailing(n) /\ IsFiniteSet(Mailing(n)) /\ Cardinality(Mailing(n)) \in Nat
              BY <6>2, MailTypes DEF Mailing
            <6>4. Cardinality(Mailing(n)) > 0
              <7>1. Cardinality(Mailing(n)) # 0
                BY <6>3, FS_EmptySet
              <7> QED  BY <6>3, <7>1
            <6>5. Clashes(n) = 0 /\ ClashesLeft(n) = 0
              BY <3>1 DEF Clashes, ClashesLeft
            <6>6. mails[n] + One(Pending(n[1])) + Cardinality(Mailing(n)) + ClashesLeft(n)
                      <= 1 + Faulted + Clashes(n)
              BY <2>2, <6>1 DEF MailsBounded
            <6>7. One(Pending(n[1])) \in Nat /\ mails[n] \in Nat
              BY <2>3 DEF One
            <6> QED  BY <3>1, <4>1, <6>3, <6>4, <6>5, <6>6, <6>7
          <5>2. note'[n] = "SENT"
            BY <1>3, <2>1, <3>1, <4>2, <5>1
          <5> QED  BY <5>2
        <4>3. CASE note[n] # "SENT"
          <5>1. PICK v \in Worker : at[v] = n[1] /\ loop[v].i = n[2] /\ pc[v] = "sent"
            BY <3>1, <4>1, <4>3 DEF MailsTold
          <5>2. CASE v = w
            <6>1. n = This(w)
              BY <5>1, <5>2 DEF This, Notes
            <6>2. note'[n] = "SENT"
              BY <1>3, <2>1, <3>1, <5>1, <5>2, <6>1
            <6> QED  BY <6>2
          <5>3. CASE v # w
            BY <1>1, <2>2, <5>1, <5>3
          <5> QED  BY <5>2, <5>3
        <4> QED  BY <4>2, <4>3
      <3> QED  BY <3>2, <3>3
    <2> QED  BY <1>2, <2>4, <2>5, <2>6 DEF MailsTold
  <1> QED  BY <1>4, <1>5, KindOfStep

\* ... and across one of the machinery.
LEMMA MailsToldDelivery ==
    ASSUME Frame, MailsTold, NEW w \in Worker, DeliveryStep(w) \/ DeliveryFault(w),
           UNCHANGED effectVars
    PROVE  MailsTold'
  <1>1. UNCHANGED <<note, mails, loop, kind>> /\ Emails' = Emails /\ Notes' = Notes
    BY DEF effectVars, emailVars, Emails, Queued, Notes
  <1>2. \A v \in Worker : pc'[v] = "sent" => pc[v] = "sent" /\ at'[v] = at[v] /\ This(v)' = This(v)
    BY <1>1, DeliveryMoves DEF This
  <1>3. Faulted' = 0 => Faulted = 0 /\ \A v \in Worker : pc[v] = "sent" => pc'[v] = "sent" /\ at'[v] = at[v]
    <2>1. Faulted' = 0 => Faulted = 0 /\ DeliveryStep(w)
      BY DeliverySums
    <2> QED  BY <2>1, DeliveryMoves DEF FramePC
  <1> QED  BY <1>1, <1>2, <1>3 DEF MailsTold

\* So do the mails counted and the mails sent ...
LEMMA MailCountedProcess ==
    ASSUME Frame, MailsTold, MailCounted, NEW w \in Worker, ProcessStep(w) \/ ProcessThrows(w)
    PROVE  MailCounted'
  <1>1. Inner(w) /\ UNCHANGED <<kind, at, finished>>
    BY ProcessFrame DEF Stays, Inner
  <1>2. Emails' = Emails /\ Notes' = Notes
    BY <1>1 DEF Emails, Queued, Notes
  <1>3. pc \in [Worker -> PC] /\ mails \in [Notes -> Nat]
    BY DEF Frame, Types, RunTypes, EmailTypes
  <1>4. \A v \in Worker \ {w} : pc'[v] = pc[v]
    BY <1>1, <1>3 DEF Inner
  <1>5. CASE ~Is(w, "email") /\ UNCHANGED emailVars
    <2>1. at[w] \notin Emails
      BY <1>1, <1>5 DEF Is, Emails, Inner
    <2> QED  BY <1>1, <1>2, <1>4, <1>5, <2>1 DEF MailCounted, SomeMail, emailVars
  <1>6. CASE Is(w, "email") /\ (EmailStep(w) \/ EmailThrows(w))
    <2>1. /\ pc[w] \in EmailPC => This(w) \in Notes
          /\ \/ mails' = mails
             \/ pc[w] = "send" /\ mails' = [mails EXCEPT ![This(w)] = @ + 1]
          /\ pc'[w] = "done" \/ (pc'[w] \in EmailPC /\ loop'[w].sent > 0) =>
                pc[w] = "sent" \/ (pc[w] \in EmailPC /\ loop[w].sent > 0)
      BY <1>6, EmailMoves
    <2>2. \A v \in Worker \ {w} : loop'[v] = loop[v]
      <3>1. loop' = [loop EXCEPT ![w] = loop'[w]]
        BY <1>6, EmailLoops
      <3> QED  BY <3>1 DEF Frame, Types, EmailTypes
    <2>3. \A n \in Notes : mails[n] > 0 => mails'[n] > 0
      BY <1>3, <2>1 DEF EmailPC
    <2>4. \A j : SomeMail(j) => SomeMail(j)'
      BY <1>2, <2>3 DEF SomeMail
    <2>5. at[w] \in Emails
      BY <1>6, <1>1 DEF Is, Emails, Inner
    <2>6. pc[w] = "sent" => SomeMail(at[w])
      BY <2>1, <2>5 DEF SomeMail, MailsTold, EmailPC, This
    <2>7. ASSUME NEW v \in Worker, at'[v] \in Emails',
                 pc'[v] = "done" \/ (pc'[v] \in EmailPC /\ loop'[v].sent > 0)
          PROVE  SomeMail(at[v])
      <3>1. CASE v = w
        BY <2>1, <2>5, <2>6, <2>7, <3>1 DEF MailCounted
      <3>2. CASE v # w
        BY <1>1, <1>2, <1>4, <2>2, <2>7, <3>2 DEF MailCounted
      <3> QED  BY <3>1, <3>2
    <2> QED  BY <1>1, <1>2, <2>4, <2>7 DEF MailCounted
  <1> QED  BY <1>5, <1>6, KindOfStep

\* ... whatever BullMQ does between them.
LEMMA MailCountedDelivery ==
    ASSUME Frame, MailCounted, NEW w \in Worker, DeliveryStep(w) \/ DeliveryFault(w),
           UNCHANGED effectVars
    PROVE  MailCounted'
  <1>1. UNCHANGED <<note, mails, loop, kind>> /\ Emails' = Emails /\ Notes' = Notes
    BY DEF effectVars, emailVars, Emails, Queued, Notes
  <1>2. \A v \in Worker : pc'[v] \in EmailPC \cup {"done"} => pc'[v] = pc[v] /\ at'[v] = at[v]
    BY DeliveryMoves DEF EmailPC
  <1>3. \A j : SomeMail(j)' <=> SomeMail(j)
    BY <1>1 DEF SomeMail
  <1>4. \A j \in Emails : j \in finished' => SomeMail(j)
    BY DeliveryMoves DEF MailCounted
  <1> QED  BY <1>1, <1>2, <1>3, <1>4 DEF MailCounted

\* What the rows say is inductive.
LEMMA MailsKnownNext ==
    Frame /\ Frame' /\ MailsBounded /\ MailsTold /\ MailCounted /\ [Next]_vars
        => MailsTold' /\ MailCounted'
  <1> SUFFICES ASSUME Frame, Frame', MailsBounded, MailsTold, MailCounted, [Next]_vars
               PROVE  MailsTold' /\ MailCounted'
    OBVIOUS
  <1>1. CASE UNCHANGED <<deliveryVars, emailVars, kind>>
    BY <1>1 DEF MailsTold, MailCounted, SomeMail, deliveryVars, emailVars, This, Emails, Notes,
                Queued, Spent, Faulted
  <1>2. UNCHANGED vars \/ Background => UNCHANGED <<deliveryVars, emailVars, kind>>
    BY DEF vars, effectVars, Background
  <1>3. ASSUME NEW w \in Worker, ProcessStep(w) \/ ProcessThrows(w) PROVE MailsTold' /\ MailCounted'
    BY <1>3, MailsToldProcess, MailCountedProcess
  <1>4. ASSUME NEW w \in Worker, DeliveryStep(w) \/ DeliveryFault(w), UNCHANGED effectVars
        PROVE  MailsTold' /\ MailCounted'
    BY <1>4, MailsToldDelivery, MailCountedDelivery
  <1> QED  BY <1>1, <1>2, <1>3, <1>4 DEF Next

\* SENT only after a mail, and as long as nothing fails after every one; a completed email
\* job has mailed some recipient.
THEOREM MailsAgreeWithRows == Spec => []MailLedger
  <1>1. Init => MailsTold /\ MailCounted
    BY DEF Init, DeliveryInit, EmailInit, MailsTold, MailCounted, SomeMail, Notes, Emails, EmailPC
  <1>2. MailsTold /\ MailCounted => MailLedger
    BY DEF MailsTold, MailCounted, SomeMail, MailLedger, Quiet
  <1> QED
    BY <1>1, <1>2, FrameInvariant, MailsBoundedInit, MailsBoundedNext, MailsKnownNext, PTL DEF Spec

-----------------------------------------------------------------------------
(* Chained jobs *)

\* The run of w may still save a chained job, or make the job be tried again.
MayChain(w, j) ==
    \/ Carries(w, j)
    \/ at[w] = j /\ pc[w] \in {"extract", "load", "upsert", "saveNext"}

Chaining(j) == {w \in Worker : MayChain(w, j)}

\* The run of w has saved a chained job that it has not submitted yet.
IsSubmitting(w, j) == at[w] = j /\ pc[w] = "submitNext"
Submitting(j) == {w \in Worker : IsSubmitting(w, j)}

\* Every job that was saved but not submitted has a run or a fault to its name.
Chained(j) ==
    /\ next[j]["saved"] + next[j]["submitted"] + One(Pending(j)) + Cardinality(Chaining(j))
          <= 1 + Faulted
    /\ Cardinality(Submitting(j)) <= next[j]["saved"]
    /\ next[j]["saved"] <= Cardinality(Submitting(j)) + Faulted
    /\ next[j]["submitted"] >= 0

ChainsBounded == \A j \in EtlJobs : Chained(j)

\* A run that has got past submitJob() has submitted.
ChainsMade ==
    HasNext =>
        /\ \A w \in Worker : at[w] \in EtlJobs /\ pc[w] = "done" => next[at[w]]["submitted"] > 0
        /\ \A j \in EtlJobs : j \in finished => next[j]["submitted"] > 0

ChainTypes ==
    /\ \A j \in Job : /\ next[j]["saved"] \in Int /\ next[j]["submitted"] \in Int
                      /\ IsFiniteSet(Chaining(j)) /\ Cardinality(Chaining(j)) \in Nat
                      /\ IsFiniteSet(Submitting(j)) /\ Cardinality(Submitting(j)) \in Nat
    /\ Faulted \in Nat

\* The terms of the books on chained jobs are numbers.
LEMMA ChainsTyped == Frame => ChainTypes
  <1> SUFFICES ASSUME Frame PROVE ChainTypes
    OBVIOUS
  <1>1. \A j \in Job : Chaining(j) \subseteq Worker /\ Submitting(j) \subseteq Worker
    BY DEF Chaining, Submitting
  <1>2. \A j \in Job : /\ IsFiniteSet(Chaining(j)) /\ Cardinality(Chaining(j)) \in Nat
                       /\ IsFiniteSet(Submitting(j)) /\ Cardinality(Submitting(j)) \in Nat
    BY <1>1, SetAssumption, FS_Subset, FS_CardinalityType
  <1>3. Faulted \in Nat
    BY SumsStay DEF Frame, Types
  <1>4. \A j \in Job : next[j]["saved"] \in Int /\ next[j]["submitted"] \in Int
    BY DEF Frame, Types, EtlTypes
  <1> QED  BY <1>2, <1>3, <1>4 DEF ChainTypes

\* A step of w keeps the books of a job if it keeps those of w.
LEMMA ChainedStep ==
    ASSUME ChainTypes, ChainTypes', NEW w \in Worker, NEW j \in Job, Chained(j),
           \A v \in Worker \ {w} :
               pc'[v] = pc[v] /\ at'[v] = at[v] /\ (lock'[j] = v => lock[j] = v),
           finished \subseteq finished',
           next'[j]["saved"] + next'[j]["submitted"] + One(Pending(j)') + One(MayChain(w, j)') + Faulted
              <= next[j]["saved"] + next[j]["submitted"] + One(Pending(j)) + One(MayChain(w, j)) + Faulted',
           next[j]["saved"] + One(IsSubmitting(w, j)') <= next'[j]["saved"] + One(IsSubmitting(w, j)),
           next'[j]["saved"] + One(IsSubmitting(w, j)) + Faulted
              <= next[j]["saved"] + One(IsSubmitting(w, j)') + Faulted',
           next[j]["submitted"] <= next'[j]["submitted"]
    PROVE  Chained(j)'
  <1>1. /\ next[j]["saved"] \in Int /\ next[j]["submitted"] \in Int
        /\ IsFiniteSet(Chaining(j)) /\ Cardinality(Chaining(j)) \in Nat
        /\ IsFiniteSet(Submitting(j)) /\ Cardinality(Submitting(j)) \in Nat
        /\ Faulted \in Nat
    BY DEF ChainTypes
  <1>2. /\ next'[j]["saved"] \in Int /\ next'[j]["submitted"] \in Int
        /\ Cardinality(Chaining(j)') \in Nat /\ Cardinality(Submitting(j)') \in Nat
        /\ Faulted' \in Nat
    BY DEF ChainTypes
  <1>3. /\ One(Pending(j)) \in Nat /\ One(Pending(j)') \in Nat
        /\ One(MayChain(w, j)) \in Nat /\ One(MayChain(w, j)') \in Nat
        /\ One(IsSubmitting(w, j)) \in Nat /\ One(IsSubmitting(w, j)') \in Nat
    BY DEF One
  <1>4. Cardinality(Chaining(j)') <= Cardinality(Chaining(j)) + One(MayChain(w, j)') - One(MayChain(w, j))
    <2>1. Chaining(j)' \ {w} \subseteq Chaining(j) \ {w}
      BY DEF Chaining, MayChain, Carries
    <2>2. One(w \in Chaining(j)) = One(MayChain(w, j)) /\ One(w \in Chaining(j)') = One(MayChain(w, j)')
      BY DEF Chaining, One
    <2> QED  BY <1>1, <2>1, <2>2, CardShrink
  <1>5. Cardinality(Submitting(j)')
           = Cardinality(Submitting(j)) + One(IsSubmitting(w, j)') - One(IsSubmitting(w, j))
    <2>1. Submitting(j)' \ {w} = Submitting(j) \ {w}
      BY DEF Submitting, IsSubmitting
    <2>2. /\ One(w \in Submitting(j)) = One(IsSubmitting(w, j))
          /\ One(w \in Submitting(j)') = One(IsSubmitting(w, j)')
      BY DEF Submitting, One
    <2> QED  BY <1>1, <2>1, <2>2, CardUpdate
  <1>6. /\ next[j]["saved"] + next[j]["submitted"] + One(Pending(j)) + Cardinality(Chaining(j))
              <= 1 + Faulted
        /\ Cardinality(Submitting(j)) <= next[j]["saved"]
        /\ next[j]["saved"] <= Cardinality(Submitting(j)) + Faulted
        /\ next[j]["submitted"] >= 0
    BY DEF Chained
  <1>7. next'[j]["saved"] + next'[j]["submitted"] + One(Pending(j)') + Cardinality(Chaining(j)')
            <= 1 + Faulted'
    BY <1>1, <1>2, <1>3, <1>4, <1>6
  <1>8. /\ Cardinality(Submitting(j)') <= next'[j]["saved"]
        /\ next'[j]["saved"] <= Cardinality(Submitting(j)') + Faulted'
        /\ next'[j]["submitted"] >= 0
    BY <1>1, <1>2, <1>3, <1>5, <1>6
  <1> QED  BY <1>7, <1>8 DEF Chained

\* What a step of an ETL run does to the chained jobs.
LEMMA EtlRun ==
    ASSUME Frame, Frame', NEW w \in Worker, Is(w, "etl"), EtlStep(w) \/ EtlThrows(w), UNCHANGED kind
    PROVE  /\ at[w] \in EtlJobs
           /\ \A j \in Job \ {at[w]} : next'[j] = next[j]
           /\ LET j == at[w]
              IN  /\ next'[j]["saved"] + next'[j]["submitted"] + One(MayChain(w, j)') + Faulted
                        <= next[j]["saved"] + next[j]["submitted"] + One(MayChain(w, j)) + Faulted'
                  /\ next[j]["saved"] + One(IsSubmitting(w, j)')
                        <= next'[j]["saved"] + One(IsSubmitting(w, j))
                  /\ next'[j]["saved"] + One(IsSubmitting(w, j)) + Faulted
                        <= next[j]["saved"] + One(IsSubmitting(w, j)') + Faulted'
                  /\ next[j]["submitted"] <= next'[j]["submitted"]
                  /\ HasNext /\ pc'[w] = "done" => next[j]["submitted"] < next'[j]["submitted"]
  <1> DEFINE j == at[w]
             saved == next[j]["saved"]
             submitted == next[j]["submitted"]
  <1>0. /\ j \in EtlJobs /\ j \in Job /\ pc[w] \in FramePC \cup EtlPC
        /\ pc \in [Worker -> PC] /\ RunTypes
        /\ next \in [Job -> [{"saved", "submitted"} -> Int]]
    BY Kinds DEF Is, Standing, EtlJobs, Steps, Frame, Types, RunTypes, EtlTypes
  <1>1. saved \in Int /\ submitted \in Int
    BY <1>0
  <1>2. /\ Faulted \in Nat
        /\ budget' = budget => Faulted' = Faulted
        /\ Pays("await") => Faulted' = Faulted + 1
    BY <1>0, SumsStay, SumsGrow DEF FaultKind
  <1>3. UNCHANGED <<bull, lock, finished, at>>
    BY DEF EtlStep, EtlThrows, outerVars
  <1> DEFINE Others == \A i \in Job \ {j} : next'[i] = next[i]
             Books(s, b, fault) ==
                 /\ s + b + One(MayChain(w, j)') <= saved + submitted + One(MayChain(w, j)) + fault
                 /\ saved + One(IsSubmitting(w, j)') <= s + One(IsSubmitting(w, j))
                 /\ s + One(IsSubmitting(w, j)) <= saved + One(IsSubmitting(w, j)') + fault
                 /\ submitted <= b
                 /\ HasNext /\ pc'[w] = "done" => submitted < b
  <1> USE DEF Go
  <1>4. ASSUME CheckDependency(w) \/ Extract(w) \/ Transform(w) \/ TransformNothing(w) \/ Load(w)
        PROVE  next' = next /\ Books(saved, submitted, 0)
    <2>1. /\ next' = next /\ pc[w] \in {"start", "extract", "load", "upsert"}
          /\ pc'[w] \in {"extract", "load", "upsert", "saveNext", "done", "throw"}
          /\ HasNext => pc'[w] # "done"
      BY <1>0, <1>4 DEF CheckDependency, Extract, Transform, TransformNothing, Load, etlVars
    <2>2. MayChain(w, j) /\ ~IsSubmitting(w, j) /\ ~IsSubmitting(w, j)'
      BY <2>1, <1>3 DEF MayChain, Carries, IsSubmitting
    <2> QED  BY <1>1, <2>1, <2>2 DEF One
  <1>5. ASSUME SaveNext(w) PROVE Others /\ Books(next'[j]["saved"], next'[j]["submitted"], 0)
    <2>1. /\ pc[w] = "saveNext" /\ pc'[w] = "submitNext"
          /\ next' = [next EXCEPT ![j]["saved"] = @ + 1]
      BY <1>0, <1>5 DEF SaveNext
    <2>2. Others /\ next'[j]["saved"] = saved + 1 /\ next'[j]["submitted"] = submitted
      BY <1>0, <2>1
    <2>3. /\ MayChain(w, j) /\ ~IsSubmitting(w, j) /\ ~MayChain(w, j)' /\ IsSubmitting(w, j)'
      BY <2>1, <1>3 DEF MayChain, Carries, IsSubmitting
    <2> QED  BY <1>1, <2>1, <2>2, <2>3 DEF One
  <1>6. ASSUME next' = [next EXCEPT ![j]["saved"] = @ - 1, ![j]["submitted"] = @ + 1]
        PROVE  Others /\ next'[j]["saved"] = saved - 1 /\ next'[j]["submitted"] = submitted + 1
    BY <1>0, <1>6
  <1>7. ASSUME SubmitNext(w) PROVE Others /\ Books(next'[j]["saved"], next'[j]["submitted"], 0)
    <2>1. pc[w] = "submitNext" /\ pc'[w] = "done"
      BY <1>0, <1>7 DEF SubmitNext
    <2>2. Others /\ next'[j]["saved"] = saved - 1 /\ next'[j]["submitted"] = submitted + 1
      BY <1>6, <1>7 DEF SubmitNext
    <2>3. /\ ~MayChain(w, j) /\ IsSubmitting(w, j) /\ ~MayChain(w, j)' /\ ~IsSubmitting(w, j)'
      BY <2>1, <1>3 DEF MayChain, Carries, IsSubmitting
    <2> QED  BY <1>1, <2>1, <2>2, <2>3 DEF One
  <1>8. ASSUME EtlThrows(w) PROVE Others /\ Books(next'[j]["saved"], next'[j]["submitted"], 1)
    <2>1. pc'[w] = "throw" /\ ~IsSubmitting(w, j)'
      BY <1>0, <1>8 DEF EtlThrows, IsSubmitting
    <2>2. One(MayChain(w, j)') \in 0 .. 1 /\ One(MayChain(w, j)) \in 0 .. 1
      BY DEF One
    <2>3. CASE next' = next
      <3>1. One(IsSubmitting(w, j)) \in 0 .. 1 /\ One(IsSubmitting(w, j)') = 0
        BY <2>1 DEF One
      <3> QED  BY <1>1, <2>1, <2>2, <2>3, <3>1
    <2>4. CASE next' # next
      <3>1. /\ pc[w] = "submitNext"
            /\ Others /\ next'[j]["saved"] = saved - 1 /\ next'[j]["submitted"] = submitted + 1
        BY <1>6, <1>8, <2>4 DEF EtlThrows
      <3>2. One(IsSubmitting(w, j)) = 1 /\ One(IsSubmitting(w, j)') = 0
        BY <2>1, <3>1 DEF One, IsSubmitting
      <3> QED  BY <1>1, <2>1, <2>2, <3>1, <3>2
    <2> QED  BY <2>3, <2>4
  <1>9. /\ EtlStep(w) => Faulted' = Faulted
        /\ EtlThrows(w) => Faulted' = Faulted + 1
    BY <1>2 DEF EtlStep, EtlThrows, outerVars, Spend, Pays
  <1>10. next'[j]["saved"] \in Int /\ next'[j]["submitted"] \in Int
    BY <1>0 DEF Frame, Types, EtlTypes
  <1>11. /\ One(MayChain(w, j)) \in Nat /\ One(MayChain(w, j)') \in Nat
         /\ One(IsSubmitting(w, j)) \in Nat /\ One(IsSubmitting(w, j)') \in Nat
    BY DEF One
  <1>12. CASE EtlStep(w)
    <2>1. Others /\ Books(next'[j]["saved"], next'[j]["submitted"], 0)
      BY <1>4, <1>5, <1>7, <1>12 DEF EtlStep
    <2> QED  BY <1>0, <1>1, <1>2, <1>9, <1>10, <1>11, <1>12, <2>1
  <1>13. CASE EtlThrows(w)
    <2>1. Others /\ Books(next'[j]["saved"], next'[j]["submitted"], 1)
      BY <1>8, <1>13
    <2> QED  BY <1>0, <1>1, <1>2, <1>9, <1>10, <1>11, <1>13, <2>1
  <1> QED  BY <1>12, <1>13

\* Only an ETL run moves the table of chained jobs.
LEMMA EtlOrNot ==
    ASSUME NEW w \in Worker, ProcessStep(w) \/ ProcessThrows(w)
    PROVE  \/ Is(w, "etl") /\ (EtlStep(w) \/ EtlThrows(w))
           \/ ~Is(w, "etl") /\ UNCHANGED next
  BY DEF ProcessStep, ProcessThrows, etlVars, Is, FileKind

\* The books on chained jobs across a step of process() ...
LEMMA ChainsProcess ==
    ASSUME Frame, Frame', ChainTypes, ChainTypes', ChainsBounded, ChainsMade,
           NEW w \in Worker, ProcessStep(w) \/ ProcessThrows(w)
    PROVE  ChainsBounded' /\ ChainsMade'
  <1>1. Inner(w) /\ (budget' = budget \/ Pays("await"))
    BY ProcessFrame DEF Stays
  <1>2. /\ UNCHANGED <<bull, lock, finished, at, kind>> /\ EtlJobs' = EtlJobs /\ pc[w] # "idle"
        /\ \A v \in Worker \ {w} : pc'[v] = pc[v]
    BY <1>1 DEF Inner, EtlJobs, Queued, Frame, Types, RunTypes
  <1>3. \A j \in EtlJobs : j \in Job
    BY Kinds DEF EtlJobs, Frame, Types, RunTypes
  <1>4. Faulted \in Nat /\ Faulted' \in Nat /\ Faulted <= Faulted'
    BY <1>1, SumsStay, SumsGrow DEF Frame, Types, FaultKind
  <1>5. \A j \in EtlJobs : Pending(j)' = Pending(j) /\ One(Pending(j)) \in Nat
    BY <1>2 DEF Pending, One
  \* Another job's run moves on.
  <1>6. ASSUME NEW j \in EtlJobs, j # at[w], next'[j] = next[j] PROVE Chained(j)'
    <2>1. One(MayChain(w, j)) = 0 /\ One(MayChain(w, j)') = 0
          /\ One(IsSubmitting(w, j)) = 0 /\ One(IsSubmitting(w, j)') = 0
      BY <1>2, <1>6 DEF MayChain, Carries, IsSubmitting, One
    <2>2. Chained(j) /\ next[j]["saved"] \in Int /\ next[j]["submitted"] \in Int
      BY <1>3 DEF ChainsBounded, ChainTypes
    <2> QED  BY <1>2, <1>3, <1>4, <1>5, <1>6, <2>1, <2>2, ChainedStep
  <1>7. CASE ~Is(w, "etl") /\ UNCHANGED next
    <2>1. at[w] \notin EtlJobs
      BY <1>2, <1>7 DEF Is, EtlJobs
    <2>2. ChainsBounded'
      BY <1>2, <1>6, <1>7, <2>1 DEF ChainsBounded
    <2>3. ChainsMade'
      BY <1>2, <1>7, <2>1 DEF ChainsMade
    <2> QED  BY <2>2, <2>3
  <1>8. CASE Is(w, "etl") /\ (EtlStep(w) \/ EtlThrows(w))
    <2>0. PICK j \in EtlJobs : j = at[w]
      BY <1>2, <1>8, EtlRun
    <2>1. /\ j \in EtlJobs /\ j = at[w]
          /\ \A i \in Job \ {j} : next'[i] = next[i]
          /\ next'[j]["saved"] + next'[j]["submitted"] + One(MayChain(w, j)') + Faulted
                <= next[j]["saved"] + next[j]["submitted"] + One(MayChain(w, j)) + Faulted'
          /\ next[j]["saved"] + One(IsSubmitting(w, j)')
                <= next'[j]["saved"] + One(IsSubmitting(w, j))
          /\ next'[j]["saved"] + One(IsSubmitting(w, j)) + Faulted
                <= next[j]["saved"] + One(IsSubmitting(w, j)') + Faulted'
          /\ next[j]["submitted"] <= next'[j]["submitted"]
          /\ HasNext /\ pc'[w] = "done" => next[j]["submitted"] < next'[j]["submitted"]
      BY <1>2, <1>8, <2>0, EtlRun
    <2>2. /\ next[j]["saved"] \in Int /\ next[j]["submitted"] \in Int /\ j \in Job
          /\ next'[j]["saved"] \in Int /\ next'[j]["submitted"] \in Int
          /\ Chained(j)
      BY <1>3, <2>1 DEF ChainTypes, ChainsBounded
    <2>3. One(MayChain(w, j)) \in Nat /\ One(MayChain(w, j)') \in Nat
      BY DEF One
    <2>4. next'[j]["saved"] + next'[j]["submitted"] + One(Pending(j)') + One(MayChain(w, j)') + Faulted
             <= next[j]["saved"] + next[j]["submitted"] + One(Pending(j)) + One(MayChain(w, j)) + Faulted'
      BY <1>4, <1>5, <2>1, <2>2, <2>3
    <2>5. Chained(j)'
      <3>1. /\ \A v \in Worker \ {w} :
                  pc'[v] = pc[v] /\ at'[v] = at[v] /\ (lock'[j] = v => lock[j] = v)
            /\ finished \subseteq finished' /\ j \in Job
        BY <1>2, <2>2
      <3> QED  BY <2>1, <2>2, <2>4, <3>1, ChainedStep
    <2>6. ChainsBounded'
      BY <1>2, <1>3, <1>6, <2>1, <2>5 DEF ChainsBounded
    <2>7. next[j]["submitted"] >= 0
      BY <2>2 DEF Chained
    <2>8. ASSUME HasNext, NEW v \in Worker, at[v] \in EtlJobs, pc'[v] = "done"
          PROVE  next'[at[v]]["submitted"] > 0
      <3>1. CASE v = w
        BY <2>1, <2>2, <2>7, <2>8, <3>1
      <3>2. CASE v # w
        <4>1. next[at[v]]["submitted"] > 0
          BY <1>2, <2>8, <3>2 DEF ChainsMade
        <4> QED  BY <1>3, <2>1, <2>2, <2>8, <4>1
      <3> QED  BY <3>1, <3>2
    <2>9. ASSUME HasNext, NEW i \in EtlJobs, i \in finished PROVE next'[i]["submitted"] > 0
      <3>1. next[i]["submitted"] > 0
        BY <2>9 DEF ChainsMade
      <3> QED  BY <1>3, <2>1, <2>2, <3>1
    <2>10. ChainsMade'
      BY <1>2, <2>8, <2>9 DEF ChainsMade
    <2> QED  BY <2>6, <2>10
  <1> QED  BY <1>7, <1>8, EtlOrNot

\* ... across one of the machinery ...
LEMMA ChainsDelivery ==
    ASSUME Frame, Frame', ChainTypes, ChainTypes', ChainsBounded, ChainsMade,
           NEW w \in Worker, DeliveryStep(w) \/ DeliveryFault(w), UNCHANGED effectVars
    PROVE  ChainsBounded' /\ ChainsMade'
  <1>1. UNCHANGED <<next, kind>> /\ EtlJobs' = EtlJobs
    BY DEF effectVars, etlVars, EtlJobs, Queued
  <1>2. ASSUME NEW j \in EtlJobs PROVE Chained(j)'
    <2>1. j \in Queued /\ j \in Job /\ Chained(j)
      BY Kinds DEF EtlJobs, Frame, Types, RunTypes, ChainsBounded
    <2>2. /\ \A v \in Worker \ {w} :
                pc'[v] = pc[v] /\ at'[v] = at[v] /\ (lock'[j] = v => lock[j] = v)
          /\ finished \subseteq finished'
          /\ pc'[w] \notin FramePC \cup {"idle"} =>
                pc'[w] = pc[w] /\ at'[w] = at[w] /\ (lock'[j] = w => lock[j] = w)
          /\ Faulted \in Nat /\ Faulted' \in Nat
          /\ One(Pending(j)') + One(Carries(w, j)') + Faulted
                <= One(Pending(j)) + One(Carries(w, j)) + Faulted'
      BY <1>1, <2>1, TokenKept
    <2>3. /\ (DeliveryStep(w) /\ Faulted' = Faulted /\ pc[w] \in FramePC \cup {"idle"})
             \/ Faulted' = Faulted + 1
      BY DeliverySums, DeliveryMoves
    <2>4. /\ One(Pending(j)) \in 0 .. 1 /\ One(Pending(j)') \in 0 .. 1
          /\ One(IsSubmitting(w, j)) \in 0 .. 1 /\ One(IsSubmitting(w, j)') \in 0 .. 1
          /\ One(Carries(w, j)) \in 0 .. 1 /\ One(Carries(w, j)') \in 0 .. 1
      BY DEF One
    <2>5. /\ One(IsSubmitting(w, j)') <= One(IsSubmitting(w, j))
          /\ One(IsSubmitting(w, j)) + Faulted <= One(IsSubmitting(w, j)') + Faulted'
      <3>1. IsSubmitting(w, j)' => IsSubmitting(w, j)
        BY <2>2 DEF IsSubmitting, FramePC
      <3>2. IsSubmitting(w, j) => Faulted' = Faulted + 1
        BY <2>3 DEF IsSubmitting, FramePC
      <3>3. CASE IsSubmitting(w, j)
        <4>1. One(IsSubmitting(w, j)) = 1 /\ Faulted' = Faulted + 1
          BY <3>2, <3>3 DEF One
        <4> QED  BY <2>2, <2>4, <4>1
      <3>4. CASE ~IsSubmitting(w, j)
        <4>1. One(IsSubmitting(w, j)) = 0 /\ One(IsSubmitting(w, j)') = 0
          BY <3>1, <3>4 DEF One
        <4> QED  BY <2>2, <2>3, <4>1
      <3> QED  BY <3>3, <3>4
    <2>6. One(Pending(j)') + One(MayChain(w, j)') + Faulted
             <= One(Pending(j)) + One(MayChain(w, j)) + Faulted'
      <3>1. CASE pc'[w] \in {"extract", "load", "upsert", "saveNext"}
        <4>1. pc'[w] = pc[w] /\ at'[w] = at[w] /\ ~Carries(w, j) /\ ~Carries(w, j)'
          BY <2>2, <3>1 DEF FramePC, Carries
        <4>2. MayChain(w, j)' <=> MayChain(w, j)
          BY <4>1 DEF MayChain
        <4>3. One(MayChain(w, j)') = One(MayChain(w, j)) /\ One(MayChain(w, j)) \in Nat
          BY <4>2 DEF One
        <4>4. One(Carries(w, j)') = 0 /\ One(Carries(w, j)) = 0
          BY <4>1 DEF One
        <4> QED  BY <2>2, <2>4, <4>3, <4>4
      <3>2. CASE pc'[w] \notin {"extract", "load", "upsert", "saveNext"}
        <4>1. (MayChain(w, j)' <=> Carries(w, j)') /\ (Carries(w, j) => MayChain(w, j))
          BY <3>2 DEF MayChain
        <4>2. /\ One(MayChain(w, j)') = One(Carries(w, j)')
              /\ One(Carries(w, j)) <= One(MayChain(w, j)) /\ One(MayChain(w, j)) \in Nat
          BY <4>1 DEF One
        <4> QED  BY <2>2, <2>4, <4>2
      <3> QED  BY <3>1, <3>2
    <2>7. /\ next[j]["saved"] \in Int /\ next[j]["submitted"] \in Int
          /\ One(MayChain(w, j)') \in Nat /\ One(MayChain(w, j)) \in Nat
      BY <2>1 DEF ChainTypes, One
    <2>8. /\ next'[j]["saved"] + next'[j]["submitted"] + One(Pending(j)') + One(MayChain(w, j)') + Faulted
                <= next[j]["saved"] + next[j]["submitted"] + One(Pending(j)) + One(MayChain(w, j)) + Faulted'
          /\ next[j]["saved"] + One(IsSubmitting(w, j)') <= next'[j]["saved"] + One(IsSubmitting(w, j))
          /\ next'[j]["saved"] + One(IsSubmitting(w, j)) + Faulted
                <= next[j]["saved"] + One(IsSubmitting(w, j)') + Faulted'
          /\ next[j]["submitted"] <= next'[j]["submitted"]
      BY <1>1, <2>2, <2>4, <2>5, <2>6, <2>7
    <2> QED  BY <2>1, <2>2, <2>8, ChainedStep
  <1>3. ChainsMade'
    <2>1. \A v \in Worker : pc'[v] = "done" => pc[v] = "done" /\ at'[v] = at[v]
      BY DeliveryMoves
    <2>2. \A j \in EtlJobs : j \in finished' =>
             j \in finished \/ \E v \in Worker : at[v] = j /\ pc[v] = "done"
      BY DeliveryMoves
    <2> QED  BY <1>1, <2>1, <2>2 DEF ChainsMade
  <1> QED  BY <1>1, <1>2, <1>3 DEF ChainsBounded

\* ... in every step ...
LEMMA ChainsNext ==
    Frame /\ Frame' /\ ChainTypes /\ ChainTypes' /\ ChainsBounded /\ ChainsMade /\ [Next]_vars
        => ChainsBounded' /\ ChainsMade'
  <1> SUFFICES ASSUME Frame, Frame', ChainTypes, ChainTypes', ChainsBounded, ChainsMade, [Next]_vars
               PROVE  ChainsBounded' /\ ChainsMade'
    OBVIOUS
  <1>1. CASE UNCHANGED <<deliveryVars, next, kind>>
    BY <1>1 DEF ChainsBounded, Chained, ChainsMade, deliveryVars, EtlJobs, Queued, Pending, Chaining, MayChain,
                Carries, Submitting, IsSubmitting, Spent, Faulted
  <1>2. UNCHANGED vars \/ Background => UNCHANGED <<deliveryVars, next, kind>>
    BY DEF vars, effectVars, etlVars, Background, DependencyCompletes
  <1> QED  BY <1>1, <1>2, ChainsProcess, ChainsDelivery DEF Next

\* ... and at first.
LEMMA ChainsInit == Init => ChainsBounded /\ ChainsMade
  <1> SUFFICES ASSUME Init PROVE ChainsBounded /\ ChainsMade
    OBVIOUS
  <1>1. ChainsMade
    BY DEF Init, DeliveryInit, ChainsMade
  <1>2. ASSUME NEW j \in EtlJobs PROVE Chained(j)
    <2>1. j \in Job
      BY Kinds DEF Init, EtlJobs
    <2>2. next[j]["saved"] = 0 /\ next[j]["submitted"] = 0
      BY <2>1 DEF Init, EtlInit
    <2>3. Chaining(j) = {} /\ Submitting(j) = {}
      BY DEF Init, DeliveryInit, Chaining, MayChain, Carries, Submitting, IsSubmitting
    <2>4. Cardinality(Chaining(j)) = 0 /\ Cardinality(Submitting(j)) = 0
      BY <2>3, FS_EmptySet
    <2>5. One(Pending(j)) \in 0 .. 1
      BY DEF One
    <2>6. Faulted \in Nat
      BY FrameInit, ChainsTyped DEF ChainTypes
    <2> QED  BY <2>2, <2>4, <2>5, <2>6 DEF Chained
  <1> QED  BY <1>1, <1>2 DEF ChainsBounded

\* A completed ETL job has submitted its next job; it chains one job only unless a fault
\* made it run again, and only a fault leaves a row that nobody submits.
THEOREM ChainedOnceHolds == Spec => []ChainedOnce
  <1>1. ChainTypes /\ ChainsBounded /\ ChainsMade /\ Frame => ChainedOnce
    <2> SUFFICES ASSUME ChainTypes, ChainsBounded, ChainsMade, Frame, NEW j \in EtlJobs
                 PROVE  /\ j \in finished /\ HasNext => next[j]["submitted"] > 0
                        /\ next[j]["submitted"] + next[j]["saved"] <= 1 + Faulted
                        /\ Quiet(j) => next[j]["saved"] <= Faulted
      BY DEF ChainedOnce
    <2>1. /\ next[j]["saved"] \in Int /\ next[j]["submitted"] \in Int
          /\ Cardinality(Chaining(j)) \in Nat /\ Cardinality(Submitting(j)) \in Nat
          /\ Faulted \in Nat /\ One(Pending(j)) \in Nat
          /\ Chained(j)
      BY Kinds DEF ChainTypes, ChainsBounded, EtlJobs, Frame, Types, RunTypes, One
    <2>2. Quiet(j) => Cardinality(Submitting(j)) = 0
      <3>1. Quiet(j) => Submitting(j) = {}
        BY DEF Quiet, Submitting, IsSubmitting
      <3> QED  BY <3>1, FS_EmptySet
    <2>3. next[j]["submitted"] + next[j]["saved"] <= 1 + Faulted
      BY <2>1 DEF Chained
    <2>4. Quiet(j) => next[j]["saved"] <= Faulted
      BY <2>1, <2>2 DEF Chained
    <2> QED  BY <2>3, <2>4 DEF ChainsMade
  <1> QED
    BY <1>1, FrameInvariant, ChainsTyped, ChainsInit, ChainsNext, PTL DEF Spec

-----------------------------------------------------------------------------
(* Files *)

\* Where a run has a downloaded input in hand.
HoldPC == {"pipeline", "check", "transcode", "ffmpeg"}

\* The downloaded inputs that no run is at work on.
Lost == {f \in files : f[1] = "input" /\ \A w \in Worker : input[w] # f[2] \/ pc[w] \notin HoldPC}

LostBounded == Cardinality(Lost) <= Faulted

\* Where the result of a job goes.
Dir(j) == IF kind[j] = "report" THEN "report" ELSE "media"

FileJobs == {j \in Queued : kind[j] \in FileKind}

\* What a run is about to name as its result, or has named, is on disk.
ResultsKept ==
    /\ \A w \in Worker : at[w] \in FileJobs =>
          /\ pc[w] \in {"ffmpeg", "upload"} => <<"media", output[w]>> \in files
          /\ pc[w] \in {"put", "clean"} => <<"report", output[w]>> \in files
          /\ pc[w] \in {"s3", "done"} => <<Dir(at[w]), result[at[w]]>> \in files
    /\ \A j \in FileJobs : j \in finished => <<Dir(j), result[j]>> \in files

\* What a step of a file run does to its own files and to those of the others.
FileMoves(w) ==
    /\ input' = [input EXCEPT ![w] = input'[w]]
    /\ output' = [output EXCEPT ![w] = output'[w]]
    \* A new input is in the hands of the run that downloads it ...
    /\ \A f \in files' : f[1] = "input" => f \in files \/ (f[2] = input'[w] /\ pc'[w] \in HoldPC)
    \* ... and stays there until it is removed, if nothing fails.
    /\ \/ pc[w] \notin HoldPC
       \/ pc'[w] \in HoldPC /\ input'[w] = input[w]
       \/ <<"input", input[w]>> \notin files'
       \/ Faulted' = Faulted + 1
    /\ \A f \in files : f[1] \in {"media", "report"} => f \in files'
    /\ \/ result' = result
       \/ /\ pc[w] = (IF kind[at[w]] = "report" THEN "clean" ELSE "upload")
          /\ result' = [result EXCEPT ![at[w]] = output[w]]
    /\ pc'[w] \in {"ffmpeg", "upload"} =>
          \/ <<"media", output'[w]>> \in files'
          \/ pc[w] = "ffmpeg" /\ output'[w] = output[w]
    /\ pc'[w] \in {"put", "clean"} =>
          \/ <<"report", output'[w]>> \in files'
          \/ pc[w] = "put" /\ output'[w] = output[w]
    /\ pc'[w] \in {"s3", "done"} =>
          \/ pc[w] = "s3" /\ result' = result
          \/ /\ pc[w] = (IF kind[at[w]] = "report" THEN "clean" ELSE "upload")
             /\ result' = [result EXCEPT ![at[w]] = output[w]]

\* A step of a media run moves its own files only ...
LEMMA MediaMoves ==
    ASSUME Frame, NEW w \in Worker, NEW k \in {"transcode", "convert", "image"}, Is(w, k),
           MediaStep(w, k), UNCHANGED kind
    PROVE  FileMoves(w)
  <1>1. /\ pc \in [Worker -> PC] /\ uuid \in Nat /\ kind[at[w]] = k
        /\ files \subseteq FileDirs \X (1 .. uuid)
        /\ input \in [Worker -> 0 .. uuid] /\ output \in [Worker -> 0 .. uuid]
        /\ result \in [Job -> Nat]
    BY DEF FileTypes, FileDirs, RunTypes, Frame, Types, Is
  <1> USE DEF Go, Forget, ThrowFrom, fileVars, HoldPC
  <1>4. ASSUME StartMedia(w, k) PROVE FileMoves(w)
    BY <1>1, <1>4 DEF StartMedia, FileMoves
  <1>5. ASSUME Download(w) PROVE FileMoves(w)
    BY <1>1, <1>5 DEF Download, FileMoves
  <1>6. ASSUME DownloadBreaks(w) PROVE FileMoves(w)
    BY <1>1, <1>6 DEF DownloadBreaks, FileMoves
  <1>7. ASSUME DownloadEnds(w) PROVE FileMoves(w)
    BY <1>1, <1>7 DEF DownloadEnds, FileMoves
  <1>8. ASSUME CheckInput(w) PROVE FileMoves(w)
    BY <1>1, <1>8 DEF CheckInput, FileMoves
  <1>9. ASSUME StartFfmpeg(w) PROVE FileMoves(w)
    BY <1>1, <1>9 DEF StartFfmpeg, FileMoves
  <1>10. ASSUME FfmpegEnds(w) PROVE FileMoves(w)
    BY <1>1, <1>10 DEF FfmpegEnds, FileMoves
  <1>11. ASSUME FfmpegFails(w) PROVE FileMoves(w)
    BY <1>1, <1>11 DEF FfmpegFails, FileMoves
  <1>12. ASSUME FetchImage(w) PROVE FileMoves(w)
    BY <1>1, <1>12 DEF FetchImage, FileMoves
  <1>13. ASSUME FilterImage(w) PROVE FileMoves(w)
    BY <1>1, <1>13 DEF FilterImage, FileMoves
  <1>14. ASSUME UploadMedia(w) PROVE FileMoves(w)
    BY <1>1, <1>14 DEF UploadMedia, FileMoves
  <1>15. ASSUME MediaToS3(w) PROVE FileMoves(w)
    BY <1>1, <1>15 DEF MediaToS3, FileMoves
  <1> QED
    BY <1>4, <1>5, <1>6, <1>7, <1>8, <1>9, <1>10, <1>11, <1>12, <1>13, <1>14, <1>15 DEF MediaStep

\* ... so does one of a report run ...
LEMMA ReportMoves ==
    ASSUME Frame, NEW w \in Worker, Is(w, "report"), ReportStep(w), UNCHANGED kind
    PROVE  FileMoves(w)
  <1>1. /\ pc \in [Worker -> PC] /\ uuid \in Nat /\ kind[at[w]] = "report"
        /\ files \subseteq FileDirs \X (1 .. uuid)
        /\ input \in [Worker -> 0 .. uuid] /\ output \in [Worker -> 0 .. uuid]
        /\ result \in [Job -> Nat]
    BY DEF FileTypes, FileDirs, RunTypes, Frame, Types, Is
  <1> USE DEF Go, Forget, ThrowFrom, HoldPC
  <1>4. ASSUME StartReport(w) PROVE FileMoves(w)
    BY <1>1, <1>4 DEF StartReport, FileMoves
  <1>5. ASSUME OpenPdf(w) PROVE FileMoves(w)
    BY <1>1, <1>5 DEF OpenPdf, FileMoves
  <1>6. ASSUME StatPdf(w) PROVE FileMoves(w)
    BY <1>1, <1>6 DEF StatPdf, FileMoves
  <1>7. ASSUME CopyPdf(w) PROVE FileMoves(w)
    BY <1>1, <1>7 DEF CopyPdf, FileMoves
  <1>8. ASSUME PutPdf(w) PROVE FileMoves(w)
    BY <1>1, <1>8 DEF PutPdf, FileMoves
  <1>9. ASSUME CleanReports(w) PROVE FileMoves(w)
    BY <1>1, <1>9 DEF CleanReports, FileMoves
  <1> QED  BY <1>4, <1>5, <1>6, <1>7, <1>8, <1>9 DEF ReportStep

\* ... and a failing call.
LEMMA FileThrowsMoves ==
    ASSUME Frame, NEW w \in Worker, FileThrows(w)
    PROVE  FileMoves(w)
  <1>1. /\ pc \in [Worker -> PC]
        /\ input \in [Worker -> 0 .. uuid] /\ output \in [Worker -> 0 .. uuid]
    BY DEF FileTypes, RunTypes, Frame, Types
  <1>2. Faulted' = Faulted + 1
    BY SumsGrow DEF FileThrows, Spend, Pays, FaultKind, Frame, Types
  <1> QED  BY <1>1, <1>2 DEF FileThrows, Forget, FileMoves, HoldPC

\* Only these runs move files.
LEMMA FilesOrNot ==
    ASSUME Frame, NEW w \in Worker, ProcessStep(w) \/ ProcessThrows(w)
    PROVE  \/ (\E k \in FileKind : Is(w, k)) /\ FileMoves(w)
           \/ ~(\E k \in FileKind : Is(w, k)) /\ UNCHANGED fileVars
  <1>1. ASSUME NEW k \in {"transcode", "convert", "image"}, Is(w, k), MediaStep(w, k), UNCHANGED kind
        PROVE  FileMoves(w)
    BY <1>1, MediaMoves
  <1> QED  BY <1>1, ReportMoves, FileThrowsMoves DEF ProcessStep, ProcessThrows, Is, FileKind

\* The inputs left behind can be counted.
LEMMA LostFinite ==
    ASSUME Frame
    PROVE  IsFiniteSet(Lost) /\ Cardinality(Lost) \in Nat
  <1>1. uuid \in Nat /\ files \subseteq FileDirs \X (1 .. uuid)
    BY DEF Frame, Types, FileTypes, FileDirs
  <1>2. Lost \subseteq {"input"} \X (1 .. uuid)
    BY <1>1 DEF Lost
  <1>3. IsFiniteSet({"input"}) /\ IsFiniteSet(1 .. uuid)
    <2>1. IsFiniteSet({"input"})
      BY FS_Singleton
    <2>2. IsFiniteSet(1 .. uuid)
      BY <1>1, FS_Interval
    <2> QED  BY <2>1, <2>2
  <1>4. IsFiniteSet({"input"} \X (1 .. uuid))
    BY <1>3, FS_Product
  <1> QED  BY <1>2, <1>4, FS_Subset, FS_CardinalityType

\* A step of process() leaves no input behind, a failing call one at most ...
LEMMA LostProcess ==
    ASSUME Frame, Frame', LostBounded, NEW w \in Worker, ProcessStep(w) \/ ProcessThrows(w)
    PROVE  LostBounded'
  <1>1. Stays(w, kind[at[w]]) /\ (budget' = budget \/ Pays("await"))
    BY ProcessFrame
  <1>2. /\ at[w] \in Queued /\ pc[w] # "idle" /\ pc' = [pc EXCEPT ![w] = pc'[w]] /\ pc \in [Worker -> PC]
        /\ pc'[w] \in FramePC \cup Steps(kind[at[w]])
        /\ input \in [Worker -> 0 .. uuid] /\ files' \subseteq FileDirs \X (1 .. uuid')
    BY <1>1 DEF Stays, Inner, Frame, Types, RunTypes, FileTypes, FileDirs
  <1>3. \A v \in Worker \ {w} : pc'[v] = pc[v]
    BY <1>2
  <1>4. Faulted \in Nat /\ (Faulted' = Faulted \/ Faulted' = Faulted + 1)
    BY <1>1, SumsStay, SumsGrow DEF Frame, Types, FaultKind
  <1>5. Cardinality(Lost) <= Faulted /\ Cardinality(Lost) \in Nat /\ IsFiniteSet(Lost)
    BY LostFinite DEF LostBounded
  <1>6. ASSUME Lost' \subseteq Lost PROVE LostBounded'
    <2>1. Cardinality(Lost') <= Cardinality(Lost) /\ Cardinality(Lost') \in Nat
      BY <1>5, <1>6, FS_Subset, FS_CardinalityType
    <2> QED  BY <1>4, <1>5, <2>1 DEF LostBounded
  <1>7. CASE ~(\E k \in FileKind : Is(w, k)) /\ UNCHANGED fileVars
    <2>1. kind[at[w]] \notin FileKind /\ kind[at[w]] \in Kind
      BY <1>2, <1>7, Kinds DEF Is, Frame, Types, RunTypes
    <2>2. pc[w] \notin HoldPC
      BY <1>2, <2>1 DEF Frame, Standing, Kind, FileKind, Steps, FramePC, EmailPC, EtlPC, MlPC, HoldPC
    <2>3. Lost' \subseteq Lost
      BY <1>3, <1>7, <2>2 DEF Lost, fileVars
    <2> QED  BY <1>6, <2>3
  <1>8. CASE FileMoves(w)
    <2>1. \A v \in Worker \ {w} : input'[v] = input[v] /\ pc'[v] = pc[v]
      BY <1>2, <1>3, <1>8 DEF FileMoves
    <2>2. \A f \in files' : f = <<f[1], f[2]>>
      BY <1>2
    <2>3. \A f \in Lost' : f \in files /\ f[1] = "input"
                           /\ \A v \in Worker \ {w} : input[v] # f[2] \/ pc[v] \notin HoldPC
      BY <1>8, <2>1 DEF Lost, FileMoves
    <2>4. CASE \/ pc[w] \notin HoldPC
               \/ pc'[w] \in HoldPC /\ input'[w] = input[w]
               \/ <<"input", input[w]>> \notin files'
      <3>1. \A f \in Lost' : input[w] # f[2] \/ pc[w] \notin HoldPC
        BY <2>2, <2>4 DEF Lost
      <3>2. Lost' \subseteq Lost
        BY <2>3, <3>1 DEF Lost
      <3> QED  BY <1>6, <3>2
    <2>5. CASE Faulted' = Faulted + 1
      <3>1. Lost' \subseteq Lost \cup {<<"input", input[w]>>}
        <4>1. \A f \in Lost' : f = <<"input", f[2]>>
          BY <2>2 DEF Lost
        <4> QED  BY <2>3, <4>1 DEF Lost
      <3>2. /\ IsFiniteSet(Lost \cup {<<"input", input[w]>>})
            /\ Cardinality(Lost \cup {<<"input", input[w]>>})
                 = IF <<"input", input[w]>> \in Lost THEN Cardinality(Lost) ELSE Cardinality(Lost) + 1
        BY <1>5, FS_AddElement
      <3>3. /\ Cardinality(Lost') <= Cardinality(Lost \cup {<<"input", input[w]>>})
            /\ Cardinality(Lost') \in Nat
        BY <3>1, <3>2, FS_Subset, FS_CardinalityType
      <3> QED  BY <1>4, <1>5, <2>5, <3>2, <3>3 DEF LostBounded
    <2> QED  BY <1>8, <2>4, <2>5 DEF FileMoves
  <1> QED  BY <1>7, <1>8, FilesOrNot

\* ... and so does the death of a run.
LEMMA LostDelivery ==
    ASSUME Frame, Frame', LostBounded, NEW w \in Worker, DeliveryStep(w) \/ DeliveryFault(w),
           UNCHANGED effectVars
    PROVE  LostBounded'
  <1>1. UNCHANGED <<files, input>> /\ files \subseteq FileDirs \X (1 .. uuid)
    BY DEF effectVars, fileVars, Frame, Types, FileTypes, FileDirs
  <1>2. /\ \A v \in Worker \ {w} : pc'[v] = pc[v]
        /\ DeliveryStep(w) => pc[w] \notin HoldPC
    BY DeliveryMoves DEF FramePC, HoldPC
  <1>3. /\ Faulted \in Nat
        /\ (DeliveryStep(w) /\ Faulted' = Faulted) \/ Faulted' = Faulted + 1
    BY DeliverySums
  <1>4. Cardinality(Lost) <= Faulted /\ Cardinality(Lost) \in Nat /\ IsFiniteSet(Lost)
    BY LostFinite DEF LostBounded
  <1>5. Lost' \subseteq Lost \cup {<<"input", input[w]>>}
    <2>1. \A f \in Lost' : f = <<"input", f[2]>>
      BY <1>1 DEF Lost
    <2> QED  BY <1>1, <1>2, <2>1 DEF Lost
  <1>6. DeliveryStep(w) => Lost' \subseteq Lost
    BY <1>1, <1>2 DEF Lost
  <1>7. /\ IsFiniteSet(Lost \cup {<<"input", input[w]>>})
        /\ Cardinality(Lost \cup {<<"input", input[w]>>})
             = IF <<"input", input[w]>> \in Lost THEN Cardinality(Lost) ELSE Cardinality(Lost) + 1
    BY <1>4, FS_AddElement
  <1>8. /\ Cardinality(Lost') <= Cardinality(Lost \cup {<<"input", input[w]>>})
        /\ Cardinality(Lost') \in Nat
    BY <1>5, <1>7, FS_Subset, FS_CardinalityType
  <1>9. DeliveryStep(w) => Cardinality(Lost') <= Cardinality(Lost)
    BY <1>4, <1>6, FS_Subset
  <1> QED  BY <1>3, <1>4, <1>7, <1>8, <1>9 DEF LostBounded

\* Results stay on disk across a step of process() ...
LEMMA ResultsProcess ==
    ASSUME Frame, ResultsKept, NEW w \in Worker, ProcessStep(w) \/ ProcessThrows(w)
    PROVE  ResultsKept'
  <1>1. Stays(w, kind[at[w]])
    BY ProcessFrame
  <1>2. /\ at[w] \in Queued /\ pc[w] # "idle" /\ pc' = [pc EXCEPT ![w] = pc'[w]] /\ pc \in [Worker -> PC]
        /\ pc'[w] \in FramePC \cup Steps(kind[at[w]])
        /\ UNCHANGED <<finished, at, kind>>
    BY <1>1 DEF Stays, Inner, Frame, Types, RunTypes
  <1>3. /\ \A v \in Worker \ {w} : pc'[v] = pc[v]
        /\ FileJobs' = FileJobs /\ \A j : Dir(j)' = Dir(j)
    BY <1>2 DEF FileJobs, Dir, Queued
  <1>4. /\ output \in [Worker -> 0 .. uuid] /\ result \in [Job -> Nat]
        /\ \A j \in FileJobs : j \in Job
    BY Kinds DEF Frame, Types, FileTypes, FileJobs, RunTypes
  <1>5. CASE ~(\E k \in FileKind : Is(w, k)) /\ UNCHANGED fileVars
    <2>1. at[w] \notin FileJobs
      BY <1>2, <1>5 DEF Is, FileJobs
    <2> QED  BY <1>2, <1>3, <1>5, <2>1 DEF ResultsKept, fileVars
  <1>6. CASE (\E k \in FileKind : Is(w, k)) /\ FileMoves(w)
    <2>1. at[w] \in FileJobs
      BY <1>2, <1>6 DEF Is, FileJobs
    <2>2. \A d \in {"media", "report"} : \A n : <<d, n>> \in files => <<d, n>> \in files'
      BY <1>6 DEF FileMoves
    <2>3. \A v \in Worker \ {w} : output'[v] = output[v]
      BY <1>4, <1>6 DEF FileMoves
    <2>4. \A j : Dir(j) \in {"media", "report"}
      BY DEF Dir
    \* What is newly named was there to be named.
    <2>5. pc[w] = (IF kind[at[w]] = "report" THEN "clean" ELSE "upload")
             => <<Dir(at[w]), output[w]>> \in files'
      BY <2>1, <2>2 DEF ResultsKept, Dir
    <2>6. \A j \in FileJobs : \/ <<Dir(j), result[j]>> \in files => <<Dir(j), result'[j]>> \in files'
      BY <1>4, <1>6, <2>2, <2>4, <2>5 DEF FileMoves
    <2>7. \A j \in FileJobs : j \in finished => <<Dir(j), result'[j]>> \in files'
      BY <2>6 DEF ResultsKept
    <2>8. ASSUME NEW v \in Worker, at[v] \in FileJobs
          PROVE  /\ pc'[v] \in {"ffmpeg", "upload"} => <<"media", output'[v]>> \in files'
                 /\ pc'[v] \in {"put", "clean"} => <<"report", output'[v]>> \in files'
                 /\ pc'[v] \in {"s3", "done"} => <<Dir(at[v]), result'[at[v]]>> \in files'
      <3>1. CASE v # w
        BY <1>3, <2>2, <2>3, <2>6, <2>8, <3>1 DEF ResultsKept
      <3>2. CASE v = w
        <4>1. pc'[w] \in {"ffmpeg", "upload"} => <<"media", output'[w]>> \in files'
          BY <1>6, <2>1, <2>2 DEF FileMoves, ResultsKept
        <4>2. pc'[w] \in {"put", "clean"} => <<"report", output'[w]>> \in files'
          BY <1>6, <2>1, <2>2 DEF FileMoves, ResultsKept
        <4>3. pc'[w] \in {"s3", "done"} => <<Dir(at[w]), result'[at[w]]>> \in files'
          <5>1. CASE pc[w] = "s3"
            BY <2>1, <2>6, <5>1 DEF ResultsKept
          <5>2. CASE /\ pc[w] = (IF kind[at[w]] = "report" THEN "clean" ELSE "upload")
                     /\ result' = [result EXCEPT ![at[w]] = output[w]]
            BY <1>4, <2>1, <2>5, <5>2
          <5> QED  BY <1>6, <5>1, <5>2 DEF FileMoves
        <4> QED  BY <3>2, <4>1, <4>2, <4>3
      <3> QED  BY <3>1, <3>2
    <2> QED  BY <1>2, <1>3, <2>7, <2>8 DEF ResultsKept
  <1> QED  BY <1>5, <1>6, FilesOrNot

\* ... and when a job is delivered, completed or lost.
LEMMA ResultsDelivery ==
    ASSUME Frame, ResultsKept, NEW w \in Worker, DeliveryStep(w) \/ DeliveryFault(w),
           UNCHANGED effectVars
    PROVE  ResultsKept'
  <1>0. UNCHANGED <<files, output, result, kind>>
    BY DEF effectVars, fileVars
  <1>1. /\ UNCHANGED <<files, output, result, kind>> /\ FileJobs' = FileJobs
        /\ \A j : Dir(j)' = Dir(j)
    BY <1>0 DEF FileJobs, Queued, Dir
  <1>2. \A v \in Worker : pc'[v] \in {"ffmpeg", "upload", "put", "clean", "s3", "done"}
            => pc'[v] = pc[v] /\ at'[v] = at[v]
    BY DeliveryMoves
  <1>3. \A j \in FileJobs : j \in finished' => <<Dir(j), result[j]>> \in files
    <2>1. finished' = finished \/ (pc[w] = "done" /\ finished' = finished \cup {at[w]})
      BY DeliveryMoves
    <2>2. at[w] \in FileJobs /\ pc[w] = "done" => <<Dir(at[w]), result[at[w]]>> \in files
      BY DEF ResultsKept
    <2>3. \A j \in FileJobs : j \in finished => <<Dir(j), result[j]>> \in files
      BY DEF ResultsKept
    <2> QED  BY <2>1, <2>2, <2>3
  <1> QED  BY <1>1, <1>2, <1>3 DEF ResultsKept

\* What is said of files is inductive.
LEMMA FilesNext ==
    Frame /\ Frame' /\ LostBounded /\ ResultsKept /\ [Next]_vars => LostBounded' /\ ResultsKept'
  <1> SUFFICES ASSUME Frame, Frame', LostBounded, ResultsKept, [Next]_vars
               PROVE  LostBounded' /\ ResultsKept'
    OBVIOUS
  <1>1. CASE UNCHANGED <<deliveryVars, fileVars, kind>>
    BY <1>1 DEF LostBounded, Lost, ResultsKept, Dir, FileJobs, Queued, deliveryVars, fileVars, Faulted, Spent
  <1>2. UNCHANGED vars \/ Background => UNCHANGED <<deliveryVars, fileVars, kind>>
    BY DEF vars, effectVars, Background
  <1> QED
    BY <1>1, <1>2, LostProcess, LostDelivery, ResultsProcess, ResultsDelivery DEF Next

\* At first there is no file.
LEMMA FilesInit == Init => LostBounded /\ ResultsKept
  <1> SUFFICES ASSUME Init PROVE LostBounded /\ ResultsKept
    OBVIOUS
  <1>1. Lost = {}
    BY DEF Init, FileInit, Lost
  <1>2. Cardinality(Lost) = 0
    BY <1>1, FS_EmptySet
  <1>3. Faulted \in Nat
    BY FrameInit, SumsStay DEF Frame, Types
  <1>4. ResultsKept
    BY DEF Init, DeliveryInit, ResultsKept
  <1> QED  BY <1>2, <1>3, <1>4 DEF LostBounded

\* The result of a completed media or report job is on disk, and no way out of a run
\* leaves a downloaded input behind save a fault.
THEOREM FilesAreKept == Spec => []FilesKept
  <1>1. Frame /\ LostBounded /\ ResultsKept => FilesKept
    <2> SUFFICES ASSUME Frame, LostBounded, ResultsKept PROVE FilesKept
      OBVIOUS
    <2>1. Abandoned \subseteq Lost
      BY DEF Abandoned, Lost, HoldPC
    <2>2. Cardinality(Abandoned) <= Cardinality(Lost) /\ Cardinality(Abandoned) \in Nat
      BY <2>1, LostFinite, FS_Subset, FS_CardinalityType
    <2>3. Faulted \in Nat
      BY SumsStay DEF Frame, Types
    <2>4. Cardinality(Abandoned) <= Faulted
      BY <2>2, <2>3, LostFinite DEF LostBounded
    <2> QED  BY <2>4 DEF FilesKept, ResultsKept, FileJobs, Dir
  <1> QED  BY <1>1, FrameInvariant, FilesInit, FilesNext, PTL DEF Spec

-----------------------------------------------------------------------------
(* Reports *)

Reports == {j \in Queued : kind[j] = "report"}

\* The directory or the file this run needs next is gone.
WreckedRun(w) ==
    \/ pc[w] = "throw"
    \/ pc[w] = "open" /\ ~tempDir
    \/ pc[w] \in {"stat", "copy", "put"} /\ ~PdfExists(w)

Wrecked(j) == \E w \in Worker : at[w] = j /\ WreckedRun(w)

\* A report that has cleaned up is over.
CleanedOver ==
    Faulted = 0 => \A k \in Reports : result[k] # 0 =>
        \/ bull[k] = "completed"
        \/ lock[k] # None /\ pc[lock[k]] \in {"done", "return"}

\* How many clean-ups the files of j have met.
CleanUps(j) == IF CleanTemp THEN Cardinality(Cleaners(j)) ELSE 0

\* A report under way has the name of its file, and attempts are lost to clean-ups only.
AttemptsLost ==
    /\ \A w \in Worker : at[w] \in Reports /\ pc[w] \in {"stat", "copy", "put", "clean"} => output[w] # 0
    /\ Faulted = 0 => \A j \in Reports : payload[j] = "good" =>
          made[j] + One(Wrecked(j)) <= CleanUps(j)

\* Clean-ups and attempts are numbers.
LEMMA CleanUpTypes ==
    Frame => \A j \in Queued :
        /\ IsFiniteSet(Cleaners(j)) /\ Cardinality(Cleaners(j)) \in Nat /\ CleanUps(j) \in Nat
        /\ made[j] \in Nat
  <1> SUFFICES ASSUME Frame, NEW j \in Queued
               PROVE  /\ IsFiniteSet(Cleaners(j)) /\ Cardinality(Cleaners(j)) \in Nat
                      /\ CleanUps(j) \in Nat /\ made[j] \in Nat
    OBVIOUS
  <1>1. Queued \subseteq Job /\ made \in [Job -> 0 .. MaxAttempts]
    BY Kinds DEF Frame, Types, RunTypes, DeliveryTypeOK
  <1>2. Cleaners(j) \subseteq Job
    BY <1>1 DEF Cleaners
  <1>3. IsFiniteSet(Cleaners(j)) /\ Cardinality(Cleaners(j)) \in Nat
    BY <1>2, SetAssumption, FS_Subset, FS_CardinalityType
  <1> QED  BY <1>1, <1>3 DEF CleanUps

\* As long as nothing fails a job has one run, and that run its lock.
LEMMA OneRun ==
    ASSUME Frame, Faulted = 0
    PROVE  \A v \in Worker : at[v] # None => lock[at[v]] = v
  <1>1. Spent("stall") = 0
    BY SumsStay DEF Frame, Types
  <1> QED  BY <1>1 DEF Frame, Alone

\* process() runs neither before a run has found its job nor after it is done.
LEMMA RunningPC ==
    ASSUME NEW w \in Worker, ProcessStep(w) \/ ProcessThrows(w)
    PROVE  pc[w] \notin {"done", "return", "throw"}
  <1>1. ASSUME EmailStep(w) \/ EmailThrows(w) PROVE pc[w] \notin {"done", "return", "throw"}
    BY <1>1 DEF EmailStep, EmailThrows, Go, StartEmail, Verify, Lookup, CreateNote, RejectNote,
         MarkProcessing, SendSucceeds, SendFails, MarkSent, MarkUnsent
  <1>2. ASSUME EtlStep(w) \/ EtlThrows(w) PROVE pc[w] \notin {"done", "return", "throw"}
    BY <1>2 DEF EtlStep, EtlThrows, Go, CheckDependency, Extract, Transform, TransformNothing, Load,
         SaveNext, SubmitNext
  <1>3. ASSUME NEW k, MediaStep(w, k) PROVE pc[w] \notin {"done", "return", "throw"}
    BY <1>3 DEF MediaStep, Go, ThrowFrom, StartMedia, Download, DownloadBreaks, DownloadEnds, CheckInput,
         StartFfmpeg, FfmpegEnds, FfmpegFails, FetchImage, FilterImage, UploadMedia, MediaToS3
  <1>4. ASSUME ReportStep(w) \/ FileThrows(w) PROVE pc[w] \notin {"done", "return", "throw"}
    BY <1>4 DEF ReportStep, FileThrows, Go, ThrowFrom, StartReport, OpenPdf, StatPdf, CopyPdf, PutPdf,
         CleanReports
  <1>5. ASSUME NEW k, MlStep(w, k) PROVE pc[w] \notin {"done", "return", "throw"}
    BY <1>5 DEF MlStep, Go, StartMl, Classify, OcrStep, OcrMoves, OcrFails, InferenceTimeout, OcrStage
  <1> QED  BY <1>1, <1>2, <1>3, <1>4, <1>5 DEF ProcessStep, ProcessThrows

\* What a step leaves to the reports of other runs.
Spares ==
    /\ tempDir' = TRUE \/ tempDir' = tempDir
    /\ \A f \in files : f[1] = "temp" => f \in files'

\* Media runs leave the directory of the reports alone.
LEMMA MediaSpares ==
    ASSUME NEW w \in Worker, NEW k \in {"transcode", "convert", "image"}, MediaStep(w, k)
    PROVE  Spares /\ payload' = payload
  BY DEF MediaStep, Go, ThrowFrom, fileVars, StartMedia, Download, DownloadBreaks, DownloadEnds, CheckInput,
         StartFfmpeg, FfmpegEnds, FfmpegFails, FetchImage, FilterImage, UploadMedia, MediaToS3, Spares

\* A step of a report run before the clean-up ...
LEMMA ReportGoesOn ==
    ASSUME Frame, AttemptsLost, NEW w \in Worker, Is(w, "report"), ReportStep(w), ~CleanReports(w)
    PROVE  /\ Spares /\ result' = result /\ payload' = payload
           /\ payload[at[w]] = "good" /\ WreckedRun(w)' => WreckedRun(w)
           /\ pc'[w] \in {"stat", "copy", "put", "clean"} => output'[w] # 0
           /\ pc'[w] \notin {"done", "return"}
  <1>1. /\ pc \in [Worker -> PC] /\ uuid \in Nat /\ at[w] \in Reports
        /\ output \in [Worker -> 0 .. uuid] /\ at' = at
    BY DEF Frame, Types, RunTypes, FileTypes, Is, Standing, Reports, ReportStep, outerVars
  <1>2. pc[w] \in {"stat", "copy", "put", "clean"} => output[w] # 0
    BY <1>1 DEF AttemptsLost
  <1> DEFINE Goal ==
           /\ Spares /\ result' = result /\ payload' = payload
           /\ payload[at[w]] = "good" /\ WreckedRun(w)' => WreckedRun(w)
           /\ pc'[w] \in {"stat", "copy", "put", "clean"} => output'[w] # 0
           /\ pc'[w] \notin {"done", "return"}
  <1> USE DEF Go, ThrowFrom, Forget, Good, PdfExists, WreckedRun, Spares
  <1>3. ASSUME StartReport(w) PROVE Goal
    BY <1>1, <1>3 DEF StartReport
  <1>4. ASSUME OpenPdf(w) PROVE Goal
    BY <1>1, <1>4 DEF OpenPdf
  <1>5. ASSUME StatPdf(w) PROVE Goal
    BY <1>1, <1>2, <1>5 DEF StatPdf
  <1>6. ASSUME CopyPdf(w) PROVE Goal
    BY <1>1, <1>2, <1>6 DEF CopyPdf
  <1>7. ASSUME PutPdf(w) PROVE Goal
    BY <1>1, <1>2, <1>7 DEF PutPdf
  <1> QED  BY <1>3, <1>4, <1>5, <1>6, <1>7 DEF ReportStep

\* ... and the clean-up.
LEMMA ReportEnds ==
    ASSUME Frame, AttemptsLost, NEW w \in Worker, Is(w, "report"), CleanReports(w), at' = at
    PROVE  /\ pc[w] = "clean" /\ pc'[w] = "done" /\ payload' = payload /\ at[w] \in Reports
           /\ result'[at[w]] # 0 /\ \A j \in Job \ {at[w]} : result'[j] = result[j]
           /\ ~CleanTemp => tempDir' = tempDir /\ files' = files
  <1>1. /\ pc \in [Worker -> PC] /\ at[w] \in Reports /\ at[w] \in Job /\ result \in [Job -> Nat]
    BY Kinds DEF Frame, Types, RunTypes, FileTypes, Is, Standing, Reports
  <1>2. pc[w] = "clean" /\ pc'[w] = "done" /\ payload' = payload
    BY <1>1 DEF CleanReports, Go
  <1>3. output[w] # 0
    BY <1>1, <1>2 DEF AttemptsLost
  <1>4. result' = [result EXCEPT ![at[w]] = output[w]]
    BY DEF CleanReports
  <1>5. ~CleanTemp => tempDir' = tempDir /\ files' = files
    <2>1. tempDir \in BOOLEAN
      BY DEF Frame, Types, FileTypes
    <2> QED  BY Zenon, <2>1 DEF CleanReports
  <1> QED  BY <1>1, <1>2, <1>3, <1>4, <1>5

\* What a step of process() is to the reports.
LEMMA ReportOrNot ==
    ASSUME Frame, NEW w \in Worker, ProcessStep(w)
    PROVE  \/ Is(w, "report") /\ ReportStep(w)
           \/ /\ at[w] \notin Reports /\ Spares /\ payload' = payload
              /\ \A j \in Reports : result'[j] = result[j]
              /\ \A v \in Worker \ {w} : output'[v] = output[v]
  <1>1. CASE Is(w, "report") /\ ReportStep(w)
    BY <1>1
  <1>2. CASE (\E k \in FileKind : Is(w, k)) /\ FileMoves(w) /\ ~Is(w, "report")
    <2>1. PICK k \in {"transcode", "convert", "image"} : Is(w, k)
      BY <1>2 DEF FileKind
    <2>2. MediaStep(w, kind[at[w]])
      BY <2>1 DEF ProcessStep, Is
    <2>3. Spares /\ payload' = payload
      BY <2>1, <2>2, MediaSpares DEF Is
    <2>4. at[w] \notin Reports
      BY <1>2, <2>1 DEF Reports, Is
    <2>5. \A v \in Worker \ {w} : output'[v] = output[v]
      BY <1>2 DEF FileMoves, Frame, Types, FileTypes
    <2>6. \A j \in Reports : result'[j] = result[j]
      <3>1. result' = result \/ result' = [result EXCEPT ![at[w]] = output[w]]
        BY <1>2 DEF FileMoves
      <3>2. \A j \in Reports : j \in Job /\ result \in [Job -> Nat]
        BY Kinds DEF Frame, Types, RunTypes, FileTypes, Reports
      <3> QED  BY <2>4, <3>1, <3>2
    <2> QED  BY <2>3, <2>4, <2>5, <2>6
  <1>3. CASE ~(\E k \in FileKind : Is(w, k)) /\ UNCHANGED fileVars
    <2>1. at[w] \notin Reports
      BY <1>3, SetAssumption, Kinds DEF Reports, Is, FileKind, Frame, Types, RunTypes, Standing, ProcessStep
    <2> QED  BY <1>3, <2>1 DEF fileVars, Spares
  <1> QED  BY <1>1, <1>2, <1>3, FilesOrNot DEF ProcessStep, Is

\* A run that nothing was taken from is no more wrecked than it was.
LEMMA SparesOthers ==
    ASSUME Frame, Spares, NEW v \in Worker, pc'[v] = pc[v], output'[v] = output[v], WreckedRun(v)'
    PROVE  WreckedRun(v)
  BY DEF Spares, WreckedRun, PdfExists, Frame, Types, FileTypes

\* The books on lost attempts across a step of process() ...
LEMMA ReportsProcess ==
    ASSUME Frame, Frame', CleanedOver, AttemptsLost, NEW w \in Worker, ProcessStep(w) \/ ProcessThrows(w)
    PROVE  CleanedOver' /\ AttemptsLost'
  <1>1. /\ Inner(w)
        /\ \/ ProcessStep(w) /\ budget' = budget
           \/ ProcessThrows(w) /\ Pays("await")
    BY ProcessFrame DEF Stays
  <1>2. /\ UNCHANGED <<bull, made, lock, at, kind>> /\ at[w] \in Queued /\ at[w] # None
        /\ Reports' = Reports /\ \A v \in Worker \ {w} : pc'[v] = pc[v]
    BY <1>1, Kinds, SetAssumption DEF Inner, Reports, Queued, Frame, Types, RunTypes
  <1>3. \A j \in Reports : j \in Job /\ j \in Queued
    BY Kinds DEF Reports, Frame, Types, RunTypes
  <1>4. Faulted' = 0 => Faulted = 0 /\ ProcessStep(w)
    BY <1>1, SumsStay, SumsGrow DEF Frame, Types, FaultKind
  <1>5. pc[w] \notin {"done", "return"}
    BY RunningPC
  \* Whatever the step is, the runs of the others keep the names of their files.
  <1>6. \A v \in Worker \ {w} : output'[v] = output[v]
    BY FilesOrNot DEF FileMoves, fileVars, Frame, Types, FileTypes
  <1>7. at[w] \in Reports /\ pc'[w] \in {"stat", "copy", "put", "clean"} => output'[w] # 0
    <2> SUFFICES ASSUME at[w] \in Reports, pc'[w] \in {"stat", "copy", "put", "clean"}
                 PROVE  output'[w] # 0
      OBVIOUS
    <2>1. Is(w, "report") /\ (ReportStep(w) \/ FileThrows(w))
      BY DEF Reports, ProcessStep, ProcessThrows, Is, FileKind
    <2>2. ~FileThrows(w)
      BY DEF FileThrows, Frame, Types, RunTypes
    <2>3. ~CleanReports(w)
      BY DEF CleanReports, Go, Frame, Types, RunTypes
    <2> QED  BY <2>1, <2>2, <2>3, ReportGoesOn
  <1>8. \A v \in Worker : at'[v] \in Reports' /\ pc'[v] \in {"stat", "copy", "put", "clean"} => output'[v] # 0
    BY <1>2, <1>6, <1>7 DEF AttemptsLost
  <1>9. ASSUME Faulted' = 0, NEW k \in Reports, result'[k] # 0
        PROVE  \/ bull'[k] = "completed"
               \/ lock'[k] # None /\ pc'[lock'[k]] \in {"done", "return"}
    <2>1. CASE Is(w, "report") /\ CleanReports(w) /\ k = at[w]
      <3>1. lock[k] = w /\ pc'[w] = "done" /\ w # None
        BY <1>2, <1>4, <1>9, <2>1, OneRun, ReportEnds, SetAssumption
      <3> QED  BY <1>2, <3>1
    <2>2. CASE result[k] # 0
      <3>1. \/ bull[k] = "completed"
            \/ lock[k] # None /\ pc[lock[k]] \in {"done", "return"}
        BY <1>4, <1>9, <2>2 DEF CleanedOver
      <3>2. lock[k] # None => lock[k] \in Worker
        BY <1>3 DEF Frame, Types, RunTypes, DeliveryTypeOK
      <3> QED  BY <1>2, <1>5, <3>1, <3>2
    <2>3. ~(Is(w, "report") /\ CleanReports(w) /\ k = at[w]) => result[k] # 0
      <3>1. CASE Is(w, "report") /\ ReportStep(w)
        BY <1>2, <1>3, <1>9, <3>1, ReportGoesOn, ReportEnds
      <3>2. CASE \A j \in Reports : result'[j] = result[j]
        BY <1>9, <3>2
      <3> QED  BY <1>4, <1>9, <3>1, <3>2, ReportOrNot
    <2> QED  BY <2>1, <2>2, <2>3
  <1>10. ASSUME Faulted' = 0, NEW j \in Reports, payload'[j] = "good"
         PROVE  made'[j] + One(Wrecked(j)') <= CleanUps(j)'
    <2>0. /\ made[j] \in Nat /\ CleanUps(j) \in Nat /\ One(Wrecked(j)) \in 0 .. 1 /\ One(Wrecked(j)') \in 0 .. 1
          /\ IsFiniteSet(Cleaners(j)) /\ Cardinality(Cleaners(j)) \in Nat
      BY <1>3, CleanUpTypes DEF One
    <2>1. payload' = payload
      BY <1>4, <1>10, ReportOrNot, ReportGoesOn, ReportEnds, <1>2
    <2>2. made[j] + One(Wrecked(j)) <= CleanUps(j)
      BY <1>4, <1>10, <2>1 DEF AttemptsLost
    <2>3. ASSUME Spares, at[w] = j => (WreckedRun(w)' => WreckedRun(w)),
                 \A i \in Reports : result'[i] = result[i]
          PROVE  made'[j] + One(Wrecked(j)') <= CleanUps(j)'
      <3>1. Wrecked(j)' => Wrecked(j)
        <4> SUFFICES ASSUME NEW v \in Worker, at'[v] = j, WreckedRun(v)'
                     PROVE  Wrecked(j)
          BY DEF Wrecked
        <4>1. at[v] = j
          BY <1>2
        <4>2. v # w => WreckedRun(v)
          BY <1>2, <1>6, <2>3, SparesOthers
        <4> QED  BY <2>3, <4>1, <4>2 DEF Wrecked
      <3>2. CleanUps(j)' = CleanUps(j)
        <4>1. Cleaners(j)' = Cleaners(j)
          BY <1>2, <2>3 DEF Cleaners, Reports, Queued
        <4> QED  BY <4>1 DEF CleanUps
      <3> QED  BY <1>2, <2>0, <2>2, <3>1, <3>2 DEF One
    <2>4. CASE Is(w, "report") /\ ReportStep(w) /\ ~CleanReports(w)
      <3>1. /\ Spares /\ result' = result
            /\ payload[at[w]] = "good" /\ WreckedRun(w)' => WreckedRun(w)
        BY <2>4, ReportGoesOn
      <3> QED  BY <1>10, <2>1, <2>3, <3>1
    <2>5. CASE Is(w, "report") /\ CleanReports(w)
      <3>1. /\ pc[w] = "clean" /\ pc'[w] = "done" /\ at[w] \in Reports
            /\ result'[at[w]] # 0 /\ \A i \in Job \ {at[w]} : result'[i] = result[i]
            /\ ~CleanTemp => tempDir' = tempDir /\ files' = files
        BY <1>2, <2>5, ReportEnds
      <3>2. ~WreckedRun(w)'
        BY <3>1 DEF WreckedRun
      <3>3. \A v \in Worker : at[v] # None => lock[at[v]] = v
        BY <1>4, <1>10, OneRun
      <3>4. CASE j = at[w]
        <4>1. \A v \in Worker : at'[v] = j => v = w
          BY <1>2, <3>3, <3>4
        <4>2. ~Wrecked(j)'
          BY <3>2, <4>1 DEF Wrecked
        <4>3. CleanUps(j)' = CleanUps(j)
          <5>1. \A i \in Queued \ {j} : kind[i] = "report" => result'[i] = result[i]
            BY <1>3, <3>1, <3>4 DEF Reports
          <5>2. Cleaners(j)' = Cleaners(j)
            BY <1>2, <5>1 DEF Cleaners, Queued
          <5> QED  BY <5>2 DEF CleanUps
        <4> QED  BY <1>2, <2>0, <2>2, <4>2, <4>3 DEF One
      <3>5. CASE j # at[w] /\ CleanTemp
        <4> DEFINE k == at[w]
        <4>1. result[k] = 0
          <5>1. lock[k] = w /\ bull[k] = "active" /\ k \in Job
            BY <1>2, <1>3, <3>1, <3>3, SetAssumption DEF Frame, Locks
          <5> QED  BY <1>4, <1>5, <1>10, <3>1, <5>1 DEF CleanedOver
        <4>2. Cleaners(j)' = Cleaners(j) \cup {k}
          <5>1. \A i \in Queued : kind[i] = "report" /\ i # k => result'[i] = result[i]
            BY <1>3, <3>1 DEF Reports
          <5>2. k \in Queued /\ kind[k] = "report" /\ k # j /\ result'[k] # 0
            BY <3>1, <3>5 DEF Reports
          <5>3. Queued' = Queued /\ kind' = kind
            BY <1>2 DEF Queued
          <5> QED  BY <5>1, <5>2, <5>3 DEF Cleaners
        <4>3. k \notin Cleaners(j)
          BY <4>1 DEF Cleaners
        <4>4. Cardinality(Cleaners(j) \cup {k}) = Cardinality(Cleaners(j)) + 1
          BY <2>0, <4>3, FS_AddElement
        <4>5. CleanUps(j)' = CleanUps(j) + 1
          BY <3>5, <4>2, <4>4 DEF CleanUps
        <4> QED  BY <1>2, <2>0, <2>2, <4>5
      <3>6. CASE j # at[w] /\ ~CleanTemp
        <4>1. Wrecked(j)' => Wrecked(j)
          <5>1. Spares
            BY <3>1, <3>6 DEF Spares
          <5> SUFFICES ASSUME NEW v \in Worker, at'[v] = j, WreckedRun(v)' PROVE Wrecked(j)
            BY DEF Wrecked
          <5>2. v # w /\ at[v] = j
            BY <1>2, <3>6
          <5>3. WreckedRun(v)
            BY <1>2, <1>6, <5>1, <5>2, SparesOthers
          <5> QED  BY <5>2, <5>3 DEF Wrecked
        <4>2. CleanUps(j) = 0 /\ CleanUps(j)' = 0
          BY <3>6 DEF CleanUps
        <4> QED  BY <1>2, <2>0, <2>2, <4>1, <4>2 DEF One
      <3> QED  BY <3>4, <3>5, <3>6
    <2>6. CASE /\ at[w] \notin Reports /\ Spares
               /\ \A i \in Reports : result'[i] = result[i]
      BY <2>3, <2>6
    <2> QED  BY <1>4, <1>10, <2>4, <2>5, <2>6, ReportOrNot
  <1>11. CleanedOver'
    BY <1>2, <1>9 DEF CleanedOver
  <1>12. AttemptsLost'
    BY <1>2, <1>8, <1>10 DEF AttemptsLost
  <1> QED  BY <1>11, <1>12

\* What one step of the machinery does to the job k.
LEMMA CleanedOverDelivery ==
    ASSUME Frame, CleanedOver, NEW w \in Worker, DeliveryStep(w), Faulted = 0, NEW k \in Reports, result[k] # 0
    PROVE  \/ bull'[k] = "completed"
           \/ lock'[k] # None /\ pc'[lock'[k]] \in {"done", "return"}
  <1>1. /\ pc \in [Worker -> PC] /\ bull \in [Job -> {"absent", "waiting", "active", "completed", "failed"}]
        /\ lock \in [Job -> Worker \cup {None}] /\ k \in Job /\ None \notin Worker
        /\ bull[k] = "active" <=> lock[k] # None
        /\ lock[k] # None => at[lock[k]] = k
    BY Kinds, SetAssumption DEF Frame, Types, RunTypes, DeliveryTypeOK, Locks, Reports
  <1>2. \/ bull[k] = "completed" /\ lock[k] = None
        \/ lock[k] \in Worker /\ pc[lock[k]] \in {"done", "return"}
    BY <1>1 DEF CleanedOver
  <1> USE DEF Go
  <1>3. CASE FindJob(w)
    BY <1>1, <1>2, <1>3 DEF FindJob, outerVars
  <1>4. CASE Complete(w)
    BY <1>1, <1>2, <1>4 DEF Complete
  <1>5. CASE Return(w)
    BY <1>1, <1>2, <1>5 DEF Return
  <1>6. CASE Throw(w)
    <2>1. lock[k] # w
      BY <1>1, <1>2, <1>6 DEF Throw
    <2> QED  BY <1>1, <1>2, <1>6, <2>1 DEF Throw
  <1>7. CASE \E j \in Job : Deliver(w, j)
    <2>1. PICK j \in Job : Deliver(w, j)
      BY <1>7
    <2>2. j # k /\ (lock[k] = None \/ lock[k] # w)
      BY <1>1, <1>2, <2>1 DEF Deliver
    <2> QED  BY <1>1, <1>2, <2>1, <2>2 DEF Deliver
  <1> QED  BY <1>3, <1>4, <1>5, <1>6, <1>7 DEF DeliveryStep

\* ... across one of the machinery ...
LEMMA ReportsDelivery ==
    ASSUME Frame, CleanedOver, AttemptsLost, NEW w \in Worker, DeliveryStep(w) \/ DeliveryFault(w),
           UNCHANGED effectVars
    PROVE  CleanedOver' /\ AttemptsLost'
  <1>1. /\ UNCHANGED <<payload, files, tempDir, output, result, kind>>
        /\ Reports' = Reports /\ \A j : CleanUps(j)' = CleanUps(j)
    <2>1. UNCHANGED <<payload, files, tempDir, output, result, kind>>
      BY DEF effectVars, fileVars
    <2> QED  BY <2>1 DEF Reports, Queued, CleanUps, Cleaners
  <1>2. /\ \A v \in Worker \ {w} : pc'[v] = pc[v] /\ at'[v] = at[v]
        /\ \/ pc'[w] = pc[w] /\ at'[w] = at[w] /\ DeliveryFault(w)
           \/ pc'[w] \in {"idle", "find", "start", "return", "throw"}
    BY DeliveryMoves
  <1>3. Faulted' = 0 => DeliveryStep(w) /\ Faulted = 0
    BY DeliverySums
  <1>4. CleanedOver'
    BY <1>1, <1>3, CleanedOverDelivery DEF CleanedOver
  <1>5. ASSUME NEW v \in Worker, at'[v] \in Reports, pc'[v] \in {"stat", "copy", "put", "clean"}
        PROVE  output'[v] # 0
    <2>1. pc'[v] = pc[v] /\ at'[v] = at[v]
      BY <1>2, <1>5
    <2> QED  BY <1>1, <1>5, <2>1 DEF AttemptsLost
  <1>6. ASSUME Faulted' = 0, NEW j \in Reports, payload[j] = "good"
        PROVE  made'[j] + One(Wrecked(j)') <= CleanUps(j)
    <2>1. /\ made[j] \in Nat /\ CleanUps(j) \in Nat /\ j \in Job /\ made \in [Job -> 0 .. MaxAttempts]
          /\ pc \in [Worker -> PC] /\ at \in [Worker -> Job \cup {None}] /\ None \notin Job
          /\ One(Wrecked(j)) \in 0 .. 1 /\ One(Wrecked(j)') \in 0 .. 1
      BY CleanUpTypes, Kinds, SetAssumption
         DEF Reports, Frame, Types, RunTypes, DeliveryTypeOK, One
    <2>2. made[j] + One(Wrecked(j)) <= CleanUps(j)
      BY <1>3, <1>6 DEF AttemptsLost
    <2>3. \A v \in Worker : at[v] # None => lock[at[v]] = v
      BY <1>3, <1>6, OneRun
    <2>4. ~WreckedRun(w)'
      BY <1>3, <1>6, <2>1 DEF WreckedRun, DeliveryStep, FindJob, Complete, Return, Throw, Deliver, Go
    <2>5. \A v \in Worker \ {w} : WreckedRun(v)' <=> WreckedRun(v)
      BY <1>1, <1>2 DEF WreckedRun, PdfExists
    <2>6. Wrecked(j)' => Wrecked(j)
      BY <1>2, <2>4, <2>5 DEF Wrecked
    <2>7. CASE Throw(w) /\ at[w] = j
      <3>1. Wrecked(j)
        BY <2>7 DEF Throw, Go, Wrecked, WreckedRun
      <3>2. ~Wrecked(j)'
        <4>1. \A v \in Worker \ {w} : at'[v] # j
          BY <1>2, <2>1, <2>3, <2>7
        <4> QED  BY <2>4, <4>1 DEF Wrecked
      <3>3. made'[j] = made[j] + 1 \/ made'[j] = made[j]
        BY <2>1, <2>7 DEF Throw
      <3> QED  BY <2>1, <2>2, <3>1, <3>2, <3>3 DEF One
    <2>8. CASE ~(Throw(w) /\ at[w] = j)
      <3>1. made'[j] = made[j]
        BY <1>3, <1>6, <2>1, <2>8
           DEF DeliveryStep, FindJob, outerVars, Complete, Return, Throw, Deliver
      <3> QED  BY <2>1, <2>2, <2>6, <3>1 DEF One
    <2> QED  BY <2>7, <2>8
  <1>7. AttemptsLost'
    BY <1>1, <1>5, <1>6 DEF AttemptsLost
  <1> QED  BY <1>4, <1>7

\* ... in every step ...
LEMMA ReportsNext ==
    Frame /\ Frame' /\ CleanedOver /\ AttemptsLost /\ [Next]_vars => CleanedOver' /\ AttemptsLost'
  <1> SUFFICES ASSUME Frame, Frame', CleanedOver, AttemptsLost, [Next]_vars
               PROVE  CleanedOver' /\ AttemptsLost'
    OBVIOUS
  <1>1. CASE UNCHANGED <<deliveryVars, fileVars, kind>>
    <2>1. /\ UNCHANGED <<bull, made, lock, pc, at, budget, payload, files, tempDir, output, result, kind>>
      BY <1>1 DEF deliveryVars, fileVars
    <2>2. CleanedOver'
      BY <2>1 DEF CleanedOver, Reports, Queued, Faulted, Spent
    <2>3. Reports' = Reports /\ Faulted' = Faulted
      BY <2>1 DEF Reports, Queued, Faulted, Spent
    <2>4. \A j : CleanUps(j)' = CleanUps(j) /\ (Wrecked(j)' <=> Wrecked(j))
      BY <2>1 DEF CleanUps, Cleaners, Queued, Wrecked, WreckedRun, PdfExists
    <2>5. AttemptsLost'
      BY <2>1, <2>3, <2>4 DEF AttemptsLost, One
    <2> QED  BY <2>2, <2>5
  <1>2. UNCHANGED vars \/ Background => UNCHANGED <<deliveryVars, fileVars, kind>>
    BY DEF vars, effectVars, Background
  <1>3. ASSUME NEW w \in Worker, ProcessStep(w) \/ ProcessThrows(w) PROVE CleanedOver' /\ AttemptsLost'
    BY <1>3, ReportsProcess
  <1>4. ASSUME NEW w \in Worker, DeliveryStep(w) \/ DeliveryFault(w), UNCHANGED effectVars
        PROVE  CleanedOver' /\ AttemptsLost'
    BY <1>4, ReportsDelivery
  <1> QED  BY <1>1, <1>2, <1>3, <1>4 DEF Next

\* ... and at first.
LEMMA ReportsInit == Init => CleanedOver /\ AttemptsLost
  <1> SUFFICES ASSUME Init PROVE CleanedOver /\ AttemptsLost
    OBVIOUS
  <1>1. /\ made = [j \in Job |-> 0] /\ pc = [w \in Worker |-> "idle"] /\ result = [j \in Job |-> 0]
        /\ kind \in Loads
    BY DEF Init, DeliveryInit, FileInit
  <1>2. \A j \in Reports : j \in Job /\ j \in Queued
    BY <1>1, Kinds DEF Reports
  <1>3. ASSUME NEW j \in Reports PROVE made[j] + One(Wrecked(j)) <= CleanUps(j)
    <2>1. ~Wrecked(j)
      BY <1>1 DEF Wrecked, WreckedRun
    <2>2. CleanUps(j) \in Nat
      BY <1>2, FrameInit, CleanUpTypes
    <2> QED  BY <1>1, <1>2, <2>1, <2>2 DEF One
  <1> QED  BY <1>1, <1>2, <1>3 DEF CleanedOver, AttemptsLost

\* An attempt of a sound report is lost only to another report that cleans up, and each
\* clean-up costs it one at most.
THEOREM ReportsAreMade == Spec => []FewReportsLost
  <1>1. Frame /\ AttemptsLost => FewReportsLost
    <2> SUFFICES ASSUME Frame, AttemptsLost, NEW j \in Queued,
                        kind[j] = "report", payload[j] = "good", Faulted = 0
                 PROVE  made[j] <= CleanUps(j)
      BY DEF FewReportsLost, CleanUps
    <2>1. made[j] + One(Wrecked(j)) <= CleanUps(j)
      BY DEF AttemptsLost, Reports
    <2> QED  BY <2>1, CleanUpTypes DEF One
  <1> QED  BY <1>1, FrameInvariant, ReportsInit, ReportsNext, PTL DEF Spec

-----------------------------------------------------------------------------
(* The Tesseract worker *)

\* What one inference does to it from one stage to the next.
LEMMA OcrKeepsWorker ==
    ASSUME NEW from, NEW to, OcrMoves(from, to), cached
    PROVE  cached' /\ started' = started
  BY DEF OcrMoves, LoadBegins, LoadEnds

\* Once it is there no step takes it away or asks for another, whoever still waits for one.
THEOREM OneOcrWorker == Spec => OcrWorkerKept
  <1>1. ASSUME [Next]_vars, cached PROVE cached' /\ started' = started
    <2>1. CASE UNCHANGED mlVars
      BY <1>1, <2>1 DEF mlVars
    <2>2. ASSUME NEW w \in Worker, ProcessStep(w) PROVE UNCHANGED mlVars \/ (\E k : MlStep(w, k))
      BY <2>2 DEF ProcessStep
    <2>3. ASSUME NEW w \in Worker, NEW k, MlStep(w, k) PROVE cached' /\ started' = started
      BY <1>1, <2>3, OcrKeepsWorker
         DEF MlStep, StartMl, Classify, OcrStep, OcrFails, InferenceTimeout, mlVars
    <2>4. ASSUME LateStep PROVE cached' /\ started' = started
      BY <1>1, <2>4, OcrKeepsWorker DEF LateStep
    <2>5. ASSUME NEW w \in Worker, ProcessThrows(w) \/ UNCHANGED effectVars PROVE UNCHANGED mlVars
      BY <2>5 DEF ProcessThrows, effectVars
    <2> QED
      BY <1>1, <2>1, <2>2, <2>3, <2>4, <2>5 DEF Next, Background, vars, effectVars
  <1>2. [Next]_vars => [cached => cached' /\ started' = started]_vars
    BY <1>1
  <1> QED  BY <1>2, PTL DEF Spec, OcrWorkerKept
===============================================================================
