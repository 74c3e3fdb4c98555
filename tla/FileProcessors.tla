--------------------------- MODULE FileProcessors ---------------------------
(***************************************************************************)
(* process() of the media worker (workers/src/media-worker/processor.ts)   *)
(* and of the report worker (report-worker/processor.ts): the files they   *)
(* download, write, copy (base-worker/base.storage.ts) and remove.  A file *)
(* is a directory and the uuid of its name.                                *)
(***************************************************************************)
EXTENDS Delivery

CONSTANTS
    CleanTemp,   \* CLEAN_TEMP_FILES
    UseS3        \* USE_S3

ASSUME SwitchAssumption == CleanTemp \in BOOLEAN /\ UseS3 \in BOOLEAN

\* transcode: video or audio from a URL; convert: from a local path.
FileKind == {"transcode", "convert", "image", "report"}

VARIABLES
    payload,  \* "good"; "bad", which a validation rejects; "large", over a size limit
    files,    \* the files on disk: <<directory, uuid>>
    tempDir,  \* generate_report exists
    uuid,     \* names used so far
    input,    \* the downloaded input of each run, 0 if it has none
    output,   \* the file each run writes
    result    \* job.data.result.local

fileVars == <<payload, files, tempDir, uuid, input, output, result>>

FileInit ==
    /\ payload \in [Job -> {"good", "bad", "large"}]
    /\ files = {}
    /\ tempDir = FALSE
    /\ uuid = 0
    /\ input = [w \in Worker |-> 0]
    /\ output = [w \in Worker |-> 0]
    /\ result = [j \in Job |-> 0]

Forget(w) == input' = [input EXCEPT ![w] = 0] /\ output' = [output EXCEPT ![w] = 0]

ThrowFrom(w, from) == Go(w, from, "throw") /\ Forget(w)

Good(w) == payload[at[w]] = "good"

-----------------------------------------------------------------------------
(* Media: the input *)

\* A run has nothing in hand at first; failTest and an unknown job type throw at once.
StartMedia(w, kind) ==
    /\ IF payload[at[w]] = "bad" /\ kind # "image"
       THEN Go(w, "start", "throw")
       ELSE Go(w, "start", CASE kind = "transcode" -> "download"
                             [] kind = "convert" -> "transcode"
                             [] kind = "image" -> "fetch")
    /\ Forget(w)
    /\ UNCHANGED <<payload, files, tempDir, uuid, result>>

\* resolveMediaInput(): the answer's headers, then the body into a temporary file.
Download(w) ==
    /\ \/ /\ Go(w, "download", "pipeline")
          /\ uuid' = uuid + 1
          /\ input' = [input EXCEPT ![w] = uuid + 1]
          /\ files' = files \cup {<<"input", uuid + 1>>}
       \/ /\ Go(w, "download", "throw")
          /\ UNCHANGED <<uuid, input, files>>
    /\ UNCHANGED <<payload, tempDir, output, result>>

\* Mutant: a download that breaks off leaves what it has written.
DownloadBreaks_Leaves(w) ==
    /\ ThrowFrom(w, "pipeline")
    /\ UNCHANGED <<payload, files, tempDir, uuid, result>>

DownloadBreaks(w) ==
    /\ ThrowFrom(w, "pipeline")
    /\ files' = files \ {<<"input", input[w]>>}
    /\ UNCHANGED <<payload, tempDir, uuid, result>>

DownloadEnds(w) ==
    /\ Go(w, "pipeline", "check")
    /\ UNCHANGED fileVars

\* The size of what was saved: an empty or a large file is removed.
CheckInput(w) ==
    /\ \/ /\ Good(w) /\ Go(w, "check", "transcode")
          /\ UNCHANGED <<files, input, output>>
       \/ /\ ~Good(w) /\ ThrowFrom(w, "check")
          /\ files' = files \ {<<"input", input[w]>>}
    /\ UNCHANGED <<payload, tempDir, uuid, result>>

-----------------------------------------------------------------------------
(* Media: the output *)

\* runFfmpegTranscode(): a name of its own for every run.
StartFfmpeg(w) ==
    /\ Go(w, "transcode", "ffmpeg")
    /\ uuid' = uuid + 1
    /\ output' = [output EXCEPT ![w] = uuid + 1]
    /\ files' = files \cup {<<"media", uuid + 1>>}
    /\ UNCHANGED <<payload, tempDir, input, result>>

\* "end" or "error", and the finally block of processVideo() and processAudio()
\* after either; an error leaves what ffmpeg has written.
FfmpegEnds(w) ==
    /\ Go(w, "ffmpeg", "upload")
    /\ files' = files \ {<<"input", input[w]>>}
    /\ input' = [input EXCEPT ![w] = 0]
    /\ UNCHANGED <<payload, tempDir, uuid, output, result>>

FfmpegFails(w) ==
    /\ ThrowFrom(w, "ffmpeg")
    /\ files' = files \ {<<"input", input[w]>>}
    /\ UNCHANGED <<payload, tempDir, uuid, result>>

\* processImage(): the source is fetched or read, then checked by
\* validateImageInput(), then the filters run and the output is written.
FetchImage(w) ==
    /\ \/ Good(w) /\ Go(w, "fetch", "filter")
       \/ Go(w, "fetch", "throw")
    /\ UNCHANGED fileVars

FilterImage(w) ==
    /\ Go(w, "filter", "upload")
    /\ uuid' = uuid + 1
    /\ output' = [output EXCEPT ![w] = uuid + 1]
    /\ files' = files \cup {<<"media", uuid + 1>>}
    /\ UNCHANGED <<payload, tempDir, input, result>>

\* uploadFileLocal() finds the output in its place; the removal that follows the
\* uploads compares the path with itself and never runs.
UploadMedia(w) ==
    /\ Go(w, "upload", IF UseS3 THEN "s3" ELSE "done")
    /\ result' = [result EXCEPT ![at[w]] = output[w]]
    /\ UNCHANGED <<payload, files, tempDir, uuid, input, output>>

MediaToS3(w) ==
    /\ Go(w, "s3", "done")
    /\ UNCHANGED fileVars

-----------------------------------------------------------------------------
(* Report *)

\* Mutant: a report starts with an empty directory.
StartReport_Empty(w) ==
    /\ Go(w, "start", "open") /\ Forget(w) /\ tempDir' = TRUE
    /\ files' = {f \in files : f[1] # "temp"}
    /\ UNCHANGED <<payload, uuid, result>>

\* Title and author are checked, and generate_report made if it is not there.
StartReport(w) ==
    /\ IF payload[at[w]] = "bad"
       THEN Go(w, "start", "throw") /\ tempDir' = tempDir
       ELSE Go(w, "start", "open") /\ tempDir' = TRUE
    /\ Forget(w)
    /\ UNCHANGED <<payload, files, uuid, result>>

\* generatePDF(): the stream fails when the directory is gone by the time it opens.
OpenPdf(w) ==
    /\ \/ /\ tempDir /\ Go(w, "open", "stat")
          /\ uuid' = uuid + 1
          /\ output' = [output EXCEPT ![w] = uuid + 1]
          /\ files' = files \cup {<<"temp", uuid + 1>>}
       \/ /\ ~tempDir /\ Go(w, "open", "throw")
          /\ UNCHANGED <<uuid, output, files>>
    /\ UNCHANGED <<payload, tempDir, input, result>>

PdfExists(w) == <<"temp", output[w]>> \in files

StatPdf(w) ==
    /\ \/ PdfExists(w) /\ Good(w) /\ Go(w, "stat", "copy") /\ UNCHANGED <<input, output>>
       \/ ~(PdfExists(w) /\ Good(w)) /\ ThrowFrom(w, "stat")
    /\ UNCHANGED <<payload, files, tempDir, uuid, result>>

\* uploadFileLocal()
CopyPdf(w) ==
    /\ \/ /\ PdfExists(w) /\ Go(w, "copy", IF UseS3 THEN "put" ELSE "clean")
          /\ files' = files \cup {<<"report", output[w]>>}
          /\ UNCHANGED <<input, output>>
       \/ /\ ~PdfExists(w) /\ ThrowFrom(w, "copy")
          /\ files' = files
    /\ UNCHANGED <<payload, tempDir, uuid, result>>

\* uploadFileS3() reads the temporary file once more.
PutPdf(w) ==
    /\ \/ PdfExists(w) /\ Go(w, "put", "clean") /\ UNCHANGED <<input, output>>
       \/ ~PdfExists(w) /\ ThrowFrom(w, "put")
    /\ UNCHANGED <<payload, files, tempDir, uuid, result>>

\* The result is attached; CLEAN_TEMP_FILES removes the whole directory, with the
\* files of every report under way.
CleanReports(w) ==
    /\ Go(w, "clean", "done") /\ Forget(w)
    /\ result' = [result EXCEPT ![at[w]] = output[w]]
    /\ files' = IF CleanTemp THEN {f \in files : f[1] # "temp"} ELSE files
    /\ tempDir' = (tempDir /\ ~CleanTemp)
    /\ UNCHANGED <<payload, uuid>>

-----------------------------------------------------------------------------
MediaStep(w, kind) ==
    /\ \/ StartMedia(w, kind) \/ Download(w) \/ DownloadBreaks(w) \/ DownloadEnds(w)
       \/ CheckInput(w) \/ StartFfmpeg(w) \/ FfmpegEnds(w) \/ FfmpegFails(w)
       \/ FetchImage(w) \/ FilterImage(w) \/ UploadMedia(w) \/ MediaToS3(w)
    /\ UNCHANGED outerVars

ReportStep(w) ==
    /\ \/ StartReport(w) \/ OpenPdf(w) \/ StatPdf(w) \/ CopyPdf(w) \/ PutPdf(w) \/ CleanReports(w)
    /\ UNCHANGED outerVars

\* A call on the disk or to S3 fails; on the way out only the finally block around
\* the transcoding removes anything.
FileThrows(w) ==
    /\ Spend("await")
    /\ pc[w] \in {"check", "transcode", "filter", "upload", "s3", "open", "stat", "copy", "put", "clean"}
    /\ files' = IF pc[w] = "transcode" THEN files \ {<<"input", input[w]>>} ELSE files
    /\ pc' = [pc EXCEPT ![w] = "throw"]
    /\ Forget(w)
    /\ UNCHANGED <<payload, tempDir, uuid, result, bull, made, lock, stalls, finished, at>>
=============================================================================
