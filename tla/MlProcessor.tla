---------------------------- MODULE MlProcessor ----------------------------
(***************************************************************************)
(* process() of the ML worker (workers/src/ml-worker/processor.ts), its    *)
(* engines and ModelLoader, which makes one Tesseract worker for the whole *)
(* process on first use.  pTimeout() gives up on an inference; it does not *)
(* stop it.                                                                *)
(***************************************************************************)
EXTENDS Delivery

VARIABLES
    cached,   \* ModelLoader.ocrWorker is set
    started,  \* Tesseract workers asked for
    late      \* inferences nobody waits for any more, by where they stand

mlVars == <<cached, started, late>>

OcrStage == {"imageOf", "model", "loading", "recognize"}

MlInit ==
    /\ cached = FALSE
    /\ started = 0
    /\ late = [s \in OcrStage |-> 0]

\* taskType and input are checked first.
StartMl(w, kind) ==
    /\ \/ Go(w, "start", IF kind = "ocr" THEN "imageOf" ELSE "classify")
       \/ Go(w, "start", "throw")
    /\ UNCHANGED mlVars

\* SummarizerEngine and ClassifierEngine run without a pause.
Classify(w) ==
    /\ \/ Go(w, "classify", "done") \/ Go(w, "classify", "throw")
    /\ UNCHANGED mlVars

\* Mutant: every inference makes a worker for itself.
LoadBegins_Always == started' = started + 1 /\ cached' = cached

\* getOCRWorker(): the field is read before the await and written after it.
LoadBegins == ~cached /\ started' = started + 1 /\ cached' = cached

LoadEnds == cached' = TRUE /\ started' = started

\* One step of OCREngine.run() from one stage to the next, or to "end".
OcrMoves(from, to) ==
    \/ from = "imageOf" /\ to = "model" /\ UNCHANGED <<cached, started>>
    \/ from = "model" /\ to = "recognize" /\ cached /\ UNCHANGED <<cached, started>>
    \/ from = "model" /\ to = "loading" /\ LoadBegins
    \/ from = "loading" /\ to = "recognize" /\ LoadEnds
    \/ from = "recognize" /\ to = "end" /\ UNCHANGED <<cached, started>>

OcrStep(w) ==
    /\ \E to \in OcrStage \cup {"end"} :
          /\ OcrMoves(pc[w], to)
          /\ pc' = [pc EXCEPT ![w] = IF to = "end" THEN "done" ELSE to]
    /\ late' = late

\* A download, a load or a recognition fails.
OcrFails(w) ==
    /\ pc[w] \in {"imageOf", "loading", "recognize"}
    /\ pc' = [pc EXCEPT ![w] = "throw"]
    /\ UNCHANGED mlVars

\* pTimeout() rejects; the inference goes on by itself.
InferenceTimeout(w) ==
    /\ pc[w] \in OcrStage
    /\ pc' = [pc EXCEPT ![w] = "throw"]
    /\ late' = [late EXCEPT ![pc[w]] = @ + 1]
    /\ UNCHANGED <<cached, started>>

LateStep ==
    \E from \in OcrStage :
        /\ late[from] > 0
        /\ \E to \in OcrStage \cup {"end"} :
              /\ OcrMoves(from, to)
              /\ late' = [s \in OcrStage |-> late[s] - (IF s = from THEN 1 ELSE 0)
                                                     + (IF s = to THEN 1 ELSE 0)]

MlStep(w, kind) ==
    /\ StartMl(w, kind) \/ Classify(w) \/ OcrStep(w) \/ OcrFails(w) \/ InferenceTimeout(w)
    /\ UNCHANGED outerVars
=============================================================================
