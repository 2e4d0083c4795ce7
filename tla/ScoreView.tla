------------------------------ MODULE ScoreView ------------------------------
(***************************************************************************)
(* ht_viewer_snapshot, and ht_score_renderer_render_view below it: catalog,*)
(* overlay files and score image are read one after the other, the step's  *)
(* region is projected, and the snapshot is written.  An author may        *)
(* replace a file between any two reads, a write may fail, and the process *)
(* may be killed.                                                          *)
(***************************************************************************)
EXTENDS CorpusFiles

CONSTANT Desks  \* by name: the versions each file may have, and the requests

\* A line has its row unless it has a fault.  Sizes are unsigned, and the
\* numbers of a region are longs.
ASSUME DesksAssumption ==
    \A d \in DOMAIN Desks :
        /\ \A file \in Desks[d].catalog \cup Desks[d].metadata \cup Desks[d].steps :
             /\ file.there \in BOOLEAN
             /\ file.lines \in Seq({file.lines[i] : i \in DOMAIN file.lines})
             /\ \A i \in DOMAIN file.lines : file.lines[i].fault \in Fault
        /\ \A file \in Desks[d].catalog : \A i \in DOMAIN file.lines :
             file.lines[i].fault = "none" =>
                 file.lines[i].row.width \in Nat /\ file.lines[i].row.height \in Nat
        /\ \A file \in Desks[d].steps : \A i \in DOMAIN file.lines :
             file.lines[i].fault = "none" =>
                 LET row == file.lines[i].row
                 IN  {row.x, row.y, row.width, row.height} \subseteq Int
        /\ \A file \in Desks[d].image : file.kind \in ImageKinds
        /\ \A r \in Desks[d].requests :
             {r.tool, r.out} \subseteq BOOLEAN /\ {r.width, r.height} \subseteq Nat

VARIABLES
    desk,     \* one of Desks, by its name, constant
    files,    \* the corpus: catalog, metadata, steps, image
    output,   \* what the output path holds: "none", "part", "whole"
    fresh,    \* ghost: this run has written to it
    pc,       \* the stage the run has reached
    request,  \* ht_score_renderer_view_request, and whether the tool made it
    variant,  \* the catalog row
    overlay,  \* the overlay_metadata row, NoOverlay if there is none
    region,   \* ghost: the step's cursor region
    image,    \* the ppm_image: its size
    result,   \* ht_score_renderer_view_result, and the value returned
    cause     \* ghost: what made the run stop

view == <<request, variant, overlay, region, image, result, cause>>
vars == <<desk, files, output, fresh, pc, view>>

NoRequest == [tool |-> FALSE, out |-> FALSE, variant_id |-> "", step_index |-> 0,
              width |-> 0, height |-> 0]
NoVariant == [variant_id |-> "", overlay_id |-> "", path |-> "fits", width |-> 0, height |-> 0]
NoOverlay == [overlay_id |-> "", width |-> 0, height |-> 0]
NoImage == [width |-> 0, height |-> 0]
Zeroed == [catalog |-> "HT_OK", overlay |-> "HT_OK", asset |-> "HT_OK", render |-> "HT_OK",
           call |-> "HT_OK", fitted |-> NoRect, active |-> NoRect]

Init ==
    /\ desk \in DOMAIN Desks
    /\ files \in [catalog : Desks[desk].catalog, metadata : Desks[desk].metadata,
                  steps : Desks[desk].steps, image : Desks[desk].image]
    /\ output = "none" /\ fresh = FALSE /\ pc = "idle"
    /\ request = NoRequest /\ variant = NoVariant /\ overlay = NoOverlay
    /\ region = NoRect /\ image = NoImage /\ result = Zeroed /\ cause = "none"

-----------------------------------------------------------------------------
(* How a stage stops the run                                               *)

\* The stage's status and render_status; missing content is no error of the
\* call.
Stopped(stage, status) ==
    [result EXCEPT ![stage] = status, !.render = status,
                   !.call = IF status = "HT_ERR_NOT_FOUND" THEN "HT_OK" ELSE status]

Problem(stage, status, why) == [stage |-> stage, status |-> status, why |-> why]
Fine == Problem("", "HT_OK", "none")

\* The catalog, the variant in it, and the checks on its row.
CatalogProblem ==
    LET status == LoadStatus(files.catalog, "HT_ERR_IO")
        n == LookupVariant(files.catalog, request.variant_id)
        row == RowAt(files.catalog, n)
    IN  IF status # "HT_OK" THEN Problem("catalog", status, "catalog")
        ELSE IF n = 0 THEN Problem("catalog", "HT_ERR_NOT_FOUND", "no variant")
        ELSE IF row.path = "too long" THEN Problem("render", "HT_ERR_BUFFER_TOO_SMALL", "path")
        ELSE IF row.width = 0 \/ row.height = 0
             THEN Problem("catalog", "HT_ERR_CORRUPT_DATA", "catalog")
        ELSE IF row.overlay_id = "" THEN Problem("overlay", "HT_ERR_UNSUPPORTED", "no overlay")
        ELSE Fine

MetadataProblem ==
    LET status == LoadStatus(files.metadata, "HT_OK")
    IN  IF status # "HT_OK" THEN Problem("overlay", status, "overlay files") ELSE Fine

FoundStep == GetStep(files.steps, variant.overlay_id, request.step_index)

\* The second overlay file, then the overlay, then its step.
StepsProblem ==
    LET status == LoadStatus(files.steps, "HT_OK")
        Region == CursorRegion(RowAt(files.steps, FoundStep))
    IN  IF status # "HT_OK" THEN Problem("overlay", status, "overlay files")
        ELSE IF overlay = NoOverlay THEN Problem("overlay", "HT_ERR_NOT_FOUND", "no overlay")
        ELSE IF <<overlay.width, overlay.height>> # <<variant.width, variant.height>>
             THEN Problem("overlay", "HT_ERR_CORRUPT_DATA", "wrong overlay")
        ELSE IF FoundStep = 0 THEN Problem("overlay", "HT_ERR_NOT_FOUND", "no step")
        ELSE IF ~RectIsInsideAsset(Region, variant.width, variant.height)
             THEN Problem("overlay", "HT_ERR_CORRUPT_DATA", "wrong overlay")
        ELSE Fine

ImageProblem ==
    LET status == ImageStatus(files.image)
    IN  IF status = "HT_ERR_NOT_FOUND" THEN Problem("asset", status, "no image")
        ELSE IF status # "HT_OK" THEN Problem("asset", status, "image")
        ELSE IF <<files.image.width, files.image.height>> # <<variant.width, variant.height>>
             THEN Problem("asset", "HT_ERR_CORRUPT_DATA", "image")
        ELSE Fine

\* Only an overlay_id that is not set is unsupported without an error.
Stop(problem) ==
    /\ result' = IF problem.stage = "overlay" /\ problem.status = "HT_ERR_UNSUPPORTED"
                 THEN [Stopped("overlay", problem.status) EXCEPT !.call = "HT_OK"]
                 ELSE Stopped(problem.stage, problem.status)
    /\ cause' = problem.why
    /\ pc' = "done"
    /\ UNCHANGED <<desk, files, output, fresh, request, variant, overlay, region, image>>

-----------------------------------------------------------------------------
(* The stages                                                              *)

Complete(r) == r.variant_id # "" /\ r.width > 0 /\ r.height > 0

\* main refuses what is not complete, and a request without an output path,
\* before it calls; another caller is told.
RenderView(r) ==
    /\ pc = "idle"
    /\ r.tool => Complete(r) /\ r.out
    /\ r.width <= MaxUnsigned /\ r.height <= MaxUnsigned
    /\ request' = r /\ fresh' = FALSE
    /\ result' = IF Complete(r) THEN Zeroed
                 ELSE [Zeroed EXCEPT !.render = "HT_ERR_INVALID_ARG", !.call = "HT_ERR_INVALID_ARG"]
    /\ cause' = IF Complete(r) THEN "none" ELSE "request"
    /\ pc' = IF Complete(r) THEN "catalog" ELSE "done"
    /\ UNCHANGED <<desk, files, output, variant, overlay, region, image>>

StageStops ==
    \/ pc = "catalog" /\ CatalogProblem # Fine /\ Stop(CatalogProblem)
    \/ pc = "metadata" /\ MetadataProblem # Fine /\ Stop(MetadataProblem)
    \/ pc = "steps" /\ StepsProblem # Fine /\ Stop(StepsProblem)
    \/ pc = "image" /\ ImageProblem # Fine /\ Stop(ImageProblem)

\* An allocation fails: of the catalog, of the overlay store, of the image.
OutOfMemory ==
    \/ pc = "catalog" /\ Stop(Problem("catalog", "HT_ERR_IO", "catalog"))
    \/ pc \in {"metadata", "steps"} /\ Stop(Problem("overlay", "HT_ERR_IO", "overlay files"))
    \/ pc = "image" /\ Stop(Problem("asset", "HT_ERR_IO", "image"))

OpenCatalog ==
    /\ pc = "catalog" /\ CatalogProblem = Fine
    /\ variant' = RowAt(files.catalog, LookupVariant(files.catalog, request.variant_id))
    /\ pc' = "metadata"
    /\ UNCHANGED <<desk, files, output, fresh, request, overlay, region, image, result, cause>>

\* load_overlay_metadata.
LoadOverlayMetadata ==
    /\ pc = "metadata" /\ MetadataProblem = Fine
    /\ overlay' = LET n == GetOverlay(files.metadata, variant.overlay_id)
                  IN  IF n = 0 THEN NoOverlay ELSE RowAt(files.metadata, n)
    /\ pc' = "steps"
    /\ UNCHANGED <<desk, files, output, fresh, request, variant, region, image, result, cause>>

\* load_overlay_steps, the checks, and the geometry.
LoadOverlaySteps ==
    /\ pc = "steps" /\ StepsProblem = Fine
    /\ region' = CursorRegion(RowAt(files.steps, FoundStep))
    /\ LET fitted == FitRect(variant.width, variant.height, request.width, request.height)
       IN  result' = [result EXCEPT
               !.fitted = fitted,
               !.active = ProjectRect(region', variant.width, variant.height, fitted)]
    /\ pc' = IF request.out THEN "image" ELSE "done"
    /\ UNCHANGED <<desk, files, output, fresh, request, variant, overlay, image, cause>>

LoadImage ==
    /\ pc = "image" /\ ImageProblem = Fine
    /\ image' = [width |-> files.image.width, height |-> files.image.height]
    /\ pc' = "surface"
    /\ UNCHANGED <<desk, files, output, fresh, request, variant, overlay, region, result, cause>>

\* SDL makes no surface with a negative side; it, or fopen, may fail.
OutputFails ==
    /\ pc = "surface"
    /\ Stop(Problem("render", "HT_ERR_IO", "output"))

\* fopen truncates the file.
OpenOutput ==
    /\ pc = "surface"
    /\ ToInt(request.width) > 0 /\ ToInt(request.height) > 0
    /\ output' = "part" /\ fresh' = TRUE /\ pc' = "write"
    /\ UNCHANGED <<desk, files, view>>

WriteFails ==
    /\ pc = "write"
    /\ Stop(Problem("render", "HT_ERR_IO", "output"))

WriteDone ==
    /\ pc = "write"
    /\ output' = "whole" /\ pc' = "done"
    /\ UNCHANGED <<desk, files, fresh, view>>

Forget ==
    /\ pc' = "idle" /\ fresh' = FALSE
    /\ request' = NoRequest /\ variant' = NoVariant /\ overlay' = NoOverlay
    /\ region' = NoRect /\ image' = NoImage /\ result' = Zeroed /\ cause' = "none"
    /\ UNCHANGED <<desk, files, output>>

\* The process ends: it returns, or it is killed at any stage.
Exit == pc # "idle" /\ Forget

\* A file of the corpus is replaced by another version of it.
Edit(name) ==
    \E version \in Desks[desk][name] :
        /\ version # files[name]
        /\ files' = [files EXCEPT ![name] = version]
        /\ UNCHANGED <<desk, output, fresh, pc, view>>

Next ==
    \/ \E r \in Desks[desk].requests : RenderView(r)
    \/ StageStops \/ OutOfMemory
    \/ OpenCatalog \/ LoadOverlayMetadata \/ LoadOverlaySteps \/ LoadImage
    \/ OutputFails \/ OpenOutput \/ WriteFails \/ WriteDone
    \/ Exit
    \/ \E name \in DOMAIN files : Edit(name)

Spec == Init /\ [][Next]_vars

-----------------------------------------------------------------------------
(* The tool's exit code                                                    *)

\* Mutant: only the value returned is asked whether all went well.
MapResultToExit_Call(r) ==
    IF r.call \in {"HT_ERR_INVALID_ARG", "HT_ERR_BUFFER_TOO_SMALL"} THEN "INVALID_INPUT"
    ELSE IF r.asset = "HT_ERR_NOT_FOUND" THEN "MISSING_ASSET"
    ELSE IF r.overlay \in {"HT_ERR_NOT_FOUND", "HT_ERR_UNSUPPORTED"} THEN "MISSING_OVERLAY"
    ELSE IF \/ r.asset \in {"HT_ERR_CORRUPT_DATA", "HT_ERR_UNSUPPORTED"}
            \/ r.overlay = "HT_ERR_CORRUPT_DATA" THEN "CORRUPT_ASSET"
    ELSE IF r.asset = "HT_OK" /\ r.overlay = "HT_OK" /\ r.render = "HT_ERR_IO"
         THEN "OUTPUT_WRITE"
    ELSE IF r.call # "HT_OK" THEN "OTHER"
    ELSE "OK"

\* map_result_to_exit.
MapResultToExit(r) ==
    IF r.call \in {"HT_ERR_INVALID_ARG", "HT_ERR_BUFFER_TOO_SMALL"} THEN "INVALID_INPUT"
    ELSE IF r.asset = "HT_ERR_NOT_FOUND" THEN "MISSING_ASSET"
    ELSE IF r.overlay \in {"HT_ERR_NOT_FOUND", "HT_ERR_UNSUPPORTED"} THEN "MISSING_OVERLAY"
    ELSE IF \/ r.asset \in {"HT_ERR_CORRUPT_DATA", "HT_ERR_UNSUPPORTED"}
            \/ r.overlay = "HT_ERR_CORRUPT_DATA" THEN "CORRUPT_ASSET"
    ELSE IF r.asset = "HT_OK" /\ r.overlay = "HT_OK" /\ r.render = "HT_ERR_IO"
         THEN "OUTPUT_WRITE"
    ELSE IF \E s \in {r.call, r.catalog, r.overlay, r.asset, r.render} : s # "HT_OK" THEN "OTHER"
    ELSE "OK"

Ended == pc = "done" /\ request.tool
ExitCode == MapResultToExit(result)

-----------------------------------------------------------------------------
\* At scale n the score is n \div height wide and n \div width high: the exact
\* sides, before they are floored, do not exceed the viewport's.
FitsAt(n) == n <= request.width * variant.height /\ n <= request.height * variant.width

\* fit_rect, for any viewport whose sides are ints: the score is shown at the
\* largest scale at which all of it fits the viewport, so that its ratio is
\* kept, no side vanishes, and it is in the middle up to the odd pixel.
ViewFits ==
    result.fitted # NoRect /\ request.width <= MaxInt /\ request.height <= MaxInt =>
        \E n \in 1 .. request.width * variant.height :
            LET f == result.fitted
            IN  /\ FitsAt(n) /\ ~FitsAt(n + 1)
                /\ f.width = AtLeastOne(n \div variant.height)
                /\ f.height = AtLeastOne(n \div variant.width)
                /\ f.x >= 0 /\ request.width - f.width - 2 * f.x \in {0, 1}
                /\ f.y >= 0 /\ request.height - f.height - 2 * f.y \in {0, 1}

\* Along one axis: the frame lies in the score, it misses at most the pixel
\* behind it and has at most one too many, its first, of the pixels in which
\* render_score_pixels shows the region.
Frames(at, side, fittedAt, fittedSide, from, length, imageSide) ==
    LET framed == at .. at + side - 1
        shown == {p \in fittedAt .. fittedAt + fittedSide - 1 :
                     SourceOf(p - fittedAt, imageSide, fittedSide) \in from .. from + length - 1}
    IN  /\ framed # {} /\ framed \subseteq fittedAt .. fittedAt + fittedSide - 1
        /\ shown \ framed \subseteq {at + side}
        /\ framed \ shown \subseteq {at}

\* The outline is where the step's notes are: project_rect floors edges and
\* render_score_pixels floors the inverse, of an image read from another file,
\* and they agree to a pixel even if files are replaced during the run.
OverlayFramesItsStep ==
    pc = "write" /\ request.width <= MaxInt /\ request.height <= MaxInt =>
        LET f == result.fitted
            a == result.active
        IN  /\ Frames(a.x, a.width, f.x, f.width, region.x, region.width, image.width)
            /\ Frames(a.y, a.height, f.y, f.height, region.y, region.height, image.height)

\* The exit code is 0 exactly when this run has written a whole snapshot: a
\* stage that failed, missing content that is no error of the call, or a file
\* an earlier run left never look like success.
ExitZeroMeansSnapshot == ExitCode = "OK" <=> output = "whole" /\ fresh

\* A missing image, a missing overlay or step, and a failed write have codes
\* of their own, whatever other stages reported.  One is shared: a catalog
\* that cannot be read is told as a failed write, because asset and overlay
\* are not reached and render_status is HT_ERR_IO.
ExitNamesCause ==
    /\ ExitCode = "MISSING_ASSET" <=> cause = "no image"
    /\ ExitCode = "MISSING_OVERLAY" <=> cause \in {"no overlay", "no step"}
    /\ ExitCode = "CORRUPT_ASSET" => cause \in {"image", "wrong overlay", "overlay files"}
    /\ cause = "output" => ExitCode = "OUTPUT_WRITE"
    /\ ExitCode = "OUTPUT_WRITE" => cause \in {"output", "catalog"}

\* What the tool's caller may conclude from the exit code of a run.
ExitCodeTells == Ended => ExitZeroMeansSnapshot /\ ExitNamesCause
=============================================================================
