---------------------------- MODULE CorpusFiles -----------------------------
(***************************************************************************)
(* The corpus as the catalog, the overlay store and the PPM loader read    *)
(* it.  A table is a text file: whether it is there, and its lines, the    *)
(* first of which is the header.  A line is its row and its first fault.   *)
(***************************************************************************)
EXTENDS ViewGeometry, SequencesExt

Fault == {"none", "blank", "few fields", "bad value", "long text", "many pitches"}

\* parse_variant_line, parse_overlay_line and parse_step_line: the status of
\* the first field that does not parse.
LineStatus(line) ==
    CASE line.fault \in {"none", "blank"} -> "HT_OK"
      [] line.fault \in {"few fields", "bad value"} -> "HT_ERR_CORRUPT_DATA"
      [] line.fault \in {"long text", "many pitches"} -> "HT_ERR_BUFFER_TOO_SMALL"

\* The lines below the header of a table that loaded, rows and blank lines.
Lines(file) == IF file.there THEN Tail(file.lines) ELSE <<>>
RowAt(file, n) == Lines(file)[n].row

\* What loading a table returns: `absent' without the file; the first line
\* that does not parse fails all of it.
LoadStatus(file, absent) ==
    IF ~file.there THEN absent
    ELSE IF file.lines = <<>> THEN "HT_ERR_CORRUPT_DATA"
    ELSE LET Bad(line) == LineStatus(line) # "HT_OK"
             first == SelectInSeq(Lines(file), Bad)
         IN  IF first = 0 THEN "HT_OK" ELSE LineStatus(Lines(file)[first])

\* parse_int narrows a long to an int without a check.
CursorRegion(row) == Rect(ToInt(row.x), ToInt(row.y), ToInt(row.width), ToInt(row.height))

\* ht_catalog_lookup_variant, ht_overlay_store_get_overlay and
\* ht_overlay_store_get_step: the first match, 0 for HT_ERR_NOT_FOUND.
LookupVariant(file, variantId) ==
    LET Matches(line) == line.fault = "none" /\ line.row.variant_id = variantId
    IN  SelectInSeq(Lines(file), Matches)

GetOverlay(file, overlayId) ==
    LET Matches(line) == line.fault = "none" /\ line.row.overlay_id = overlayId
    IN  SelectInSeq(Lines(file), Matches)

GetStep(file, overlayId, stepIndex) ==
    LET Matches(line) ==
            /\ line.fault = "none"
            /\ line.row.overlay_id = overlayId /\ line.row.step_index = stepIndex
    IN  SelectInSeq(Lines(file), Matches)

ImageKinds == {"absent", "unreadable", "empty", "other magic", "P6"}

\* read_file, then load_ppm_image's checks in their order.
ImageStatus(image) ==
    CASE image.kind = "absent" -> "HT_ERR_NOT_FOUND"
      [] image.kind = "unreadable" -> "HT_ERR_IO"
      [] image.kind = "empty" -> "HT_ERR_CORRUPT_DATA"
      [] image.kind = "other magic" -> "HT_ERR_UNSUPPORTED"
      [] image.kind = "P6" ->
           IF image.width = 0 \/ image.height = 0 THEN "HT_ERR_CORRUPT_DATA"
           ELSE IF image.max # 255 THEN "HT_ERR_UNSUPPORTED"
           ELSE IF image.raster # "exact" THEN "HT_ERR_CORRUPT_DATA"
           ELSE "HT_OK"
=============================================================================
