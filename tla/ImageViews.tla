----------------------------- MODULE ImageViews -----------------------------
(***************************************************************************)
(* The pipeline with a client that looks at an image                       *)
(* (app/routes/images.py): the row is read, then the key, then the file is *)
(* opened, each on its own, while uploads, deletions and the handler go on.*)
(***************************************************************************)
EXTENDS ImagePipeline

CONSTANTS
  Image,   \* the image looked at; the pipeline treats them alike
  Size     \* the thumbnail asked for; it treats these alike, too

ASSUME AskedAssumption == Image \in Images /\ Size \in Sizes

VARIABLE view   \* "idle", or what a request has read last: "row", "thumbnail", "original"

ViewInit == view = "idle"

View(from, to) == view = from /\ view' = to

\* get_image: a thumbnail of an image that is PENDING or FAILED is refused with 409.
ReadRow ==
  /\ View("idle", "row")
  /\ Image \in Stored /\ status[Image] \notin Claimable
  /\ UNCHANGED vars

HasKey_mutant == Image \in Stored   \* trusts the status
\* get_thumbnail_key: without one the answer is 404.
HasKey == Image \in recorded

ReadViewKey ==
  /\ View("row", IF HasKey THEN "thumbnail" ELSE "idle")
  /\ UNCHANGED vars

\* get_image and get_storage_key for the original: both only ask whether the row exists.
ReadOriginalKey ==
  /\ View("idle", "original")
  /\ Image \in Stored
  /\ UNCHANGED vars

\* storage.open: a file that is not there is an error no route handles.
OpenFile ==
  /\ \E key \in {"thumbnail", "original"} : View(key, "idle")
  /\ UNCHANGED vars

ViewNext ==
  \/ Next /\ UNCHANGED view
  \/ ReadRow \/ ReadViewKey \/ ReadOriginalKey \/ OpenFile

ViewSpec == Init /\ ViewInit /\ [][ViewNext]_<<vars, view>> /\ Fairness

HasFile == IF view = "thumbnail" THEN Size \in thumbs[Image] ELSE Image \in original

\* A view fails only when the image was deleted while it was under way: a key that
\* was found leads to a complete file until then (routes/images.py:192, 236).
OnlyDeletedFails == view \in {"thumbnail", "original"} => HasFile \/ Image \notin Stored
=============================================================================
