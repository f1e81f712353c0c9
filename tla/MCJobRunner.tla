----------------------------- MODULE MCJobRunner -----------------------------
(* Plans of local and paid jobs. *)
EXTENDS JobRunner

CONSTANTS tile, cover, poster

\* One local job, then a paid one.
Mixed == <<tile, cover>>
MixedGroups == [i \in {tile, cover} |-> IF i = tile THEN "gpu" ELSE "hosted"]

\* Two jobs for one device.
Local == <<tile, cover>>
LocalGroups == [i \in {tile, cover} |-> "gpu"]

\* Two paid jobs with different providers.
Paid == <<cover, poster>>
PaidGroups == [i \in {cover, poster} |-> IF i = cover THEN "images" ELSE "sounds"]
=============================================================================
