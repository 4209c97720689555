----------------------------- MODULE MCStorage -----------------------------
(* Three sectors of which the first two are the boot sectors' neighbours:    *)
(* VDISK0 begins at LBA 2, so that HDD0 and VDISK0 overlap in LBA 2.         *)
EXTENDS Storage
=============================================================================
