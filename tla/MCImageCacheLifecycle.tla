------------------------ MODULE MCImageCacheLifecycle ------------------------
(***************************************************************************)
(* An instance of ImageCacheLifecycle for TLC: two processes that store    *)
(* and collect one content, under two object keys.                        *)
(***************************************************************************)
EXTENDS ImageCacheLifecycle
==============================================================================
